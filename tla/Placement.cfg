SPECIFICATION StartUpSpec
CONSTANTS
  NumLayers = 3
  NumExperts = 4
  Setups <- MCSetups
INVARIANTS
  RoutingIsRight
  StartsWhenItAddsUp
CHECK_DEADLOCK FALSE
