SPECIFICATION FairSpec
CONSTANTS
  r1 = r1
  r2 = r2
  r3 = r3
  Req <- MCReq
  MaxOutput <- MCMaxOutput
  NumLayers = 1
  Threshold = 1
  None = None
INVARIANTS
  OneTokenPerRequest
  ResultsPairUp
  StagedIntact
  EndLosesOneBatch
PROPERTIES
  EventuallyAnswered
CHECK_DEADLOCK FALSE
