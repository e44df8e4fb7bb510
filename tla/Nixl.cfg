SPECIFICATION FairSpec
CONSTANTS
  p1 = p1
  p2 = p2
  s1 = s1
  Peer = {p1, p2}
  RecvSlot = {s1}
  SendRing = 2
  PostWorkers = 2
  MaxSends = 3
  MaxFailures = 1
INVARIANTS
  TypeOK
  NeverAborts
  SlotOwnedOnce
  DeliveredIntact
  DeliveredOnce
PROPERTIES
  EventuallyReceived
CHECK_DEADLOCK FALSE
