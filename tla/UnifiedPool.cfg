SPECIFICATION FairSpec
CONSTANTS
  NumLayers = 1
  TopK = 2
  AttnThreshold = 2
  ExpertThreshold = 2
  Req <- MCReq
  Feed <- MCFeed
INVARIANTS
  TypeOK
  NumTokensExact
  NeverAborts
  NothingLostOrDuplicated
PROPERTIES
  ImplementsFifo
  EventuallyDrained

