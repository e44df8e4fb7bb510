SPECIFICATION Spec
CONSTANTS
  Req <- MCReq
  Fresh <- MCFresh
  Dp <- MCDp
  Home <- MCHome
  NumExperts = 3
  GateOuts <- MCBoth
  Rank <- MCRank
  ExpertRank <- MCExpertRank
  Threshold = 3
  None = None
INVARIANTS
  RepliesConserved
  ExpertsAsChosen
  PrefillsComeFirst
  OneExpertRowsOfItsRequest
CHECK_DEADLOCK FALSE
