SPECIFICATION Spec
CONSTANTS
  Req <- MCReq
  Fresh <- MCFresh
  Dp <- MCDp
  Home <- MCHome
  NumExperts = 3
  GateOuts <- MCOnlyTop2
  Rank <- MCRank
  ExpertRank <- MCExpertRank
  Threshold = 3
  None = None
INVARIANTS
  ScaledByItsWeight
CHECK_DEADLOCK FALSE
