SPECIFICATION FairSpec
CONSTANTS
  a1 = a1
  a2 = a2
  a3 = a3
  b1 = b1
  b2 = b2
  Session <- MCSession
  Req <- MCReq
  SessionOf <- MCSessionOf
  NumTokens <- MCNumTokens
  Capacity = 2
  None = None
INVARIANTS
  ResultsAreExpected
  NoResultMissed
  SessionsAreClean
PROPERTIES
  SessionsEnd
CHECK_DEADLOCK FALSE
