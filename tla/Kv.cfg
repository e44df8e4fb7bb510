SPECIFICATION FairSpec
CONSTANTS
  NoReq = NoReq
  Req <- SlackReq
  Prefill <- SlackPrefill
  Output <- SlackOutput
  DpSize = 2
  NumBlocks <- TwoRanks
  Weight <- Evenly
  BlockSize = 2
  Policies = {"max", "cap_rr"}
INVARIANTS
  TypeOK
  ChargesConserved
  BlocksConserved
  NeverOvercommitted
  TablesFitContext
PROPERTIES
  EventuallyServed
CHECK_DEADLOCK FALSE
