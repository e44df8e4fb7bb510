SPECIFICATION Spec
CONSTANTS
  NoReq = NoReq
  Req <- ExactReq
  Prefill <- ExactPrefill
  Output <- ExactOutput
  DpSize = 1
  NumBlocks <- OneRank
  Weight <- Alone
  BlockSize = 2
  Policies = {"cap_rr"}
INVARIANTS
  NoAssertFails
CHECK_DEADLOCK FALSE
