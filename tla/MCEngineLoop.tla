----------------------------- MODULE MCEngineLoop -----------------------------
(* Three requests of two tokens, one token per batch: with the pool never  *)
(* empty for long, every pair of layers gets to overlap.                   *)
EXTENDS EngineLoop

CONSTANTS r1, r2, r3

MCReq       == {r1, r2, r3}
MCMaxOutput == [r \in MCReq |-> 2]
=============================================================================
