------------------------- MODULE MCControllerSession -------------------------
(* Two sessions, the first with more requests than the cache has room for. *)
EXTENDS ControllerSession

CONSTANTS a1, a2, a3, b1, b2

MCSession   == 1 .. 2
MCReq       == {a1, a2, a3, b1, b2}
MCSessionOf == [r \in MCReq |-> IF r \in {b1, b2} THEN 2 ELSE 1]
MCNumTokens == [r \in MCReq |-> IF r \in {a1, b1} THEN 2 ELSE 1]
=============================================================================
