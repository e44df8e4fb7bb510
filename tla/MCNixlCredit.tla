---------------------------- MODULE MCNixlCredit ----------------------------
(* Two peers that share two send slots and two post workers, and one       *)
(* receive slot for each, so that both rings are exhausted and reused.     *)
EXTENDS NixlCredit

CONSTANTS p1, p2, s1
=============================================================================
