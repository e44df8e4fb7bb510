---------------------------- MODULE MCKVAdmission ----------------------------
(* Blocks of two tokens.  In the slack runs every request needs fewer      *)
(* blocks than it is charged; in the exact run request x fills its charge. *)
EXTENDS KVAdmission, TLC

SlackReq     == {"a", "b", "c", "d"}
SlackPrefill == "a" :> 1 @@ "b" :> 3 @@ "c" :> 1 @@ "d" :> 1
SlackOutput  == "a" :> 3 @@ "b" :> 1 @@ "c" :> 1 @@ "d" :> 1

ExactReq     == {"x"}
ExactPrefill == "x" :> 2
ExactOutput  == "x" :> 1

TwoRanks == 0 :> 4 @@ 1 :> 3
OneRank  == 0 :> 2
Evenly   == 0 :> 1 @@ 1 :> 1
Alone    == 0 :> 1
=============================================================================
