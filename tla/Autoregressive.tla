---------------------------- MODULE Autoregressive ----------------------------
(***************************************************************************)
(* What every serving simulator promises of a request, whatever it models  *)
(* below it: requests are admitted in the order they arrive, as soon as    *)
(* one of MaxActive places is free, and an admitted request completes its  *)
(* tokens one at a time.                                                   *)
(***************************************************************************)
EXTENDS Naturals, FiniteSets

CONSTANTS NumRequests, TokensPerRequest, MaxActive

VARIABLES arrived, \* requests 0 .. arrived-1 have arrived
          done     \* done[r]: how many tokens of r have completed

vars == <<arrived, done>>

Requests == 0 .. NumRequests - 1

Unfinished == {r \in 0 .. arrived - 1 : done[r] < TokensPerRequest}

(* The places go to the unfinished requests that arrived first.            *)
Admitted == {r \in Unfinished :
               Cardinality({q \in Unfinished : q < r}) < MaxActive}

Init == /\ arrived = 0
        /\ done = [r \in Requests |-> 0]

Arrive == /\ arrived < NumRequests
          /\ arrived' \in arrived + 1 .. NumRequests
          /\ UNCHANGED done

(* One token of each of some admitted requests completes.                  *)
Complete == \E S \in SUBSET Admitted :
              /\ done' = [r \in Requests |-> IF r \in S THEN done[r] + 1 ELSE done[r]]
              /\ UNCHANGED arrived

Next == Arrive \/ Complete

Spec == Init /\ [][Next]_vars
=============================================================================
