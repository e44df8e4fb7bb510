------------------------------ MODULE LayerFifo ------------------------------
(***************************************************************************)
(* What the unified pool promises the engine: every layer is one FIFO of   *)
(* tokens, whatever batches they came in.  Tokens enter at the back, and a *)
(* scheduled layer gives up exactly its oldest tokens, as many as the      *)
(* layer's threshold allows, in the order they came.                       *)
(***************************************************************************)
EXTENDS Naturals, Sequences

CONSTANTS Layers, Req, Threshold(_)

VARIABLES backlog, \* the tokens waiting in each layer, oldest first
          served   \* the tokens each layer has given to the engine, oldest first

vars == <<backlog, served>>

Init == /\ backlog = [id \in Layers |-> <<>>]
        /\ served  = [id \in Layers |-> <<>>]

(* At most one layer grows at its back.                                    *)
Put == /\ \E id \in Layers :
            /\ Len(backlog'[id]) > Len(backlog[id])
            /\ SubSeq(backlog'[id], 1, Len(backlog[id])) = backlog[id]
            /\ backlog' = [backlog EXCEPT ![id] = backlog'[id]]
       /\ UNCHANGED served

Take == \E id \in Layers :
          LET n == IF Len(backlog[id]) < Threshold(id) THEN Len(backlog[id])
                                                       ELSE Threshold(id)
          IN  /\ n > 0
              /\ served'  = [served  EXCEPT ![id] = @ \o SubSeq(backlog[id], 1, n)]
              /\ backlog' = [backlog EXCEPT ![id] = SubSeq(@, n + 1, Len(@))]

Next == Put \/ Take

Spec == Init /\ [][Next]_vars
=============================================================================
