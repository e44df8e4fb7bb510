----------------------------- MODULE PoolQueues -----------------------------
(***************************************************************************)
(* The queues of a unified layer: a sequence of batches, each a sequence   *)
(* of tokens (a token queue is one whose batches hold a single token), and *)
(* what a restricted take gives out and leaves behind (layer.cpp,          *)
(* get_batches_restricted and get_tokens_restricted).                      *)
(***************************************************************************)
EXTENDS Naturals, Sequences, FiniteSets

(* Token counts of a queue, through the set of its token positions.        *)
Positions(q) == UNION {{i} \X DOMAIN q[i] : i \in DOMAIN q}
TokensIn(q)  == Cardinality(Positions(q))
Before(q, i) == TokensIn(SubSeq(q, 1, i - 1))

(* get_batches_restricted and get_tokens_restricted: whole batches leave   *)
(* while they fit in the threshold; the first one that does not is split   *)
(* and its remainder goes back to the front.                               *)
WholeBatches(q, threshold) ==
  Cardinality({i \in DOMAIN q : /\ Before(q, i) < threshold
                                /\ Before(q, i) + Len(q[i]) <= threshold})

SplitsNext(q, threshold) ==
  LET whole == WholeBatches(q, threshold)
  IN  whole < Len(q) /\ Before(q, whole + 1) < threshold

Taken(q, threshold) ==
  LET whole == WholeBatches(q, threshold)
  IN  SubSeq(q, 1, whole) \o
        IF SplitsNext(q, threshold)
        THEN <<SubSeq(q[whole + 1], 1, threshold - Before(q, whole + 1))>>
        ELSE <<>>

(* Mutants: the remainder of a split batch is dropped, or goes to the back.*)
Left_RemainderDropped(q, threshold) ==
  LET whole == WholeBatches(q, threshold)
  IN  SubSeq(q, IF SplitsNext(q, threshold) THEN whole + 2 ELSE whole + 1, Len(q))

Left_RemainderToBack(q, threshold) ==
  LET whole == WholeBatches(q, threshold)
  IN  IF SplitsNext(q, threshold)
      THEN SubSeq(q, whole + 2, Len(q)) \o
             <<SubSeq(q[whole + 1], threshold - Before(q, whole + 1) + 1, Len(q[whole + 1]))>>
      ELSE SubSeq(q, whole + 1, Len(q))

Left(q, threshold) ==
  LET whole == WholeBatches(q, threshold)
  IN  IF SplitsNext(q, threshold)
      THEN <<SubSeq(q[whole + 1], threshold - Before(q, whole + 1) + 1, Len(q[whole + 1]))>>
             \o SubSeq(q, whole + 2, Len(q))
      ELSE SubSeq(q, whole + 1, Len(q))
=============================================================================
