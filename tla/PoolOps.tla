------------------------------- MODULE PoolOps -------------------------------
(***************************************************************************)
(* The data operations of one worker's unified token pool (csrc/muhelper/  *)
(* pool.cpp, layer.cpp and the TokenTopKPool of muhelper.cpp), as constant *)
(* operators: how layers are numbered, which batch goes to which layer,    *)
(* how the TopK replies of the experts are joined, how many tokens leave a *)
(* layer and which layer is scheduled.                                     *)
(*                                                                         *)
(* A token is named by its request: req_ids is all the pool looks at.  A   *)
(* batch is a sequence of requests, a layer's queue a sequence of batches. *)
(* A token queue (add_tokens) is a queue whose batches hold one token.     *)
(***************************************************************************)
EXTENDS Naturals, Sequences, FiniteSets, PoolQueues

CONSTANTS NumLayers, \* expert layers of the model; there is one more attention layer
          TopK       \* experts each token visits in a layer

ASSUME PoolOpsAssumption == NumLayers \in Nat \ {0} /\ TopK \in Nat \ {0}

(* The scheduler's layer ids: attention layers first, then the expert      *)
(* layers.  Attention layer NumLayers only samples.                        *)
AttnLayers  == 0 .. NumLayers
ExpertLayers == 0 .. NumLayers - 1
LayerIds    == 0 .. 2 * NumLayers
ExpertId(layer) == NumLayers + 1 + layer

(* layer_uses_token_queue: top-k attention layers except the first.        *)
UsesTokenQueue(id) == TopK > 1 /\ id \in 1 .. NumLayers

-----------------------------------------------------------------------------
(* Where process_batch files a batch, by its tag.                          *)
IsJoined(tag, layer) == tag = "expert" /\ UsesTokenQueue(layer)

TargetLayer(tag, layer) == IF tag = "attention" THEN ExpertId(layer) ELSE layer

-----------------------------------------------------------------------------
(* TokenTopKPool.put_batch on a pool that holds count[r] copies of r       *)
(* (0: no entry).  The i-th token of the batch completes its request when  *)
(* it is a multiple of TopK; the entry is then erased.                     *)
CopiesUpTo(reqs, i) == Cardinality({j \in 1 .. i : reqs[j] = reqs[i]})
CopiesOf(r, reqs)   == Cardinality({j \in DOMAIN reqs : reqs[j] = r})

(* Mutant: a second copy in the same batch is not counted.                 *)
Completes_OncePerBatch(count, reqs, i) == (count[reqs[i]] + 1) % TopK = 0

Completes(count, reqs, i) == (count[reqs[i]] + CopiesUpTo(reqs, i)) % TopK = 0

(* Mutant: a complete entry is not erased.                                 *)
JoinCount_NotErased(count, reqs) ==
  [r \in DOMAIN count |-> count[r] + CopiesOf(r, reqs)]

JoinCount(count, reqs) ==
  [r \in DOMAIN count |-> (count[r] + CopiesOf(r, reqs)) % TopK]

(* fetch_ready_tokens: the completed requests, in the order they complete. *)
ReadyTokens(count, reqs) ==
  LET ready == {i \in DOMAIN reqs : Completes(count, reqs, i)}
      place(k) == CHOOSE i \in ready : Cardinality({j \in ready : j <= i}) = k
  IN  [k \in 1 .. Cardinality(ready) |-> <<reqs[place(k)]>>]

-----------------------------------------------------------------------------
(* UnifiedLayerScheduler.schedule, first layer first: attention layer i    *)
(* before expert layer i, and both before attention layer i+1.             *)
FlfsRank(id) == IF id \in AttnLayers THEN 2 * id ELSE 2 * (id - ExpertId(0)) + 1

(* Mutant: the loop stops before the last attention layer.                 *)
Waiting_SkipsLast(num) == {id \in LayerIds \ {NumLayers} : num[id] > 0}

Waiting(num) == {id \in LayerIds : num[id] > 0}

FirstWaiting(num) ==
  CHOOSE id \in Waiting(num) : \A other \in Waiting(num) : FlfsRank(id) <= FlfsRank(other)
=============================================================================
