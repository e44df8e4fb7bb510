----------------------------- MODULE UnifiedPool -----------------------------
(***************************************************************************)
(* One worker's UnifiedPool (csrc/muhelper/pool.cpp, layer.cpp) under the  *)
(* two threads that use it.                                                *)
(*                                                                         *)
(* The pool thread (MuPool::run) files the batches that arrive from the    *)
(* workers' channels.  The engine thread (single_module_loop_overlap)      *)
(* files layer-0 batches (put_batch: new requests, and the tokens that     *)
(* continue after sampling), asks for the layer to run and takes a batch   *)
(* from it.  Scheduling and taking are two critical sections of the        *)
(* scheduler mutex, so the pool thread may file batches between them.      *)
(*                                                                         *)
(* The order in which a popped set of batches is merged into one is not    *)
(* modelled here: batch is the list of popped batches.                     *)
(***************************************************************************)
EXTENDS PoolOps, Integers, SequencesExt

CONSTANTS Req,              \* requests
          Feed,             \* the batches that reach this pool, in any order
          AttnThreshold,    \* attn_schedule_token_threshold
          ExpertThreshold   \* expert_schedule_token_threshold

(* A batch on arrival: its tag, layer id and tokens.                       *)
Message == [tag : {"tokenizer", "attention", "expert"}, layer : AttnLayers,
            reqs : Seq(Req)]

(* init_core sets both thresholds before the loop starts.                  *)
ASSUME UnifiedPoolAssumption ==
  /\ Feed \subseteq Message /\ IsFiniteSet(Feed)
  /\ \A m \in Feed : /\ m.tag = "tokenizer" => m.layer = 0
                     /\ m.tag = "attention" => m.layer \in ExpertLayers
  /\ AttnThreshold   \in Nat \ {0}
  /\ ExpertThreshold \in Nat \ {0}

Threshold(id) == IF id \in AttnLayers THEN AttnThreshold ELSE ExpertThreshold

NoLayer  == -1    \* what schedule() returns when every layer is empty
Unchosen == -2    \* the engine is outside Scheduler::schedule

VARIABLES
  pending,    \* batches of Feed that have not arrived
  join,       \* copies held per attention layer and request (topk_pools)
  queue,      \* the queue of each layer
  numTokens,  \* num_tokens of each layer
  chosen,     \* the layer the engine scheduled and has not taken from yet
  batch,      \* the batches popped by the last take
  served,     \* history: the tokens taken from each layer, in order
  aborted     \* an ASSERT_MSG failed in the engine thread

vars == <<pending, join, queue, numTokens, chosen, batch, served, aborted>>

TypeOK ==
  /\ pending \subseteq Feed
  /\ join \in [AttnLayers -> [Req -> 0 .. TopK - 1]]
  /\ queue \in [LayerIds -> Seq(Seq(Req))]
  /\ numTokens \in [LayerIds -> Nat]
  /\ chosen \in LayerIds \cup {NoLayer, Unchosen}
  /\ batch \in Seq(Seq(Req))
  /\ served \in [LayerIds -> Seq(Req)]
  /\ aborted \in BOOLEAN

Init ==
  /\ pending   = Feed
  /\ join      = [l \in AttnLayers |-> [r \in Req |-> 0]]
  /\ queue     = [id \in LayerIds |-> <<>>]
  /\ numTokens = [id \in LayerIds |-> 0]
  /\ chosen    = Unchosen
  /\ batch     = <<>>
  /\ served    = [id \in LayerIds |-> <<>>]
  /\ aborted   = FALSE

-----------------------------------------------------------------------------
(* add_batch and attn_add_tokens, under the scheduler mutex.               *)
Enqueue(id, batches) ==
  /\ queue'     = [queue EXCEPT ![id] = @ \o batches]
  /\ numTokens' = [numTokens EXCEPT ![id] = @ + TokensIn(batches)]

(* process_attn_batch_topk: an expert's reply waits for the other copies   *)
(* of its tokens.                                                          *)
FileReplies(m) ==
  /\ IsJoined(m.tag, m.layer)
  /\ join' = [join EXCEPT ![m.layer] = JoinCount(@, m.reqs)]
  /\ Enqueue(m.layer, ReadyTokens(join[m.layer], m.reqs))

(* process_attn_batch and process_expert_batch.                            *)
FileBatch(m) ==
  /\ ~ IsJoined(m.tag, m.layer)
  /\ Enqueue(TargetLayer(m.tag, m.layer), <<m.reqs>>)
  /\ UNCHANGED join

ProcessBatch(m) ==
  /\ m \in pending
  /\ pending' = pending \ {m}
  /\ FileReplies(m) \/ FileBatch(m)
  /\ UNCHANGED <<chosen, batch, served, aborted>>

(* The pool thread takes a batch off a channel.                            *)
PoolReceive == \E m \in pending : m.tag # "tokenizer" /\ ProcessBatch(m)

(* The engine thread's put_batch, never inside Scheduler::schedule.        *)
EnginePut == /\ chosen = Unchosen /\ ~aborted
             /\ \E m \in pending : m.tag = "tokenizer" /\ ProcessBatch(m)

(* Mutant: schedule a layer whose queue is not empty, tokens or not.       *)
Schedule_QueueNotEmpty ==
  LET queued == [id \in LayerIds |-> Len(queue[id])]
  IN  /\ chosen = Unchosen /\ ~aborted
      /\ chosen' = IF Waiting(queued) = {} THEN NoLayer ELSE FirstWaiting(queued)
      /\ UNCHANGED <<pending, join, queue, numTokens, batch, served, aborted>>

(* UnifiedLayerScheduler::schedule.                                        *)
Schedule ==
  /\ chosen = Unchosen /\ ~aborted
  /\ chosen' = IF Waiting(numTokens) = {} THEN NoLayer ELSE FirstWaiting(numTokens)
  /\ UNCHANGED <<pending, join, queue, numTokens, batch, served, aborted>>

(* get_batch_from_layer(-1) returns an empty batch; the loop goes on.      *)
GetNothing ==
  /\ chosen = NoLayer
  /\ chosen' = Unchosen /\ batch' = <<>>
  /\ UNCHANGED <<pending, join, queue, numTokens, served, aborted>>

(* get_batch_from_layer_restricted.  A take that yields no token fails the *)
(* ASSERT_MSG of get_batches_restricted, or reads tokens[0] of an empty    *)
(* vector in pack_topk_tokens.                                             *)
GetBatch ==
  /\ chosen \in LayerIds
  /\ LET taken == Taken(queue[chosen], Threshold(chosen))
     IN  /\ queue'     = [queue EXCEPT ![chosen] = Left(@, Threshold(chosen))]
         /\ numTokens' = [numTokens EXCEPT ![chosen] = @ - TokensIn(taken)]
         /\ batch'     = taken
         /\ served'    = [served EXCEPT ![chosen] = @ \o FlattenSeq(taken)]
         /\ aborted'   = (TokensIn(taken) = 0)
  /\ chosen' = Unchosen
  /\ UNCHANGED <<pending, join>>

Next == PoolReceive \/ EnginePut \/ Schedule \/ GetNothing \/ GetBatch

(* Both threads run forever; a batch on a channel is eventually received.  *)
(* The engine calls recv_new_request in every iteration of its loop, so a  *)
(* put that is possible over and over again is made: strong fairness.      *)
Fairness == /\ WF_vars(PoolReceive)
            /\ SF_vars(EnginePut)
            /\ WF_vars(Schedule)
            /\ WF_vars(GetNothing)
            /\ WF_vars(GetBatch)

Spec == Init /\ [][Next]_vars
FairSpec == Spec /\ Fairness

-----------------------------------------------------------------------------
(* Every layer's num_tokens is the number of tokens in its queue.  The     *)
(* scheduler reads nothing else, and put, split and take each adjust the   *)
(* two separately (layer.cpp add_batch, get_batches_restricted).           *)
NumTokensExact == \A id \in LayerIds : numTokens[id] = TokensIn(queue[id])

(* A layer that schedule() returned still has a token when the engine      *)
(* takes from it, though the mutex was released in between, so the         *)
(* ASSERT_MSG "Got nothing from layer" (layer.cpp:61) never fails.         *)
NeverAborts == ~aborted

(* Copies of r in the batches that have been filed into layer id.          *)
FiledInto(id, r, msgs) ==
  Cardinality(UNION {{m} \X {i \in DOMAIN m.reqs : m.reqs[i] = r} :
                     m \in {n \in msgs : TargetLayer(n.tag, n.layer) = id}})

(* Every copy filed into a layer is in exactly one place: held by the join *)
(* pool, or, with the TopK - 1 others of its token where copies are joined,*)
(* as one token of the layer's queue or of a batch the engine has taken.   *)
NothingLostOrDuplicated ==
  \A id \in LayerIds, r \in Req :
     LET tokens == CopiesOf(r, FlattenSeq(queue[id])) + CopiesOf(r, served[id])
         filed  == FiledInto(id, r, Feed) - FiledInto(id, r, pending)
     IN  filed = IF UsesTokenQueue(id) THEN TopK * tokens + join[id][r] ELSE tokens

(* The detailed pool is a FIFO of tokens per layer: batch boundaries,      *)
(* splits and put-backs of a remainder do not show.                        *)
Fifo == INSTANCE LayerFifo WITH
          Layers  <- LayerIds,
          backlog <- [id \in LayerIds |-> FlattenSeq(queue[id])]

ImplementsFifo == Fifo!Spec

(* Once everything has arrived the engine empties every layer: no layer is *)
(* overlooked by the schedule (layer.cpp:233).                             *)
EventuallyDrained == <>[](\A id \in LayerIds : TokensIn(queue[id]) = 0)
=============================================================================
