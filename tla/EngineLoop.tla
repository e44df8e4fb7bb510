----------------------------- MODULE EngineLoop -----------------------------
(***************************************************************************)
(* The loop of a unified (HYBRID) worker and the GPU it feeds              *)
(* (disagmoe/frontend/engine.py single_module_loop_overlap, with the       *)
(* staging buffers of utils/gdr_context.py, executor/executor.py and       *)
(* block_manager/block_manager.py).                                        *)
(*                                                                         *)
(* An iteration launches the kernels of one batch and then finishes the    *)
(* batch of the iteration before, so that the GPU is never idle while the  *)
(* CPU works: launching only appends to a stream, and only sync events     *)
(* make the CPU wait.  Numbers pass between the two through pairs of       *)
(* staging buffers that are used in turn, with nothing that says whether   *)
(* the other side has read what was there.                                 *)
(*                                                                         *)
(* What a kernel computes and which tokens the scheduler prefers are left  *)
(* out; a batch is the set of requests whose tokens it holds.  Layers are  *)
(* numbered along a pass: 2l is attention layer l, 2l + 1 expert layer l,  *)
(* and 2 * NumLayers the attention layer that samples.                     *)
(***************************************************************************)
EXTENDS Integers, Sequences, FiniteSets

CONSTANTS Req,       \* requests
          MaxOutput, \* max_output_len of each request
          NumLayers, \* model_total_num_layers
          Threshold, \* max_batch_size_attn and max_batch_size_expert
          None       \* no batch; a request the sampler does not know

ASSUME EngineAssumption ==
  /\ MaxOutput \in [Req -> Nat \ {0}]
  /\ NumLayers \in Nat \ {0} /\ Threshold \in Nat \ {0}
  /\ None \notin Req /\ None \notin Nat

Sampling     == 2 * NumLayers
Layer        == 0 .. Sampling
IsExpert(l)  == l % 2 = 1

(* The pairs of staging buffers: what attention reads of the KV cache, the *)
(* experts it chooses, the order its rows are sent in, the expert of each  *)
(* row, the weights and the order of the rows sent back, and the rows that *)
(* go on after sampling.                                                   *)
Staging == {"attn_meta", "topk_ids", "token_mapping", "m_indices", "expert_weights",
            "continue_ids"}

VARIABLES
  coming,   \* requests not yet sent by the tokenizer
  inbox,    \* the tokenizer socket
  pool,     \* the tokens of each layer, by request
  away,     \* batches with the dispatcher or on a channel
  outputLen,\* output_len of the sampler, None if it has no entry
  reported, \* tokens of each request reported to the detokenizer
  eos,      \* requests reported with is_eos
  pc,       \* where the loop is
  forward,  \* forward_batch
  last,     \* last_batch
  results,  \* result_queue
  hand,     \* tmp_batch, once its rows are being permuted
  buffer,   \* internal_index of each pair
  stream,   \* kernels launched and not yet run
  torn,     \* pairs in which a value was overwritten before it was read
  endFlag   \* end_flag

cpu  == <<outputLen, reported, eos, pc, forward, last, results, hand, buffer, endFlag>>
vars == <<coming, inbox, pool, away, cpu, stream, torn>>

Batch  == [layer : Layer, reqs : SUBSET Req, in : 0 .. 1, out : 0 .. 1]
Kernel == [name : {"attention", "permute", "expert", "select"}, batch : Batch]

(* None is no batch either.                                                *)
ASSUME NoneAssumption == None \notin Batch

TypeOK ==
  /\ coming \subseteq Req /\ inbox \in Seq(Req)
  /\ pool \in [Layer -> SUBSET Req]
  /\ away \subseteq [layer : Layer, reqs : SUBSET Req]
  /\ outputLen \in [Req -> Nat \cup {None}] /\ reported \in [Req -> Nat] /\ eos \subseteq Req
  /\ pc \in {"receive", "schedule", "finish", "sync", "ended"}
  /\ forward \in Batch \cup {None} /\ last \in Batch \cup {None} /\ hand \in Batch \cup {None}
  /\ results \in Seq(Batch) /\ Len(results) <= 2
  /\ buffer \in [Staging -> 0 .. 1]
  /\ stream \in Seq(Kernel)
  /\ torn \subseteq Staging
  /\ endFlag \in BOOLEAN

Init ==
  /\ coming = Req /\ inbox = <<>>
  /\ pool = [l \in Layer |-> {}] /\ away = {}
  /\ outputLen = [r \in Req |-> None] /\ reported = [r \in Req |-> 0] /\ eos = {}
  /\ pc = "receive"
  /\ forward = None /\ last = None /\ results = <<>> /\ hand = None
  /\ buffer = [s \in Staging |-> 0]
  /\ stream = <<>> /\ torn = {}
  /\ endFlag = FALSE

-----------------------------------------------------------------------------
(* Mutant: one buffer instead of two.                                      *)
Handle_Single(s) == buffer[s]

(* Staging buffers.  get_one_handle turns to the other buffer of a pair.   *)
Handle(s) == (buffer[s] + 1) % 2

Turned(pairs) == [s \in Staging |-> IF s \in pairs THEN Handle(s) ELSE buffer[s]]

(* The buffer a kernel still has to read.                                  *)
WaitsFor(k, s, i) ==
  CASE k.name = "attention" -> s = "attn_meta" /\ k.batch.in = i
    [] k.name = "expert"    -> \/ s = "m_indices" /\ k.batch.in = i
                               \/ s = "expert_weights" /\ k.batch.out = i
    [] k.name = "permute"   -> s = "token_mapping" /\ k.batch.in = i
    [] k.name = "select"    -> s = "continue_ids" /\ k.batch.in = i

(* What the host overwrites when it writes to the next buffer of pairs.    *)
Overwritten(pairs) ==
  {s \in pairs : \E i \in DOMAIN stream : WaitsFor(stream[i], s, Handle(s))}

-----------------------------------------------------------------------------
(* The tokenizer, the channels, the GPU, and the actor's own thread.       *)

Submit(r) ==
  /\ r \in coming
  /\ coming' = coming \ {r} /\ inbox' = Append(inbox, r)
  /\ UNCHANGED <<pool, away, cpu, stream, torn>>

(* A batch comes back to the pool of this worker.                          *)
Deliver(b) ==
  /\ b \in away
  /\ away' = away \ {b}
  /\ pool' = [pool EXCEPT ![b.layer] = @ \cup b.reqs]
  /\ UNCHANGED <<coming, inbox, cpu, stream, torn>>

(* The next kernel runs.  The attention graph leaves the chosen experts in *)
(* a staging buffer, where an earlier batch's may not have been read yet.  *)
GpuStep ==
  /\ stream # <<>>
  /\ stream' = Tail(stream)
  /\ LET k == Head(stream)
         unread == {i \in DOMAIN results : /\ ~IsExpert(results[i].layer)
                                           /\ results[i].out = k.batch.out
                                           /\ results[i] # k.batch}
     IN  torn' = IF k.name = "attention" /\ unread # {} THEN torn \cup {"topk_ids"} ELSE torn
  /\ UNCHANGED <<coming, inbox, pool, away, cpu>>

Terminate ==
  /\ ~endFlag
  /\ endFlag' = TRUE
  /\ UNCHANGED <<coming, inbox, pool, away, outputLen, reported, eos, pc, forward, last, results,
                 hand, buffer, stream, torn>>

-----------------------------------------------------------------------------
(* The loop.                                                               *)

(* recv_new_request does not block: a request that is on the socket may or *)
(* may not have come through.                                              *)
Receive ==
  /\ pc = "receive" /\ ~endFlag
  /\ pc' = "schedule"
  /\ \/ UNCHANGED <<inbox, pool, outputLen>>
     \/ /\ inbox # <<>>
        /\ inbox' = Tail(inbox)
        /\ pool' = [pool EXCEPT ![0] = @ \cup {Head(inbox)}]
        /\ outputLen' = [outputLen EXCEPT ![Head(inbox)] = 0]
  /\ UNCHANGED <<coming, away, reported, eos, forward, last, results, hand, buffer, stream, torn,
                 endFlag>>

(* Everything that waits at the layer, or as much as fits in a batch.      *)
Schedulable(l) ==
  {reqs \in SUBSET pool[l] :
     Cardinality(reqs) = IF Cardinality(pool[l]) < Threshold THEN Cardinality(pool[l]) ELSE Threshold}

NothingScheduled ==
  /\ pc = "schedule" /\ \A l \in Layer : pool[l] = {}
  /\ pc' = "finish"
  /\ UNCHANGED <<coming, inbox, pool, away, outputLen, reported, eos, forward, last, results, hand,
                 buffer, stream, torn, endFlag>>

(* preprocess_batch and proc_func: the host fills the staging buffers and  *)
(* launches the kernels; the result is put on result_queue.  For attention *)
(* the experts' buffer is only reserved, the kernel will write it.         *)
Launch(l, reqs) ==
  LET written == IF IsExpert(l) THEN {"m_indices", "expert_weights"} ELSE {"attn_meta"}
      batch == IF IsExpert(l)
               THEN [layer |-> l, reqs |-> reqs, in |-> Handle("m_indices"),
                     out |-> Handle("expert_weights")]
               ELSE [layer |-> l, reqs |-> reqs, in |-> Handle("attn_meta"),
                     out |-> Handle("topk_ids")]
  IN  /\ buffer'  = Turned(written \cup IF IsExpert(l) THEN {} ELSE {"topk_ids"})
      /\ torn'    = torn \cup Overwritten(written)
      /\ stream'  = Append(stream, [name |-> IF IsExpert(l) THEN "expert" ELSE "attention",
                                    batch |-> batch])
      /\ results' = Append(results, batch)
      /\ forward' = batch

RunBatch(l, reqs) ==
  /\ pc = "schedule" /\ l # Sampling
  /\ reqs # {} /\ reqs \in Schedulable(l)
  /\ pool' = [pool EXCEPT ![l] = @ \ reqs]
  /\ Launch(l, reqs)
  /\ pc' = "finish"
  /\ UNCHANGED <<coming, inbox, away, outputLen, reported, eos, last, hand, endFlag>>

(* Mutant: check_end before counting.                                      *)
Ends_BeforeCounting(r) == outputLen[r] >= MaxOutput[r]

(* sample_once: check_end after counting the token.                        *)
Ends(r) == outputLen[r] + 1 >= MaxOutput[r]

(* sample_results: nothing is put on result_queue and nothing waits for    *)
(* the kernel that picks the rows of the requests that go on.              *)
Sample(reqs) ==
  LET goesOn == {r \in reqs : ~Ends(r)}
      batch  == [layer |-> Sampling, reqs |-> goesOn, in |-> Handle("continue_ids"), out |-> 0]
  IN  /\ pc = "schedule"
      /\ reqs # {} /\ reqs \in Schedulable(Sampling)
      /\ outputLen' = [r \in Req |-> IF r \in goesOn THEN outputLen[r] + 1
                                     ELSE IF r \in reqs THEN None ELSE outputLen[r]]
      /\ reported'  = [r \in Req |-> IF r \in reqs THEN reported[r] + 1 ELSE reported[r]]
      /\ eos'       = eos \cup (reqs \ goesOn)
      /\ pool'      = [pool EXCEPT ![Sampling] = @ \ reqs, ![0] = @ \cup goesOn]
      /\ IF goesOn = {} THEN UNCHANGED <<buffer, stream, torn>>
         ELSE /\ buffer' = Turned({"continue_ids"})
              /\ torn'   = torn \cup Overwritten({"continue_ids"})
              /\ stream' = Append(stream, [name |-> "select", batch |-> batch])
      /\ pc' = "finish"
      /\ UNCHANGED <<coming, inbox, away, forward, last, results, hand, endFlag>>

(* Mutant: forward_batch is not reset.                                     *)
NextIteration_Stale == pc' = "receive" /\ last' = forward /\ UNCHANGED forward

(* The end of an iteration: this iteration's batch becomes last_batch.     *)
NextIteration == pc' = "receive" /\ last' = forward /\ forward' = None

NothingToFinish ==
  /\ pc = "finish" /\ last = None
  /\ NextIteration
  /\ UNCHANGED <<coming, inbox, pool, away, outputLen, reported, eos, results, hand, buffer, stream,
                 torn, endFlag>>

Done(b) == \A i \in DOMAIN stream : stream[i].batch # b

(* Mutant: step_layer is forgotten.                                        *)
Dispatched_SameLayer(b) == [layer |-> b.layer, reqs |-> b.reqs]

Dispatched(b) == [layer |-> b.layer + 1, reqs |-> b.reqs]

(* Mutant: the result stays on the queue.                                  *)
FinishExpert_Peek ==
  /\ pc = "finish" /\ last # None /\ IsExpert(Head(results).layer) /\ Done(Head(results))
  /\ away' = away \cup {Dispatched(Head(results))}
  /\ NextIteration
  /\ UNCHANGED <<coming, inbox, pool, outputLen, reported, eos, results, hand, buffer, stream, torn,
                 endFlag>>

(* sync_event_timeout and post_proc_func of the oldest result.  An expert  *)
(* batch is dispatched at once; the chosen experts of an attention batch   *)
(* are read back, and its rows permuted by a further kernel.               *)
FinishExpert ==
  /\ pc = "finish" /\ last # None /\ IsExpert(Head(results).layer) /\ Done(Head(results))
  /\ results' = Tail(results)
  /\ away' = away \cup {Dispatched(Head(results))}
  /\ NextIteration
  /\ UNCHANGED <<coming, inbox, pool, outputLen, reported, eos, hand, buffer, stream, torn, endFlag>>

FinishAttention ==
  LET batch == [Head(results) EXCEPT !.in = Handle("token_mapping")]
  IN  /\ pc = "finish" /\ last # None /\ ~IsExpert(Head(results).layer) /\ Done(Head(results))
      /\ results' = Tail(results)
      /\ buffer' = Turned({"token_mapping"})
      /\ torn'   = torn \cup Overwritten({"token_mapping"})
      /\ stream' = Append(stream, [name |-> "permute", batch |-> batch])
      /\ hand' = batch
      /\ pc' = "sync"
      /\ UNCHANGED <<coming, inbox, pool, away, outputLen, reported, eos, forward, last, endFlag>>

(* post_process: the event recorded after the permutation, then put.       *)
SendAttention ==
  /\ pc = "sync"
  /\ \A i \in DOMAIN stream : stream[i].name # "permute"
  /\ away' = away \cup {Dispatched(hand)}
  /\ hand' = None
  /\ NextIteration
  /\ UNCHANGED <<coming, inbox, pool, outputLen, reported, eos, results, buffer, stream, torn,
                 endFlag>>

(* Mutant: end_flag is also looked at in the middle of an iteration.       *)
LeaveLoop_Midway ==
  /\ pc \in {"receive", "finish"} /\ endFlag
  /\ pc' = "ended"
  /\ UNCHANGED <<coming, inbox, pool, away, outputLen, reported, eos, forward, last, results, hand,
                 buffer, stream, torn, endFlag>>

LeaveLoop ==
  /\ pc = "receive" /\ endFlag
  /\ pc' = "ended"
  /\ UNCHANGED <<coming, inbox, pool, away, outputLen, reported, eos, forward, last, results, hand,
                 buffer, stream, torn, endFlag>>

Loop ==
  \/ Receive
  \/ NothingScheduled
  \/ \E l \in Layer : \E reqs \in SUBSET pool[l] : RunBatch(l, reqs)
  \/ \E reqs \in SUBSET pool[Sampling] : Sample(reqs)
  \/ NothingToFinish
  \/ FinishExpert
  \/ FinishAttention
  \/ SendAttention
  \/ LeaveLoop

Next ==
  \/ \E r \in Req : Submit(r)
  \/ \E b \in away : Deliver(b)
  \/ GpuStep
  \/ Terminate
  \/ Loop

Spec == Init /\ [][Next]_vars

-----------------------------------------------------------------------------
Places(r) ==
  {<<"inbox", i>> : i \in {j \in DOMAIN inbox : inbox[j] = r}}
    \cup {<<"pool", l>> : l \in {m \in Layer : r \in pool[m]}}
    \cup {<<"away", b>> : b \in {c \in away : r \in c.reqs}}
    \cup {<<"result", i>> : i \in {j \in DOMAIN results : r \in results[j].reqs}}
    \cup {<<"hand", b>> : b \in {c \in {hand} \ {None} : r \in c.reqs}}

(* A request that was submitted and is not finished has exactly one token, *)
(* whatever the overlap of two batches, and a finished one has none: the   *)
(* sampler continues and finishes each request once, after exactly its     *)
(* max_output_len tokens were reported (sample_results, result_queue).     *)
OneTokenPerRequest ==
  TypeOK /\ \A r \in Req :
    /\ Cardinality(Places(r)) = IF r \in coming \cup eos THEN 0 ELSE 1
    /\ r \in eos => reported[r] = MaxOutput[r] /\ outputLen[r] = None
    /\ r \notin eos /\ outputLen[r] # None => reported[r] = outputLen[r]

Launched(b) == IF b = None THEN <<>> ELSE <<b>>

(* The batch finished in an iteration is the last one launched before it:  *)
(* result_queue holds exactly last_batch and forward_batch although a      *)
(* sampling batch puts nothing there (the popleft of the overlap loop).    *)
ResultsPairUp ==
  results = (IF pc = "sync" THEN <<>> ELSE Launched(last)) \o Launched(forward)

(* Two buffers per pair are enough for two batches in flight: nothing is   *)
(* overwritten before it is read.  This does not extend to the rows that   *)
(* go on after sampling: no event is waited for there.                     *)
StagedIntact == torn \subseteq {"continue_ids"}

(* terminate() costs at most the batch in flight: the loop ends with one   *)
(* result at most that is never sent.                                      *)
EndLosesOneBatch == pc = "ended" => Len(results) <= 1 /\ hand = None /\ forward = None

(* The loop keeps up: every request is answered unless the worker is told  *)
(* to end, and then its loop does end.                                     *)
EventuallyAnswered == \A r \in Req : (r \notin coming) ~> (r \in eos \/ pc = "ended")

(* The threads run on, the channels deliver, and a request on the socket   *)
(* does come through: the loop polls it again and again.                   *)
FairSpec ==
  /\ Spec
  /\ WF_vars(Loop) /\ WF_vars(GpuStep)
  /\ WF_vars(\E b \in away : Deliver(b))
  /\ SF_vars(Receive /\ inbox' # inbox)
=============================================================================
