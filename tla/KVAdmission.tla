----------------------------- MODULE KVAdmission -----------------------------
(***************************************************************************)
(* Admission of requests against the KV cache, from the controller's       *)
(* DPScheduler (disagmoe/scheduler/dpscheduler.py) to the block managers   *)
(* of the attention workers (csrc/engine/block_manager.cpp,                *)
(* disagmoe/block_manager/block_manager.py) and back.                      *)
(*                                                                         *)
(* The scheduler charges a request the blocks it may need and sends it to  *)
(* a worker (rank); the worker allocates blocks when a token of the        *)
(* request starts a pass through the layers, and frees them when sampling  *)
(* finishes the request; the controller learns of that by polling the      *)
(* detokenizer and takes the charge back.  Scheduler and workers never     *)
(* compare their counts.                                                   *)
(*                                                                         *)
(* Which free block is taken is not modelled: blocks are counted.          *)
(***************************************************************************)
EXTENDS Integers, Sequences, FiniteSets, Totals

CONSTANTS Req,        \* requests
          Prefill,    \* prefill_len of each request
          Output,     \* output_len of each request
          DpSize,     \* dp_size
          NumBlocks,  \* num_gpu_blocks of each rank
          Weight,     \* weights of the weighted policy, per rank
          BlockSize,  \* block_size
          Policies,   \* the scheduler classes the controller may be given
          NoReq       \* waiting_loop holds no request

Rank == 0 .. DpSize - 1

ASSUME KVAssumption ==
  /\ IsFiniteSet(Req)
  /\ DpSize \in Nat \ {0} /\ BlockSize \in Nat \ {0}
  /\ Prefill \in [Req -> Nat \ {0}] /\ Output \in [Req -> Nat \ {0}]
  /\ NumBlocks \in [Rank -> Nat] /\ Weight \in [Rank -> Nat \ {0}]
  /\ Policies \subseteq {"max", "RR", "cap_rr", "weighted"}
  /\ NoReq \notin Req

NoRank == -1

VARIABLES
  \* the controller
  arriving,  \* requests not yet given to put_single_request
  waiting,   \* waiting_queue
  head,      \* the request waiting_loop holds
  parked,    \* waiting_loop awaits sch_event
  schEvent,  \* sch_event
  stats,     \* kv_cache_stats
  seqRank,   \* seq_ranks
  curRank,   \* cur_rank of the round-robin policies
  policy,    \* the scheduler class
  \* between controller and workers
  submitted, \* requests on the way to each rank's tokenizer socket
  finished,  \* requests reported finished and not yet polled
  \* the workers
  stage,     \* where each request's token is
  context,   \* decode_seq_lens
  output,    \* output_len of the sampler
  blocks,    \* length of each request's block table
  free,      \* number of free blocks of each rank
  aborted    \* ranks where an ASSERT of the block manager failed

controller == <<arriving, waiting, head, parked, schEvent, stats, seqRank, curRank, policy>>
workers    == <<stage, context, output, blocks, free, aborted>>
vars       == <<controller, submitted, finished, workers>>

(* away: not at a worker; prefill, decode: in the layer-0 queue before and *)
(* after the first pass; layers: on its way to the sampling layer.         *)
Stage == {"away", "prefill", "decode", "layers"}

TypeOK ==
  /\ arriving \subseteq Req
  /\ waiting \in Seq(Req)
  /\ head \in Req \cup {NoReq}
  /\ parked \in BOOLEAN /\ schEvent \in BOOLEAN
  /\ stats \in [Rank -> Int]
  /\ seqRank \in [Req -> Rank \cup {NoRank}]
  /\ curRank \in Rank /\ policy \in Policies
  /\ submitted \in [Rank -> Seq(Req)]
  /\ finished \subseteq Req
  /\ stage \in [Req -> Stage]
  /\ context \in [Req -> Nat] /\ output \in [Req -> Nat] /\ blocks \in [Req -> Nat]
  /\ free \in [Rank -> Nat]
  /\ aborted \subseteq Rank

Init ==
  /\ arriving = Req
  /\ waiting  = <<>>
  /\ head     = NoReq
  /\ parked   = FALSE /\ schEvent = FALSE
  /\ stats    = NumBlocks
  /\ seqRank  = [r \in Req |-> NoRank]
  /\ curRank  = 0
  /\ policy   \in Policies
  /\ submitted = [w \in Rank |-> <<>>]
  /\ finished = {}
  /\ stage    = [r \in Req |-> "away"]
  /\ context  = [r \in Req |-> 0]
  /\ output   = [r \in Req |-> 0]
  /\ blocks   = [r \in Req |-> 0]
  /\ free     = NumBlocks
  /\ aborted  = {}

-----------------------------------------------------------------------------
(* The policies.  Each maps the request's blocks to a rank or NoRank.      *)
BlocksFor(tokens) == (tokens + BlockSize - 1) \div BlockSize

(* Mutant: only the prefill is charged.                                    *)
RequiredBlocks_PrefillOnly(r) == BlocksFor(Prefill[r])

RequiredBlocks(r) == BlocksFor(Prefill[r]) + BlocksFor(Output[r])

FirstBest(ranks, score) ==
  CHOOSE w \in ranks : \A v \in ranks : score[v] < score[w] \/ (score[v] = score[w] /\ w <= v)

ScheduleMax(required) ==
  LET w == FirstBest(Rank, stats)
  IN  IF stats[w] > 0 /\ stats[w] >= required THEN w ELSE NoRank

ScheduleWeighted(required) ==
  LET able == {w \in Rank : stats[w] >= required}
  IN  IF able = {} THEN NoRank
                   ELSE FirstBest(able, [w \in Rank |-> stats[w] * Weight[w]])

(* Mutant: round-robin without looking at the blocks.                      *)
ScheduleCapRR_Unchecked(required) == curRank

(* The next rank from cur_rank on that has the blocks.                     *)
ScheduleCapRR(required) ==
  LET able == {w \in Rank : stats[w] >= required}
  IN  IF able = {} THEN NoRank
      ELSE FirstBest(able, [w \in Rank |-> -((w - curRank) % DpSize)])

Choice(required) ==
  CASE policy = "max"      -> ScheduleMax(required)
    [] policy = "weighted" -> ScheduleWeighted(required)
    [] policy = "cap_rr"   -> ScheduleCapRR(required)
    [] policy = "RR"       -> curRank

(* Mutant: cur_rank is not wrapped.                                        *)
NextRank_NotWrapped(w) == IF w # NoRank THEN w + 1 ELSE curRank

(* cur_rank moves past every rank looked at.                               *)
NextRank(w) ==
  CASE policy = "RR" -> (curRank + 1) % DpSize
    [] policy = "cap_rr" /\ w # NoRank -> (w + 1) % DpSize
    [] OTHER -> curRank

-----------------------------------------------------------------------------
(* The controller.                                                         *)

PutRequest(r) ==
  /\ r \in arriving
  /\ arriving' = arriving \ {r}
  /\ waiting'  = Append(waiting, r)
  /\ UNCHANGED <<head, parked, schEvent, stats, seqRank, curRank, policy, submitted, finished, workers>>

(* waiting_loop takes the oldest request.                                  *)
TakeRequest ==
  /\ head = NoReq /\ waiting # <<>>
  /\ head'    = Head(waiting)
  /\ waiting' = Tail(waiting)
  /\ UNCHANGED <<arriving, parked, schEvent, stats, seqRank, curRank, policy, submitted, finished, workers>>

(* One try of schedule with add_seq: at once for a new head, then whenever *)
(* sch_event is set.                                                       *)
Schedule ==
  /\ head # NoReq
  /\ parked => schEvent
  /\ schEvent' = (schEvent /\ ~parked)
  /\ LET w == Choice(RequiredBlocks(head))
     IN  /\ curRank' = NextRank(w)
         /\ IF w = NoRank
            THEN parked' = TRUE /\ UNCHANGED <<head, stats, seqRank, submitted>>
            ELSE /\ parked' = FALSE /\ head' = NoReq
                 /\ stats'     = [stats EXCEPT ![w] = @ - RequiredBlocks(head)]
                 /\ seqRank'   = [seqRank EXCEPT ![head] = w]
                 /\ submitted' = [submitted EXCEPT ![w] = Append(@, head)]
  /\ UNCHANGED <<arriving, waiting, policy, finished, workers>>

Charged(w) == {r \in Req : seqRank[r] = w}
Charge     == [r \in Req |-> RequiredBlocks(r)]

(* Mutants: the scheduler is not woken; only the prefill is given back.    *)
PollFinished_NoWake ==
  /\ finished # {}
  /\ finished' = {}
  /\ stats'    = [w \in Rank |-> stats[w] + Total(Charge, Charged(w) \cap finished)]
  /\ seqRank'  = [r \in Req |-> IF r \in finished THEN NoRank ELSE seqRank[r]]
  /\ UNCHANGED <<arriving, waiting, head, parked, schEvent, curRank, policy, submitted, workers>>

PollFinished_PrefillOnly ==
  LET prefillBlocks == [r \in Req |-> BlocksFor(Prefill[r])]
  IN  /\ finished # {}
      /\ finished' = {} /\ schEvent' = TRUE
      /\ stats'    = [w \in Rank |-> stats[w] + Total(prefillBlocks, Charged(w) \cap finished)]
      /\ seqRank'  = [r \in Req |-> IF r \in finished THEN NoRank ELSE seqRank[r]]
      /\ UNCHANGED <<arriving, waiting, head, parked, curRank, policy, submitted, workers>>

(* process_finished_results: del_seq for everything the detokenizer has.   *)
PollFinished ==
  /\ finished # {}
  /\ finished' = {}
  /\ schEvent' = TRUE
  /\ stats'    = [w \in Rank |-> stats[w] + Total(Charge, Charged(w) \cap finished)]
  /\ seqRank'  = [r \in Req |-> IF r \in finished THEN NoRank ELSE seqRank[r]]
  /\ UNCHANGED <<arriving, waiting, head, parked, curRank, policy, submitted, workers>>

-----------------------------------------------------------------------------
(* The attention worker of rank w.                                         *)

(* recv_new_request.                                                       *)
RecvRequest(w) ==
  /\ w \notin aborted /\ submitted[w] # <<>>
  /\ LET r == Head(submitted[w])
     IN  /\ stage'  = [stage EXCEPT ![r] = "prefill"]
         /\ output' = [output EXCEPT ![r] = 0]
  /\ submitted' = [submitted EXCEPT ![w] = Tail(@)]
  /\ UNCHANGED <<controller, finished, context, blocks, free, aborted>>

At(w, stages) == {r \in Req : seqRank[r] = w /\ stage[r] \in stages}

(* allocate: the blocks of the prefill.                                    *)
Allocated(batch) ==
  LET needed(r) == IF stage[r] = "prefill" THEN (Prefill[r] - 1) \div BlockSize + 1 ELSE 0
  IN  [r \in batch |-> needed(r)]

(* append_tokens: the blocks one more token needs after contextLen.        *)
(* Mutant: a full last block is taken for an empty one.                    *)
Appended_FullIsEmpty(contextLen) ==
  LET remainSlots == BlockSize - (contextLen % BlockSize)
  IN  IF 1 > remainSlots THEN (1 - remainSlots - 1) \div BlockSize + 1 ELSE 0

Appended(contextLen) ==
  LET slots       == BlockSize - (contextLen % BlockSize)
      remainSlots == IF slots = BlockSize THEN 0 ELSE slots
  IN  IF 1 > remainSlots THEN (1 - remainSlots - 1) \div BlockSize + 1 ELSE 0

(* update_block_table at layer 0 for a batch: first all prefills, each     *)
(* with ASSERT free >= needed, then one slot for every token, with ASSERT  *)
(* free > added wherever a block is added.  A failed ASSERT ends the       *)
(* worker's engine thread; its counts are left as they were.               *)
StartPass(w, batch) ==
  LET contextLen == [r \in batch |-> IF stage[r] = "prefill" THEN Prefill[r] ELSE context[r]]
      allocated  == Allocated(batch)
      appended   == [r \in batch |-> Appended(contextLen[r])]
      allocs     == Total(allocated, batch)
      appends    == Total(appended, batch)
  IN  /\ w \notin aborted
      /\ batch # {} /\ batch \subseteq At(w, {"prefill", "decode"})
      /\ IF free[w] < allocs \/ (appends > 0 /\ free[w] - allocs <= appends)
         THEN /\ aborted' = aborted \cup {w}
              /\ UNCHANGED <<stage, context, blocks, free>>
         ELSE /\ free'    = [free EXCEPT ![w] = @ - allocs - appends]
              /\ blocks'  = [r \in Req |-> IF r \in batch
                                           THEN blocks[r] + allocated[r] + appended[r]
                                           ELSE blocks[r]]
              /\ context' = [r \in Req |-> IF r \in batch THEN contextLen[r] + 1 ELSE context[r]]
              /\ stage'   = [r \in Req |-> IF r \in batch THEN "layers" ELSE stage[r]]
              /\ UNCHANGED aborted
      /\ UNCHANGED <<controller, submitted, finished, output>>

(* Mutant: the blocks of a finished request stay allocated.                *)
Sample_NoRelease(w, batch) ==
  LET done == {r \in batch : output[r] + 1 >= Output[r]}
  IN  /\ w \notin aborted
      /\ batch # {} /\ batch \subseteq At(w, {"layers"})
      /\ output'   = [r \in Req |-> IF r \in batch THEN output[r] + 1 ELSE output[r]]
      /\ stage'    = [r \in Req |-> IF r \in done THEN "away"
                                    ELSE IF r \in batch THEN "decode" ELSE stage[r]]
      /\ blocks'   = [r \in Req |-> IF r \in done THEN 0 ELSE blocks[r]]
      /\ finished' = finished \cup done
      /\ UNCHANGED <<controller, submitted, context, free, aborted>>

(* sample_results for a batch that reached the sampling layer: release_seqs*)
(* and a report for what is finished, the rest continues at layer 0.       *)
Sample(w, batch) ==
  LET done == {r \in batch : output[r] + 1 >= Output[r]}
  IN  /\ w \notin aborted
      /\ batch # {} /\ batch \subseteq At(w, {"layers"})
      /\ output'   = [r \in Req |-> IF r \in batch THEN output[r] + 1 ELSE output[r]]
      /\ stage'    = [r \in Req |-> IF r \in done THEN "away"
                                    ELSE IF r \in batch THEN "decode" ELSE stage[r]]
      /\ free'     = [free EXCEPT ![w] = @ + Total(blocks, done)]
      /\ blocks'   = [r \in Req |-> IF r \in done THEN 0 ELSE blocks[r]]
      /\ finished' = finished \cup done
      /\ UNCHANGED <<controller, submitted, context, aborted>>

-----------------------------------------------------------------------------
Next ==
  \/ \E r \in Req : PutRequest(r)
  \/ TakeRequest
  \/ Schedule
  \/ PollFinished
  \/ \E w \in Rank : RecvRequest(w)
  \/ \E w \in Rank, batch \in SUBSET Req : StartPass(w, batch)
  \/ \E w \in Rank, batch \in SUBSET Req : Sample(w, batch)

Spec == Init /\ [][Next]_vars

(* Every loop runs on, and the pool's queues are first in, first out: no   *)
(* token stays in a queue for ever.                                        *)
Fairness ==
  /\ WF_vars(TakeRequest)
  /\ WF_vars(Schedule)
  /\ WF_vars(PollFinished)
  /\ \A w \in Rank : WF_vars(RecvRequest(w))
  /\ \A w \in Rank, r \in Req :
       /\ WF_vars(\E batch \in SUBSET Req : r \in batch /\ StartPass(w, batch))
       /\ WF_vars(\E batch \in SUBSET Req : r \in batch /\ Sample(w, batch))

FairSpec == Spec /\ Fairness

-----------------------------------------------------------------------------
(* The scheduler's count of every rank is what the rank has, less the      *)
(* charge of every request sent there and not yet polled as finished: no   *)
(* charge is lost or taken back twice (dpscheduler.py add_seq, del_seq).   *)
ChargesConserved ==
  \A w \in Rank : stats[w] + Total(Charge, Charged(w)) = NumBlocks[w]

(* Every block of a rank is free or in the table of one of its requests    *)
(* (block_manager.cpp allocate, append_tokens, release).                   *)
BlocksConserved ==
  \A w \in Rank : free[w] + Total(blocks, Charged(w)) = NumBlocks[w]

(* The scheduler never counts a block as free that a worker may still need,*)
(* although it is told late: what it holds for admission is covered by the *)
(* blocks really free (required_blocks against append_tokens).             *)
NeverOvercommitted == \A w \in Rank : 0 <= stats[w] /\ stats[w] <= free[w]

(* A request that runs has exactly the blocks its context fills, so the    *)
(* slot of its next token (prepare_block_table) is in its table.           *)
TablesFitContext ==
  \A r \in Req : stage[r] \in {"decode", "layers"} => blocks[r] = BlocksFor(context[r])

(* Every request that arrives is finished: a request that waits for blocks *)
(* is woken when they are given back (waiting_loop, del_seq).              *)
EventuallyServed ==
  \A r \in Req : r \notin arriving ~> (output[r] = Output[r] /\ seqRank[r] = NoRank)

(* No ASSERT of the block manager fails for requests the scheduler found   *)
(* room for.  "ASSERT (num_free_blocks() > blocks_to_add)"                 *)
(* (block_manager.cpp:114) asks for one block more than it takes.          *)
NoAssertFails == aborted = {}
=============================================================================
