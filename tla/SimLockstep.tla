------------------------------ MODULE SimLockstep ------------------------------
(***************************************************************************)
(* The synchronous serving simulator (simulation/sim_sync.py) and the      *)
(* two-batch-overlap one (simulation/sim_tbo.py).  Both advance a clock    *)
(* iteration by iteration: one token of every active request goes through  *)
(* all layers, then all of them complete.  The synchronous iteration adds  *)
(* up the stages of its layers; the overlapped one splits the tokens into  *)
(* two microbatches and schedules their stages on one compute resource     *)
(* while transfers are in flight.                                          *)
(*                                                                         *)
(* Durations are whole ticks.  tokens_after_reaching_max_bs is stopAfter.  *)
(***************************************************************************)
EXTENDS SimCluster, Sequences, FiniteSetsExt, Functions, Totals

CONSTANTS Configs,  \* sets of [mode, stopAfter, arrivals]
          AttnTime, \* attn_service_t
          IntraDelay, InterDelay, \* net_delay_fn, per token
          BatchCost \* compute_time_lookup: BatchCost[n] for n in 1 .. MaxBatch

Half == {0, 1}

(* Durations are not negative, and arrivals come in order:                 *)
(* generate_request_arrivals adds up the gaps between them.                *)
ASSUME LockstepAssumption ==
  /\ AttnTime \in Nat /\ IntraDelay \in Nat /\ InterDelay \in Nat
  /\ BatchCost \in [1 .. MaxBatch -> Nat]
  /\ \A c \in Configs :
       /\ c.mode \in {"sync", "tbo"} /\ c.stopAfter \in Nat \cup {None}
       /\ c.arrivals \in [1 .. NumRequests -> Nat]
       /\ \A i, j \in 1 .. NumRequests : i <= j => c.arrivals[i] <= c.arrivals[j]

VARIABLES
  cfg,       \* the configuration of this run
  now,       \* current_time
  index,     \* arrival_index
  waiting,   \* waiting_queue
  active,    \* active_requests
  home,      \* home_gpu of each request
  nextIndex, \* next_token_index of each request
  doneAt,    \* completion_times, by request and token index
  sat,       \* completed tokens when the run saturated
  pc,        \* "loop", "schedule" or "stop"
  times,     \* durations of the iteration, by half, layer and stage
  next,      \* next_idx of each half
  ready,     \* when the last computed stage of each half ended
  free,      \* compute_free
  inflight,  \* inflight_until of each half
  spans      \* the stages scheduled in this iteration, with their times

lifecycle == <<cfg, index, waiting, active, home, nextIndex, doneAt, sat>>
schedule  == <<times, next, ready, free, inflight, spans>>
vars == <<lifecycle, now, pc, schedule>>

Init ==
  /\ cfg \in Configs
  /\ now = 0 /\ index = 0 /\ waiting = <<>> /\ active = {}
  /\ home = [r \in Requests |-> None]
  /\ nextIndex = [r \in Requests |-> 0]
  /\ doneAt = [r \in Requests |-> <<>>]
  /\ sat = None /\ pc = "loop"
  /\ times = [h \in Half |-> <<>>] /\ spans = {}
  /\ next = [h \in Half |-> 0] /\ ready = [h \in Half |-> 0] /\ free = 0
  /\ inflight = [h \in Half |-> 0]

Completed == Total([r \in Requests |-> Len(doneAt[r])], Requests)
Expected  == NumRequests * TokensPerRequest

-----------------------------------------------------------------------------
(* The stages of one layer for a set of requests, each with the experts    *)
(* route[r] of its token.                                                  *)

CeilDiv(a, b) == (a + b - 1) \div b

AttentionTime(R) == CeilDiv(Cardinality(R), NumGpus) * AttnTime

(* How many token copies go from GPU a to GPU b.                           *)
Flow(R, route) ==
  [p \in Gpus \X Gpus |->
     Total([r \in R |-> Cardinality({e \in route[r] : home[r] = p[1] /\ GpuOf(e) = p[2]})], R)]

Local(a, b) == a \div GpusPerHost = b \div GpusPerHost

(* Each GPU receives its local and its remote transfers one after another  *)
(* on two queues that drain in parallel; the phase lasts until all have.   *)
PhaseTime(flow) ==
  LET into(g)   == [a \in Gpus |-> flow[<<a, g>>]]
      local(g)  == Total(into(g), {a \in Gpus : Local(a, g)})
      remote(g) == Total(into(g), {a \in Gpus : ~Local(a, g)})
  IN  Max({Max({local(g) * IntraDelay, remote(g) * InterDelay}) : g \in Gpus})

Back(flow) == [p \in Gpus \X Gpus |-> flow[<<p[2], p[1]>>]]

(* _simulate_worker_compute_time: a queue of n tokens is computed in       *)
(* batches of at most MaxBatch; the order of the queues does not matter.   *)
QueueTime(n) == (n \div MaxBatch) * BatchCost[MaxBatch]
                + (IF n % MaxBatch = 0 THEN 0 ELSE BatchCost[n % MaxBatch])

ExpertTime(R, route) ==
  LET load == [e \in Experts |-> QueueTime(Cardinality({r \in R : e \in route[r]}))]
      worker(g) == Total(load, {e \in Experts : GpuOf(e) = g})
  IN  Max({worker(g) : g \in Gpus})

(* Attention, dispatch, experts, combine.                                  *)
Stages(R, route) ==
  <<AttentionTime(R), PhaseTime(Flow(R, route)), ExpertTime(R, route),
    PhaseTime(Back(Flow(R, route)))>>

-----------------------------------------------------------------------------
(* The loop of run().                                                      *)

(* _split_into_microbatches: by request id, alternately.                   *)
HalfOf(r) == Cardinality({q \in active : q < r}) % 2

InHalf(h) == {r \in active : cfg.mode = "sync" \/ HalfOf(r) = h}

(* Mutant: an arrival at the current time is not due.                      *)
Due_Late(t) == Cardinality({r \in Requests : r >= index /\ cfg.arrivals[r + 1] < t})

(* _release_new_arrivals at time t.                                        *)
Due(t) == Cardinality({r \in Requests : r >= index /\ cfg.arrivals[r + 1] <= t})

(* Mutant: one request too many is admitted.                               *)
Places_OneMore == MaxActive - Cardinality(active) + 1

Places == MaxActive - Cardinality(active)

(* The requests from a up to b - 1, in the order of their arrival.         *)
Run(a, b) == [i \in 1 .. b - a |-> a + i - 1]

(* _release_new_arrivals, then _fill_active_requests.                      *)
Fill ==
  LET queue == waiting \o Run(index, index + Due(now))
      n == Min({Len(queue), Places})
      admitted == SubSeq(queue, 1, n)
      seen == Cardinality({r \in Requests : home[r] # None})
  IN  /\ index'   = index + Due(now)
      /\ waiting' = SubSeq(queue, n + 1, Len(queue))
      /\ active'  = active \cup Range(admitted)
      /\ home' = [r \in Requests |->
                    IF \E i \in 1 .. n : admitted[i] = r
                    THEN (seen + (CHOOSE i \in 1 .. n : admitted[i] = r) - 1) % NumGpus
                    ELSE home[r]]
      /\ sat' = IF cfg.stopAfter # None /\ sat = None /\ Cardinality(active') >= MaxActive
                THEN Completed ELSE sat

Admit ==
  /\ pc = "loop" /\ Completed < Expected
  /\ Fill
  /\ pc' = IF active' = {} THEN "wait" ELSE "route"
  /\ UNCHANGED <<cfg, now, nextIndex, doneAt, schedule>>

StopDue(completed) == sat # None /\ completed - sat >= cfg.stopAfter

(* No active request: _advance_to_next_arrival, or leave the loop.         *)
AwaitArrival ==
  /\ pc = "wait"
  /\ \/ /\ index < NumRequests
        /\ now' = Max({now, cfg.arrivals[index + 1]})
        /\ waiting' = waiting \o Run(index, index + Due(now'))
        /\ index' = index + Due(now')
        /\ pc' = IF StopDue(Completed) THEN "stop" ELSE "loop"
     \/ /\ index >= NumRequests
        /\ pc' = "stop"
        /\ UNCHANGED <<now, index, waiting>>
  /\ UNCHANGED <<cfg, active, home, nextIndex, doneAt, sat, schedule>>

(* _spawn_tokens_for_iteration and the routing of every layer.             *)
Route ==
  /\ pc = "route"
  /\ \E route \in [Layers -> [active -> Routes]] :
       times' = [h \in Half |-> [l \in Layers |-> Stages(InHalf(h), route[l])]]
  /\ next' = [h \in Half |-> 0] /\ ready' = [h \in Half |-> 0] /\ free' = 0
  /\ inflight' = [h \in Half |-> 0] /\ spans' = {}
  /\ pc' = cfg.mode
  /\ UNCHANGED <<lifecycle, now>>

(* _finalize_iteration: every token of the iteration completes, offset[r]  *)
(* after its start; the clock moves on by duration.                        *)
Finalize(offset, duration) ==
  /\ doneAt' = [r \in Requests |->
        IF r \in active THEN Append(doneAt[r], now + offset[r]) ELSE doneAt[r]]
  /\ nextIndex' = [r \in Requests |-> nextIndex[r] + IF r \in active THEN 1 ELSE 0]
  /\ active' = {r \in active : nextIndex'[r] < TokensPerRequest}
  /\ now' = now + duration
  /\ pc' = IF StopDue(Completed + Cardinality(active)) THEN "stop" ELSE "loop"
  /\ UNCHANGED <<cfg, index, waiting, home, sat>>

(* The stages of a half, layer after layer.                                *)
StageTimes(h) == [k \in 0 .. 4 * NumLayers - 1 |-> times[h][k \div 4][1 + (k % 4)]]

SerialTime(h) == Total(StageTimes(h), DOMAIN StageTimes(h))

RunSync ==
  /\ pc = "sync"
  /\ Finalize([r \in active |-> SerialTime(0)], SerialTime(0))
  /\ UNCHANGED schedule

-----------------------------------------------------------------------------
(* _schedule_resources: one stage of one half per step, the one that can   *)
(* start first; at equal times transfers before compute, then the first    *)
(* half.  Stages alternate between computing and a transfer.               *)

Pending(h)   == next[h] < 4 * NumLayers
Computes(h)  == next[h] % 2 = 0
Duration(h)  == StageTimes(h)[next[h]]

(* Mutant: a stage does not wait for the transfer before it.               *)
Earliest_InFlightIgnored(h) == IF Computes(h) THEN Max({ready[h], free}) ELSE ready[h]

Earliest(h) == IF Computes(h) THEN Max({ready[h], inflight[h], free}) ELSE ready[h]

Rank(h) == 4 * Earliest(h) + (IF Computes(h) THEN 2 ELSE 0) + h

ScheduleStage(h) ==
  /\ pc = "tbo" /\ Pending(h)
  /\ \A k \in Half : Pending(k) => Rank(h) <= Rank(k)
  /\ LET start == Earliest(h)
         end   == start + Duration(h)
     IN  /\ \/ /\ Computes(h)
               /\ ready' = [ready EXCEPT ![h] = end]
               /\ free' = end
               /\ UNCHANGED inflight
            \/ /\ ~Computes(h)
               /\ inflight' = [inflight EXCEPT ![h] = Max({@, end})]
               /\ UNCHANGED <<ready, free>>
         /\ spans' = spans \cup {[half |-> h, at |-> next[h], start |-> start, end |-> end]}
  /\ next' = [next EXCEPT ![h] = @ + 1]
  /\ UNCHANGED <<lifecycle, now, pc, times>>

Makespan == Max({ready[0], ready[1]})

FinishTbo ==
  /\ pc = "tbo" /\ \A h \in Half : ~Pending(h)
  /\ Finalize([r \in active |-> ready[HalfOf(r)]], Makespan)
  /\ UNCHANGED schedule

-----------------------------------------------------------------------------

LeaveLoop ==
  /\ pc = "loop" /\ Completed >= Expected
  /\ pc' = "stop"
  /\ UNCHANGED <<lifecycle, now, schedule>>

Next == \/ Admit \/ AwaitArrival \/ Route \/ RunSync \/ FinishTbo \/ LeaveLoop
        \/ \E h \in Half : ScheduleStage(h)

Spec == Init /\ [][Next]_vars

(* One thread of straight-line code: it does not stop by itself.           *)
FairSpec == Spec /\ WF_vars(Next)

-----------------------------------------------------------------------------

(* Every variable has the shape the simulators give it.                    *)
TypeOK ==
  /\ cfg \in Configs /\ now \in Nat /\ index \in 0 .. NumRequests
  /\ waiting \in Seq(Requests) /\ active \subseteq Requests
  /\ Cardinality(active) <= MaxActive
  /\ home \in [Requests -> Gpus \cup {None}]
  /\ nextIndex \in [Requests -> 0 .. TokensPerRequest]
  /\ doneAt \in [Requests -> Seq(Nat)]
  /\ \A r \in Requests : Len(doneAt[r]) = nextIndex[r]
  /\ sat \in Nat \cup {None}
  /\ pc \in {"loop", "wait", "route", "sync", "tbo", "stop"}
  /\ pc \in {"sync", "tbo"} =>
       \A h \in Half : \A k \in 0 .. 4 * NumLayers - 1 : StageTimes(h)[k] \in Nat
  /\ next \in [Half -> 0 .. 4 * NumLayers]
  /\ ready \in [Half -> Nat] /\ inflight \in [Half -> Nat] /\ free \in Nat
  /\ spans \subseteq [half : Half, at : 0 .. 4 * NumLayers - 1, start : Nat, end : Nat]

(* In the overlapped schedule two compute stages never run at once, and no *)
(* stage of a half starts before its previous one has ended, transfers     *)
(* included (_schedule_resources; the class comment of TBOMoESimulator).   *)
ScheduleIsFeasible ==
  \A s, t \in spans :
    /\ s # t /\ s.at % 2 = 0 /\ t.at % 2 = 0 => s.end <= t.start \/ t.end <= s.start
    /\ s.half = t.half /\ s.at < t.at => s.end <= t.start

(* Overlapping pays: when all stages are placed, neither half ends later   *)
(* than the two would one after the other, nor earlier than it could alone.*)
OverlapPays ==
  pc = "tbo" /\ (\A h \in Half : ~Pending(h)) =>
    \A h \in Half :
      LET lastCombine == times[h][NumLayers - 1][4] IN
      /\ Max({ready[h], inflight[h]}) <= SerialTime(0) + SerialTime(1)
      /\ ready[h] >= SerialTime(h) - lastCombine

(* A token completes after its request arrived and after the tokens before *)
(* it, and never later than the clock.                                     *)
CompletionsInOrder ==
  \A r \in Requests : \A i \in DOMAIN doneAt[r] :
    /\ cfg.arrivals[r + 1] <= doneAt[r][i] /\ doneAt[r][i] <= now
    /\ i > 1 => doneAt[r][i - 1] <= doneAt[r][i]

(* The time of an iteration is right: types hold, the overlapped schedule  *)
(* can be carried out and pays, and tokens complete in order.              *)
TimesAreSound ==
  TypeOK /\ ScheduleIsFeasible /\ OverlapPays /\ CompletionsInOrder

(* Requests are admitted in order as soon as a place is free, and complete *)
(* their tokens one at a time.                                             *)
A == INSTANCE Autoregressive WITH arrived <- index,
                                  done <- [r \in Requests |-> Len(doneAt[r])]
ImplementsAutoregressive == A!Spec

(* The loop ends, and unless it was told to stop early it ends with every  *)
(* token completed.                                                        *)
RunEnds == <>(pc = "stop" /\ (Completed = Expected \/ cfg.stopAfter # None))
=============================================================================
