-------------------------- MODULE ControllerSession --------------------------
(***************************************************************************)
(* The controller's event loop over several serving sessions:              *)
(* disagmoe/frontend/controller.py (put, poll, process, reset, AsyncResult)*)
(* disagmoe/scheduler/dpscheduler.py (start, waiting_loop, terminate),     *)
(* the Detokenizer of disagmoe/frontend/tokenizer.py, and the server that  *)
(* drives them (benchmark/server.py run_once, benchmark_serving.py).       *)
(*                                                                         *)
(* Everything but the workers and the detokenizer is a task of one asyncio *)
(* loop, so a step of a task runs undisturbed up to its next await.  Tasks *)
(* that were created start in that order (fresh); which of the others goes *)
(* on next is left open.  Nothing here is persisted between sessions, but  *)
(* the scheduler's and the controller's fields simply stay.                *)
(*                                                                         *)
(* Ranks and blocks are in KVAdmission: here a request takes one of        *)
(* Capacity places.                                                        *)
(***************************************************************************)
EXTENDS Naturals, Sequences, FiniteSets

CONSTANTS Session,   \* 1 .. number of calls of run_once
          Req,       \* requests (ids are never reused: Counter)
          SessionOf, \* the session that puts each request
          NumTokens, \* output_len of each request
          Capacity,  \* requests that fit the KV cache
          None       \* waiting_loop holds no request

ASSUME SessionAssumption ==
  /\ IsFiniteSet(Session) /\ Session = 1 .. Cardinality(Session)
  /\ SessionOf \in [Req -> Session] /\ NumTokens \in [Req -> Nat \ {0}]
  /\ Capacity \in Nat \ {0} /\ None \notin Req

VARIABLES
  session,  \* sessions begun
  driver,   \* where run_once is
  client,   \* the process_response task of each request
  fresh,    \* tasks created and not yet started, oldest first
  inFlight, \* in_flight_reqs
  tracked,  \* keys of request_results
  queue,    \* waiting_queue
  loop,     \* the waiting_loop task
  held,     \* the request it could not place
  endEvent, schEvent,
  room,     \* kv_cache_stats
  charged,  \* keys of seq_ranks
  polling,  \* the poll_finished_results task
  broken,   \* tasks that ended with a KeyError
  left,     \* tokens each request has still to produce on its worker
  slo,      \* slo_stats of the detokenizer: requests it knows
  finished  \* its finished_seqs

scheduler == <<queue, loop, held, endEvent, schEvent, room, charged>>
workers   == <<left, slo, finished>>
vars      == <<session, driver, client, fresh, inFlight, tracked, scheduler, polling, broken, workers>>

Task == [task : {"client"}, req : Req] \cup [task : {"finish"}, reqs : SUBSET Req]
          \cup [task : {"waiting_loop", "poll"}]

TypeOK ==
  /\ session \in Session \cup {0}
  /\ driver \in {"idle", "put", "stop_scheduler", "await_loop"}
  /\ client \in [Req -> {"none", "created", "waiting", "notified", "answered"}]
  /\ fresh \in Seq(Task)
  /\ inFlight \subseteq Req /\ tracked \subseteq Req /\ charged \subseteq Req
  /\ queue \in Seq(Req)
  /\ loop \in {"none", "created", "getting", "parked", "done"}
  /\ held \in Req \cup {None}
  /\ endEvent \in BOOLEAN /\ schEvent \in BOOLEAN
  /\ room \in 0 .. Capacity
  /\ polling \in {"none", "created", "asleep", "cancelled"}
  /\ broken \subseteq {"finish"}
  /\ left \in [Req -> Nat] /\ slo \subseteq Req /\ finished \subseteq Req

Init ==
  /\ session = 0 /\ driver = "idle"
  /\ client = [r \in Req |-> "none"] /\ fresh = <<>>
  /\ inFlight = {} /\ tracked = {} /\ charged = {}
  /\ queue = <<>> /\ loop = "none" /\ held = None
  /\ endEvent = FALSE /\ schEvent = FALSE /\ room = Capacity
  /\ polling = "none" /\ broken = {}
  /\ left = [r \in Req |-> 0] /\ slo = {} /\ finished = {}

Mine == {r \in Req : SessionOf[r] = session}

-----------------------------------------------------------------------------
(* run_once: the driver.                                                   *)

(* start_polling_results, start_scheduler and DPScheduler.start with its   *)
(* reset; the new counts are those of the workers, all free.               *)
StartSession ==
  /\ driver = "idle" /\ session + 1 \in Session
  /\ session' = session + 1
  /\ driver'  = "put"
  /\ polling' = "created" /\ loop' = "created"
  /\ fresh'   = fresh \o <<[task |-> "poll"], [task |-> "waiting_loop"]>>
  /\ room'    = Capacity
  /\ queue'   = <<>> /\ endEvent' = FALSE /\ schEvent' = FALSE
  /\ UNCHANGED <<client, inFlight, tracked, held, charged, broken, workers>>

(* put_single_request, and the process_response task of its result.        *)
Put(r) ==
  /\ driver = "put" /\ r \in Mine /\ client[r] = "none"
  /\ inFlight' = inFlight \cup {r} /\ tracked' = tracked \cup {r}
  /\ queue'    = Append(queue, r)
  /\ client'   = [client EXCEPT ![r] = "created"]
  /\ fresh'    = Append(fresh, [task |-> "client", req |-> r])
  /\ UNCHANGED <<session, driver, loop, held, endEvent, schEvent, room, charged, polling, broken,
                 workers>>

(* Mutant: the driver goes on when everything is put.                      *)
Gathered_AllPut == \A r \in Mine : client[r] # "none"

(* gather returns when every response has come; then Controller.reset,     *)
(* which resets the detokenizer but not the scheduler.                     *)
Gathered == \A r \in Mine : client[r] = "answered"

Reset ==
  /\ driver = "put" /\ Gathered
  /\ inFlight' = {} /\ tracked' = {}
  /\ slo' = {} /\ finished' = {}
  /\ driver' = "stop_scheduler"
  /\ UNCHANGED <<session, client, fresh, scheduler, polling, broken, left>>

(* terminate: it waits for waiting_loop to return.                         *)
StopScheduler ==
  /\ driver = "stop_scheduler"
  /\ endEvent' = TRUE
  /\ driver' = "await_loop"
  /\ UNCHANGED <<session, client, fresh, inFlight, tracked, queue, loop, held, schEvent, room,
                 charged, polling, broken, workers>>

FreshWithout(i) == SubSeq(fresh, 1, i - 1) \o SubSeq(fresh, i + 1, Len(fresh))

(* stop_polling_results cancels the task; a task that was never started is *)
(* cancelled as well.                                                      *)
StopPolling ==
  /\ driver = "await_loop" /\ loop = "done"
  /\ polling' = "cancelled"
  /\ \/ fresh' = fresh /\ \A i \in DOMAIN fresh : fresh[i].task # "poll"
     \/ \E i \in DOMAIN fresh : fresh[i].task = "poll" /\ fresh' = FreshWithout(i)
  /\ driver' = "idle"
  /\ UNCHANGED <<session, client, inFlight, tracked, scheduler, broken, workers>>

-----------------------------------------------------------------------------
(* Mutant: a task may start before one created earlier.                    *)
Starts_AnyOrder(t) ==
  \E i \in DOMAIN fresh : fresh[i] = t /\ fresh' = FreshWithout(i)

(* asyncio starts tasks in the order in which they were created.           *)
Starts(t) == fresh # <<>> /\ Head(fresh) = t /\ fresh' = Tail(fresh)

(* AsyncResult.get: wait() parks on the condition without looking at       *)
(* slo_stat first.                                                         *)
ClientStarts(r) ==
  /\ Starts([task |-> "client", req |-> r])
  /\ client' = [client EXCEPT ![r] = "waiting"]
  /\ UNCHANGED <<session, driver, inFlight, tracked, scheduler, polling, broken, workers>>

ClientReturns(r) ==
  /\ client[r] = "notified"
  /\ client' = [client EXCEPT ![r] = "answered"]
  /\ UNCHANGED <<session, driver, fresh, inFlight, tracked, scheduler, polling, broken, workers>>

(* waiting_loop up to its next await.  end_event is looked at only when it *)
(* waits for a request.                                                    *)
LoopStarts ==
  /\ Starts([task |-> "waiting_loop"])
  /\ loop' = "getting"
  /\ UNCHANGED <<session, driver, client, inFlight, tracked, queue, held, endEvent, schEvent, room,
                 charged, polling, broken, workers>>

LoopEnds ==
  /\ loop = "getting" /\ endEvent
  /\ loop' = "done"
  /\ queue' = IF queue = <<>> THEN queue ELSE Tail(queue)
  /\ UNCHANGED <<session, driver, client, fresh, inFlight, tracked, held, endEvent, schEvent, room,
                 charged, polling, broken, workers>>

(* Mutant: add_seq does not charge.                                        *)
TryToPlace_NotCharged(r) ==
  /\ loop' = "getting" /\ held' = None /\ room' = room /\ charged' = charged \cup {r}
  /\ left' = [left EXCEPT ![r] = NumTokens[r]]

(* schedule and add_seq, and the request goes to its worker; or it waits.  *)
TryToPlace(r) ==
  IF room = 0
  THEN /\ loop' = "parked" /\ held' = r
       /\ UNCHANGED <<room, charged, left>>
  ELSE /\ loop' = "getting" /\ held' = None
       /\ room' = room - 1 /\ charged' = charged \cup {r}
       /\ left' = [left EXCEPT ![r] = NumTokens[r]]

TakeRequest ==
  /\ loop = "getting" /\ ~endEvent /\ queue # <<>>
  /\ queue' = Tail(queue)
  /\ TryToPlace(Head(queue))
  /\ UNCHANGED <<session, driver, client, fresh, inFlight, tracked, endEvent, schEvent, polling,
                 broken, slo, finished>>

RetryHeld ==
  /\ loop = "parked" /\ schEvent
  /\ schEvent' = FALSE
  /\ TryToPlace(held)
  /\ UNCHANGED <<session, driver, client, fresh, inFlight, tracked, queue, endEvent, polling, broken,
                 slo, finished>>

(* poll_finished_results fetches what the detokenizer has finished and     *)
(* starts a task for it, then sleeps.                                      *)
Fetch ==
  /\ finished' = {} /\ slo' = slo \ finished
  /\ polling' = "asleep"

PollStarts ==
  /\ Starts([task |-> "poll"])
  /\ polling' = "asleep"
  /\ UNCHANGED <<session, driver, client, inFlight, tracked, scheduler, broken, workers>>

Poll ==
  /\ polling = "asleep" /\ finished # {}
  /\ Fetch
  /\ fresh' = Append(fresh, [task |-> "finish", reqs |-> finished])
  /\ UNCHANGED <<session, driver, client, inFlight, tracked, scheduler, broken, left>>

(* Mutants: the rank is kept; the waiting loop is not woken.               *)
DelSeqs_KeepRank(reqs) ==
  charged' = charged /\ room' = room + Cardinality(reqs) /\ schEvent' = TRUE

DelSeqs_NoWake(reqs) ==
  charged' = charged \ reqs /\ room' = room + Cardinality(reqs) /\ UNCHANGED schEvent

(* del_seq.                                                                *)
DelSeqs(reqs) ==
  /\ charged' = charged \ reqs
  /\ room' = room + Cardinality(reqs)
  /\ schEvent' = TRUE

(* process_finished_results: remove, del_seq and put for every result.  No *)
(* await of it really gives up the loop, as no one holds the conditions.   *)
(* A missing entry ends the task with a KeyError nobody sees.              *)
Notified(reqs) == {r \in reqs : client[r] = "waiting"}

Finish(reqs) ==
  /\ Starts([task |-> "finish", reqs |-> reqs])
  /\ IF reqs \subseteq inFlight \cap charged \cap tracked
     THEN /\ inFlight' = inFlight \ reqs /\ tracked' = tracked \ reqs
          /\ DelSeqs(reqs)
          /\ client' = [r \in Req |-> IF r \in Notified(reqs) THEN "notified" ELSE client[r]]
          /\ UNCHANGED broken
     ELSE /\ broken' = {"finish"}
          /\ UNCHANGED <<inFlight, tracked, charged, room, schEvent, client>>
  /\ UNCHANGED <<session, driver, queue, loop, held, endEvent, polling, workers>>

-----------------------------------------------------------------------------
(* A worker samples a token; Detokenizer.process_batch.                    *)
Token(r) ==
  /\ left[r] > 0
  /\ left' = [left EXCEPT ![r] = @ - 1]
  /\ slo' = slo \cup {r}
  /\ finished' = IF left[r] = 1 THEN finished \cup {r} ELSE finished
  /\ UNCHANGED <<session, driver, client, fresh, inFlight, tracked, scheduler, polling, broken>>

Driver == StartSession \/ (\E r \in Req : Put(r)) \/ Reset \/ StopScheduler \/ StopPolling

WaitingLoop == LoopStarts \/ LoopEnds \/ TakeRequest \/ RetryHeld

Next ==
  \/ Driver
  \/ WaitingLoop
  \/ PollStarts
  \/ Poll
  \/ \E r \in Req : ClientStarts(r)
  \/ \E r \in Req : ClientReturns(r)
  \/ \E reqs \in SUBSET Req : Finish(reqs)
  \/ \E r \in Req : Token(r)

Spec == Init /\ [][Next]_vars

(* Every task that can run does, timers expire and workers run on.         *)
FairSpec == Spec /\ WF_vars(Next)

-----------------------------------------------------------------------------
(* A request that is with the workers or the detokenizer is known to the   *)
(* controller and charged, so its result finds all its entries: no reset   *)
(* and no second poll gets ahead of a result (process_finished_results,    *)
(* reset, fetch_finished_results).                                         *)
Unreported == {r \in Req : left[r] > 0} \cup finished
                \cup UNION {fresh[i].reqs : i \in {j \in DOMAIN fresh : fresh[j].task = "finish"}}

ResultsAreExpected ==
  /\ TypeOK
  /\ broken = {}
  /\ Unreported \subseteq inFlight \cap tracked \cap charged
  /\ room + Cardinality(charged) = Capacity

(* A result is never put before somebody waits for it: AsyncResult forgets *)
(* a notification nobody waits for, and get would then never return.       *)
NoResultMissed ==
  \A r \in Req : client[r] \in {"created", "waiting"} => r \in tracked

(* A session leaves nothing behind that the next one would trip over: the  *)
(* scheduler restarts with fresh queues and counts, but keeps seq_ranks.   *)
SessionsAreClean ==
  driver = "idle" =>
    /\ queue = <<>> /\ held = None /\ charged = {} /\ fresh = <<>>
    /\ inFlight = {} /\ tracked = {} /\ slo = {}

(* Every session ends with all its requests answered: admission, polling   *)
(* and notification hang together, and terminate does not wait for a       *)
(* waiting_loop that is parked on sch_event.                               *)
SessionsEnd == \A s \in Session : session = s ~> (driver = "idle" /\ Gathered)
=============================================================================
