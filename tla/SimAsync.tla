------------------------------- MODULE SimAsync -------------------------------
(***************************************************************************)
(* The asynchronous serving simulator (simulation/sim_async.py): a request *)
(* manager, one worker per GPU that computes either one attention token or *)
(* one expert batch at a time, routing processes that carry a token to its *)
(* experts, and two FIFO receive channels per GPU.                         *)
(*                                                                         *)
(* Simulated delays are arbitrary: whatever transfer, compute or timeout   *)
(* is under way may be the next to end.  What one simpy event does without *)
(* yielding is one atomic chain: while a worker is at "top" or at          *)
(* "deliver" nothing else moves.  A token is the pair of its request and   *)
(* its index.                                                              *)
(***************************************************************************)
EXTENDS SimCluster, Sequences, SequencesExt, FiniteSetsExt, Functions, Totals

CONSTANTS TopK,
          AsyncConfigs \* [policy, congested, stopAfter]

(* A request can be active (max_active_requests of None is a place for     *)
(* each), and a token goes to TopK experts at most.                        *)
ASSUME AsyncAssumption ==
  /\ MaxActive # 0
  /\ TopK \in Nat /\ \A E \in Routes : Cardinality(E) <= TopK
  /\ \A c \in AsyncConfigs : c.stopAfter \in Nat \cup {None}

Tokens == Requests \X (0 .. TokensPerRequest - 1)

LocalExperts == 0 .. ExpertsPerGpu - 1
QueueOf(e)   == e % ExpertsPerGpu
Queues       == Layers \X LocalExperts

VARIABLES
  setup,    \* [policy, congested, stopAfter] of this run
  arrived,  \* the requests the source has admitted so far
  pending,  \* RequestManager._pending_queue
  issued,   \* _request_state: tokens dispatched of an active request, else None
  homeOf,   \* _request_home_gpu
  nextHome, \* _next_home_gpu
  done,     \* tokens of each request that have completed
  attnQ,    \* attention_queue of each GPU: <<layer, token>>
  queue,    \* queues[layer][local expert] of each GPU
  total,    \* _total_queue_length
  woken,    \* has_work.triggered
  at,       \* where the worker process of each GPU stands
  work,     \* what it works on: [layer, batch]
  routing,  \* route_and_dispatch processes: [token, layer, experts]
  fanout,   \* layer_fanout of each token
  joined,   \* completions counted per layer (pending_counts, _pending_counts)
  channel,  \* transfers waiting in each receive channel, by owner
  satAt,    \* completed tokens when the run saturated
  stopped   \* the driver left its loop early

manager == <<pending, issued, homeOf, nextHome>>
gpuWork == <<attnQ, queue, total, woken>>
driver  == <<satAt, stopped>>
asyncVars == <<setup, arrived, manager, done, gpuWork, at, work, routing, fanout,
               joined, channel, driver>>

Idle == [layer |-> 0, batch |-> <<>>]

Active == {r \in Requests : issued[r] # None}
CompletedTokens == Total(done, Requests)

AsyncInit ==
  /\ setup \in AsyncConfigs
  /\ arrived = 0 /\ pending = <<>> /\ nextHome = 0
  /\ issued = [r \in Requests |-> None]
  /\ homeOf = [r \in Requests |-> None]
  /\ done   = [r \in Requests |-> 0]
  /\ attnQ  = [g \in Gpus |-> <<>>]
  /\ queue  = [g \in Gpus |-> [q \in Queues |-> <<>>]]
  /\ total  = [g \in Gpus |-> 0]
  /\ woken  = [g \in Gpus |-> FALSE]
  /\ at     = [g \in Gpus |-> "top"]
  /\ work   = [g \in Gpus |-> Idle]
  /\ routing = {}
  /\ fanout  = [t \in Tokens |-> [l \in Layers |-> 0]]
  /\ joined  = [t \in Tokens |-> [l \in Layers |-> 0]]
  /\ channel = [c \in Gpus \X {"nvlink", "rdma"} |-> <<>>]
  /\ satAt = None /\ stopped = FALSE

-----------------------------------------------------------------------------
(* The driver looks at the system between two events.                      *)

InEvent == \E g \in Gpus : at[g] \in {"top", "deliver"}

Saturates == /\ setup.stopAfter # None /\ satAt = None
             /\ Cardinality(Active) >= MaxActive

(* Mutant: one token more than asked for.                                  *)
EnoughAfter_OneMore == satAt # None /\ CompletedTokens - satAt > setup.stopAfter

EnoughAfter == satAt # None /\ CompletedTokens - satAt >= setup.stopAfter

MarkSaturation ==
  /\ ~InEvent /\ ~stopped /\ Saturates
  /\ satAt' = CompletedTokens
  /\ UNCHANGED <<setup, arrived, manager, done, gpuWork, at, work, routing,
                 fanout, joined, channel, stopped>>

StopEarly ==
  /\ ~InEvent /\ ~stopped /\ EnoughAfter
  /\ stopped' = TRUE
  /\ UNCHANGED <<setup, arrived, manager, done, gpuWork, at, work, routing,
                 fanout, joined, channel, satAt>>

BetweenEvents == ~InEvent /\ ~Saturates /\ ~EnoughAfter /\ ~stopped

-----------------------------------------------------------------------------
(* Requests.                                                               *)

(* Mutant: a worker with attention work counts as having none.             *)
NoWork_ExpertsOnly(g) == total[g] = 0

NoWork(g) == total[g] = 0 /\ attnQ[g] = <<>>

(* Attention work for these tokens joins the queue of the GPU at[i] of     *)
(* each; a GPU that had no work at all is woken by the first of them.      *)
QueueAttention(layer, toks, gpu) ==
  LET add(g) == FlattenSeq([i \in DOMAIN toks |->
                  IF gpu[i] = g THEN <<<<layer, toks[i]>>>> ELSE <<>>])
  IN  /\ attnQ' = [g \in Gpus |-> attnQ[g] \o add(g)]
      /\ woken' = [g \in Gpus |-> \/ woken[g]
                                  \/ add(g) # <<>> /\ NoWork(g)]
      /\ UNCHANGED <<queue, total>>

(* _start_request_now for each request of a sequence, in its order.        *)
Start(rs, left) ==
  LET gpu == [i \in DOMAIN rs |-> (nextHome + i - 1) % NumGpus]
      pos(r) == CHOOSE i \in DOMAIN rs : rs[i] = r
  IN  /\ issued' = [r \in Requests |-> IF r \in Range(rs) THEN 1 ELSE left[r]]
      /\ homeOf' = [r \in Requests |-> IF r \in Range(rs) THEN gpu[pos(r)]
                                       ELSE IF left[r] = None THEN None ELSE homeOf[r]]
      /\ nextHome' = nextHome + Len(rs)
      /\ QueueAttention(0, [i \in DOMAIN rs |-> <<rs[i], 0>>], gpu)

(* Mutant: one request too many is admitted.                               *)
PlaceFree_OneMore == Cardinality(Active) <= MaxActive

PlaceFree == Cardinality(Active) < MaxActive

(* request_source: the next request arrives.                               *)
Arrive ==
  /\ BetweenEvents /\ arrived < NumRequests
  /\ arrived' = arrived + 1
  /\ \/ /\ PlaceFree
        /\ Start(<<arrived>>, issued)
        /\ UNCHANGED pending
     \/ /\ ~PlaceFree
        /\ pending' = Append(pending, arrived)
        /\ UNCHANGED <<issued, homeOf, nextHome, gpuWork>>
  /\ UNCHANGED <<setup, done, at, work, routing, fanout, joined, channel, driver>>

(* Mutant: no waiting request is admitted when a place is freed.           *)
Room_NotRefilled(S) == 0

(* How many waiting requests fit once the active set is S.                 *)
Room(S) == Min({Len(pending), MaxActive - Cardinality(S)})

(* handle_token_completion: the request's next token, or its end and the   *)
(* admission of the requests that waited for its place.                    *)
TokenCompletes(t) ==
  LET r == t[1] IN
  /\ done' = [done EXCEPT ![r] = @ + 1]
  /\ \/ /\ t[2] + 1 < TokensPerRequest
        /\ issued' = [issued EXCEPT ![r] = @ + 1]
        /\ QueueAttention(0, <<<<r, issued[r]>>>>, <<homeOf[r]>>)
        /\ UNCHANGED <<pending, homeOf, nextHome>>
     \/ /\ t[2] + 1 >= TokensPerRequest
        /\ LET n == Room(Active \ {r}) IN
           /\ pending' = SubSeq(pending, n + 1, Len(pending))
           /\ Start(SubSeq(pending, 1, n), [issued EXCEPT ![r] = None])

-----------------------------------------------------------------------------
(* Receive channels.                                                       *)

Link(src, dst) == IF src \div GpusPerHost = dst \div GpusPerHost THEN "nvlink" ELSE "rdma"

(* One transfer from src to each GPU of dsts, for this owner: a routed     *)
(* token <<token, layer>> or the batch of a worker <<gpu>>.                *)
Send(owner, src, dsts) ==
  channel' = [c \in DOMAIN channel |->
                IF setup.congested /\ c[1] \in dsts /\ c[2] = Link(src, c[1])
                THEN Append(channel[c], owner) ELSE channel[c]]

Transferring(owner) == \E c \in DOMAIN channel : owner \in Range(channel[c])

TransferDone(c) ==
  /\ BetweenEvents /\ channel[c] # <<>>
  /\ channel' = [channel EXCEPT ![c] = Tail(@)]
  /\ UNCHANGED <<setup, arrived, manager, done, gpuWork, at, work, routing,
                 fanout, joined, driver>>

-----------------------------------------------------------------------------
(* What a worker does next.  Scores are in units of 1/125: the decay 0.8   *)
(* and its powers are 100, 80 and 64.                                      *)

LayerTotal(g, l) == Total([x \in LocalExperts |-> Len(queue[g][<<l, x>>])], LocalExperts)

(* _select_next_layer_longest_first and _select_next_layer_defragging.     *)
Score(g, l) ==
  LET ahead(k) == LayerTotal(g, (l + k) % NumLayers)
  IN  IF LayerTotal(g, l) = 0 THEN 0
      ELSE 125 * LayerTotal(g, l)
           + IF setup.policy = "longest_queue_first" THEN 0
             ELSE 100 * ahead(1) + 80 * ahead(2) + 64 * ahead(3)

BestScore(g) == Max({Score(g, l) : l \in Layers})

(* The first layer of highest score; None without tokens.                  *)
BestLayer(g) == IF BestScore(g) = 0 THEN None
                ELSE Min({l \in Layers : Score(g, l) = BestScore(g)})

AttentionFirst(g) == 125 * TopK * Len(attnQ[g]) > BestScore(g)

(* Mutant: a batch takes whole queues.                                     *)
Share_Unbounded(g, l, x) == Len(queue[g][<<l, x>>])

(* The tokens a batch of layer l takes from its x-th queue.                *)
Share(g, l, x) ==
  LET before == Total([y \in LocalExperts |-> Len(queue[g][<<l, y>>])], 0 .. x - 1)
  IN  Min({Len(queue[g][<<l, x>>]), Max({0, MaxBatch - before})})

(* _select_next_task and the start of what it chose.                       *)
TakeTask(g) ==
  \/ /\ AttentionFirst(g)
     /\ attnQ' = [attnQ EXCEPT ![g] = Tail(@)]
     /\ work'  = [work EXCEPT ![g] = [layer |-> Head(attnQ[g])[1],
                                      batch |-> <<Head(attnQ[g])[2]>>]]
     /\ at' = [at EXCEPT ![g] = "attention"]
     /\ UNCHANGED <<queue, total>>
  \/ /\ ~AttentionFirst(g) /\ BestLayer(g) # None
     /\ LET l     == BestLayer(g)
            batch == FlattenSeq([i \in 1 .. ExpertsPerGpu |->
                       SubSeq(queue[g][<<l, i - 1>>], 1, Share(g, l, i - 1))])
        IN /\ queue' = [queue EXCEPT ![g] = [q \in Queues |->
                 IF q[1] = l THEN SubSeq(@[q], Share(g, l, q[2]) + 1, Len(@[q])) ELSE @[q]]]
           /\ total' = [total EXCEPT ![g] = @ - Len(batch)]
           /\ work'  = [work EXCEPT ![g] = [layer |-> l, batch |-> batch]]
     /\ at' = [at EXCEPT ![g] = "expert"]
     /\ UNCHANGED attnQ
  \/ /\ attnQ[g] = <<>> /\ BestLayer(g) = None
     /\ at' = [at EXCEPT ![g] = "top"]
     /\ UNCHANGED <<attnQ, queue, total, work>>

(* The top of the loop: sleep on a fresh event, or go on.                  *)
LoopTop(g) ==
  /\ at[g] = "top" /\ \A h \in Gpus : at[h] # "deliver"
  /\ \/ /\ NoWork(g)
        /\ woken' = [woken EXCEPT ![g] = FALSE]
        /\ at' = [at EXCEPT ![g] = "asleep"]
        /\ UNCHANGED <<attnQ, queue, total, work>>
     \/ /\ ~NoWork(g)
        /\ TakeTask(g)
        /\ UNCHANGED woken
  /\ UNCHANGED <<setup, arrived, manager, done, routing, fanout, joined, channel, driver>>

Wake(g) ==
  /\ BetweenEvents /\ at[g] = "asleep" /\ woken[g]
  /\ TakeTask(g)
  /\ UNCHANGED <<setup, arrived, manager, done, woken, routing, fanout, joined,
                 channel, driver>>

-----------------------------------------------------------------------------
(* Attention, routing and dispatch.                                        *)

(* Attention ends: the router picks the token's experts, the transfers to  *)
(* their GPUs start, and the worker goes back to its loop.                 *)
AttentionDone(g) ==
  /\ BetweenEvents /\ at[g] = "attention"
  /\ LET t == work[g].batch[1]
         l == work[g].layer
     IN \E E \in Routes :
          /\ routing' = routing \cup {[token |-> t, layer |-> l, experts |-> E]}
          /\ fanout' = [fanout EXCEPT ![t][l] = Cardinality(E)]
          /\ Send(<<t, l>>, homeOf[t[1]], {GpuOf(e) : e \in E})
  /\ work' = [work EXCEPT ![g] = Idle]
  /\ at' = [at EXCEPT ![g] = "top"]
  /\ UNCHANGED <<setup, arrived, manager, done, gpuWork, joined, driver>>

(* All transfers of a routed token have ended: a copy joins the queue of   *)
(* each chosen expert.                                                     *)
Dispatched(d) ==
  /\ BetweenEvents /\ d \in routing /\ ~Transferring(<<d.token, d.layer>>)
  /\ LET copies(g) == {e \in d.experts : GpuOf(e) = g} IN
     /\ queue' = [g \in Gpus |-> [q \in Queues |->
                    IF q[1] = d.layer /\ \E e \in copies(g) : QueueOf(e) = q[2]
                    THEN Append(queue[g][q], d.token) ELSE queue[g][q]]]
     /\ total' = [g \in Gpus |-> total[g] + Cardinality(copies(g))]
     /\ woken' = [g \in Gpus |-> \/ woken[g]
                                 \/ copies(g) # {} /\ NoWork(g)]
  /\ routing' = routing \ {d}
  /\ UNCHANGED <<setup, arrived, manager, done, attnQ, at, work, fanout, joined,
                 channel, driver>>

-----------------------------------------------------------------------------
(* Expert batches.                                                         *)

(* The batch is computed: one transfer to the home GPU of its tokens each. *)
ExpertDone(g) ==
  /\ BetweenEvents /\ at[g] = "expert"
  /\ Send(<<g>>, g, {homeOf[t[1]] : t \in Range(work[g].batch)})
  /\ at' = [at EXCEPT ![g] = "return"]
  /\ UNCHANGED <<setup, arrived, manager, done, gpuWork, work, routing, fanout,
                 joined, driver>>

Returned(g) ==
  /\ BetweenEvents /\ at[g] = "return" /\ ~Transferring(<<g>>)
  /\ at' = [at EXCEPT ![g] = "deliver"]
  /\ UNCHANGED <<setup, arrived, manager, done, gpuWork, work, routing, fanout,
                 joined, channel, driver>>

(* Mutant: the first reply completes a token.                              *)
LastReply_First(t, l) == TRUE

LastReply(t, l) == joined[t][l] + 1 = fanout[t][l]

(* notify_expert_completion of the next layer, or record_completion after  *)
(* the last one, for the next token of the batch.                          *)
Deliver(g) ==
  /\ at[g] = "deliver" /\ work[g].batch # <<>>
  /\ LET t == Head(work[g].batch)
         l == work[g].layer
         last == LastReply(t, l)
     IN  /\ joined' = [joined EXCEPT ![t][l] = IF last THEN 0 ELSE @ + 1]
         /\ \/ /\ ~last
               /\ UNCHANGED <<manager, done, gpuWork, fanout>>
            \/ /\ last /\ l < NumLayers - 1
               /\ QueueAttention(l + 1, <<t>>, <<homeOf[t[1]]>>)
               /\ UNCHANGED <<manager, done, fanout>>
            \/ /\ last /\ l = NumLayers - 1
               /\ TokenCompletes(t)
               /\ fanout' = [fanout EXCEPT ![t] = [k \in Layers |-> 0]]
  /\ work' = [work EXCEPT ![g].batch = Tail(@)]
  /\ UNCHANGED <<setup, arrived, at, routing, channel, driver>>

Delivered(g) ==
  /\ at[g] = "deliver" /\ work[g].batch = <<>>
  /\ work' = [work EXCEPT ![g] = Idle]
  /\ at' = [at EXCEPT ![g] = "top"]
  /\ UNCHANGED <<setup, arrived, manager, done, gpuWork, routing, fanout, joined,
                 channel, driver>>

-----------------------------------------------------------------------------

Worker(g) == \/ LoopTop(g) \/ Wake(g) \/ AttentionDone(g)
             \/ ExpertDone(g) \/ Returned(g) \/ Deliver(g) \/ Delivered(g)

AsyncNext ==
  \/ Arrive
  \/ \E c \in DOMAIN channel : TransferDone(c)
  \/ \E d \in routing : Dispatched(d)
  \/ \E g \in Gpus : Worker(g)
  \/ MarkSaturation
  \/ StopEarly

AsyncSpec == AsyncInit /\ [][AsyncNext]_asyncVars

-----------------------------------------------------------------------------

(* Every variable has the shape the simulator gives it, and a batch never  *)
(* exceeds max_batch_size.                                                 *)
AsyncTypeOK ==
  /\ arrived \in 0 .. NumRequests /\ pending \in Seq(Requests)
  /\ issued \in [Requests -> None .. TokensPerRequest]
  /\ homeOf \in [Requests -> Gpus \cup {None}] /\ nextHome \in Nat
  /\ done \in [Requests -> 0 .. TokensPerRequest]
  /\ attnQ \in [Gpus -> Seq(Layers \X Tokens)]
  /\ queue \in [Gpus -> [Queues -> Seq(Tokens)]]
  /\ total \in [Gpus -> Nat] /\ woken \in [Gpus -> BOOLEAN]
  /\ at \in [Gpus -> {"asleep", "top", "attention", "expert", "return", "deliver"}]
  /\ \A g \in Gpus : work[g].layer \in Layers /\ work[g].batch \in Seq(Tokens)
                     /\ Len(work[g].batch) <= MaxBatch
  /\ fanout \in [Tokens -> [Layers -> 0 .. TopK]]
  /\ joined \in [Tokens -> [Layers -> 0 .. TopK]]
  /\ stopped \in BOOLEAN /\ satAt \in Int

Occurrences(x, s) == Cardinality({i \in DOMAIN s : s[i] = x})

(* The occurrences of a token in attention, and at a layer, on one GPU.     *)
AttentionAt(g, t) ==
  Cardinality({i \in DOMAIN attnQ[g] : attnQ[g][i][2] = t})
  + IF at[g] = "attention" THEN Occurrences(t, work[g].batch) ELSE 0

CopiesAt(g, t, l) ==
  Total([x \in LocalExperts |-> Occurrences(t, queue[g][<<l, x>>])], LocalExperts)
  + IF at[g] \in {"expert", "return", "deliver"} /\ work[g].layer = l
    THEN Occurrences(t, work[g].batch) ELSE 0

InAttention(t) == Total([g \in Gpus |-> AttentionAt(g, t)], Gpus)
Copies(t, l)   == Total([g \in Gpus |-> CopiesAt(g, t, l)], Gpus)

(* A token of an active request is in exactly one place: waiting for or in *)
(* attention, on its way to its experts, or at one layer, where the copies *)
(* still queued or computed and the replies counted make up its fan-out.   *)
(* No other token has left a trace (enqueue_attention, route_and_dispatch, *)
(* notify_expert_completion, FinalCompletionTracker.record_completion).    *)
TokenInOnePlace ==
  \A t \in Tokens :
    LET dispatching == Cardinality({d \in routing : d.token = t})
        busy == {l \in Layers : Copies(t, l) > 0 \/ joined[t][l] > 0}
    IN  /\ InAttention(t) + dispatching + Cardinality(busy)
             = (IF t[2] + 1 = issued[t[1]] THEN 1 ELSE 0)
        /\ \A l \in busy : /\ Copies(t, l) > 0
                           /\ Copies(t, l) + joined[t][l] = fanout[t][l]

(* Variables keep their types and batches their size, and a worker sleeps  *)
(* through no work: without a pending wake-up its queues                   *)
(* are empty, and _total_queue_length is the number of tokens queued (the  *)
(* wake-up in enqueue and enqueue_attention only fires on an empty worker).*)
NoLostWakeup ==
  AsyncTypeOK /\ \A g \in Gpus :
    /\ total[g] = Total([l \in Layers |-> LayerTotal(g, l)], Layers)
    /\ at[g] = "asleep" /\ ~woken[g] => total[g] = 0 /\ attnQ[g] = <<>>

(* Requests are admitted in order as soon as a place is free, and complete *)
(* their tokens one at a time.                                             *)
Promise == INSTANCE Autoregressive
AsyncImplementsAutoregressive == Promise!Spec

(* simpy's event list is empty: nothing is under way and nobody will wake. *)
EventListEmpty ==
  /\ arrived = NumRequests /\ routing = {} /\ ~InEvent
  /\ \A c \in DOMAIN channel : channel[c] = <<>>
  /\ \A g \in Gpus : at[g] = "asleep" /\ ~woken[g]

(* The driver stops after the saturation it waits for, and no later than   *)
(* the event that completes the last token it wanted: one batch of them.   *)
StopsOnTime ==
  /\ satAt # None => CompletedTokens - satAt < setup.stopAfter + MaxBatch
  /\ stopped => satAt # None /\ CompletedTokens - satAt >= setup.stopAfter

(* A run left alone ends only when every token has completed: no token     *)
(* waits for a wake-up, a reply or a place that never comes (the comment   *)
(* at env.run() relies on it); a run told to stop early does so in time.   *)
EndsAsTold ==
  /\ StopsOnTime
  /\ EventListEmpty => \A r \in Requests : done[r] = TokensPerRequest
=============================================================================
