# A TLA+ development of StreamInfer

StreamInfer (DisagMoE) serves mixture-of-experts models without barriers:
attention workers and expert workers hold unified pools of tokens waiting at
some layer, run whatever layer has tokens, and send the results on. No step of
one worker waits for a step of another. This directory models the parts of the
system where that asynchrony can go wrong, and the simulators that stand in for
it, and checks them with TLC. Of the pool, the transport, admission, the engine
loop, the controller's start-up and sessions, the rows of a batch and the lockstep
simulators it also proves with TLAPS, for every value of the constants, every
safety property that is checked. Source paths below are relative to `src/`.

## 1. Inventory

### Components

| Component | Source | State | Operations | Correct when |
|---|---|---|---|---|
| Unified pool, FLFS scheduler | `csrc/muhelper/pool.cpp`, `layer.cpp`, `csrc/engine/scheduler.cpp` | per layer: a queue of batches or tokens and `num_tokens`; per attention layer: half-joined tokens | `process_batch`, `put_batch`, `schedule`, `get_batch_from_layer_restricted` | no token is lost, repeated or overtaken; counts are exact; a scheduled layer has tokens; no layer is overlooked |
| NIXL transport | `csrc/muhelper/nixl_context.cpp`, `nixl_channel.cpp` | send ring, per-peer free receive slots and expected credits, post queue, pending transfers; at the receiver the numbers in flight and completed per slot | `send_impl`, post workers, `drain_pending_xfers`, `poll_notifs`, `drain_meta_arrivals`, `mark_recv_completed`, `send_credit`, `on_recv_credit` | no slot is written while it is read, none is lost, every batch is delivered once and intact |
| KV-cache admission | `disagmoe/scheduler/dpscheduler.py` | waiting queue, `kv_cache_stats`, `seq_ranks`, `sch_event` | `put_request`, `waiting_loop`, the policies, `add_seq`, `del_seq`, `start`, `terminate` | the count of a rank never exceeds its really free blocks; a waiting request is woken |
| Block managers | `csrc/engine/block_manager.cpp`, `disagmoe/block_manager/` | free blocks, block tables, sequence lengths | `allocate`, `append_tokens`, `release`, `update_block_table` | blocks are conserved, a table holds its context |
| Sampler, request lifecycle | `disagmoe/frontend/engine.py` (`sample_results`, `recv_new_request`) | output length per request | one token per pass; finish or continue at layer 0 | a request is served to its length once |
| Rows of a batch | `csrc/include/metadata.hpp`, `batch.hpp`, `csrc/muhelper/dispatcher.cpp`, `csrc/cuda_ops/permute.cu` | vectors beside a tensor | duplicate, sort, merge, split, permute, scale | row i of the tensor belongs to element i of the vectors |
| Engine loop | `engine.py` (`single_module_loop_overlap`), `executor/executor.py`, `utils/gdr_context.py` | two batches in flight, `result_queue`, GPU stream, double buffers, sampler | receive, schedule, run, post-process the previous batch, end | a batch is finished with its own result, no token is lost or doubled, buffers are not reused early |
| Pool and dispatcher threads | `csrc/muhelper/muhelper.cpp`, `comm.cpp`, `csrc/engine/transport_factory.cpp` | send queue, pending sends, pending receives | `MuPool::run`, `MuDispatcher::run`, `put`, `terminate` | metadata meets its tensor; shutdown ends |
| UCX event queue | `csrc/muhelper/ucxq.cpp` | rings, endpoints | push, pop, progress | nothing is dropped or reordered |
| Controller, tokenizer, detokenizer | `disagmoe/frontend/controller.py`, `tokenizer.py`, `benchmark/server.py` | requests in flight, results, asyncio tasks, latency records | put, poll, finish, reset, start and stop | every caller gets its result, a session leaves nothing to the next |
| Placement and start-up | `disagmoe/utils/placement.py`, `controller.py` (`init_engine`), `muhelper/dispatcher.cpp` | devices of layers and experts, channel and socket tables | resolve the allocation file, solve, set up groups, init core | a channel leads to the worker that hosts what it is looked up by |
| Executors, models, kernels | `disagmoe/executor/`, `models/`, `ops/`, `csrc/cuda_ops/` | tensors | arithmetic | numbers, not control |
| Simulators | `simulation/sim_async.py`, `sim_sync.py`, `sim_tbo.py` | queues and processes over an event list; a clock over iterations | admit, compute, transfer, complete, stop | each request lives as in the real system; the time is that of a feasible schedule |
| Benchmarks, experiments, tracing | `benchmark/`, `experiments/`, `interference_gen/`, `csrc/debugger/` | | | outside the serving system |

### How they interact

A request goes to the controller (`put_single_request`), waits in the DP
scheduler for KV blocks, and is sent over the tokenizer's socket to one
attention worker. The worker's engine thread files it at attention layer 0 of
its unified pool. From then on its token alternates between attention workers
and expert workers: a worker's engine thread schedules a layer, takes a batch
from it, runs it, and hands the result to its dispatcher thread, which cuts it
by destination and sends the pieces (NCCL, NIXL or local). The destination's
pool thread files each piece in its pool: at an expert layer, or, coming back
from the experts, at the next attention layer, where with top-k routing a token
first waits for all k replies. At the last attention layer the sampler counts
one more output token; the token continues at layer 0, or the request is
finished, its blocks are released and the controller hears of it by polling the
detokenizer.

Shared state: pool and engine threads share the pool (scheduler mutex).
Dispatcher, post workers, poll thread and pool thread share the NIXL context
(one mutex per table). The controller is single-threaded asyncio: its tasks
interleave at every `await`. Scheduler and block managers share nothing. The
engine thread and its GPU share pairs of staging buffers, with no word from one
to the other but the events it waits for. The simulators share no code with the
serving system and are run on their own.

### What is hard

Schedule and take are two critical sections; `num_tokens` is kept beside the
queue; replies of one token arrive in several batches in any order; slots and
credits pass between machines with no ordering; the controller's idea of free
blocks is late; an event may be set before it is awaited; and every batch
relies on a dozen permutations of vectors and tensors agreeing. `PROJECT.json`
lists each of these at its line, with the property that covers it or the reason
that none does yet.

## 2. Modules

| Module | Models | Correspondence |
|---|---|---|
| `PoolQueues` | a queue of batches at one layer | `TokensIn` (`num_tokens`), `Taken`/`Left` (restricted take with split) |
| `PoolOps` | data operations of the pool | constant operators: layer numbering, `JoinCount`/`ReadyTokens` (top-k join), `FirstWaiting` (FLFS); extends `PoolQueues` |
| `UnifiedPool` | one worker's pool under its two threads | `PoolReceive` (pool thread, `MuPool::run` to `process_batch`), `EnginePut` (`put_batch` by the engine), `Schedule`, `GetBatch`/`GetNothing` (separate critical sections of one `Scheduler::schedule`) |
| `LayerFifo` | abstract | each layer is one FIFO of tokens; a take removes the oldest, as many as the threshold allows |
| `NixlCredit` | one sender, its peers, the network | one action per critical section of each thread; the network (external) is a growing set of notifications |
| `KVAdmission` | controller, scheduler, sampler and block counts | `PutRequest`, `TakeRequest`, `Schedule`, `PollFinished` on the controller; `RecvRequest`, `StartPass`, `Sample` on each rank |
| `TokenRows` | rows through one MoE layer | `Attend`, `ExpertReceives`, `RunExperts`, `AttnReceives`; extends `PoolQueues` for the experts' queues |
| `EngineLoop` | the overlap loop of one worker and its GPU | one action per step of an iteration: `Receive`, `RunBatch`/`Sample`/`NothingScheduled`, `FinishExpert`/`FinishAttention`/`SendAttention`/`NothingToFinish`, `LeaveLoop`; `GpuStep` takes the oldest kernel off the stream; `Terminate` |
| `ControllerSession` | controller, scheduler, detokenizer and the server script over several sessions | one action per stretch of a task up to its next `await`: `StartSession`, `Put`, `Reset`, `StopScheduler`, `StopPolling` of the script; `ClientStarts`/`ClientReturns`; the `waiting_loop`; `Poll`; `Finish` |
| `Placement` | a cluster from the command line to running workers | `Resolve` (allocation file), `Solve` (the strategy), `Setup` (groups, tokenizer sockets), `InitCore` (channel tables) |
| `Autoregressive` | abstract | requests admitted in order of arrival as places become free; each completes its tokens one at a time |
| `SimAsync` | the asynchronous simulator | the processes of `sim_async.py`, each action running to its next `yield`; the event list is the choice of who ends next |
| `SimCluster` | what the simulators have in common | constants for requests, GPUs, layers, experts and the routes of a token; `GpuOf` |
| `SimLockstep` | the synchronous and the two-batch-overlap simulator | `Admit`, `AwaitArrival`, `Route`, `RunSync`, `ScheduleStage`, `FinishTbo`, `LeaveLoop`, with a clock in ticks |
| `Totals` | sums over finite sets | `Total(f, S)` counts the units of each `x` in `S`, so that a sum is a cardinality; used where the code adds up blocks, times or tokens |
| `CollectionFacts` | lemmas on totals, sequences, and the operators of `PoolQueues` | section 5 |
| `UnifiedPoolProof`, `NixlCreditProof`, `KVAdmissionProof`, `EngineLoopProof`, `TokenRowsProof`; `ControllerProof` (on `ControllerSession` and `Placement`); `SimProof` (on `SimLockstep` and `SimAsync`) | theorems on the modules each extends | section 5 |
| `MC*` | values of constants | no symmetry: all but two of the runs that pass check liveness or a refinement |

Definitions whose name has the form `X_Suffix`, each marked "Mutant" in its
comment, are changed copies of `X`: a plausible slip at that place. Nothing in
the specifications uses them; they record which property notices which slip.

### Abstractions

* `UnifiedPool`: a token is its request. How popped batches are merged is left
  to `TokenRows`. A pool has one feed of batches (`Feed`), in any order, since
  batches come from several workers; the engine may add only outside
  `Scheduler::schedule`, as its thread is busy inside it. The pool has one
  expert layer in the run: attention layer 1 is then both a layer that joins
  replies and the last one. An ASSERT that fails ends the engine thread
  (`aborted`).
* `NixlCredit`: data, metadata and credits of one direction. The number a write
  carries stands for its contents, so `memory` says which batch a slot holds.
  Notifications are never lost (NIXL promises delivery), but late, overtaken
  and repeated without bound. The data of a write lands with, not after, its
  D notification. The NIXL branch of `MuPool::run` (built only with `USE_NIXL`)
  still calls an earlier interface of `NixlContext`; the model keeps that loop's
  order and uses the calls `NixlContext` offers now. A failed write frees its
  send slot only, as in `drain_pending_xfers`.
* `KVAdmission`: blocks are counted, not named. `CPUBlockManager` with
  `reserved_blocks` 0, its only instantiation. A batch of a pass is any
  non-empty set of the rank's tokens at layer 0. The round trip from layer 0 to
  sampling is the stage `layers`. `del_seq` for a set of polled results is one
  step, since `process_finished_results` has no `await` before or between these
  calls.
* `TokenRows`: a row is a record of what the vectors say at its place and what
  the tensor holds there. `std::sort` in `sort_by_attention` is not stable, so
  rows that compare equal come out in any order. The experts are those that get
  only group sizes (serial and CUTLASS); the DeepGEMM ones also get an index per
  row. The default `use_gdrcopy_optimization` path is modelled.
* `EngineLoop`: a batch is a set of requests at a layer. What leaves for another
  worker and comes back is `away`, delivered in any order; which layer the
  scheduler prefers is left open (`UnifiedPool` has FLFS). A kernel is what
  reads a staging buffer when it runs; kernels run in the order of their launch.
  The events are those the code records and waits for. Tensor parallelism is
  left out, since no set-up can start with it (see `Placement`).
* `ControllerSession`: a request takes one of `Capacity` places (blocks are in
  `KVAdmission`). A task that has been created starts in the order of creation,
  as asyncio runs its ready queue; otherwise any task that can go on may.
  A `KeyError` ends its task and is recorded in `broken`.
* `Placement`: start-up is sequential, so each phase is one step; a failed
  assertion or look-up leads to `failed`. Where the order of the edges decides
  which of several channels is kept, all are kept as candidates. Its names differ
  from those of `ControllerSession`, so that one module can prove both.
* `SimAsync`: simulated delays are arbitrary, so what is shown does not depend
  on profiles. Congestion on and off, both scheduling policies and a driver that
  stops some tokens after saturation are configurations. `SimLockstep` keeps the
  durations, as whole ticks, because its properties are about them. The names of
  the two differ, so that one module can prove both.

## 3. Runs

| Run | Question | Bounds |
|---|---|---|
| `UnifiedPool` | all interleavings of the two threads | top-k 2, one expert layer, thresholds 2, 8 requests in 8 batches: batches above the threshold (split), an empty sampling batch, two copies of a request in one batch, replies that complete across three batches |
| `Nixl` | slot safety and delivery | 2 peers, 1 receive slot each, 2 send slots, 2 post workers, 3 sends per peer, 1 failing write: both rings run out, and a receive slot is used three times, so that a credit or D notification of the first use can meet the third |
| `Kv` | admission with contention, under the policies `max` and `cap_rr` | 4 requests, ranks of 4 and 3 blocks of 2 tokens: requests wait, are woken, and contexts cross block boundaries |
| `KvExactFit` | finding 1 | one request, one rank of 2 blocks |
| `Rows` | rows with one and with two experts per token | 3 requests on 2 attention workers, 3 experts on 2 workers, threshold 3 (splits), three gate choices per request |
| `RowsMixed`, `RowsWeights` | findings 2 and 3 | as `Rows`, two experts per token only |
| `EngineLoop` | the overlap of two batches | 3 requests of 2 tokens, one expert layer, batches of one token: with more requests than batches in flight every pair of layers overlaps, each staging pair goes round more than once, and the end flag falls at every point of the loop |
| `ControllerSession` | two sessions on one controller | 3 and 2 requests, room for 2: the third waits; results of one session can still be on their way when the next begins, if anything lets them |
| `Placement` | every strategy | 1 to 6 devices, tensor parallel 1 or 2, 1 to 5 expert ranks, 1 to 4 attention ranks, up to 3 by 2 pipeline stages, 3 layers (stages that share them unevenly), 4 experts, four allocation files, some of which do not add up, also given to the strategies that ignore them |
| `SimAsync` | every timing of the event list | 3 requests of 2 tokens with 2 places (one waits), 2 GPUs on two hosts with 2 experts each, 2 layers, batches of 2, expert sets on one GPU and on both |
| `SimLockstep` | both lockstep simulators | the same sizes; arrivals at once, one by one, and long after the others are served; with and without an early stop |

Runs with `CHECK_DEADLOCK FALSE` end: all requests are served, all rows are
back, the workers are up or start-up has failed, the loop has ended, or a bound
is reached. `UnifiedPool` never stops, since the engine polls an empty pool for
ever, and its deadlock check is on.

### Properties

* `UnifiedPool`: `NumTokensExact`, `NeverAborts`, `NothingLostOrDuplicated`,
  `EventuallyDrained`, and the refinement `ImplementsFifo` of `LayerFifo`
  (mapping: the backlog of a layer is the concatenation of its queued batches).
* `Nixl`: `NeverAborts`, `SlotOwnedOnce`, `DeliveredIntact`, `DeliveredOnce`, and
  `EventuallyReceived` (or a write has failed).
* `Kv`: `ChargesConserved`, `BlocksConserved`, `NeverOvercommitted` (0 <= the
  scheduler's count <= blocks really free, although the two never communicate),
  `TablesFitContext`, `EventuallyServed`.
* `Rows`: `RepliesConserved`, `ExpertsAsChosen`, `PrefillsComeFirst`, and
  `OneExpertRowsOfItsRequest`, which is `RowsOfItsRequest` where the gate chooses
  one expert; with more it does not hold (finding 2).
* `EngineLoop`: `OneTokenPerRequest` (a request that is served has one token, in
  the pool, with a batch or on its way; a finished one has none and was reported
  exactly its length), `ResultsPairUp` (a batch is finished with its own result,
  although sampling batches leave none), `StagedIntact`, `EndLosesOneBatch`,
  `EventuallyAnswered`.
* `ControllerSession`: `ResultsAreExpected` (no result comes after its entries
  were cleared, in controller or scheduler), `NoResultMissed` (nobody waits for a
  result that was already announced), `SessionsAreClean`, `SessionsEnd`.
* `Placement`: `RoutingIsRight`, `StartsWhenItAddsUp`.
* `SimAsync`: `TokenInOnePlace`, `NoLostWakeup` (a sleeping worker has no work or
  has been woken), `EndsAsTold` (the event list runs dry only when every token is
  complete, and an early stop is on time), the refinement
  `AsyncImplementsAutoregressive`.
* `SimLockstep`: `TimesAreSound` (the overlapped schedule puts one computation at
  a time on the compute resource, keeps each half in order, and is not longer
  than the two halves in sequence; tokens complete in order), `RunEnds`, the
  refinement of the same `Autoregressive`.

Three of these hold for a reason that is easy to break:

* `StagedIntact` speaks of all pairs but the sampler's. Two buffers suffice
  elsewhere because an iteration waits for the event of the batch before. The
  sampler's `index_select` (`engine.py:260`) waits for nothing: three sampling
  batches in a row let the third overwrite the rows the first has yet to read.
* `NoResultMissed`: `AsyncResult.wait` (`controller.py:38`) waits on a condition
  without looking whether the result is there. It is safe because asyncio starts
  the client's task, created first, before a result can be polled.
* `SessionsEnd`: `terminate` of the scheduler does not wake a `waiting_loop`
  parked on `sch_event`. The script gathers all answers before it stops it, so
  nothing is parked then.

`RoutingIsRight` claims the tokenizer sockets for the colocated placement only.
With `pipeline` and more than one attention rank, every attention worker has rank
0 in its own group and reads tokenizer 0 (`controller.py:239-242`). Set-ups with
tensor parallelism above 1 and the `single` strategy never start, and an allocation
of no experts to a device passes `resolve_expert_allocation` but not
`expert_rank_at` (`placement.py:63`); the model has these as `failed`. In the
overlapped simulator the last combine transfer is not part of the makespan, unlike
in the synchronous one; `OverlapPays` states its lower bound accordingly.

### Fairness

* `UnifiedPool`: weak fairness of every thread's steps: both run endless loops.
  Strong fairness of `EnginePut`, because `recv_new_request` is called once in
  every iteration, between two schedules, so it is disabled again and again but
  always returns.
* `NixlCredit`: weak fairness of every thread's step and of a write landing;
  none for `DrainFailed`. Delivery is claimed only while no write has failed: the
  code does not recover the receive slot of a failed write.
* `KVAdmission`: weak fairness of the loops, and of each token's next step,
  since the pool is first in, first out. `PutRequest` is the user's and has
  none. Liveness is stated for requests that each fit an empty rank: the head of
  the waiting queue blocks all others by design.
* `EngineLoop`: weak fairness of the loop, of the GPU and of the channels; strong
  fairness of receiving a request that is on the socket, which an iteration polls
  once. `Submit` and `Terminate` are others' and have none.
* `ControllerSession`: weak fairness of `Next`: asyncio runs some ready task, and
  workers go on. An empty poll changes nothing and is left out.
* `SimLockstep`: weak fairness of `Next`: the simulator is one sequential program.
  `SimAsync` needs none; `EndsAsTold` says it cannot run dry early.

## 4. Findings

1. `KvExactFit`: `append_tokens` asserts `num_free_blocks() > blocks_to_add`
   (`csrc/engine/block_manager.cpp:114`), one block more than it takes. The
   scheduler admits a request to "any rank" with "enough free KV-cache blocks"
   (`dpscheduler.py:165-166`). A request that exactly fills its charge on an
   otherwise full rank throws in the engine thread.
2. `RowsMixed`: `duplicate_topk` (`metadata.hpp:214`) lays req_ids out copy after
   copy, but the gate's output and the rows read by `permute_tokens` are laid
   out token after token. With top-k above 1 and more than one token in a batch,
   replies are filed under another request. With the copies laid out token after
   token the same run passes. `ExpertsAsChosen` and `RepliesConserved` hold all the
   same, as each row does go through its own experts.
3. `RowsWeights`: `apply_weights_and_permute_tokens_kernel` adds `token_id` to
   the weights pointer and indexes it with `token_id` again (`permute.cu:129-130`),
   so row i is scaled by weight 2i.

## 5. Proofs

Seven modules have theorems, and an eighth, `CollectionFacts`, the lemmas they
share. Each theorem below is about the module's `Spec`
(`StartUpSpec` for the start-up in `ControllerProof`, `AsyncSpec` for the
asynchronous simulator in `SimProof`), the one that the runs check, and holds for every value of the constants that the
module's named assumptions allow. Those say what the code grants: counts are
natural numbers, thresholds and sizes positive, a "none" value is no request, and

* `PoolOpsAssumption`, `UnifiedPoolAssumption`: the batches that arrive are
  finitely many, and those of the tokenizer and of attention workers are for
  the layers that such batches are sent to;
* `NixlAssumption`: at least one slot of each kind and one post worker;
* `KVAssumption`: finitely many requests, each with a prompt and an output;
* `PlacementAssumption`: a known strategy, positive degrees of parallelism and
  numbers of devices, layers and experts, no negative number of experts in a file;
* `SessionAssumption`: sessions are numbered, each request belongs to one;
* `RowsAssumption`: finitely many requests, numbered, as the sort compares their
  numbers; a gate chooses the same number, at least one, of different experts for
  each of them;
* `EngineAssumption`: positive output lengths, `NumLayers` and `Threshold`;
* `ClusterAssumption`: at least one GPU, layer, expert and token per request, a
  positive batch size, and no token without an expert;
* `AsyncAssumption`: at least one request can be active (with none no token would
  ever start), and a token goes to `TopK` experts at most;
* `LockstepAssumption`: durations are not negative, and arrival times do not
  decrease (`generate_request_arrivals`, `sim_sync.py:183`).

| Module | Theorem | Property |
|---|---|---|
| `UnifiedPoolProof` | `TypeCorrect`, `Exact`, `NoAbort`, `Conserved` | `TypeOK`, `NumTokensExact`, `NeverAborts`, `NothingLostOrDuplicated` |
| | `Implements` | `ImplementsFifo`, the refinement of `LayerFifo` |
| `NixlCreditProof` | `TypeCorrect`, `NoAbort`, `SlotOwnership`, `Intact`, `NoRedelivery` | `TypeOK`, `NeverAborts`, `SlotOwnedOnce`, `DeliveredIntact`, `DeliveredOnce` |
| `KVAdmissionProof` | `TypeCorrect`, `Charges`, `Blocks`, `TablesFit` | `TypeOK`, `ChargesConserved`, `BlocksConserved`, `TablesFitContext` |
| | `Covered` | `NeverOvercommitted`, when no policy is `RR` |
| | `SlackIsEnough` | `NoAssertFails`, when moreover no request can fill its whole charge |
| `EngineLoopProof` | `OneToken`, `Pairs`, `Staged`, `EndLosesOne` | `OneTokenPerRequest`, `ResultsPairUp`, `StagedIntact`, `EndLosesOneBatch` |
| `ControllerProof` | `RoutingRight`, `StartsUp` | `RoutingIsRight`, `StartsWhenItAddsUp` |
| | `Expected`, `NotMissed`, `Clean` | `ResultsAreExpected`, `NoResultMissed`, `SessionsAreClean` |
| `TokenRowsProof` | `RepliesKept`, `ExpertsChosen`, `PrefillsInFront` | `RepliesConserved`, `ExpertsAsChosen`, `PrefillsComeFirst` |
| | `OwnRowsWithOneExpert` | `OneExpertRowsOfItsRequest`, the converse of finding 2 |
| `SimProof` | `Sound` | `TimesAreSound` |
| | `Implements` | `ImplementsAutoregressive`, the refinement of `Autoregressive` |
| | `OnePlaceAlways`, `WakesUp`, `EndsRight` | `TokenInOnePlace`, `NoLostWakeup`, `EndsAsTold` |
| | `AsyncRefines` | `AsyncImplementsAutoregressive`, the same for `SimAsync` |

Each module also has `Invariance`, that its `IInv` is an invariant, from which
the others follow (`StartUpInvariance` and `StartUpInv` for the start-up,
`AsyncInvariance` and `AsyncIInv` for the asynchronous simulator). There is one
lemma per action and, where an action disturbs several parts, one step per part.

### The inductive invariants

`UnifiedPool`. Exactness, conservation and `NeverAborts` hold together with one
more fact, `ChosenHasTokens`: the layer the engine chose still has a token when
it takes from it, in another critical section. The pool thread may run in
between, but it only adds. Everything else is about data: that a take with a
split, and what it leaves, make up the queue in order, and that `TopK` replies
join into one token. The refinement maps the queued batches of a
layer to their concatenation: filing a batch appends to it, a take removes from
its head, and an engine's `put_batch` is a filing too.

`NixlCredit`. None of the safety properties is inductive. A slot is safe because of
the whole round trip: its sequence number has been used by one write only
(`NumbersUsedOnce`), a write that has not landed is to a slot whose expected
credit is its own number (`UnlandedReserved`), a D notification whose number is
not yet completed is the slot's expected one and the slot still holds its data
(`NotifsTrue`), every arrival has its D notification and is the slot's number in
flight (`ArrivalsInFlight`), and a delivered number is at most the completed one
(`DeliveredCompleted`). `OneStage` and `SendSlotsHeld` say that a write is in one
of the queue, a worker and the transfers, and holds a send slot of its own until
it lands: else its contents could be overwritten while it waits. The typing
invariant needs `RoomToSend` as well: the dispatcher only turns to a peer with
sends left. So an arrival's D notification is not completed, the expected credit
of its slot is still its number, and no later write can have been posted there:
`DeliveredIntact`. A delivery raises the completed number to its own, and
`accept_data_notif` accepts only larger ones: `DeliveredOnce`.

`KVAdmission`. The controller never hears of blocks, only of finished requests; the
two counts agree because both follow the requests. A request is in one place
(`OncePlaced`), is charged exactly from its placement to its poll
(`ChargedWhere`), has the context of its stage (`ContextByStage`) in as many
blocks as that takes, and, under a policy that looks at the blocks, was
affordable (`Affordable`). Then free blocks plus blocks in use is the capacity on
one side, count plus charges the same capacity on the other, and as no request
uses more than its charge the count is at most what is free. `SlackIsEnough` is
the converse of finding 1: where a charge is always larger than the blocks of a
full context, the one block that the assertion asks for in excess is there. With
plain round-robin the count does go below zero, so both theorems exclude it.

`TokenRows`. A row has no identity: vectors and tensors are permuted side by side, and
what is at one place says nothing about where it came from. The invariant follows
its tag instead: the request it is filed under, that request's worker, the hidden
state it holds and the expert of that state. `NoRowTwice` says that no tag is in two
places, anywhere between the first expansion and the join; so the tags of a request
count its rows (`CopiesCounted`), and a sort, a cut, a merge or a split only moves
tags. The choice that `std::sort` leaves open does not matter to that. `TagsRight`
says that a state is sent once to each expert its gate chose. The executor is
told only how many rows each expert gets: `SortedForExperts`, for every batch on
the way to the experts and in their queues, with the merge by expert, makes the
k-th group the rows of the k-th expert, which is what `ExpertsAsChosen` comes from.
`TagsRight` also says that with one expert per token the request of a tag is the one
whose state it is; with two experts it says no such thing, and finding 2 is why.

`EngineLoop`. `Control` says, for each point of the loop, which batches are in
flight and that `result_queue` holds their results in order; `Kernels`, that
what is still in the stream belongs to them; `BuffersInTurn`, that two batches
of one kind in flight use different buffers, which, because the loop waits for
the event of the older, makes two buffers enough; `Accounts`, that each request
has one token and that sampler, detokenizer and the requests at the end of their
output agree on how many it has produced.

`Placement`. Each phase of the start-up is one step, so the invariant only says
what a phase leaves to the next: the file is read, the layout is the strategy's,
every worker has a rank, every dispatcher has its channels. The work is in what a
layout gives (`Hosted`): each expert of each layer is on some device, and a layer
and an expert rank name one device, by different arithmetic in each strategy
(`d % GroupSize` and `d \div GroupSize` in `interleave`, a stage and a place in it
in `pipeline`, the numbering of experts through the devices where a file is used).
For attention a layer and a data-parallel rank name one worker; that is not a fact
of the layouts but of the clusters that come up, because the dispatchers assert it
(`AllStarted`); `OneWorkerOfRank` shows that no set-up that adds up fails there.
`StartsWhenItAddsUp` goes through the checks one after another: `AddsUpSolves`,
`AddsUpRanks`, `AddsUpStarts`.

`ControllerSession`. The invariant gives every request one place: not yet put,
waiting, charged and running, finished and unreported, or in a `finish` task
(`Entries`, `Placed`). `Tasks` and `Clients` keep the order of tasks created and
not started: a client waits before the task that reports its result can start,
which is what makes waiting without a look at the result safe. `LoopState` and
the parts about the driver say what each phase of `run_once` has left behind.

`SimLockstep`. `Lifecycle` splits the requests, in order of arrival, at
`Boundary`: those before it were admitted and are active until their last token,
the `waiting` ones are exactly those from there to `index`. `Schedule` bounds the
overlapped schedule from both sides after every stage: nothing ends later than
the stages placed so far would take one after another, and a half can go on no
earlier than its own stages take. `TimesAreSound` at the end of an iteration is the
case where all stages are placed. `active` is then within `Admitted` of
`Autoregressive`, so an iteration's end is one of its `Complete` steps.

`SimAsync`. `TokenInOnePlace` counts a token over all the GPUs: in attention, on its
way, and as copies and replies at each layer. A step changes the queues of one GPU,
or the copies for one set of experts at their GPUs, and the sum over all places must
stay one. The proof counts hits in queues and adds them up with `Total`, and says
of each step how the count at its GPU changes. To be inductive it needs what fits
where a worker stands (`Shape`: one token in attention, one worker delivering, the
fan-out of a token under way is the number of its experts), and that an active
request has issued exactly the token after those it has completed (`Admissions`).
A reply for a token of which no other copy is left makes its count of replies that
of its fan-out; so it is the last reply, and `notify_expert_completion` can take it
for that. `Loads` says `_total_queue_length` is the length of the queues, and that a
worker asleep without a wake-up has none; the wake-up on the first work of an empty
worker is then enough, as the others find it woken. `EndsAsTold` joins them: with no
event left no token is anywhere, so none is due, no request is active, and as nothing
waits while a place is free none waits either. `InTime` counts what a delivering
worker still has in hand, so that an early stop is less than a batch late. `Admissions` puts the
active requests among the first `MaxActive` unfinished ones, which makes every
completed token a `Complete` step of `Autoregressive`.

### Sums and induction

The conservation properties are sums over sets of requests. `Total(f, S)` is
the cardinality of a set with `f[x]` elements for every `x`, so that its lemmas
(`TotalAdd`, `TotalSplit`, `TotalPlus`, `TotalMonotone`) follow from those on
cardinalities. Where induction is needed (a concatenation of sequences, a least
number, a best element of a finite set), `CollectionFacts` states it for a set of
numbers or sequences in place of a predicate: a set that has 0 and is closed under
successor is `Nat`.

### Only model-checked

* Liveness, with fairness and `ENABLED`: outside the prover's reach.
* That the findings' properties fail, which needs a run and no proof.

## 6. Not modelled

* Executors, models, CUDA kernels other than `permute.cu`: arithmetic.
* The construction of NCCL communicators and ZMQ sockets, and bindings: run once,
  before any step. Which worker a channel leads to is in `Placement`.
* The broadcasts of tensor parallelism (`attn_worker_loop`): no set-up starts them.
* Load generation, statistics, plots, progress bars and timeline capture of the
  benchmarks, experiments and simulators; `simulator/queueing.py`, which is a
  stand-alone experiment; tracing and debugging. Much of the Python source is of this
  kind or tensor arithmetic: it has no state that a step could get wrong.
* An unbounded stream of requests: first-layer-first-serve can then keep deeper
  layers waiting, which no finite instance shows.
* So far, by plan and not by reach: the items of section 7.

## 7. Plan

In order of weight in the system:

1. `MuTransport`: dispatcher queue and pending sends, metadata over ZMQ beside
   tensors over NCCL per peer, termination; abstract specification: one FIFO
   channel per pair of workers, refined by the pairing. Until then the channels
   are unordered delivery in every module that uses them.
2. `Workers`: `UnifiedPool` of several workers composed over those channels
   with the routing of `Placement`; abstract specification `TokenFlow` (each token
   visits attention and its experts in turn); property: at most one generation of
   a request is in a join pool.
3. `BlockTables`: which block is taken, block-table layout, `GPUBlockManager`
   and `mem_pool.py`; property: no block in two tables, a slot mapping points
   into the request's own blocks.
4. `UcxQueue`: ring and progress thread; property: FIFO, no drop at a full ring.
5. The defragmenting and legacy schedulers of `layer.cpp` as operators against a
   reference definition.
