------------------------------ MODULE NixlCredit ------------------------------
(***************************************************************************)
(* The slot and credit protocol of the NIXL transport (csrc/muhelper/      *)
(* nixl_context.cpp, nixl_channel.cpp): one sending worker and the peers   *)
(* it writes to.                                                           *)
(*                                                                         *)
(* Every peer owns a ring of receive slots that only this sender writes.   *)
(* The sender's dispatcher thread takes a free receive slot of the peer    *)
(* and a free send slot of its own, stages the batch in the send slot and  *)
(* queues it; post worker threads write it to the peer's memory by RDMA    *)
(* with a D notification; the pool thread frees send slots of finished     *)
(* writes.  On the peer, the poll thread accepts D notifications, the pool *)
(* thread copies the data out and returns a C notification, the credit,    *)
(* which the sender's poll thread turns into a free receive slot again.    *)
(*                                                                         *)
(* Notifications (external: the NIXL library) are not lost, but may be     *)
(* delayed without bound, overtaken and repeated: notifs only grows, and   *)
(* any notification in it can be handled at any time, any number of times. *)
(*                                                                         *)
(* The NIXL branch of MuPool::run (muhelper.cpp:613-660, 737-767), which   *)
(* is compiled only with USE_NIXL, still names the calls of an earlier     *)
(* NixlContext.  The model keeps the order of that loop (copy, wait for    *)
(* the copy, credit, process_batch) with the calls that NixlContext has    *)
(* for these steps now: drain_meta_arrivals, mark_recv_completed and       *)
(* send_credit with the sequence number.                                   *)
(***************************************************************************)
EXTENDS Integers, Sequences, FiniteSets, Functions

CONSTANTS Peer,        \* the workers written to
          RecvSlot,    \* receive slots per peer (NIXL_RECV_RING_SIZE)
          SendRing,    \* number of send slots (NIXL_SEND_RING_SIZE)
          PostWorkers, \* number of post worker threads (kNumPostWorkers)
          MaxSends,    \* bound: batches sent to each peer
          MaxFailures  \* bound: RDMA writes that fail

ASSUME NixlAssumption ==
  /\ IsFiniteSet(RecvSlot) /\ RecvSlot # {}
  /\ SendRing \in Nat \ {0} /\ PostWorkers \in Nat \ {0}
  /\ MaxSends \in Nat /\ MaxFailures \in Nat

SendSlot == 0 .. SendRing - 1
SeqNo    == 0 .. MaxSends - 1
NoSeq    == -1

(* What a buffer holds: the batch with that number for that peer.          *)
Payload == Peer \X SeqNo
Nothing == <<>>

(* A queued or running write (NixlPendingPost, PendingXfer).               *)
Write == [peer : Peer, recv : RecvSlot, seq : SeqNo, send : SendSlot]

(* A D or C notification between this sender and peer (NixlNotifHeader).   *)
Notif == [type : {"D", "C"}, peer : Peer, slot : RecvSlot, seq : SeqNo]

(* A batch the receiver knows of (NixlMetaArrival).                        *)
Arrival == [slot : RecvSlot, seq : SeqNo]

VARIABLES
  \* the sender
  dispatcher, \* where the dispatcher thread is in send_impl
  available,  \* available_recv_slots of each peer
  expected,   \* expected_credit_seq of each peer's slots
  nextSeq,    \* next_seq of each peer
  busy,       \* send_slot_busy_
  nextSlot,   \* next_send_slot_
  staged,     \* the contents of the send slots
  postQueue,  \* post_queue_
  posting,    \* the writes the post workers have picked up
  xfers,      \* pending_xfers_
  landed,     \* the pending writes whose data has reached the peer
  failures,   \* history: writes that failed
  aborted,    \* history: the assertion of note_send_posted failed
  \* the network
  notifs,     \* every notification sent so far
  \* the receiving side, per peer
  memory,     \* the contents of the receive slots
  inflight,   \* inflight_recv_seq of each slot
  completed,  \* completed_recv_seq of each slot
  arrivals,   \* pending_arrivals_
  copying,    \* arrivals being copied out of their slot
  delivered   \* history: how often each arrival was handed to the pool

sender   == <<dispatcher, available, expected, nextSeq, busy, nextSlot, staged,
              postQueue, posting, xfers, landed, failures, aborted>>
receiver == <<memory, inflight, completed, arrivals, copying, delivered>>
vars     == <<sender, notifs, receiver>>

Dispatcher ==
  [step : {"idle"}] \cup
  [step : {"waiting"}, peer : Peer] \cup
  [step : {"credited"}, peer : Peer, recv : RecvSlot] \cup
  [step : {"staging"}, peer : Peer, recv : RecvSlot, send : SendSlot]

TypeOK ==
  /\ dispatcher \in Dispatcher
  /\ available \in [Peer -> Seq(RecvSlot)]
  /\ expected \in [Peer -> [RecvSlot -> SeqNo \cup {NoSeq}]]
  /\ nextSeq \in [Peer -> 0 .. MaxSends]
  /\ busy \in [SendSlot -> BOOLEAN]
  /\ nextSlot \in SendSlot
  /\ staged \in [SendSlot -> Payload \cup {Nothing}]
  /\ postQueue \in Seq(Write)
  /\ posting \subseteq Write
  /\ xfers \subseteq Write
  /\ landed \subseteq xfers
  /\ failures \in 0 .. MaxFailures
  /\ aborted \in BOOLEAN
  /\ notifs \subseteq Notif
  /\ memory \in [Peer -> [RecvSlot -> Payload \cup {Nothing}]]
  /\ inflight \in [Peer -> [RecvSlot -> SeqNo \cup {NoSeq}]]
  /\ completed \in [Peer -> [RecvSlot -> SeqNo \cup {NoSeq}]]
  /\ arrivals \in [Peer -> SUBSET Arrival]
  /\ copying \in [Peer -> SUBSET Arrival]
  /\ delivered \in [Peer -> [Arrival -> Nat]]

(* initialize() fills available_recv_slots with every slot, in order.      *)
Init ==
  /\ dispatcher = [step |-> "idle"]
  /\ \E order \in [1 .. Cardinality(RecvSlot) -> RecvSlot] :
       /\ IsInjective(order) /\ Range(order) = RecvSlot
       /\ available = [p \in Peer |-> order]
  /\ expected  = [p \in Peer |-> [s \in RecvSlot |-> NoSeq]]
  /\ nextSeq   = [p \in Peer |-> 0]
  /\ busy      = [s \in SendSlot |-> FALSE]
  /\ nextSlot  = 0
  /\ staged    = [s \in SendSlot |-> Nothing]
  /\ postQueue = <<>>
  /\ posting   = {}
  /\ xfers     = {}
  /\ landed    = {}
  /\ failures  = 0
  /\ aborted   = FALSE
  /\ notifs    = {}
  /\ memory    = [p \in Peer |-> [s \in RecvSlot |-> Nothing]]
  /\ inflight  = [p \in Peer |-> [s \in RecvSlot |-> NoSeq]]
  /\ completed = [p \in Peer |-> [s \in RecvSlot |-> NoSeq]]
  /\ arrivals  = [p \in Peer |-> {}]
  /\ copying   = [p \in Peer |-> {}]
  /\ delivered = [p \in Peer |-> [a \in Arrival |-> 0]]

-----------------------------------------------------------------------------
(* The dispatcher thread, in NixlChannel::send_impl.  An empty batch is    *)
(* not sent and takes no slot.                                             *)

(* The dispatcher's next batch goes to peer p.                             *)
BeginSend(p) ==
  /\ dispatcher.step = "idle"
  /\ nextSeq[p] < MaxSends
  /\ dispatcher' = [step |-> "waiting", peer |-> p]
  /\ UNCHANGED <<available, expected, nextSeq, busy, nextSlot, staged, postQueue,
                 posting, xfers, landed, failures, aborted, notifs, receiver>>

(* acquire_recv_slot: wait for a credit of the peer, take its oldest slot. *)
AcquireRecvSlot ==
  /\ dispatcher.step = "waiting"
  /\ available[dispatcher.peer] # <<>>
  /\ LET p == dispatcher.peer
     IN  /\ dispatcher' = [step |-> "credited", peer |-> p, recv |-> Head(available[p])]
         /\ available'  = [available EXCEPT ![p] = Tail(@)]
  /\ UNCHANGED <<expected, nextSeq, busy, nextSlot, staged, postQueue, posting, xfers,
                 landed, failures, aborted, notifs, receiver>>

(* acquire_send_slot: wait for a free send slot, take the first from       *)
(* next_send_slot_ on.                                                     *)
RingDistance(s) == (s - nextSlot) % SendRing

(* Mutant: next_send_slot_ is not wrapped.                                 *)
AcquireSendSlot_NotWrapped(s) ==
  /\ dispatcher.step = "credited" /\ ~busy[s]
  /\ dispatcher' = [step |-> "staging", peer |-> dispatcher.peer,
                    recv |-> dispatcher.recv, send |-> s]
  /\ busy'     = [busy EXCEPT ![s] = TRUE]
  /\ nextSlot' = s + 1
  /\ UNCHANGED <<available, expected, nextSeq, staged, postQueue, posting, xfers,
                 landed, failures, aborted, notifs, receiver>>

AcquireSendSlot(s) ==
  /\ dispatcher.step = "credited"
  /\ ~busy[s]
  /\ \A t \in SendSlot : ~busy[t] => RingDistance(s) <= RingDistance(t)
  /\ dispatcher' = [step |-> "staging", peer |-> dispatcher.peer,
                    recv |-> dispatcher.recv, send |-> s]
  /\ busy'     = [busy EXCEPT ![s] = TRUE]
  /\ nextSlot' = (s + 1) % SendRing
  /\ UNCHANGED <<available, expected, nextSeq, staged, postQueue, posting, xfers,
                 landed, failures, aborted, notifs, receiver>>

(* The staging copy, next_send_seq, note_send_posted with its assertion    *)
(* that the slot's last credit came back, and enqueue_post.                *)
PostSend ==
  /\ dispatcher.step = "staging" /\ ~aborted
  /\ LET p == dispatcher.peer
         w == [peer |-> p, recv |-> dispatcher.recv, seq |-> nextSeq[p],
               send |-> dispatcher.send]
     IN  /\ nextSeq' = [nextSeq EXCEPT ![p] = @ + 1]
         /\ staged'  = [staged EXCEPT ![w.send] = <<p, w.seq>>]
         /\ IF expected[p][w.recv] = NoSeq
            THEN /\ expected'   = [expected EXCEPT ![p][w.recv] = w.seq]
                 /\ postQueue'  = Append(postQueue, w)
                 /\ dispatcher' = [step |-> "idle"]
                 /\ UNCHANGED aborted
            ELSE /\ aborted' = TRUE
                 /\ UNCHANGED <<expected, postQueue, dispatcher>>
  /\ UNCHANGED <<available, busy, nextSlot, posting, xfers, landed, failures, notifs,
                 receiver>>

-----------------------------------------------------------------------------
(* The post workers (post_worker_loop).                                    *)

PickPost ==
  /\ postQueue # <<>>
  /\ Cardinality(posting) < PostWorkers
  /\ posting'   = posting \cup {Head(postQueue)}
  /\ postQueue' = Tail(postQueue)
  /\ UNCHANGED <<dispatcher, available, expected, nextSeq, busy, nextSlot, staged, xfers,
                 landed, failures, aborted, notifs, receiver>>

(* post_write and enqueue_pending_xfer, once the staging copy is done.     *)
PostWrite(w) ==
  /\ w \in posting
  /\ posting' = posting \ {w}
  /\ xfers'   = xfers \cup {w}
  /\ UNCHANGED <<dispatcher, available, expected, nextSeq, busy, nextSlot, staged,
                 postQueue, landed, failures, aborted, notifs, receiver>>

(* External: the RDMA write puts what the send slot holds into the peer's  *)
(* slot, and its D notification follows the data.                          *)
WriteLands(w) ==
  /\ w \in xfers \ landed
  /\ landed' = landed \cup {w}
  /\ memory' = [memory EXCEPT ![w.peer][w.recv] = staged[w.send]]
  /\ notifs' = notifs \cup
       {[type |-> "D", peer |-> w.peer, slot |-> w.recv, seq |-> w.seq]}
  /\ UNCHANGED <<dispatcher, available, expected, nextSeq, busy, nextSlot, staged,
                 postQueue, posting, xfers, failures, aborted, inflight, completed,
                 arrivals, copying, delivered>>

(* Mutant: a drained write does not free its send slot.                    *)
ReleaseSendSlot_StaysBusy(w) ==
  /\ xfers'  = xfers \ {w}
  /\ landed' = landed \ {w}
  /\ UNCHANGED <<dispatcher, available, expected, nextSeq, busy, nextSlot, staged,
                 postQueue, posting, aborted, notifs, receiver>>

(* drain_pending_xfers, in the pool thread: a finished or failed write     *)
(* frees its send slot.  Nothing else is done about a failed one.          *)
ReleaseSendSlot(w) ==
  /\ xfers'  = xfers \ {w}
  /\ landed' = landed \ {w}
  /\ busy'   = [busy EXCEPT ![w.send] = FALSE]
  /\ UNCHANGED <<dispatcher, available, expected, nextSeq, nextSlot, staged, postQueue,
                 posting, aborted, notifs, receiver>>

DrainDone(w)   == w \in landed /\ ReleaseSendSlot(w) /\ UNCHANGED failures

DrainFailed(w) == /\ w \in xfers \ landed /\ failures < MaxFailures
                  /\ failures' = failures + 1
                  /\ ReleaseSendSlot(w)

-----------------------------------------------------------------------------
(* The receiving peer.                                                     *)

(* Mutant: only the D notification being worked on is recognised.          *)
AcceptData_CompletedForgotten(n) ==
  /\ n \in notifs /\ n.type = "D"
  /\ inflight[n.peer][n.slot] # n.seq
  /\ inflight' = [inflight EXCEPT ![n.peer][n.slot] = n.seq]
  /\ arrivals' = [arrivals EXCEPT ![n.peer] = @ \cup {[slot |-> n.slot, seq |-> n.seq]}]
  /\ UNCHANGED <<sender, notifs, memory, completed, copying, delivered>>

(* poll_notifs with accept_data_notif: a D notification already seen, or   *)
(* older than what the slot has completed, is dropped.                     *)
AcceptData(n) ==
  /\ n \in notifs /\ n.type = "D"
  /\ inflight[n.peer][n.slot] # n.seq
  /\ completed[n.peer][n.slot] < n.seq
  /\ inflight' = [inflight EXCEPT ![n.peer][n.slot] = n.seq]
  /\ arrivals' = [arrivals EXCEPT ![n.peer] = @ \cup {[slot |-> n.slot, seq |-> n.seq]}]
  /\ UNCHANGED <<sender, notifs, memory, completed, copying, delivered>>

(* Mutant: the credit is returned before the copy is complete.             *)
DrainArrivals_CreditsAtOnce(p) ==
  /\ arrivals[p] # {}
  /\ copying'  = [copying EXCEPT ![p] = @ \cup arrivals[p]]
  /\ arrivals' = [arrivals EXCEPT ![p] = {}]
  /\ notifs'   = notifs \cup
       {[type |-> "C", peer |-> p, slot |-> a.slot, seq |-> a.seq] : a \in arrivals[p]}
  /\ UNCHANGED <<sender, memory, inflight, completed, delivered>>

(* The pool thread takes all arrivals (drain_meta_arrivals) and starts to  *)
(* copy their data out of the slots.                                       *)
DrainArrivals(p) ==
  /\ arrivals[p] # {}
  /\ copying'  = [copying EXCEPT ![p] = @ \cup arrivals[p]]
  /\ arrivals' = [arrivals EXCEPT ![p] = {}]
  /\ UNCHANGED <<sender, notifs, memory, inflight, completed, delivered>>

(* The copy is complete: mark_recv_completed, send_credit, and the batch   *)
(* goes to the pool.                                                       *)
FinishCopy(p, a) ==
  /\ a \in copying[p]
  /\ copying'   = [copying EXCEPT ![p] = @ \ {a}]
  /\ completed' = [completed EXCEPT ![p][a.slot] = IF @ < a.seq THEN a.seq ELSE @]
  /\ inflight'  = [inflight EXCEPT ![p][a.slot] = IF @ = a.seq THEN NoSeq ELSE @]
  /\ notifs'    = notifs \cup
       {[type |-> "C", peer |-> p, slot |-> a.slot, seq |-> a.seq]}
  /\ delivered' = [delivered EXCEPT ![p][a] = @ + 1]
  /\ UNCHANGED <<sender, memory, arrivals>>

-----------------------------------------------------------------------------
(* Mutants: any credit frees the slot, as long as the slot awaits one, or  *)
(* even when it awaits none; the awaited number is not reset.              *)
AcceptCredit_AnySeq(n) ==
  /\ n \in notifs /\ n.type = "C"
  /\ expected[n.peer][n.slot] # NoSeq
  /\ expected'  = [expected EXCEPT ![n.peer][n.slot] = NoSeq]
  /\ available' = [available EXCEPT ![n.peer] = Append(@, n.slot)]
  /\ UNCHANGED <<dispatcher, nextSeq, busy, nextSlot, staged, postQueue, posting, xfers,
                 landed, failures, aborted, notifs, receiver>>

AcceptCredit_Unchecked(n) ==
  /\ n \in notifs /\ n.type = "C"
  /\ expected'  = [expected EXCEPT ![n.peer][n.slot] = NoSeq]
  /\ available' = [available EXCEPT ![n.peer] = Append(@, n.slot)]
  /\ UNCHANGED <<dispatcher, nextSeq, busy, nextSlot, staged, postQueue, posting, xfers,
                 landed, failures, aborted, notifs, receiver>>

AcceptCredit_NotReset(n) ==
  /\ n \in notifs /\ n.type = "C"
  /\ expected[n.peer][n.slot] = n.seq
  /\ available' = [available EXCEPT ![n.peer] = Append(@, n.slot)]
  /\ UNCHANGED <<dispatcher, expected, nextSeq, busy, nextSlot, staged, postQueue,
                 posting, xfers, landed, failures, aborted, notifs, receiver>>

(* The sender's poll thread, on_recv_credit: a credit counts only for the  *)
(* send it answers.                                                        *)
AcceptCredit(n) ==
  /\ n \in notifs /\ n.type = "C"
  /\ expected[n.peer][n.slot] = n.seq
  /\ expected'  = [expected EXCEPT ![n.peer][n.slot] = NoSeq]
  /\ available' = [available EXCEPT ![n.peer] = Append(@, n.slot)]
  /\ UNCHANGED <<dispatcher, nextSeq, busy, nextSlot, staged, postQueue, posting, xfers,
                 landed, failures, aborted, notifs, receiver>>

-----------------------------------------------------------------------------
Next ==
  \/ \E p \in Peer : BeginSend(p)
  \/ AcquireRecvSlot
  \/ \E s \in SendSlot : AcquireSendSlot(s)
  \/ PostSend
  \/ PickPost
  \/ \E w \in posting : PostWrite(w)
  \/ \E w \in xfers : WriteLands(w)
  \/ \E w \in xfers : DrainDone(w)
  \/ \E w \in xfers : DrainFailed(w)
  \/ \E n \in notifs : AcceptData(n)
  \/ \E p \in Peer : DrainArrivals(p)
  \/ \E p \in Peer : \E a \in copying[p] : FinishCopy(p, a)
  \/ \E n \in notifs : AcceptCredit(n)

Spec == Init /\ [][Next]_vars

(* Every thread keeps running, a write that does not fail lands, and every *)
(* notification is polled.                                                 *)
Fairness ==
  /\ WF_vars(\E p \in Peer : BeginSend(p))
  /\ WF_vars(AcquireRecvSlot)
  /\ WF_vars(\E s \in SendSlot : AcquireSendSlot(s))
  /\ WF_vars(PostSend)
  /\ WF_vars(PickPost)
  /\ WF_vars(\E w \in posting : PostWrite(w))
  /\ WF_vars(\E w \in xfers : WriteLands(w))
  /\ WF_vars(\E w \in xfers : DrainDone(w))
  /\ WF_vars(\E n \in notifs : AcceptData(n))
  /\ WF_vars(\E p \in Peer : DrainArrivals(p))
  /\ WF_vars(\E p \in Peer : \E a \in copying[p] : FinishCopy(p, a))
  /\ WF_vars(\E n \in notifs : AcceptCredit(n))

FairSpec == Spec /\ Fairness

-----------------------------------------------------------------------------
(* The assertion "remote recv slot reused before credit"                   *)
(* (nixl_context.cpp:474) never fails: the dispatcher only ever gets a     *)
(* receive slot whose previous send was credited.                          *)
NeverAborts == ~aborted

Holds(p, s) == /\ dispatcher.step \in {"credited", "staging"}
               /\ dispatcher.peer = p /\ dispatcher.recv = s

Listed(p, s) == s \in Range(available[p])

OwnedOnce(p) ==
  /\ IsInjective(available[p])
  /\ \A s \in RecvSlot : /\ Listed(p, s) => ~Holds(p, s) /\ expected[p][s] = NoSeq
                         /\ Holds(p, s)  => expected[p][s] = NoSeq
                         /\ Listed(p, s) \/ Holds(p, s) \/ expected[p][s] # NoSeq

(* Every receive slot of a peer is in one place: once in the peer's free   *)
(* list, or in the dispatcher's hands, or awaiting the credit of one send. *)
(* No slot is lost and none is handed out twice (nixl_context.cpp:458-557).*)
SlotOwnedOnce == \A p \in Peer : OwnedOnce(p)

(* From the moment a receiver accepts the notification of a batch until    *)
(* the copy out of the slot is complete, the slot holds that batch: neither*)
(* a reused receive slot nor a reused send slot has overwritten it.        *)
DeliveredIntact ==
  \A p \in Peer : \A a \in arrivals[p] \cup copying[p] :
    memory[p][a.slot] = <<p, a.seq>>

(* A repeated or late D notification never delivers a batch twice          *)
(* (accept_data_notif, nixl_context.cpp:879-902).                          *)
DeliveredOnce == \A p \in Peer, a \in Arrival : delivered[p][a] <= 1

(* While no write fails, every batch the dispatcher has numbered reaches   *)
(* its receiver: credits come back and the dispatcher is never stuck       *)
(* waiting for a slot.                                                     *)
Received(p, q) == \E s \in RecvSlot : delivered[p][[slot |-> s, seq |-> q]] > 0

EventuallyReceived == \A p \in Peer, q \in SeqNo : <>(Received(p, q) \/ failures > 0)
=============================================================================
