--------------------------- MODULE NixlCreditProof ---------------------------
(***************************************************************************)
(* The credit protocol of NixlCredit is safe for every number of peers,    *)
(* slots, post workers, sends and failures: type correctness, and one      *)
(* inductive invariant that implies NeverAborts, SlotOwnedOnce,            *)
(* DeliveredIntact and DeliveredOnce.                                      *)
(***************************************************************************)
EXTENDS NixlCredit, CollectionFacts

(* The writes between enqueue_post and the drain of their send slot.       *)
Queued   == Range(postQueue)
Outgoing == Queued \cup posting \cup xfers

-----------------------------------------------------------------------------
(* The parts of the inductive invariant.                                   *)

(* Every write is in one stage of its way, at one place of the queue.      *)
OneStage ==
  /\ IsInjective(postQueue)
  /\ Queued \cap (posting \cup xfers) = {}
  /\ posting \cap xfers = {}

(* A send slot serves one write, and none while the dispatcher fills it.   *)
SendSlotsHeld ==
  /\ \A v, w \in Outgoing : v.send = w.send => v = w
  /\ \A w \in Outgoing : busy[w.send]
  /\ dispatcher.step = "staging" =>
       busy[dispatcher.send] /\ \A w \in Outgoing : w.send # dispatcher.send

(* Sequence numbers are used once per peer, in order.                      *)
NumbersUsedOnce ==
  /\ \A v, w \in Outgoing : v.peer = w.peer /\ v.seq = w.seq => v = w
  /\ \A w \in Outgoing : w.seq < nextSeq[w.peer]
  /\ \A n \in notifs : n.seq < nextSeq[n.peer]

(* Until its data lands, the receive slot of a write is reserved for it,   *)
(* its send slot keeps the data and no notification speaks of it.          *)
UnlandedReserved ==
  \A w \in Outgoing \ landed :
    /\ expected[w.peer][w.recv] = w.seq
    /\ staged[w.send] = <<w.peer, w.seq>>
    /\ \A n \in notifs : ~(n.peer = w.peer /\ n.seq = w.seq)

(* A D notification is out of date, or its slot still holds its batch and  *)
(* awaits its credit; a C notification comes after the copy is complete.   *)
NotifsTrue ==
  \A n \in notifs :
    \/ completed[n.peer][n.slot] >= n.seq
    \/ /\ n.type = "D"
       /\ expected[n.peer][n.slot] = n.seq
       /\ memory[n.peer][n.slot] = <<n.peer, n.seq>>

(* An accepted arrival is the one its slot has in flight, not completed    *)
(* and not delivered.                                                      *)
ArrivalsInFlight ==
  \A p \in Peer :
    /\ arrivals[p] \cap copying[p] = {}
    /\ \A a \in arrivals[p] \cup copying[p] :
         /\ inflight[p][a.slot] = a.seq
         /\ completed[p][a.slot] < a.seq
         /\ [type |-> "D", peer |-> p, slot |-> a.slot, seq |-> a.seq] \in notifs
         /\ delivered[p][a] = 0

(* What was delivered is completed, and was delivered once.                *)
DeliveredCompleted ==
  \A p \in Peer, a \in Arrival :
    /\ delivered[p][a] \in {0, 1}
    /\ delivered[p][a] = 1 => completed[p][a.slot] >= a.seq

IInv == /\ NeverAborts
        /\ SlotOwnedOnce
        /\ OneStage
        /\ SendSlotsHeld
        /\ NumbersUsedOnce
        /\ UnlandedReserved
        /\ NotifsTrue
        /\ ArrivalsInFlight
        /\ DeliveredCompleted

-----------------------------------------------------------------------------
(* Type correctness.                                                       *)

(* The bound on sends has room for the batch the dispatcher is sending.    *)
RoomToSend == dispatcher.step # "idle" /\ ~aborted => nextSeq[dispatcher.peer] < MaxSends

Typed == TypeOK /\ RoomToSend

(* Initially every variable has its type (nixl_context.cpp initialize).    *)
LEMMA InitTyped == Init => Typed
<1> SUFFICES ASSUME Init PROVE Typed
  OBVIOUS
<1>1. available \in [Peer -> Seq(RecvSlot)]
  <2>1. PICK order \in [1 .. Cardinality(RecvSlot) -> RecvSlot] :
          available = [p \in Peer |-> order]
    BY DEF Init
  <2>2. Cardinality(RecvSlot) \in Nat
    BY FS_CardinalityType, NixlAssumption
  <2>3. order \in Seq(RecvSlot)
    BY <2>2, SeqDef
  <2> QED  BY <2>1, <2>3
<1>2. 0 \in SendSlot /\ 0 \in 0 .. MaxSends /\ 0 \in 0 .. MaxFailures
  BY NixlAssumption DEF SendSlot
<1> QED
  BY <1>1, <1>2 DEF Init, Typed, RoomToSend, TypeOK, Dispatcher

(* Every step keeps the types.                                             *)
LEMMA StepTyped == Typed /\ [Next]_vars => Typed'
<1> SUFFICES ASSUME Typed, [Next]_vars PROVE Typed'
  OBVIOUS
<1> USE NixlAssumption DEF Typed, RoomToSend
<1>1. ASSUME NEW p \in Peer, BeginSend(p) PROVE Typed'
  BY <1>1 DEF BeginSend, TypeOK, Dispatcher, receiver
<1>2. CASE AcquireRecvSlot
  <2>1. dispatcher.peer \in Peer
    BY <1>2 DEF AcquireRecvSlot, TypeOK, Dispatcher
  <2>2. /\ Head(available[dispatcher.peer]) \in RecvSlot
        /\ Tail(available[dispatcher.peer]) \in Seq(RecvSlot)
    BY <1>2, <2>1, HeadTailProperties DEF AcquireRecvSlot, TypeOK
  <2> QED  BY <1>2, <2>1, <2>2 DEF AcquireRecvSlot, TypeOK, Dispatcher, receiver
<1>3. ASSUME NEW s \in SendSlot, AcquireSendSlot(s) PROVE Typed'
  <2>1. dispatcher.peer \in Peer /\ dispatcher.recv \in RecvSlot
    BY <1>3 DEF AcquireSendSlot, TypeOK, Dispatcher
  <2>2. (s + 1) % SendRing \in SendSlot
    BY DEF SendSlot
  <2> QED  BY <1>3, <2>1, <2>2 DEF AcquireSendSlot, TypeOK, Dispatcher, receiver
<1>4. CASE PostSend
  <2>1. /\ dispatcher.peer \in Peer
        /\ dispatcher.recv \in RecvSlot /\ dispatcher.send \in SendSlot
    BY <1>4 DEF PostSend, TypeOK, Dispatcher
  <2> DEFINE p == dispatcher.peer
             w == [peer |-> p, recv |-> dispatcher.recv, seq |-> nextSeq[p],
                   send |-> dispatcher.send]
  <2>2. nextSeq[p] \in SeqNo /\ nextSeq[p] + 1 \in 0 .. MaxSends
    BY <1>4, <2>1 DEF PostSend, TypeOK, SeqNo
  <2>3. w \in Write /\ <<p, nextSeq[p]>> \in Payload
    BY <2>1, <2>2 DEF Write, Payload
  <2>4. Append(postQueue, w) \in Seq(Write)
    BY <2>3, AppendProperties DEF TypeOK
  <2>5. /\ nextSeq' \in [Peer -> 0 .. MaxSends]
        /\ staged' \in [SendSlot -> Payload \cup {Nothing}]
    BY <1>4, <2>1, <2>2, <2>3 DEF PostSend, TypeOK
  <2>6. UNCHANGED <<available, busy, nextSlot, posting, xfers, landed, failures, notifs,
                    receiver>>
    BY <1>4 DEF PostSend
  <2>7. CASE expected[p][dispatcher.recv] = NoSeq
    <3>1. /\ expected' = [expected EXCEPT ![p][dispatcher.recv] = nextSeq[p]]
          /\ postQueue' = Append(postQueue, w)
          /\ dispatcher' = [step |-> "idle"]
          /\ aborted' = aborted
      BY <1>4, <2>7 DEF PostSend
    <3>2. expected' \in [Peer -> [RecvSlot -> SeqNo \cup {NoSeq}]]
      BY <2>1, <2>2, <3>1 DEF TypeOK
    <3> QED  BY <2>4, <2>5, <2>6, <3>1, <3>2 DEF TypeOK, Dispatcher, receiver
  <2>8. CASE expected[p][dispatcher.recv] # NoSeq
    <3>1. aborted' = TRUE /\ UNCHANGED <<expected, postQueue, dispatcher>>
      BY <1>4, <2>8 DEF PostSend
    <3> QED  BY <2>5, <2>6, <3>1 DEF TypeOK, receiver
  <2> QED  BY <2>7, <2>8
<1>5. CASE PickPost
  <2>1. Head(postQueue) \in Write /\ Tail(postQueue) \in Seq(Write)
    BY <1>5, HeadTailProperties DEF PickPost, TypeOK
  <2> QED  BY <1>5, <2>1 DEF PickPost, TypeOK, receiver
<1>6. ASSUME NEW w \in posting, PostWrite(w) PROVE Typed'
  BY <1>6 DEF PostWrite, TypeOK, receiver
<1>7. ASSUME NEW w \in xfers, WriteLands(w) PROVE Typed'
  <2>1. w \in Write
    BY DEF TypeOK
  <2>2. /\ w.peer \in Peer /\ w.recv \in RecvSlot /\ w.send \in SendSlot
        /\ [type |-> "D", peer |-> w.peer, slot |-> w.recv, seq |-> w.seq] \in Notif
    BY <2>1 DEF Write, Notif
  <2>3. memory' \in [Peer -> [RecvSlot -> Payload \cup {Nothing}]]
    BY <1>7, <2>2 DEF WriteLands, TypeOK
  <2> QED  BY <1>7, <2>2, <2>3 DEF WriteLands, TypeOK
<1>8. ASSUME NEW w \in xfers, DrainDone(w) PROVE Typed'
  BY <1>8 DEF DrainDone, ReleaseSendSlot, TypeOK, Write, receiver
<1>9. ASSUME NEW w \in xfers, DrainFailed(w) PROVE Typed'
  BY <1>9 DEF DrainFailed, ReleaseSendSlot, TypeOK, Write, receiver
<1>10. ASSUME NEW n \in notifs, AcceptData(n) PROVE Typed'
  <2>1. n \in Notif
    BY DEF TypeOK
  <2>2. /\ n.peer \in Peer /\ n.slot \in RecvSlot /\ n.seq \in SeqNo
        /\ [slot |-> n.slot, seq |-> n.seq] \in Arrival
    BY <2>1 DEF Notif, Arrival
  <2> QED  BY <1>10, <2>2 DEF AcceptData, TypeOK, sender
<1>11. ASSUME NEW p \in Peer, DrainArrivals(p) PROVE Typed'
  BY <1>11 DEF DrainArrivals, TypeOK, sender
<1>12. ASSUME NEW p \in Peer, NEW a \in copying[p], FinishCopy(p, a) PROVE Typed'
  <2>1. a \in Arrival
    BY DEF TypeOK
  <2>2. /\ a.slot \in RecvSlot /\ a.seq \in SeqNo
        /\ [type |-> "C", peer |-> p, slot |-> a.slot, seq |-> a.seq] \in Notif
    BY <2>1 DEF Arrival, Notif
  <2>3. /\ completed' \in [Peer -> [RecvSlot -> SeqNo \cup {NoSeq}]]
        /\ inflight' \in [Peer -> [RecvSlot -> SeqNo \cup {NoSeq}]]
    BY <1>12, <2>2 DEF FinishCopy, TypeOK
  <2>4. delivered' \in [Peer -> [Arrival -> Nat]]
    BY <1>12, <2>1 DEF FinishCopy, TypeOK
  <2>5. copying' \in [Peer -> SUBSET Arrival] /\ notifs' \subseteq Notif
    BY <1>12, <2>2 DEF FinishCopy, TypeOK
  <2> QED  BY <1>12, <2>3, <2>4, <2>5 DEF FinishCopy, TypeOK, sender
<1>13. ASSUME NEW n \in notifs, AcceptCredit(n) PROVE Typed'
  <2>1. n.peer \in Peer /\ n.slot \in RecvSlot
    BY DEF TypeOK, Notif
  <2>2. Append(available[n.peer], n.slot) \in Seq(RecvSlot)
    BY <2>1, AppendProperties DEF TypeOK
  <2> QED  BY <1>13, <2>1, <2>2 DEF AcceptCredit, TypeOK, receiver
<1>14. CASE UNCHANGED vars
  BY <1>14 DEF vars, sender, receiver, TypeOK
<1> QED
  BY <1>1, <1>2, <1>3, <1>4, <1>5, <1>6, <1>7, <1>8, <1>9, <1>10, <1>11, <1>12, <1>13,
     <1>14 DEF Next

(* Type correctness of the protocol.                                       *)
THEOREM TypeCorrect == Spec => []TypeOK
<1>1. Typed => TypeOK
  BY DEF Typed
<1> QED
  BY InitTyped, StepTyped, <1>1, PTL DEF Spec

-----------------------------------------------------------------------------
(* The inductive invariant: it holds initially, and one lemma per action.  *)

LEMMA InitIInv == Init => IInv
<1> SUFFICES ASSUME Init PROVE IInv
  OBVIOUS
<1>1. Outgoing = {} /\ Queued = {}
  BY DEF Init, Outgoing, Queued, Range
<1>2. SlotOwnedOnce
  <2>1. PICK order \in [1 .. Cardinality(RecvSlot) -> RecvSlot] :
          /\ IsInjective(order) /\ Range(order) = RecvSlot
          /\ available = [p \in Peer |-> order]
    BY DEF Init
  <2> QED  BY <2>1 DEF Init, SlotOwnedOnce, OwnedOnce, Listed, Holds
<1>3. NeverAborts /\ OneStage /\ SendSlotsHeld
  BY <1>1 DEF Init, IsInjective, NeverAborts, OneStage, SendSlotsHeld
<1>4. NumbersUsedOnce /\ UnlandedReserved /\ NotifsTrue
  BY <1>1 DEF Init, NumbersUsedOnce, UnlandedReserved, NotifsTrue
<1>5. ArrivalsInFlight /\ DeliveredCompleted
  BY DEF Init, ArrivalsInFlight, DeliveredCompleted
<1> QED
  BY <1>2, <1>3, <1>4, <1>5 DEF IInv

(* Sequence numbers, and completed_recv_seq, are integers.                 *)
LEMMA CompletedTyped ==
  ASSUME TypeOK
  PROVE  /\ \A p \in Peer, t \in RecvSlot : completed[p][t] \in Int
         /\ \A a \in Arrival : a.slot \in RecvSlot /\ a.seq \in Nat
         /\ \A n \in notifs : n.peer \in Peer /\ n.slot \in RecvSlot /\ n.seq \in Nat
<1>1. SeqNo \subseteq Nat /\ SeqNo \cup {NoSeq} \subseteq Int
  BY NixlAssumption DEF SeqNo, NoSeq
<1>2. \A p \in Peer, t \in RecvSlot : completed[p][t] \in SeqNo \cup {NoSeq}
  BY DEF TypeOK
<1>3. \A p \in Peer, t \in RecvSlot : completed[p][t] \in Int
  BY <1>1, <1>2
<1>4. \A a \in Arrival : a.slot \in RecvSlot /\ a.seq \in Nat
  BY <1>1 DEF Arrival
<1>5. \A n \in notifs : n.peer \in Peer /\ n.slot \in RecvSlot /\ n.seq \in Nat
  BY <1>1 DEF TypeOK, Notif
<1> QED
  BY <1>3, <1>4, <1>5

(* Writes on their way are writes.                                         *)
LEMMA OutgoingTyped ==
  ASSUME TypeOK
  PROVE  \A w \in Outgoing :
           w \in Write /\ w.peer \in Peer /\ w.recv \in RecvSlot /\ w.send \in SendSlot
<1>1. \A w \in Outgoing : w \in Write
  BY DEF TypeOK, Outgoing, Queued, Range
<1> QED
  BY <1>1 DEF Write

(* The dispatcher turns to its next batch.                                 *)
LEMMA BeginSendKeeps ==
  ASSUME TypeOK, IInv, NEW p \in Peer, BeginSend(p) PROVE IInv'
<1> USE DEF BeginSend
<1>1. Outgoing' = Outgoing /\ Queued' = Queued
  BY DEF Outgoing, Queued
<1>2. SlotOwnedOnce'
  BY DEF IInv, SlotOwnedOnce, OwnedOnce, Listed, Holds
<1>3. OneStage' /\ SendSlotsHeld' /\ NumbersUsedOnce' /\ UnlandedReserved'
  BY <1>1 DEF IInv, OneStage, SendSlotsHeld, NumbersUsedOnce, UnlandedReserved
<1>4. NeverAborts' /\ NotifsTrue' /\ ArrivalsInFlight' /\ DeliveredCompleted'
  BY DEF receiver, IInv, NeverAborts, NotifsTrue, ArrivalsInFlight, DeliveredCompleted
<1> QED
  BY <1>2, <1>3, <1>4 DEF IInv

(* A receive slot goes from the free list into the dispatcher's hands.     *)
LEMMA AcquireRecvSlotKeeps ==
  ASSUME TypeOK, IInv, AcquireRecvSlot PROVE IInv'
<1> USE DEF AcquireRecvSlot
<1>1. Outgoing' = Outgoing /\ Queued' = Queued
  BY DEF Outgoing, Queued
<1>2. SlotOwnedOnce'
  <2>1. PICK p \in Peer : /\ p = dispatcher.peer
                         /\ available[p] \in Seq(RecvSlot) /\ available[p] # <<>>
    BY DEF TypeOK, Dispatcher
  <2>2. /\ available' = [available EXCEPT ![p] = Tail(available[p])]
        /\ dispatcher' = [step |-> "credited", peer |-> p, recv |-> Head(available[p])]
        /\ expected' = expected
    BY <2>1
  <2> HIDE DEF AcquireRecvSlot
  <2>3. \A q \in Peer : OwnedOnce(q)
    BY DEF IInv, SlotOwnedOnce
  <2>4. \A q \in Peer, s \in RecvSlot : ~Holds(q, s)
    BY DEF AcquireRecvSlot, Holds
  <2>5. ASSUME NEW q \in Peer, q # p PROVE OwnedOnce(q)'
    BY <2>2, <2>3, <2>4, <2>5 DEF OwnedOnce, Listed, Holds, TypeOK
  <2>6. OwnedOnce(p)'
    <3>1. /\ Head(available[p]) \in Range(available[p])
          /\ IsInjective(Tail(available[p]))
          /\ Range(Tail(available[p])) = Range(available[p]) \ {Head(available[p])}
      BY <2>1, <2>3, TakeHead DEF OwnedOnce
    <3>2. available'[p] = Tail(available[p])
      BY <2>1, <2>2 DEF TypeOK
    <3> QED  BY <2>1, <2>2, <2>3, <2>4, <3>1, <3>2 DEF OwnedOnce, Listed, Holds
  <2> QED  BY <2>5, <2>6 DEF SlotOwnedOnce
<1>3. OneStage' /\ SendSlotsHeld' /\ NumbersUsedOnce' /\ UnlandedReserved'
  BY <1>1 DEF IInv, OneStage, SendSlotsHeld, NumbersUsedOnce, UnlandedReserved
<1>4. NeverAborts' /\ NotifsTrue' /\ ArrivalsInFlight' /\ DeliveredCompleted'
  BY DEF receiver, IInv, NeverAborts, NotifsTrue, ArrivalsInFlight, DeliveredCompleted
<1> QED
  BY <1>2, <1>3, <1>4 DEF IInv

(* A free send slot goes into the dispatcher's hands.                      *)
LEMMA AcquireSendSlotKeeps ==
  ASSUME TypeOK, IInv, NEW s \in SendSlot, AcquireSendSlot(s) PROVE IInv'
<1>1. /\ dispatcher.step = "credited" /\ ~busy[s]
      /\ dispatcher' = [step |-> "staging", peer |-> dispatcher.peer,
                        recv |-> dispatcher.recv, send |-> s]
      /\ busy' = [busy EXCEPT ![s] = TRUE]
      /\ UNCHANGED <<available, expected, nextSeq, staged, postQueue, posting, xfers,
                     landed, aborted, notifs, receiver>>
  BY DEF AcquireSendSlot
<1>2. Outgoing' = Outgoing /\ Queued' = Queued
  BY <1>1 DEF Outgoing, Queued
<1>3. SlotOwnedOnce'
  BY <1>1 DEF IInv, SlotOwnedOnce, OwnedOnce, Listed, Holds
<1>4. SendSlotsHeld'
  BY <1>1, <1>2 DEF IInv, SendSlotsHeld, TypeOK
<1>5. OneStage' /\ NumbersUsedOnce' /\ UnlandedReserved'
  BY <1>1, <1>2 DEF IInv, OneStage, NumbersUsedOnce, UnlandedReserved
<1>6. NeverAborts' /\ NotifsTrue' /\ ArrivalsInFlight' /\ DeliveredCompleted'
  BY <1>1 DEF receiver, IInv, NeverAborts, NotifsTrue, ArrivalsInFlight, DeliveredCompleted
<1> QED
  BY <1>3, <1>4, <1>5, <1>6 DEF IInv

(* The dispatcher's receive slot has no send outstanding, so the assertion *)
(* of note_send_posted holds, and the new write gets a number that no      *)
(* notification carries yet.                                               *)
LEMMA PostSendKeeps ==
  ASSUME TypeOK, TypeOK', IInv, PostSend PROVE IInv'
<1>1. PICK p \in Peer, r \in RecvSlot, s \in SendSlot :
        dispatcher.peer = p /\ dispatcher.recv = r /\ dispatcher.send = s
  BY DEF PostSend, TypeOK, Dispatcher
<1> DEFINE q == nextSeq[p]
           w == [peer |-> p, recv |-> r, seq |-> q, send |-> s]
<1>2. expected[p][r] = NoSeq
  BY <1>1 DEF PostSend, IInv, SlotOwnedOnce, OwnedOnce, Holds
<1>3. /\ dispatcher.step = "staging"
      /\ nextSeq' = [nextSeq EXCEPT ![p] = q + 1]
      /\ staged' = [staged EXCEPT ![s] = <<p, q>>]
      /\ expected' = [expected EXCEPT ![p][r] = q]
      /\ postQueue' = Append(postQueue, w)
      /\ dispatcher' = [step |-> "idle"]
      /\ UNCHANGED <<available, busy, posting, xfers, landed, aborted, notifs, receiver>>
  BY <1>1, <1>2 DEF PostSend
<1>4. /\ q \in Nat
      /\ \A v \in Outgoing : v \in Write /\ v.seq < nextSeq[v.peer] /\ v.send # s
  BY <1>1, <1>3 DEF TypeOK, IInv, NumbersUsedOnce, SendSlotsHeld, Outgoing, Queued, Range
<1>5. w \in Write
  <2>1. nextSeq'[p] = q + 1 /\ nextSeq'[p] \in 0 .. MaxSends
    BY <1>3 DEF TypeOK
  <2> QED  BY <1>4, <2>1, NixlAssumption DEF Write, SeqNo
<1>6. w \notin Outgoing
  BY <1>4
<1>7. /\ Queued' = Queued \cup {w} /\ Outgoing' = Outgoing \cup {w}
      /\ IsInjective(postQueue')
  <2>1. Queued' = Queued \cup {w} /\ IsInjective(postQueue')
    BY <1>3, <1>5, <1>6, PutBack DEF TypeOK, IInv, OneStage, Queued, Outgoing
  <2> QED  BY <1>3, <2>1 DEF Outgoing
<1> HIDE DEF w
<1>8. w.peer = p /\ w.recv = r /\ w.seq = q /\ w.send = s
  BY DEF w
<1>9. SlotOwnedOnce'
  <2>1. ASSUME NEW x \in Peer PROVE OwnedOnce(x)'
    <3>1. OwnedOnce(x)
      BY DEF IInv, SlotOwnedOnce
    <3>2. \A t \in RecvSlot : (Holds(x, t) <=> x = p /\ t = r) /\ ~Holds(x, t)'
      BY <1>1, <1>3 DEF Holds
    <3>3. \A t \in RecvSlot : expected'[x][t] = IF x = p /\ t = r THEN q ELSE expected[x][t]
      BY <1>3 DEF TypeOK
    <3>4. q # NoSeq
      BY <1>4 DEF NoSeq
    <3> QED  BY <1>3, <3>1, <3>2, <3>3, <3>4 DEF OwnedOnce, Listed
  <2> QED  BY <2>1 DEF SlotOwnedOnce
<1>10. OneStage'
  BY <1>3, <1>6, <1>7 DEF IInv, OneStage, Outgoing
<1>11. SendSlotsHeld'
  BY <1>1, <1>3, <1>4, <1>7, <1>8 DEF IInv, SendSlotsHeld
<1>12. NumbersUsedOnce'
  <2>1. /\ nextSeq'[p] = q + 1 /\ \A x \in Peer : x # p => nextSeq'[x] = nextSeq[x]
        /\ \A n \in notifs : n \in Notif /\ n.seq < nextSeq[n.peer]
    BY <1>3 DEF TypeOK, IInv, NumbersUsedOnce
  <2>2. \A v \in Outgoing' : v.seq < nextSeq'[v.peer]
    BY <1>4, <1>7, <1>8, <2>1 DEF Write, SeqNo
  <2>3. \A n \in notifs' : n.seq < nextSeq'[n.peer]
    BY <1>3, <1>4, <2>1 DEF Notif, SeqNo
  <2>4. \A v, u \in Outgoing' : v.peer = u.peer /\ v.seq = u.seq => v = u
    BY <1>4, <1>7, <1>8 DEF IInv, NumbersUsedOnce
  <2> QED  BY <2>2, <2>3, <2>4 DEF NumbersUsedOnce
<1>13. UnlandedReserved'
  <2>1. w \notin landed
    BY <1>6 DEF TypeOK, Outgoing
  <2>2. \A n \in notifs : ~(n.peer = p /\ n.seq = q)
    BY <1>4 DEF IInv, NumbersUsedOnce
  <2>3. expected'[p][r] = q /\ staged'[s] = <<p, q>>
    BY <1>3 DEF TypeOK
  <2>4. ASSUME NEW v \in Outgoing \ landed
        PROVE  /\ expected'[v.peer][v.recv] = v.seq
               /\ staged'[v.send] = <<v.peer, v.seq>>
    <3>1. /\ v \in Write /\ v.send # s
          /\ expected[v.peer][v.recv] = v.seq /\ staged[v.send] = <<v.peer, v.seq>>
      BY <1>4, <2>4 DEF IInv, UnlandedReserved
    <3>2. ~(v.peer = p /\ v.recv = r)
      BY <1>2, <3>1 DEF Write, SeqNo, NoSeq
    <3> QED  BY <1>3, <3>1, <3>2 DEF TypeOK, Write
  <2> QED  BY <1>3, <1>7, <1>8, <2>1, <2>2, <2>3, <2>4 DEF IInv, UnlandedReserved
<1>14. NotifsTrue'
  <2>1. ASSUME NEW n \in notifs
        PROVE  \/ completed[n.peer][n.slot] >= n.seq
               \/ /\ n.type = "D" /\ expected'[n.peer][n.slot] = n.seq
                  /\ memory[n.peer][n.slot] = <<n.peer, n.seq>>
    <3>1. n \in Notif
      BY DEF TypeOK
    <3>2. CASE expected[n.peer][n.slot] = n.seq
      <4>1. ~(n.peer = p /\ n.slot = r)
        BY <1>2, <3>1, <3>2 DEF Notif, SeqNo, NoSeq
      <4>2. expected'[n.peer][n.slot] = expected[n.peer][n.slot]
        BY <1>3, <3>1, <4>1 DEF TypeOK, Notif
      <4> QED  BY <4>2 DEF IInv, NotifsTrue
    <3>3. CASE expected[n.peer][n.slot] # n.seq
      BY <3>3 DEF IInv, NotifsTrue
    <3> QED  BY <3>2, <3>3
  <2> QED  BY <1>3, <2>1 DEF NotifsTrue, receiver
<1>15. NeverAborts' /\ ArrivalsInFlight' /\ DeliveredCompleted'
  BY <1>3 DEF receiver, IInv, NeverAborts, ArrivalsInFlight, DeliveredCompleted
<1> QED
  BY <1>9, <1>10, <1>11, <1>12, <1>13, <1>14, <1>15 DEF IInv


(* A post worker takes the oldest queued write.                            *)
LEMMA PickPostKeeps ==
  ASSUME TypeOK, IInv, PickPost PROVE IInv'
<1>1. /\ postQueue # <<>>
      /\ posting' = posting \cup {Head(postQueue)} /\ postQueue' = Tail(postQueue)
      /\ UNCHANGED <<dispatcher, available, expected, nextSeq, busy, staged, xfers, landed,
                     aborted, notifs, receiver>>
  BY DEF PickPost
<1>2. /\ Head(postQueue) \in Queued /\ IsInjective(postQueue')
      /\ Queued' = Queued \ {Head(postQueue)}
  BY <1>1, TakeHead DEF TypeOK, IInv, OneStage, Queued
<1>3. Outgoing' = Outgoing
  BY <1>1, <1>2 DEF Outgoing
<1>4. OneStage'
  BY <1>1, <1>2 DEF IInv, OneStage
<1>5. SlotOwnedOnce'
  BY <1>1 DEF IInv, SlotOwnedOnce, OwnedOnce, Listed, Holds
<1>6. SendSlotsHeld' /\ NumbersUsedOnce' /\ UnlandedReserved'
  BY <1>1, <1>3 DEF IInv, SendSlotsHeld, NumbersUsedOnce, UnlandedReserved
<1>7. NeverAborts' /\ NotifsTrue' /\ ArrivalsInFlight' /\ DeliveredCompleted'
  BY <1>1 DEF receiver, IInv, NeverAborts, NotifsTrue, ArrivalsInFlight, DeliveredCompleted
<1> QED
  BY <1>4, <1>5, <1>6, <1>7 DEF IInv

(* A post worker hands its write to the network.                           *)
LEMMA PostWriteKeeps ==
  ASSUME TypeOK, IInv, NEW w \in posting, PostWrite(w) PROVE IInv'
<1>1. /\ posting' = posting \ {w} /\ xfers' = xfers \cup {w}
      /\ UNCHANGED <<dispatcher, available, expected, nextSeq, busy, staged, postQueue,
                     landed, aborted, notifs, receiver>>
  BY DEF PostWrite
<1>2. Outgoing' = Outgoing /\ Queued' = Queued
  BY <1>1 DEF Outgoing, Queued
<1>3. OneStage'
  BY <1>1, <1>2 DEF IInv, OneStage
<1>4. SlotOwnedOnce'
  BY <1>1 DEF IInv, SlotOwnedOnce, OwnedOnce, Listed, Holds
<1>5. SendSlotsHeld' /\ NumbersUsedOnce' /\ UnlandedReserved'
  BY <1>1, <1>2 DEF IInv, SendSlotsHeld, NumbersUsedOnce, UnlandedReserved
<1>6. NeverAborts' /\ NotifsTrue' /\ ArrivalsInFlight' /\ DeliveredCompleted'
  BY <1>1 DEF receiver, IInv, NeverAborts, NotifsTrue, ArrivalsInFlight, DeliveredCompleted
<1> QED
  BY <1>3, <1>4, <1>5, <1>6 DEF IInv

(* The data of a write lands in the receive slot reserved for it, and its  *)
(* D notification is the first to carry its number.                        *)
LEMMA WriteLandsKeeps ==
  ASSUME TypeOK, IInv, NEW w \in xfers, WriteLands(w) PROVE IInv'
<1> DEFINE d == [type |-> "D", peer |-> w.peer, slot |-> w.recv, seq |-> w.seq]
<1>1. /\ w \notin landed /\ landed' = landed \cup {w}
      /\ memory' = [memory EXCEPT ![w.peer][w.recv] = staged[w.send]]
      /\ notifs' = notifs \cup {d}
  BY DEF WriteLands
<1>2. /\ w \in Write /\ w \in Outgoing
      /\ w.peer \in Peer /\ w.recv \in RecvSlot /\ w.seq \in SeqNo
  BY DEF TypeOK, Outgoing, Write
<1>3. UNCHANGED <<dispatcher, available, expected, nextSeq, busy, staged, postQueue, posting,
                  xfers, aborted, inflight, completed, arrivals, copying, delivered>>
  BY DEF WriteLands
<1>4. Outgoing' = Outgoing /\ Queued' = Queued
  BY <1>3 DEF Outgoing, Queued
<1>5. /\ expected[w.peer][w.recv] = w.seq /\ staged[w.send] = <<w.peer, w.seq>>
      /\ \A n \in notifs : ~(n.peer = w.peer /\ n.seq = w.seq)
  BY <1>1, <1>2 DEF IInv, UnlandedReserved
<1>6. SlotOwnedOnce' /\ NeverAborts' /\ OneStage' /\ SendSlotsHeld' /\ DeliveredCompleted'
  BY <1>3, <1>4 DEF IInv, SlotOwnedOnce, OwnedOnce, Listed, Holds, NeverAborts, OneStage,
                    SendSlotsHeld, DeliveredCompleted
<1>7. NumbersUsedOnce'
  BY <1>1, <1>2, <1>3, <1>4 DEF IInv, NumbersUsedOnce
<1>8. UnlandedReserved'
  BY <1>1, <1>2, <1>3, <1>4 DEF IInv, UnlandedReserved, NumbersUsedOnce
<1>9. NotifsTrue'
  <2>1. ASSUME NEW n \in notifs
        PROVE  \/ completed[n.peer][n.slot] >= n.seq
               \/ /\ n.type = "D" /\ expected[n.peer][n.slot] = n.seq
                  /\ memory'[n.peer][n.slot] = <<n.peer, n.seq>>
    <3>1. n.peer \in Peer /\ n.slot \in RecvSlot
      BY DEF TypeOK, Notif
    <3>2. CASE n.peer = w.peer /\ n.slot = w.recv
      BY <1>5, <3>2 DEF IInv, NotifsTrue
    <3>3. CASE ~(n.peer = w.peer /\ n.slot = w.recv)
      <4>1. memory'[n.peer][n.slot] = memory[n.peer][n.slot]
        BY <1>1, <1>2, <3>1, <3>3 DEF TypeOK
      <4> QED  BY <4>1 DEF IInv, NotifsTrue
    <3> QED  BY <3>2, <3>3
  <2>2. memory'[w.peer][w.recv] = <<w.peer, w.seq>>
    BY <1>1, <1>2, <1>5 DEF TypeOK
  <2>3. d.type = "D" /\ d.peer = w.peer /\ d.slot = w.recv /\ d.seq = w.seq
    OBVIOUS
  <2> HIDE DEF d
  <2> QED  BY <1>1, <1>3, <1>5, <2>1, <2>2, <2>3 DEF NotifsTrue
<1>10. ArrivalsInFlight'
  BY <1>1, <1>3 DEF IInv, ArrivalsInFlight
<1> QED
  BY <1>6, <1>7, <1>8, <1>9, <1>10 DEF IInv

(* A finished or failed write gives up its send slot.                      *)
LEMMA ReleaseSendSlotKeeps ==
  ASSUME TypeOK, IInv, NEW w \in xfers, ReleaseSendSlot(w) PROVE IInv'
<1>1. /\ xfers' = xfers \ {w} /\ landed' = landed \ {w}
      /\ busy' = [busy EXCEPT ![w.send] = FALSE]
      /\ UNCHANGED <<dispatcher, available, expected, nextSeq, staged, postQueue, posting,
                     aborted, notifs, receiver>>
  BY DEF ReleaseSendSlot
<1>2. /\ Queued' = Queued /\ Outgoing' = Outgoing \ {w} /\ w \in Outgoing
      /\ \A v \in Outgoing : v \in Write
  BY <1>1 DEF Outgoing, Queued, Range, TypeOK, IInv, OneStage
<1>3. SlotOwnedOnce' /\ OneStage' /\ NeverAborts'
  BY <1>1, <1>2 DEF IInv, SlotOwnedOnce, OwnedOnce, Listed, Holds, OneStage, NeverAborts
<1>4. SendSlotsHeld'
  <2>1. \A t \in SendSlot : t # w.send => busy'[t] = busy[t]
    BY <1>1 DEF TypeOK
  <2>2. dispatcher.step = "staging" => dispatcher.send \in SendSlot
    BY DEF TypeOK, Dispatcher
  <2>3. ASSUME NEW v \in Outgoing' PROVE busy'[v.send]
    <3>1. v.send # w.send /\ v.send \in SendSlot /\ busy[v.send]
      BY <1>2 DEF IInv, SendSlotsHeld, Write
    <3> QED  BY <2>1, <3>1
  <2>4. dispatcher'.step = "staging" => busy'[dispatcher'.send]
    BY <1>1, <1>2, <2>1, <2>2 DEF IInv, SendSlotsHeld
  <2> QED  BY <1>1, <1>2, <2>3, <2>4 DEF IInv, SendSlotsHeld
<1>5. NumbersUsedOnce' /\ UnlandedReserved'
  BY <1>1, <1>2 DEF IInv, NumbersUsedOnce, UnlandedReserved
<1>6. NotifsTrue' /\ ArrivalsInFlight' /\ DeliveredCompleted'
  BY <1>1 DEF receiver, IInv, NotifsTrue, ArrivalsInFlight, DeliveredCompleted
<1> QED
  BY <1>3, <1>4, <1>5, <1>6 DEF IInv

(* The receiver accepts a D notification: its slot holds its batch, and no *)
(* other arrival of the slot is in flight.                                 *)
LEMMA AcceptDataKeeps ==
  ASSUME TypeOK, IInv, NEW n \in notifs, AcceptData(n) PROVE IInv'
<1> DEFINE b == [slot |-> n.slot, seq |-> n.seq]
<1>1. /\ n.type = "D" /\ inflight[n.peer][n.slot] # n.seq
      /\ completed[n.peer][n.slot] < n.seq
      /\ inflight' = [inflight EXCEPT ![n.peer][n.slot] = n.seq]
      /\ arrivals' = [arrivals EXCEPT ![n.peer] = @ \cup {b}]
      /\ UNCHANGED <<sender, notifs, memory, completed, copying, delivered>>
  BY DEF AcceptData
<1>2. /\ n \in Notif /\ n.peer \in Peer /\ n.slot \in RecvSlot /\ n.seq \in Nat
      /\ b \in Arrival /\ b.slot = n.slot /\ b.seq = n.seq
  BY DEF TypeOK, Notif, Arrival, SeqNo
<1>3. n = [type |-> "D", peer |-> n.peer, slot |-> n.slot, seq |-> n.seq]
  BY <1>1, <1>2 DEF Notif
<1>4. SlotOwnedOnce' /\ NeverAborts' /\ OneStage' /\ SendSlotsHeld' /\ NumbersUsedOnce'
        /\ UnlandedReserved' /\ NotifsTrue' /\ DeliveredCompleted'
  BY <1>1 DEF sender, IInv, SlotOwnedOnce, OwnedOnce, Listed, Holds, NeverAborts, OneStage,
              Outgoing, Queued, SendSlotsHeld, NumbersUsedOnce, UnlandedReserved, NotifsTrue,
              DeliveredCompleted
<1>5. ArrivalsInFlight'
  <2>1. expected[n.peer][n.slot] = n.seq
    BY <1>1, <1>2, CompletedTyped DEF IInv, NotifsTrue
  <2>2. ASSUME NEW a \in arrivals[n.peer] \cup copying[n.peer] PROVE a.slot # n.slot
    <3>1. a \in Arrival /\ a.slot \in RecvSlot /\ a.seq \in Nat
      BY <1>2 DEF TypeOK, Arrival, SeqNo
    <3>2. /\ inflight[n.peer][a.slot] = a.seq /\ completed[n.peer][a.slot] < a.seq
          /\ [type |-> "D", peer |-> n.peer, slot |-> a.slot, seq |-> a.seq] \in notifs
      BY <1>2 DEF IInv, ArrivalsInFlight
    <3>3. expected[n.peer][a.slot] = a.seq
      BY <1>2, <3>1, <3>2, CompletedTyped DEF IInv, NotifsTrue
    <3> QED  BY <1>1, <2>1, <3>2, <3>3
  <2>3. b \notin copying[n.peer] /\ delivered[n.peer][b] = 0
    BY <1>1, <1>2, <2>2, CompletedTyped DEF IInv, DeliveredCompleted
  <2>4. inflight'[n.peer][n.slot] = n.seq /\ arrivals'[n.peer] = arrivals[n.peer] \cup {b}
    BY <1>1, <1>2 DEF TypeOK
  <2>5. \A t \in RecvSlot : t # n.slot => inflight'[n.peer][t] = inflight[n.peer][t]
    BY <1>1, <1>2 DEF TypeOK
  <2>6. \A p \in Peer : p # n.peer => inflight'[p] = inflight[p] /\ arrivals'[p] = arrivals[p]
    BY <1>1, <1>2 DEF TypeOK
  <2>7. \A p \in Peer : \A a \in arrivals[p] \cup copying[p] : a.slot \in RecvSlot
    BY DEF TypeOK, Arrival
  <2> QED  BY <1>1, <1>2, <1>3, <2>2, <2>3, <2>4, <2>5, <2>6, <2>7 DEF IInv, ArrivalsInFlight
<1> QED
  BY <1>4, <1>5 DEF IInv

(* Arrivals become copies in progress.                                     *)
LEMMA DrainArrivalsKeeps ==
  ASSUME TypeOK, IInv, NEW p \in Peer, DrainArrivals(p) PROVE IInv'
<1>1. /\ copying' = [copying EXCEPT ![p] = @ \cup arrivals[p]]
      /\ arrivals' = [arrivals EXCEPT ![p] = {}]
      /\ UNCHANGED <<sender, notifs, memory, inflight, completed, delivered>>
  BY DEF DrainArrivals
<1>2. SlotOwnedOnce' /\ NeverAborts' /\ OneStage' /\ SendSlotsHeld' /\ NumbersUsedOnce'
        /\ UnlandedReserved' /\ NotifsTrue' /\ DeliveredCompleted'
  BY <1>1 DEF sender, IInv, SlotOwnedOnce, OwnedOnce, Listed, Holds, NeverAborts, OneStage,
              Outgoing, Queued, SendSlotsHeld, NumbersUsedOnce, UnlandedReserved, NotifsTrue,
              DeliveredCompleted
<1>3. ArrivalsInFlight'
  <2>1. \A q \in Peer : /\ arrivals'[q] \cup copying'[q] = arrivals[q] \cup copying[q]
                        /\ arrivals'[q] \cap copying'[q] \subseteq arrivals[q] \cap copying[q]
    BY <1>1 DEF TypeOK
  <2> QED  BY <1>1, <2>1 DEF IInv, ArrivalsInFlight
<1> QED
  BY <1>2, <1>3 DEF IInv

(* A completed copy is the only arrival of its slot; it is delivered for   *)
(* the first time and its number is completed before the credit exists.    *)
LEMMA FinishCopyKeeps ==
  ASSUME TypeOK, IInv, NEW p \in Peer, NEW a \in copying[p], FinishCopy(p, a) PROVE IInv'
<1> DEFINE c == [type |-> "C", peer |-> p, slot |-> a.slot, seq |-> a.seq]
<1>1. /\ a \in Arrival /\ a.slot \in RecvSlot /\ a.seq \in SeqNo /\ a.seq \in Nat
      /\ inflight[p][a.slot] = a.seq /\ completed[p][a.slot] < a.seq
      /\ delivered[p][a] = 0 /\ a \notin arrivals[p]
      /\ [type |-> "D", peer |-> p, slot |-> a.slot, seq |-> a.seq] \in notifs
  BY DEF TypeOK, Arrival, SeqNo, IInv, ArrivalsInFlight
<1>2. /\ copying' = [copying EXCEPT ![p] = @ \ {a}]
      /\ completed' = [completed EXCEPT ![p][a.slot] = a.seq]
      /\ inflight' = [inflight EXCEPT ![p][a.slot] = NoSeq]
      /\ notifs' = notifs \cup {c}
      /\ delivered' = [delivered EXCEPT ![p][a] = 1]
      /\ UNCHANGED <<sender, memory, arrivals>>
  <2>1. copying' = [copying EXCEPT ![p] = @ \ {a}] /\ notifs' = notifs \cup {c}
          /\ UNCHANGED <<sender, memory, arrivals>>
    BY DEF FinishCopy
  <2>2. completed' = [completed EXCEPT ![p][a.slot] = a.seq]
    BY <1>1 DEF FinishCopy, TypeOK
  <2>3. inflight' = [inflight EXCEPT ![p][a.slot] = NoSeq]
    BY <1>1 DEF FinishCopy, TypeOK
  <2>4. delivered' = [delivered EXCEPT ![p][a] = 1]
    BY <1>1 DEF FinishCopy, TypeOK
  <2> QED  BY <2>1, <2>2, <2>3, <2>4
<1>3. /\ \A q \in Peer, t \in RecvSlot :
           /\ completed[q][t] <= completed'[q][t]
           /\ ~(q = p /\ t = a.slot) => completed'[q][t] = completed[q][t]
                                        /\ inflight'[q][t] = inflight[q][t]
      /\ completed'[p][a.slot] = a.seq
  <2>1. /\ completed \in [Peer -> [RecvSlot -> SeqNo \cup {NoSeq}]]
        /\ inflight \in [Peer -> [RecvSlot -> SeqNo \cup {NoSeq}]]
    BY DEF TypeOK
  <2>2. completed'[p][a.slot] = a.seq
    BY <1>1, <1>2, <2>1
  <2>3. ASSUME NEW q \in Peer, NEW t \in RecvSlot, ~(q = p /\ t = a.slot)
        PROVE  completed'[q][t] = completed[q][t] /\ inflight'[q][t] = inflight[q][t]
    BY <1>2, <2>1, <2>3
  <2>4. ASSUME NEW q \in Peer, NEW t \in RecvSlot
        PROVE  completed[q][t] <= completed'[q][t]
    <3>1. completed[q][t] \in Int
      BY CompletedTyped
    <3>2. CASE q = p /\ t = a.slot
      BY <1>1, <2>2, <3>1, <3>2
    <3>3. CASE ~(q = p /\ t = a.slot)
      BY <2>3, <3>1, <3>3
    <3> QED  BY <3>2, <3>3
  <2> QED  BY <2>2, <2>3, <2>4
<1>4. SlotOwnedOnce' /\ NeverAborts' /\ OneStage' /\ SendSlotsHeld'
  BY <1>2 DEF sender, IInv, SlotOwnedOnce, OwnedOnce, Listed, Holds, NeverAborts, OneStage,
              Outgoing, Queued, SendSlotsHeld
<1>5. NumbersUsedOnce' /\ UnlandedReserved'
  BY <1>1, <1>2 DEF sender, IInv, Outgoing, Queued, NumbersUsedOnce, UnlandedReserved
<1>6. NotifsTrue'
  <2>1. \A m \in notifs : completed[m.peer][m.slot] >= m.seq =>
                            completed'[m.peer][m.slot] >= m.seq
    BY <1>1, <1>2, <1>3, CompletedTyped
  <2>2. c.peer = p /\ c.slot = a.slot /\ c.seq = a.seq
    OBVIOUS
  <2>3. completed'[p][a.slot] >= a.seq
    BY <1>1, <1>3
  <2> HIDE DEF c
  <2> QED  BY <1>2, <2>1, <2>2, <2>3 DEF sender, IInv, NotifsTrue
<1>7. ArrivalsInFlight'
  <2>1. ASSUME NEW q \in Peer
        PROVE  /\ arrivals[q] \cap copying'[q] = {}
               /\ \A x \in arrivals[q] \cup copying'[q] :
                    /\ x \in arrivals[q] \cup copying[q] /\ x \in Arrival
                    /\ ~(q = p /\ x = a)
    BY <1>1, <1>2 DEF IInv, ArrivalsInFlight, TypeOK
  <2>2. ASSUME NEW q \in Peer, NEW x \in arrivals[q] \cup copying'[q]
        PROVE  ~(q = p /\ x.slot = a.slot)
    <3>1. SUFFICES ASSUME q = p, x.slot = a.slot PROVE x = a
      BY <2>1
    <3>2. x.seq = a.seq
      <4>1. x \in arrivals[p] \cup copying[p]
        BY <2>1, <3>1
      <4>2. inflight[p][x.slot] = x.seq
        BY <4>1 DEF IInv, ArrivalsInFlight
      <4> QED  BY <1>1, <3>1, <4>2
    <3> QED  BY <1>1, <2>1, <3>1, <3>2 DEF Arrival
  <2>3. \A q \in Peer : \A x \in Arrival :
          ~(q = p /\ x = a) => delivered'[q][x] = delivered[q][x]
    BY <1>1, <1>2 DEF TypeOK
  <2>4. ASSUME NEW q \in Peer, NEW x \in arrivals[q] \cup copying'[q]
        PROVE  /\ inflight'[q][x.slot] = x.seq /\ completed'[q][x.slot] < x.seq
               /\ [type |-> "D", peer |-> q, slot |-> x.slot, seq |-> x.seq] \in notifs'
               /\ delivered'[q][x] = 0
    BY <1>2, <1>3, <2>1, <2>2, <2>3, CompletedTyped DEF IInv, ArrivalsInFlight
  <2> QED  BY <1>2, <2>1, <2>4 DEF ArrivalsInFlight
<1>8. DeliveredCompleted'
  <2>1. ASSUME NEW q \in Peer, NEW x \in Arrival
        PROVE  /\ delivered'[q][x] \in {0, 1}
               /\ delivered'[q][x] = 1 => completed'[q][x.slot] >= x.seq
    <3>1. CASE q = p /\ x = a
      BY <1>1, <1>2, <1>3, <3>1 DEF TypeOK
    <3>2. CASE ~(q = p /\ x = a)
      <4>1. delivered'[q][x] = delivered[q][x]
        BY <1>1, <1>2, <3>2 DEF TypeOK
      <4>2. completed[q][x.slot] >= x.seq => completed'[q][x.slot] >= x.seq
        BY <1>1, <1>3, CompletedTyped
      <4> QED  BY <4>1, <4>2 DEF IInv, DeliveredCompleted
    <3> QED  BY <3>1, <3>2
  <2> QED  BY <2>1 DEF DeliveredCompleted
<1> QED
  BY <1>4, <1>5, <1>6, <1>7, <1>8 DEF IInv

(* A credit that is accepted answers the slot's last send, whose copy is   *)
(* complete; the slot goes back to the free list, where it was not.        *)
LEMMA AcceptCreditKeeps ==
  ASSUME TypeOK, IInv, NEW n \in notifs, AcceptCredit(n) PROVE IInv'
<1>1. /\ n.type = "C" /\ expected[n.peer][n.slot] = n.seq
      /\ expected' = [expected EXCEPT ![n.peer][n.slot] = NoSeq]
      /\ available' = [available EXCEPT ![n.peer] = Append(@, n.slot)]
      /\ UNCHANGED <<dispatcher, nextSeq, busy, staged, postQueue, posting, xfers, landed,
                     aborted, notifs, receiver>>
  BY DEF AcceptCredit
<1>2. n.peer \in Peer /\ n.slot \in RecvSlot /\ n.seq \in Nat /\ n.seq # NoSeq
  BY DEF TypeOK, Notif, SeqNo, NoSeq
<1>3. completed[n.peer][n.slot] >= n.seq
  BY <1>1 DEF IInv, NotifsTrue
<1>4. Outgoing' = Outgoing /\ Queued' = Queued
  BY <1>1 DEF Outgoing, Queued
<1>5. \A q \in Peer, t \in RecvSlot :
        expected'[q][t] = IF q = n.peer /\ t = n.slot THEN NoSeq ELSE expected[q][t]
  BY <1>1, <1>2 DEF TypeOK
<1>6. SlotOwnedOnce'
  <2>1. ASSUME NEW q \in Peer PROVE OwnedOnce(q)'
    <3>1. OwnedOnce(q)
      BY DEF IInv, SlotOwnedOnce
    <3>2. \A t \in RecvSlot : Holds(q, t)' <=> Holds(q, t)
      BY <1>1 DEF Holds
    <3>3. CASE q = n.peer
      <4>1. n.slot \notin Range(available[q]) /\ ~Holds(q, n.slot)
        BY <1>1, <1>2, <3>1, <3>3 DEF OwnedOnce, Listed
      <4>2. available'[q] = Append(available[q], n.slot) /\ available[q] \in Seq(RecvSlot)
        BY <1>1, <1>2, <3>3 DEF TypeOK
      <4>3. Range(available'[q]) = Range(available[q]) \cup {n.slot}
              /\ IsInjective(available'[q])
        BY <1>2, <3>1, <4>1, <4>2, PutBack DEF OwnedOnce
      <4> QED  BY <1>2, <1>5, <3>1, <3>2, <3>3, <4>1, <4>3 DEF OwnedOnce, Listed
    <3>4. CASE q # n.peer
      <4>1. available'[q] = available[q]
        BY <1>1, <1>2, <3>4 DEF TypeOK
      <4> QED  BY <1>5, <3>1, <3>2, <3>4, <4>1 DEF OwnedOnce, Listed
    <3> QED  BY <3>3, <3>4
  <2> QED  BY <2>1 DEF SlotOwnedOnce
<1>7. OneStage' /\ SendSlotsHeld' /\ NumbersUsedOnce' /\ NeverAborts'
  BY <1>1, <1>4 DEF IInv, OneStage, SendSlotsHeld, NumbersUsedOnce, NeverAborts
<1>8. UnlandedReserved'
  <2>1. ASSUME NEW w \in Outgoing \ landed PROVE ~(w.peer = n.peer /\ w.recv = n.slot)
    BY <1>1 DEF IInv, UnlandedReserved
  <2>2. \A w \in Outgoing \ landed : expected'[w.peer][w.recv] = expected[w.peer][w.recv]
    BY <1>5, <2>1, OutgoingTyped
  <2> QED  BY <1>1, <1>4, <2>2 DEF IInv, UnlandedReserved
<1>9. NotifsTrue'
  <2>1. ASSUME NEW m \in notifs
        PROVE  \/ completed[m.peer][m.slot] >= m.seq
               \/ /\ m.type = "D" /\ expected'[m.peer][m.slot] = m.seq
                  /\ memory[m.peer][m.slot] = <<m.peer, m.seq>>
    <3>1. m.peer \in Peer /\ m.slot \in RecvSlot
      BY CompletedTyped
    <3>2. CASE m.peer = n.peer /\ m.slot = n.slot
      BY <1>1, <1>3, <3>2 DEF IInv, NotifsTrue
    <3>3. CASE ~(m.peer = n.peer /\ m.slot = n.slot)
      BY <1>5, <3>1, <3>3 DEF IInv, NotifsTrue
    <3> QED  BY <3>2, <3>3
  <2> QED  BY <1>1, <2>1 DEF receiver, NotifsTrue
<1>10. ArrivalsInFlight' /\ DeliveredCompleted'
  BY <1>1 DEF receiver, IInv, ArrivalsInFlight, DeliveredCompleted
<1> QED
  BY <1>6, <1>7, <1>8, <1>9, <1>10 DEF IInv

-----------------------------------------------------------------------------
(* The safety of the protocol.                                             *)

LEMMA StepIInv == TypeOK /\ TypeOK' /\ IInv /\ [Next]_vars => IInv'
<1> SUFFICES ASSUME TypeOK, TypeOK', IInv, [Next]_vars PROVE IInv'
  OBVIOUS
<1>1. ASSUME NEW p \in Peer, BeginSend(p) PROVE IInv'
  BY <1>1, BeginSendKeeps
<1>2. CASE AcquireRecvSlot
  BY <1>2, AcquireRecvSlotKeeps
<1>3. ASSUME NEW s \in SendSlot, AcquireSendSlot(s) PROVE IInv'
  BY <1>3, AcquireSendSlotKeeps
<1>4. CASE PostSend
  BY <1>4, PostSendKeeps
<1>5. CASE PickPost
  BY <1>5, PickPostKeeps
<1>6. ASSUME NEW w \in posting, PostWrite(w) PROVE IInv'
  BY <1>6, PostWriteKeeps
<1>7. ASSUME NEW w \in xfers, WriteLands(w) PROVE IInv'
  BY <1>7, WriteLandsKeeps
<1>8. ASSUME NEW w \in xfers, DrainDone(w) \/ DrainFailed(w) PROVE IInv'
  BY <1>8, ReleaseSendSlotKeeps DEF DrainDone, DrainFailed
<1>9. ASSUME NEW n \in notifs, AcceptData(n) PROVE IInv'
  BY <1>9, AcceptDataKeeps
<1>10. ASSUME NEW p \in Peer, DrainArrivals(p) PROVE IInv'
  BY <1>10, DrainArrivalsKeeps
<1>11. ASSUME NEW p \in Peer, NEW a \in copying[p], FinishCopy(p, a) PROVE IInv'
  BY <1>11, FinishCopyKeeps
<1>12. ASSUME NEW n \in notifs, AcceptCredit(n) PROVE IInv'
  BY <1>12, AcceptCreditKeeps
<1>13. CASE UNCHANGED vars
  <2>1. UNCHANGED <<dispatcher, available, expected, nextSeq, busy, staged, postQueue, posting,
                    xfers, landed, aborted, notifs, memory, inflight, completed, arrivals,
                    copying, delivered>>
    BY <1>13 DEF vars, sender, receiver
  <2>2. Outgoing' = Outgoing /\ Queued' = Queued
    BY <2>1 DEF Outgoing, Queued
  <2>3. NeverAborts' /\ SlotOwnedOnce'
    BY <2>1 DEF IInv, NeverAborts, SlotOwnedOnce, OwnedOnce, Listed, Holds
  <2>4. OneStage' /\ SendSlotsHeld' /\ NumbersUsedOnce' /\ UnlandedReserved'
    BY <2>1, <2>2 DEF IInv, OneStage, SendSlotsHeld, NumbersUsedOnce, UnlandedReserved
  <2>5. NotifsTrue' /\ ArrivalsInFlight' /\ DeliveredCompleted'
    BY <2>1 DEF IInv, NotifsTrue, ArrivalsInFlight, DeliveredCompleted
  <2> QED  BY <2>3, <2>4, <2>5 DEF IInv
<1> QED
  BY <1>1, <1>2, <1>3, <1>4, <1>5, <1>6, <1>7, <1>8, <1>9, <1>10, <1>11, <1>12, <1>13 DEF Next

(* The inductive invariant holds throughout.                               *)
THEOREM Invariance == Spec => []IInv
<1>1. Init => IInv
  BY InitIInv
<1>2. TypeOK /\ TypeOK' /\ IInv /\ [Next]_vars => IInv'
  BY StepIInv
<1> QED
  BY <1>1, <1>2, TypeCorrect, PTL DEF Spec

(* The assertion of note_send_posted (nixl_context.cpp:474) never fails.   *)
THEOREM NoAbort == Spec => []NeverAborts
<1>1. IInv => NeverAborts
  BY DEF IInv
<1> QED
  BY <1>1, Invariance, PTL

(* No receive slot is lost or handed out twice (nixl_context.cpp:458-557). *)
THEOREM SlotOwnership == Spec => []SlotOwnedOnce
<1>1. IInv => SlotOwnedOnce
  BY DEF IInv
<1> QED
  BY <1>1, Invariance, PTL

(* Data is never overwritten while the receiver may still copy it: the     *)
(* arrival has a D notification, whose number is not completed.            *)
THEOREM Intact == Spec => []DeliveredIntact
<1>1. TypeOK /\ IInv => DeliveredIntact
  <2> SUFFICES ASSUME TypeOK, IInv, NEW p \in Peer, NEW a \in arrivals[p] \cup copying[p]
               PROVE  memory[p][a.slot] = <<p, a.seq>>
    BY DEF DeliveredIntact
  <2> DEFINE d == [type |-> "D", peer |-> p, slot |-> a.slot, seq |-> a.seq]
  <2>1. d \in notifs /\ completed[p][a.slot] < a.seq
    BY DEF IInv, ArrivalsInFlight
  <2>2. a.slot \in RecvSlot /\ a.seq \in Nat
    BY CompletedTyped DEF TypeOK
  <2>3. completed[p][a.slot] \in Int /\ ~(completed[p][a.slot] >= a.seq)
    BY <2>1, <2>2, CompletedTyped
  <2>4. d.peer = p /\ d.slot = a.slot /\ d.seq = a.seq
    OBVIOUS
  <2> HIDE DEF d
  <2> QED  BY <2>1, <2>3, <2>4 DEF IInv, NotifsTrue
<1> QED
  BY <1>1, Invariance, TypeCorrect, PTL

(* No notification, however often repeated or delayed, delivers a batch    *)
(* twice (accept_data_notif, nixl_context.cpp:879-902).                    *)
THEOREM NoRedelivery == Spec => []DeliveredOnce
<1>1. IInv => DeliveredOnce
  BY DEF IInv, DeliveredCompleted, DeliveredOnce
<1> QED
  BY <1>1, Invariance, PTL
=============================================================================
