--------------------------- MODULE EngineLoopProof ---------------------------
(***************************************************************************)
(* The overlapped loop is right for every number of requests, layers and   *)
(* tokens and every batch size: one inductive invariant, from which        *)
(* OneTokenPerRequest, ResultsPairUp, StagedIntact and EndLosesOneBatch    *)
(* follow.                                                                 *)
(*                                                                         *)
(* The invariant says where the loop is (which batches are in flight, and  *)
(* that the kernels in the stream are theirs), that two batches in flight  *)
(* of one kind use different staging buffers, and that each request has    *)
(* one token, in step with what the sampler and the detokenizer know.      *)
(***************************************************************************)
EXTENDS EngineLoop, CollectionFacts

(* The batches launched and not yet finished.                              *)
InFlight == (IF pc = "sync" THEN {forward} ELSE {last, forward}) \ {None}

SameKind(b, c) == IsExpert(b.layer) <=> IsExpert(c.layer)

Control ==
  /\ ResultsPairUp
  /\ hand # None <=> pc = "sync"
  /\ pc \in {"receive", "schedule", "ended"} => forward = None
  /\ \A b \in {last, forward, hand} \ {None} : b.layer # Sampling
  /\ hand # None => ~IsExpert(hand.layer)

(* A kernel of the stream belongs to a batch in flight; rows are permuted  *)
(* only while the loop waits for it.                                       *)
KernelIsOurs(k) ==
  /\ k.name = "attention" => k.batch \in InFlight /\ ~IsExpert(k.batch.layer)
  /\ k.name = "expert"    => k.batch \in InFlight /\ IsExpert(k.batch.layer)
  /\ k.name = "permute"   => pc = "sync"

OurKernels == {k \in Kernel : KernelIsOurs(k)}

Kernels == \A i \in DOMAIN stream : stream[i] \in OurKernels

(* The batch has the buffers handed out last for its kind.                 *)
Newest(b) ==
  IF IsExpert(b.layer) THEN b.in = buffer["m_indices"] /\ b.out = buffer["expert_weights"]
                       ELSE b.in = buffer["attn_meta"] /\ b.out = buffer["topk_ids"]

BuffersInTurn ==
  /\ forward # None => Newest(forward)
  /\ last # None /\ pc # "sync" =>
       IF forward # None /\ SameKind(last, forward)
       THEN last.in # forward.in /\ last.out # forward.out
       ELSE Newest(last)

-----------------------------------------------------------------------------
(* Where the token of a request is.                                        *)
InInbox(r)   == {i \in DOMAIN inbox : inbox[i] = r}
InPool(r)    == {l \in Layer : r \in pool[l]}
InAway(r)    == {b \in away : r \in b.reqs}
InResults(r) == {i \in DOMAIN results : r \in results[i].reqs}
InHand(r)    == {b \in {hand} \ {None} : r \in b.reqs}

Sole(S) == \E x : S = {x}

Nowhere(r) == InInbox(r) = {} /\ InPool(r) = {} /\ InAway(r) = {} /\ InResults(r) = {} /\ InHand(r) = {}

Somewhere(r) ==
  \/ Sole(InInbox(r)) /\ InPool(r) = {} /\ InAway(r) = {} /\ InResults(r) = {} /\ InHand(r) = {}
  \/ InInbox(r) = {} /\ Sole(InPool(r)) /\ InAway(r) = {} /\ InResults(r) = {} /\ InHand(r) = {}
  \/ InInbox(r) = {} /\ InPool(r) = {} /\ Sole(InAway(r)) /\ InResults(r) = {} /\ InHand(r) = {}
  \/ InInbox(r) = {} /\ InPool(r) = {} /\ InAway(r) = {} /\ Sole(InResults(r)) /\ InHand(r) = {}
  \/ InInbox(r) = {} /\ InPool(r) = {} /\ InAway(r) = {} /\ InResults(r) = {} /\ Sole(InHand(r))

(* A request is unknown to the sampler until the loop has received it,     *)
(* then counts up to its max_output_len, and is forgotten.                 *)
Account(r) ==
  /\ r \in coming \cup eos => Nowhere(r)
  /\ r \notin coming \cup eos => Somewhere(r)
  /\ r \notin coming \/ r \notin eos
  /\ r \in coming \/ InInbox(r) # {} => outputLen[r] = None /\ reported[r] = 0
  /\ r \in eos => outputLen[r] = None /\ reported[r] = MaxOutput[r]
  /\ r \notin coming \cup eos /\ InInbox(r) = {} =>
       outputLen[r] \in 0 .. MaxOutput[r] - 1 /\ reported[r] = outputLen[r]

Accounts == \A r \in Req : Account(r)

IInv == TypeOK /\ Control /\ Kernels /\ BuffersInTurn /\ StagedIntact /\ Accounts

-----------------------------------------------------------------------------
(* Layers, buffers and batches.                                            *)
LEMMA LayerFacts ==
  /\ Sampling \in Layer /\ 0 \in Layer /\ 0 # Sampling
  /\ ~IsExpert(0) /\ ~IsExpert(Sampling)
  /\ \A l \in Layer : l # Sampling => l + 1 \in Layer
<1>1. NumLayers \in Nat \ {0}
  BY EngineAssumption
<1>2. (2 * NumLayers) % 2 = 0
  BY <1>1
<1> QED  BY <1>1, <1>2 DEF Layer, Sampling, IsExpert

LEMMA BufferFacts ==
  ASSUME TypeOK, NEW s \in Staging
  PROVE  buffer[s] \in 0 .. 1 /\ Handle(s) \in 0 .. 1 /\ Handle(s) # buffer[s]
<1>1. buffer[s] \in 0 .. 1
  BY DEF TypeOK
<1>2. \A n \in 0 .. 1 : (n + 1) % 2 \in 0 .. 1 /\ (n + 1) % 2 # n
  OBVIOUS
<1> QED  BY <1>1, <1>2 DEF Handle

LEMMA TurnedFacts ==
  ASSUME TypeOK, NEW pairs
  PROVE  /\ Turned(pairs) \in [Staging -> 0 .. 1]
         /\ \A s \in Staging : Turned(pairs)[s] = IF s \in pairs THEN Handle(s) ELSE buffer[s]
BY BufferFacts DEF Turned

LEMMA BatchFacts ==
  /\ \A l \in Layer, reqs \in SUBSET Req, i, o \in 0 .. 1 :
       [layer |-> l, reqs |-> reqs, in |-> i, out |-> o] \in Batch
  /\ \A b \in Batch : b # None /\ b.layer \in Layer /\ b.reqs \in SUBSET Req
  /\ \A b \in Batch, i \in 0 .. 1 :
       [b EXCEPT !.in = i] \in Batch /\ [b EXCEPT !.in = i].layer = b.layer
                                     /\ [b EXCEPT !.in = i].reqs = b.reqs
                                     /\ [b EXCEPT !.in = i].in = i
BY NoneAssumption DEF Batch

LEMMA FrontOfQueue ==
  ASSUME NEW S, NEW b \in S, NEW t \in Seq(S)
  PROVE  <<b>> \o t # <<>> /\ Head(<<b>> \o t) = b /\ Tail(<<b>> \o t) = t
<1>1. <<b>> \in Seq(S) /\ Len(<<b>>) = 1 /\ <<b>>[1] = b /\ Len(t) \in Nat
  OBVIOUS
<1>2. PICK s : s = <<b>> \o t
  OBVIOUS
<1>3. /\ s \in Seq(S) /\ Len(s) = 1 + Len(t)
      /\ \A i \in 1 .. 1 + Len(t) : s[i] = IF i <= 1 THEN <<b>>[i] ELSE t[i - 1]
  BY <1>1, <1>2, ConcatProperties
<1>4. s # <<>>
  BY <1>1, <1>3
<1>5. /\ Tail(s) \in Seq(S) /\ Len(Tail(s)) = Len(s) - 1 /\ \A i \in 1 .. Len(Tail(s)) : Tail(s)[i] = s[i + 1]
      /\ Head(s) = s[1]
  BY <1>3, <1>4, HeadTailProperties
<1>6. Head(s) = b
  BY <1>1, <1>3, <1>5
<1>7. Tail(s) = t
  <2>1. Len(Tail(s)) = Len(t)
    BY <1>1, <1>3, <1>5
  <2>2. \A i \in 1 .. Len(Tail(s)) : Tail(s)[i] = t[i]
    BY <1>1, <1>3, <1>5, <2>1
  <2> QED  BY <1>5, <2>1, <2>2, SeqEqual
<1> QED  BY <1>2, <1>4, <1>6, <1>7

(* What results holds, by place of the loop.                               *)
LEMMA ResultForms ==
  ASSUME Control
  PROVE  /\ pc \in {"receive", "schedule", "ended"} =>
              forward = None /\ hand = None /\ results = Launched(last)
         /\ pc = "finish" => hand = None
         /\ pc = "finish" /\ last = None => results = Launched(forward)
         /\ pc = "finish" /\ last # None =>
              /\ results = <<last>> \o Launched(forward) /\ results # <<>>
              /\ Head(results) = last /\ Tail(results) = Launched(forward)
         /\ pc = "sync" => hand # None /\ results = Launched(forward)
<1>1. /\ \A b : <<b>> \o <<>> = <<b>> /\ <<>> \o <<b>> = <<b>>
      /\ <<>> \o <<>> = <<>>
  OBVIOUS
<1>3. results = (IF pc = "sync" THEN <<>> ELSE Launched(last)) \o Launched(forward)
  BY DEF Control, ResultsPairUp
<1>4. pc \in {"receive", "schedule", "ended"} =>
         forward = None /\ hand = None /\ results = Launched(last)
  BY <1>1, <1>3 DEF Control, Launched
<1>5. pc = "finish" => hand = None
  BY DEF Control
<1>6. pc = "finish" /\ last = None => results = Launched(forward)
  BY <1>1, <1>3 DEF Launched
<1>7. pc = "finish" /\ last # None => results = <<last>> \o Launched(forward)
  BY <1>3 DEF Launched
<1>8. /\ <<last>> \o Launched(forward) # <<>>
      /\ Head(<<last>> \o Launched(forward)) = last
      /\ Tail(<<last>> \o Launched(forward)) = Launched(forward)
  <2>1. Launched(forward) \in Seq({last, forward}) /\ last \in {last, forward}
    <3>1. \A S, b : b \in S => <<>> \in Seq(S) /\ <<b>> \in Seq(S)
      OBVIOUS
    <3> QED  BY <3>1 DEF Launched
  <2> QED  BY <2>1, FrontOfQueue
<1>9. pc = "sync" => hand # None /\ results = Launched(forward)
  BY <1>1, <1>3 DEF Control, Launched
<1> QED  BY <1>4, <1>5, <1>6, <1>7, <1>8, <1>9

-----------------------------------------------------------------------------
LEMMA InitIInv == Init => IInv
<1> SUFFICES ASSUME Init PROVE IInv
  OBVIOUS
<1> USE DEF Init
<1>1. TypeOK
  <2>1. buffer \in [Staging -> 0 .. 1] /\ pool \in [Layer -> SUBSET Req]
    OBVIOUS
  <2>2. outputLen \in [Req -> Nat \cup {None}] /\ reported \in [Req -> Nat]
    OBVIOUS
  <2>3. /\ inbox \in Seq(Req) /\ results \in Seq(Batch) /\ Len(results) <= 2 /\ stream \in Seq(Kernel)
        /\ away \subseteq [layer : Layer, reqs : SUBSET Req]
    BY EmptySeq
  <2> QED  BY <2>1, <2>2, <2>3 DEF TypeOK
<1>2. Control
  <2>1. ResultsPairUp
    <3>1. <<>> = <<>> \o <<>>
      OBVIOUS
    <3> QED  BY <3>1 DEF ResultsPairUp, Launched
  <2> QED  BY <2>1 DEF Control
<1>3. Kernels /\ BuffersInTurn /\ StagedIntact
  BY DEF Kernels, BuffersInTurn, StagedIntact
<1>4. Accounts
  BY DEF Accounts, Account, Nowhere, InInbox, InPool, InAway, InResults, InHand
<1> QED  BY <1>1, <1>2, <1>3, <1>4 DEF IInv

-----------------------------------------------------------------------------
(* Types.  The batch of a launch, and of the results finished.             *)
LaunchedBatch(l, reqs) ==
  IF IsExpert(l)
  THEN [layer |-> l, reqs |-> reqs, in |-> Handle("m_indices"), out |-> Handle("expert_weights")]
  ELSE [layer |-> l, reqs |-> reqs, in |-> Handle("attn_meta"), out |-> Handle("topk_ids")]

LEMMA LaunchedBatchType ==
  ASSUME TypeOK, NEW l \in Layer, NEW reqs \in SUBSET Req
  PROVE  /\ LaunchedBatch(l, reqs) \in Batch /\ LaunchedBatch(l, reqs) # None
         /\ LaunchedBatch(l, reqs).layer = l /\ LaunchedBatch(l, reqs).reqs = reqs
<1>1. {"m_indices", "expert_weights", "attn_meta", "topk_ids"} \subseteq Staging
  BY DEF Staging
<1>2. /\ Handle("m_indices") \in 0 .. 1 /\ Handle("expert_weights") \in 0 .. 1
      /\ Handle("attn_meta") \in 0 .. 1 /\ Handle("topk_ids") \in 0 .. 1
  BY <1>1, BufferFacts
<1>3. LaunchedBatch(l, reqs) \in Batch
  BY <1>2, BatchFacts DEF LaunchedBatch
<1>4. LaunchedBatch(l, reqs).layer = l /\ LaunchedBatch(l, reqs).reqs = reqs
  BY DEF LaunchedBatch
<1> QED  BY <1>3, <1>4, BatchFacts

LEMMA ResultsType ==
  ASSUME TypeOK, results # <<>>
  PROVE  /\ Head(results) \in Batch /\ Tail(results) \in Seq(Batch) /\ Len(Tail(results)) <= 2
         /\ \A i \in DOMAIN results : results[i] \in Batch
<1>1. results \in Seq(Batch) /\ Len(results) <= 2
  BY DEF TypeOK
<1>2. Len(Tail(results)) = Len(results) - 1 /\ Len(results) \in Nat
  BY <1>1, HeadTailProperties
<1> QED  BY <1>1, <1>2, HeadTailProperties

LEMMA DispatchedType ==
  ASSUME NEW b \in Batch, b.layer # Sampling
  PROVE  /\ Dispatched(b) \in [layer : Layer, reqs : SUBSET Req]
         /\ Dispatched(b).reqs = b.reqs
BY BatchFacts, LayerFacts DEF Dispatched

LEMMA KernelType ==
  ASSUME NEW name \in {"attention", "permute", "expert", "select"}, NEW b \in Batch
  PROVE  [name |-> name, batch |-> b] \in Kernel
BY DEF Kernel

LEMMA LaunchTypes ==
  ASSUME TypeOK, Control, NEW l \in Layer, NEW reqs \in SUBSET pool[l], RunBatch(l, reqs)
  PROVE  TypeOK'
<1> DEFINE b == LaunchedBatch(l, reqs)
           k == [name |-> IF IsExpert(l) THEN "expert" ELSE "attention", batch |-> b]
           turned == (IF IsExpert(l) THEN {"m_indices", "expert_weights"} ELSE {"attn_meta"})
                       \cup IF IsExpert(l) THEN {} ELSE {"topk_ids"}
           written == IF IsExpert(l) THEN {"m_indices", "expert_weights"} ELSE {"attn_meta"}
<1>1. reqs \in SUBSET Req /\ pool \in [Layer -> SUBSET Req]
  BY DEF TypeOK
<1>2. b \in Batch
  BY <1>1, LaunchedBatchType
<1>3. k \in Kernel
  BY <1>2, KernelType
<1>4. /\ buffer' = Turned(turned) /\ torn' = torn \cup Overwritten(written)
      /\ stream' = Append(stream, k) /\ results' = Append(results, b) /\ forward' = b
      /\ pool' = [pool EXCEPT ![l] = @ \ reqs] /\ pc = "schedule" /\ pc' = "finish"
      /\ UNCHANGED <<coming, inbox, away, outputLen, reported, eos, last, hand, endFlag>>
  BY DEF RunBatch, Launch, LaunchedBatch
<1>5. results = Launched(last)
  BY <1>4, ResultForms
<1> HIDE DEF b, k, turned
<1>6. buffer' \in [Staging -> 0 .. 1]
  BY <1>4, TurnedFacts
<1>7. torn' \subseteq Staging
  <2>1. written \subseteq Staging
    BY DEF Staging
  <2> QED  BY <1>4, <2>1 DEF Overwritten, TypeOK
<1>8. stream' \in Seq(Kernel)
  BY <1>3, <1>4, AppendProperties DEF TypeOK
<1>9. results' \in Seq(Batch) /\ Len(results') <= 2
  <2>1. results \in Seq(Batch) /\ Len(results) <= 1
    BY <1>5 DEF Launched, TypeOK
  <2> QED  BY <1>2, <1>4, <2>1, AppendProperties
<1>10. pool' \in [Layer -> SUBSET Req]
  BY <1>1, <1>4
<1> QED  BY <1>2, <1>4, <1>6, <1>7, <1>8, <1>9, <1>10 DEF TypeOK

LEMMA SampleTypes ==
  ASSUME TypeOK, NEW reqs \in SUBSET pool[Sampling], Sample(reqs),
         \A r \in reqs : outputLen[r] \in Nat
  PROVE  TypeOK'
<1> DEFINE goesOn == {r \in reqs : ~Ends(r)}
           b == [layer |-> Sampling, reqs |-> goesOn, in |-> Handle("continue_ids"), out |-> 0]
           k == [name |-> "select", batch |-> b]
<1>1. reqs \in SUBSET Req /\ pool \in [Layer -> SUBSET Req] /\ Sampling \in Layer /\ 0 \in Layer
  BY LayerFacts DEF TypeOK
<1>2. b \in Batch
  <2>1. Handle("continue_ids") \in 0 .. 1 /\ 0 \in 0 .. 1
    BY BufferFacts DEF Staging
  <2>2. goesOn \in SUBSET Req
    BY <1>1
  <2> HIDE DEF goesOn
  <2> QED  BY <1>1, <2>1, <2>2, BatchFacts
<1>3. k \in Kernel
  BY <1>2, KernelType
<1>4. /\ outputLen' = [r \in Req |-> IF r \in goesOn THEN outputLen[r] + 1
                                     ELSE IF r \in reqs THEN None ELSE outputLen[r]]
      /\ reported'  = [r \in Req |-> IF r \in reqs THEN reported[r] + 1 ELSE reported[r]]
      /\ eos'       = eos \cup (reqs \ goesOn)
      /\ pool'      = [pool EXCEPT ![Sampling] = @ \ reqs, ![0] = @ \cup goesOn]
      /\ \/ UNCHANGED <<buffer, stream, torn>>
         \/ /\ buffer' = Turned({"continue_ids"})
            /\ torn'   = torn \cup Overwritten({"continue_ids"})
            /\ stream' = Append(stream, k)
      /\ pc' = "finish"
      /\ UNCHANGED <<coming, inbox, away, forward, last, results, hand, endFlag>>
  BY DEF Sample
<1>5. goesOn \in SUBSET reqs
  OBVIOUS
<1> HIDE DEF goesOn, b, k
<1>6. outputLen' \in [Req -> Nat \cup {None}] /\ reported' \in [Req -> Nat]
  BY <1>1, <1>4, <1>5 DEF TypeOK
<1>7. pool' \in [Layer -> SUBSET Req]
  BY <1>1, <1>4, <1>5
<1>8. buffer' \in [Staging -> 0 .. 1]
  BY <1>4, TurnedFacts DEF TypeOK
<1>9. torn' \subseteq Staging
  BY <1>4 DEF Overwritten, TypeOK, Staging
<1>10. stream' \in Seq(Kernel)
  <2>1. stream \in Seq(Kernel)
    BY DEF TypeOK
  <2>2. Append(stream, k) \in Seq(Kernel)
    BY <1>3, <2>1, AppendProperties
  <2> QED  BY <1>4, <2>1, <2>2
<1>11. eos' \subseteq Req
  BY <1>1, <1>4 DEF TypeOK
<1> QED  BY <1>4, <1>6, <1>7, <1>8, <1>9, <1>10, <1>11 DEF TypeOK

LEMMA FinishTypes ==
  ASSUME TypeOK, Control, FinishExpert \/ FinishAttention
  PROVE  TypeOK'
<1>1. /\ results # <<>> /\ Head(results) = last
  BY ResultForms DEF FinishExpert, FinishAttention
<1>2. last \in Batch /\ last.layer # Sampling
  BY <1>1, ResultsType, BatchFacts DEF Control
<1>3. Tail(results) \in Seq(Batch) /\ Len(Tail(results)) <= 2
  BY <1>1, ResultsType
<1>4. CASE FinishExpert
  <2>1. away' \subseteq [layer : Layer, reqs : SUBSET Req]
    BY <1>1, <1>2, <1>4, DispatchedType DEF FinishExpert, TypeOK
  <2>2. results' = Tail(results) /\ pc' = "receive" /\ last' = forward /\ forward' = None
    BY <1>4 DEF FinishExpert, NextIteration
  <2>3. UNCHANGED <<coming, inbox, pool, outputLen, reported, eos, hand, buffer, stream, torn, endFlag>>
    BY <1>4 DEF FinishExpert
  <2> QED  BY <1>3, <2>1, <2>2, <2>3 DEF TypeOK
<1>5. CASE FinishAttention
  <2> DEFINE b == [last EXCEPT !.in = Handle("token_mapping")]
             k == [name |-> "permute", batch |-> b]
  <2>1. Handle("token_mapping") \in 0 .. 1
    BY BufferFacts DEF Staging
  <2>2. b \in Batch /\ k \in Kernel
    BY <1>2, <2>1, BatchFacts, KernelType
  <2>3. /\ results' = Tail(results)
        /\ buffer' = Turned({"token_mapping"})
        /\ torn'   = torn \cup Overwritten({"token_mapping"})
        /\ stream' = Append(stream, k)
        /\ hand' = b
        /\ pc' = "sync"
        /\ UNCHANGED <<coming, inbox, pool, away, outputLen, reported, eos, forward, last, endFlag>>
    BY <1>1, <1>5 DEF FinishAttention
  <2> HIDE DEF b, k
  <2>4. buffer' \in [Staging -> 0 .. 1]
    BY <2>3, TurnedFacts
  <2>5. torn' \subseteq Staging
    BY <2>3 DEF Overwritten, TypeOK, Staging
  <2>6. stream' \in Seq(Kernel)
    BY <2>2, <2>3, AppendProperties DEF TypeOK
  <2> QED  BY <1>3, <2>2, <2>3, <2>4, <2>5, <2>6 DEF TypeOK
<1> QED  BY <1>4, <1>5

LEMMA TypeStep == IInv /\ [Next]_vars => TypeOK'
<1> SUFFICES ASSUME IInv, [Next]_vars PROVE TypeOK'
  OBVIOUS
<1>1. TypeOK /\ Control
  BY DEF IInv
<1>2. ASSUME NEW r \in Req, Submit(r) PROVE TypeOK'
  <2>1. inbox' \in Seq(Req) /\ coming' \subseteq Req
    BY <1>1, <1>2, AppendProperties DEF Submit, TypeOK
  <2>2. UNCHANGED <<pool, away, outputLen, reported, eos, pc, forward, last, results, hand, buffer,
                    endFlag, stream, torn>>
    BY <1>2 DEF Submit, cpu
  <2> QED  BY <1>1, <2>1, <2>2 DEF TypeOK
<1>3. ASSUME NEW b \in away, Deliver(b) PROVE TypeOK'
  <2>1. away' \subseteq [layer : Layer, reqs : SUBSET Req]
    BY <1>1, <1>3 DEF Deliver, TypeOK
  <2>2. pool' \in [Layer -> SUBSET Req]
    <3>1. b.layer \in Layer /\ b.reqs \in SUBSET Req
      BY <1>1 DEF TypeOK
    <3> QED  BY <1>1, <1>3, <3>1 DEF Deliver, TypeOK
  <2>3. UNCHANGED <<coming, inbox, outputLen, reported, eos, pc, forward, last, results, hand, buffer,
                    endFlag, stream, torn>>
    BY <1>3 DEF Deliver, cpu
  <2> QED  BY <1>1, <2>1, <2>2, <2>3 DEF TypeOK
<1>4. CASE GpuStep
  <2>1. stream' \in Seq(Kernel)
    BY <1>1, <1>4, HeadTailProperties DEF GpuStep, TypeOK
  <2>2. torn' \subseteq Staging
    <3>1. torn' = torn \/ torn' = torn \cup {"topk_ids"}
      BY <1>4 DEF GpuStep
    <3> QED  BY <1>1, <3>1 DEF TypeOK, Staging
  <2>3. UNCHANGED <<coming, inbox, pool, away, outputLen, reported, eos, pc, forward, last, results, hand,
                    buffer, endFlag>>
    BY <1>4 DEF GpuStep, cpu
  <2> QED  BY <1>1, <2>1, <2>2, <2>3 DEF TypeOK
<1>5. CASE Terminate
  BY <1>1, <1>5 DEF Terminate, TypeOK
<1>6. CASE Receive
  <2>1. CASE UNCHANGED <<inbox, pool, outputLen>>
    BY <1>1, <1>6, <2>1 DEF Receive, TypeOK
  <2>2. CASE /\ inbox # <<>> /\ inbox' = Tail(inbox)
             /\ pool' = [pool EXCEPT ![0] = @ \cup {Head(inbox)}]
             /\ outputLen' = [outputLen EXCEPT ![Head(inbox)] = 0]
    <3>1. Head(inbox) \in Req /\ inbox' \in Seq(Req)
      BY <1>1, <2>2, HeadTailProperties DEF TypeOK
    <3>2. pool' \in [Layer -> SUBSET Req] /\ outputLen' \in [Req -> Nat \cup {None}]
      BY <1>1, <2>2, <3>1, LayerFacts DEF TypeOK
    <3> QED  BY <1>1, <1>6, <3>1, <3>2 DEF Receive, TypeOK
  <2> QED  BY <1>6, <2>1, <2>2 DEF Receive
<1>7. CASE NothingScheduled
  BY <1>1, <1>7 DEF NothingScheduled, TypeOK
<1>8. ASSUME NEW l \in Layer, NEW reqs \in SUBSET pool[l], RunBatch(l, reqs) PROVE TypeOK'
  BY <1>1, <1>8, LaunchTypes
<1>9. ASSUME NEW reqs \in SUBSET pool[Sampling], Sample(reqs) PROVE TypeOK'
  <2>1. \A r \in reqs : outputLen[r] \in Nat
    <3> SUFFICES ASSUME NEW r \in reqs PROVE outputLen[r] \in Nat
      OBVIOUS
    <3>1. r \in Req /\ InPool(r) # {}
      BY <1>1, LayerFacts DEF TypeOK, InPool
    <3>2. Account(r) /\ MaxOutput[r] \in Nat
      BY <3>1, EngineAssumption DEF IInv, Accounts
    <3>3. r \notin coming \cup eos /\ InInbox(r) = {}
      BY <3>1, <3>2 DEF Account, Nowhere, Somewhere
    <3> QED  BY <3>2, <3>3 DEF Account
  <2> QED  BY <1>1, <1>9, <2>1, SampleTypes
<1>10. CASE NothingToFinish
  BY <1>1, <1>10 DEF NothingToFinish, NextIteration, TypeOK
<1>11. CASE FinishExpert \/ FinishAttention
  BY <1>1, <1>11, FinishTypes
<1>12. CASE SendAttention
  <2>1. hand \in Batch /\ hand.layer # Sampling
    BY <1>1, <1>12 DEF SendAttention, Control, TypeOK
  <2>2. away' \subseteq [layer : Layer, reqs : SUBSET Req]
    BY <1>1, <1>12, <2>1, DispatchedType DEF SendAttention, TypeOK
  <2>3. pc' = "receive" /\ last' = forward /\ forward' = None /\ hand' = None
    BY <1>12 DEF SendAttention, NextIteration
  <2> QED  BY <1>1, <1>12, <2>2, <2>3 DEF SendAttention, TypeOK
<1>13. CASE LeaveLoop
  BY <1>1, <1>13 DEF LeaveLoop, TypeOK
<1>14. CASE UNCHANGED vars
  BY <1>1, <1>14 DEF vars, cpu, TypeOK
<1> QED
  BY <1>2, <1>3, <1>4, <1>5, <1>6, <1>7, <1>8, <1>9, <1>10, <1>11, <1>12, <1>13, <1>14 DEF Next, Loop

-----------------------------------------------------------------------------
(* Where the loop is.  What RunBatch does, in terms of its batch.          *)
LEMMA RunBatchFacts ==
  ASSUME IInv, NEW l \in Layer, NEW reqs \in SUBSET pool[l], RunBatch(l, reqs)
  PROVE  LET b == LaunchedBatch(l, reqs)
             written == IF IsExpert(l) THEN {"m_indices", "expert_weights"} ELSE {"attn_meta"}
             turned == IF IsExpert(l) THEN {"m_indices", "expert_weights"} ELSE {"attn_meta", "topk_ids"}
         IN  /\ pc = "schedule" /\ pc' = "finish" /\ forward = None /\ hand = None
             /\ l # Sampling /\ b \in Batch /\ b # None /\ b.layer = l /\ b.reqs = reqs
             /\ results = Launched(last) /\ results' = Launched(last) \o <<b>>
             /\ results' = Append(results, b) /\ forward' = b /\ buffer' = Turned(turned) /\ torn' = torn \cup Overwritten(written)
             /\ stream' = Append(stream, [name |-> IF IsExpert(l) THEN "expert" ELSE "attention",
                                          batch |-> b])
             /\ pool' = [pool EXCEPT ![l] = @ \ reqs] /\ reqs # {}
             /\ UNCHANGED <<coming, inbox, away, outputLen, reported, eos, last, hand, endFlag>>
<1> DEFINE b == LaunchedBatch(l, reqs)
           written == IF IsExpert(l) THEN {"m_indices", "expert_weights"} ELSE {"attn_meta"}
           turned == IF IsExpert(l) THEN {"m_indices", "expert_weights"} ELSE {"attn_meta", "topk_ids"}
<1>1. TypeOK /\ Control /\ reqs \in SUBSET Req
  BY DEF IInv, TypeOK
<1>2. b \in Batch /\ b # None /\ b.layer = l /\ b.reqs = reqs
  BY <1>1, LaunchedBatchType
<1>3. turned = written \cup IF IsExpert(l) THEN {} ELSE {"topk_ids"}
  OBVIOUS
<1>4. /\ buffer' = Turned(turned) /\ torn' = torn \cup Overwritten(written)
      /\ stream' = Append(stream, [name |-> IF IsExpert(l) THEN "expert" ELSE "attention", batch |-> b])
      /\ results' = Append(results, b) /\ forward' = b /\ reqs # {} /\ l # Sampling
      /\ pool' = [pool EXCEPT ![l] = @ \ reqs] /\ pc = "schedule" /\ pc' = "finish"
      /\ UNCHANGED <<coming, inbox, away, outputLen, reported, eos, last, hand, endFlag>>
  BY <1>3 DEF RunBatch, Launch, LaunchedBatch
<1>5. forward = None /\ hand = None /\ results = Launched(last)
  BY <1>1, <1>4, ResultForms
<1> HIDE DEF b
<1>6. results' = Launched(last) \o <<b>>
  <2>1. Launched(last) \in Seq({last, b}) /\ b \in {last, b}
    <3>1. \A S, x : x \in S => <<>> \in Seq(S) /\ <<x>> \in Seq(S)
      OBVIOUS
    <3> QED  BY <3>1 DEF Launched
  <2>2. Append(Launched(last), b) = Launched(last) \o <<b>>
    BY <2>1, AppendIsConcat
  <2> QED  BY <1>4, <1>5, <2>2
<1> QED  BY <1>2, <1>4, <1>5, <1>6 DEF b

LEMMA ControlStep == IInv /\ [Next]_vars => Control'
<1> SUFFICES ASSUME IInv, [Next]_vars PROVE Control'
  OBVIOUS
<1>1. TypeOK /\ Control /\ ResultsPairUp
  BY DEF IInv, Control
<1>2. ASSUME UNCHANGED <<pc, forward, last, results, hand>> PROVE Control'
  BY <1>1, <1>2 DEF Control, ResultsPairUp
<1>3. ASSUME pc = "receive", pc' \in {"schedule", "ended"}, UNCHANGED <<forward, last, results, hand>>
      PROVE  Control'
  BY <1>1, <1>3 DEF Control, ResultsPairUp
<1>4. ASSUME pc = "schedule", pc' = "finish", UNCHANGED <<forward, last, results, hand>> PROVE Control'
  BY <1>1, <1>4 DEF Control, ResultsPairUp
<1>5. ASSUME pc \in {"finish", "sync"}, hand' = None, results' = Launched(forward), NextIteration
      PROVE  Control'
  <2>1. pc' = "receive" /\ last' = forward /\ forward' = None
    BY <1>5 DEF NextIteration
  <2>2. Launched(forward) \o <<>> = Launched(forward)
    <3>1. \A x : <<x>> \o <<>> = <<x>>
      OBVIOUS
    <3>2. <<>> \o <<>> = <<>>
      OBVIOUS
    <3> QED  BY <3>1, <3>2 DEF Launched
  <2>3. Launched(None) = <<>>
    BY DEF Launched
  <2>4. ResultsPairUp'
    <3>1. results' = Launched(last') \o Launched(forward')
      BY <1>5, <2>1, <2>2, <2>3
    <3> QED  BY <2>1, <3>1 DEF ResultsPairUp, Launched
  <2> QED  BY <1>1, <1>5, <2>1, <2>4 DEF Control
<1>6. ASSUME NEW l \in Layer, NEW reqs \in SUBSET pool[l], RunBatch(l, reqs) PROVE Control'
  <2>1. PICK b : b = LaunchedBatch(l, reqs)
    OBVIOUS
  <2>2. /\ pc' = "finish" /\ hand' = None /\ last' = last
        /\ l # Sampling /\ b # None /\ b.layer = l
        /\ results' = Launched(last) \o <<b>> /\ forward' = b
    BY <1>6, <2>1, RunBatchFacts
  <2>3. ResultsPairUp'
    BY <2>2 DEF ResultsPairUp, Launched
  <2>4. \A c \in {last, b} \ {None} : c.layer # Sampling
    BY <1>1, <2>2 DEF Control
  <2> QED  BY <2>2, <2>3, <2>4 DEF Control
<1>7. CASE FinishExpert
  <2>1. /\ Tail(results) = Launched(forward) /\ hand = None
    BY <1>1, <1>7, ResultForms DEF FinishExpert
  <2> QED  BY <1>5, <1>7, <2>1 DEF FinishExpert
<1>8. CASE FinishAttention
  <2>1. /\ Head(results) = last /\ Tail(results) = Launched(forward) /\ hand = None /\ results # <<>>
    BY <1>1, <1>8, ResultForms DEF FinishAttention
  <2>2. last \in Batch /\ last # None
    BY <1>1, <1>8, <2>1, ResultsType DEF FinishAttention
  <2>3. Handle("token_mapping") \in 0 .. 1
    BY <1>1, BufferFacts DEF Staging
  <2>4. hand' = [last EXCEPT !.in = Handle("token_mapping")] /\ pc' = "sync" /\ results' = Launched(forward)
        /\ UNCHANGED <<last, forward>> /\ ~IsExpert(last.layer)
    BY <1>8, <2>1 DEF FinishAttention
  <2>5. hand' # None /\ hand'.layer = last.layer
    BY <2>2, <2>3, <2>4, BatchFacts
  <2>6. ResultsPairUp'
    <3>1. \A x : <<>> \o <<x>> = <<x>>
      OBVIOUS
    <3>2. <<>> \o <<>> = <<>>
      OBVIOUS
    <3> QED  BY <2>4, <3>1, <3>2 DEF ResultsPairUp, Launched
  <2> QED  BY <1>1, <2>2, <2>4, <2>5, <2>6 DEF Control
<1>9. CASE SendAttention
  <2>1. results = Launched(forward)
    BY <1>1, <1>9, ResultForms DEF SendAttention
  <2> QED  BY <1>5, <1>9, <2>1 DEF SendAttention
<1>10. CASE NothingToFinish
  <2>1. results = Launched(forward) /\ hand = None
    BY <1>1, <1>10, ResultForms DEF NothingToFinish
  <2> QED  BY <1>5, <1>10, <2>1 DEF NothingToFinish
<1>11. ASSUME NEW reqs \in SUBSET pool[Sampling], Sample(reqs) PROVE Control'
  BY <1>4, <1>11 DEF Sample
<1>12. CASE Receive \/ LeaveLoop
  BY <1>3, <1>12 DEF Receive, LeaveLoop
<1>13. CASE NothingScheduled
  BY <1>4, <1>13 DEF NothingScheduled
<1>14. CASE \/ \E r \in Req : Submit(r)
            \/ \E b \in away : Deliver(b)
            \/ GpuStep \/ Terminate \/ UNCHANGED vars
  BY <1>2, <1>14 DEF Submit, Deliver, GpuStep, Terminate, vars, cpu
<1> QED
  BY <1>6, <1>7, <1>8, <1>9, <1>10, <1>11, <1>12, <1>13, <1>14 DEF Next, Loop

-----------------------------------------------------------------------------
(* The stream, and the staging buffers.                                    *)
LEMMA StreamGrows ==
  ASSUME TypeOK, NEW k \in Kernel, stream' = Append(stream, k),
         k \in OurKernels', \A i \in DOMAIN stream : stream[i] \in OurKernels'
  PROVE  Kernels'
<1>1. stream \in Seq(Kernel)
  BY DEF TypeOK
<1>2. \A i \in DOMAIN stream' : stream'[i] = k \/ \E j \in DOMAIN stream : stream'[i] = stream[j]
  <2>1. /\ Len(stream) \in Nat /\ DOMAIN stream = 1 .. Len(stream) /\ DOMAIN stream' = 1 .. Len(stream) + 1
        /\ \A i \in 1 .. Len(stream) : stream'[i] = stream[i]
        /\ stream'[Len(stream) + 1] = k
    BY <1>1, AppendProperties, LenProperties
  <2> QED  BY <2>1
<1> QED  BY <1>2 DEF Kernels

LEMMA KernelsStep == IInv /\ [Next]_vars => Kernels'
<1> SUFFICES ASSUME IInv, [Next]_vars PROVE Kernels'
  OBVIOUS
<1>1. TypeOK /\ Control /\ Kernels /\ stream \in Seq(Kernel)
  BY DEF IInv, TypeOK
<1>2. ASSUME UNCHANGED <<pc, forward, last, stream>> PROVE Kernels'
  BY <1>1, <1>2 DEF Kernels, OurKernels, KernelIsOurs, InFlight
<1>3. ASSUME pc # "sync", pc' # "sync", UNCHANGED <<forward, last>>
      PROVE  \A i \in DOMAIN stream : stream[i] \in OurKernels'
  <2>1. InFlight' = InFlight
    BY <1>3 DEF InFlight
  <2>2. \A i \in DOMAIN stream : stream[i] \in Kernel /\ KernelIsOurs(stream[i])
    BY <1>1 DEF Kernels, OurKernels
  <2> QED  BY <1>3, <2>1, <2>2 DEF OurKernels, KernelIsOurs
<1>4. ASSUME pc # "sync", pc' # "sync", UNCHANGED <<forward, last, stream>> PROVE Kernels'
  BY <1>3, <1>4 DEF Kernels
<1>5. ASSUME pc \in {"finish", "sync"}, NextIteration, UNCHANGED stream,
             \A i \in DOMAIN stream : stream[i].name # "permute",
             pc = "finish" /\ last # None =>
               \A i \in DOMAIN stream : stream[i].batch # last
      PROVE  Kernels'
  <2>1. pc' = "receive" /\ last' = forward /\ forward' = None
    BY <1>5 DEF NextIteration
  <2>2. \A i \in DOMAIN stream : stream[i].batch \in InFlight => stream[i].batch \in InFlight'
    BY <1>5, <2>1 DEF InFlight
  <2> QED  BY <1>1, <1>5, <2>2 DEF Kernels, OurKernels, KernelIsOurs
<1>6. pc # "sync" => \A i \in DOMAIN stream : stream[i].name # "permute"
  BY <1>1 DEF Kernels, OurKernels, KernelIsOurs
<1>7. ASSUME NEW l \in Layer, NEW reqs \in SUBSET pool[l], RunBatch(l, reqs) PROVE Kernels'
  <2>1. PICK b : b = LaunchedBatch(l, reqs)
    OBVIOUS
  <2> DEFINE k == [name |-> IF IsExpert(l) THEN "expert" ELSE "attention", batch |-> b]
  <2>2. /\ pc = "schedule" /\ pc' = "finish" /\ forward = None /\ last' = last
        /\ b \in Batch /\ b # None /\ b.layer = l /\ forward' = b
        /\ stream' = Append(stream, k)
    BY <1>7, <2>1, RunBatchFacts
  <2>3. k \in Kernel
    BY <2>2, KernelType
  <2>4. k \in OurKernels'
    BY <2>2, <2>3 DEF OurKernels, KernelIsOurs, InFlight
  <2>5. \A i \in DOMAIN stream : stream[i] \in OurKernels'
    BY <1>1, <2>2 DEF Kernels, OurKernels, KernelIsOurs, InFlight
  <2> QED  BY <1>1, <2>2, <2>3, <2>4, <2>5, StreamGrows
<1>8. ASSUME NEW reqs \in SUBSET pool[Sampling], Sample(reqs) PROVE Kernels'
  <2> DEFINE goesOn == {r \in reqs : ~Ends(r)}
             b == [layer |-> Sampling, reqs |-> goesOn, in |-> Handle("continue_ids"), out |-> 0]
  <2>0. PICK k : k = [name |-> "select", batch |-> b]
    OBVIOUS
  <2>1. /\ pc = "schedule" /\ pc' = "finish" /\ UNCHANGED <<forward, last>>
        /\ stream' = stream \/ stream' = Append(stream, k)
    BY <1>8, <2>0 DEF Sample
  <2>2. k \in Kernel
    <3>1. goesOn \in SUBSET Req /\ Sampling \in Layer
      BY <1>1, LayerFacts DEF TypeOK
    <3>2. Handle("continue_ids") \in 0 .. 1 /\ 0 \in 0 .. 1
      BY <1>1, BufferFacts DEF Staging
    <3> HIDE DEF goesOn
    <3>3. b \in Batch
      BY <3>1, <3>2, BatchFacts
    <3> QED  BY <2>0, <3>3, KernelType
  <2>3. k \in OurKernels'
    BY <2>0, <2>2 DEF OurKernels, KernelIsOurs
  <2>4. CASE stream' = Append(stream, k)
    BY <1>1, <1>3, <2>1, <2>2, <2>3, <2>4, StreamGrows
  <2> QED  BY <1>4, <2>1, <2>4
<1>9. CASE FinishExpert
  <2>1. pc = "finish" /\ last # None /\ Head(results) = last
    BY <1>1, <1>9, ResultForms DEF FinishExpert
  <2>2. \A i \in DOMAIN stream : stream[i].batch # last
    BY <1>9, <2>1 DEF FinishExpert, Done
  <2> QED  BY <1>5, <1>6, <1>9, <2>1, <2>2 DEF FinishExpert
<1>10. CASE FinishAttention
  <2>1. /\ Head(results) = last /\ results # <<>>
    BY <1>1, <1>10, ResultForms DEF FinishAttention
  <2>2. last \in Batch /\ Handle("token_mapping") \in 0 .. 1
    BY <1>1, <2>1, ResultsType, BufferFacts DEF Staging
  <2> DEFINE b == [last EXCEPT !.in = Handle("token_mapping")]
  <2>0. PICK k : k = [name |-> "permute", batch |-> b]
    OBVIOUS
  <2>3. /\ pc = "finish" /\ pc' = "sync" /\ UNCHANGED <<forward, last>> /\ stream' = Append(stream, k)
        /\ \A i \in DOMAIN stream : stream[i].batch # last
    BY <1>10, <2>0, <2>1 DEF FinishAttention, Done
  <2>4. k \in Kernel
    BY <2>0, <2>2, BatchFacts, KernelType
  <2>5. k \in OurKernels'
    BY <2>0, <2>3, <2>4 DEF OurKernels, KernelIsOurs
  <2>6. \A i \in DOMAIN stream : stream[i] \in OurKernels'
    BY <1>1, <2>3 DEF Kernels, OurKernels, KernelIsOurs, InFlight
  <2> QED  BY <1>1, <2>3, <2>4, <2>5, <2>6, StreamGrows
<1>11. CASE SendAttention
  BY <1>5, <1>11 DEF SendAttention
<1>12. CASE NothingToFinish
  BY <1>5, <1>6, <1>12 DEF NothingToFinish
<1>13. CASE Receive \/ NothingScheduled \/ LeaveLoop
  BY <1>4, <1>13 DEF Receive, NothingScheduled, LeaveLoop
<1>14. CASE GpuStep
  <2>1. stream # <<>> /\ stream' = Tail(stream) /\ UNCHANGED <<pc, forward, last>>
    BY <1>14 DEF GpuStep, cpu
  <2>2. \A i \in DOMAIN stream' : \E j \in DOMAIN stream : stream'[i] = stream[j]
    <3>1. /\ Len(stream) \in Nat /\ DOMAIN stream = 1 .. Len(stream)
          /\ Tail(stream) \in Seq(Kernel) /\ Len(Tail(stream)) = Len(stream) - 1
          /\ \A i \in 1 .. Len(Tail(stream)) : Tail(stream)[i] = stream[i + 1]
      BY <1>1, <2>1, HeadTailProperties, LenProperties
    <3>2. DOMAIN Tail(stream) = 1 .. Len(stream) - 1
      BY <3>1, LenProperties
    <3> QED  BY <2>1, <3>1, <3>2
  <2>3. OurKernels' = OurKernels
    BY <2>1 DEF OurKernels, KernelIsOurs, InFlight
  <2> QED  BY <1>1, <2>2, <2>3 DEF Kernels
<1>15. CASE \/ \E r \in Req : Submit(r)
            \/ \E b \in away : Deliver(b)
            \/ Terminate \/ UNCHANGED vars
  BY <1>2, <1>15 DEF Submit, Deliver, Terminate, vars, cpu
<1> QED
  BY <1>7, <1>8, <1>9, <1>10, <1>11, <1>12, <1>13, <1>14, <1>15 DEF Next, Loop

(* A launch turns the buffers of its kind, so it does not share them with  *)
(* the batch still in flight.                                              *)
LEMMA BuffersStep == IInv /\ [Next]_vars => BuffersInTurn'
<1> SUFFICES ASSUME IInv, [Next]_vars PROVE BuffersInTurn'
  OBVIOUS
<1>1. TypeOK /\ Control /\ BuffersInTurn
  BY DEF IInv
<1>2. ASSUME UNCHANGED <<pc, forward, last, buffer>> PROVE BuffersInTurn'
  BY <1>1, <1>2 DEF BuffersInTurn, Newest
<1>3. ASSUME pc # "sync", UNCHANGED <<forward, last, buffer>> PROVE BuffersInTurn'
  BY <1>1, <1>3 DEF BuffersInTurn, Newest
<1>4. ASSUME NextIteration, UNCHANGED buffer PROVE BuffersInTurn'
  <2>1. pc' = "receive" /\ last' = forward /\ forward' = None
    BY <1>4 DEF NextIteration
  <2> QED  BY <1>1, <1>4, <2>1 DEF BuffersInTurn, Newest
<1>5. ASSUME NEW pair \in {"token_mapping", "continue_ids"}, buffer' = Turned({pair})
      PROVE  \A s \in {"m_indices", "expert_weights", "attn_meta", "topk_ids"} : buffer'[s] = buffer[s]
  <2>1. {"m_indices", "expert_weights", "attn_meta", "topk_ids"} \subseteq Staging
    BY DEF Staging
  <2>2. \A s \in {"m_indices", "expert_weights", "attn_meta", "topk_ids"} : s \notin {pair}
    OBVIOUS
  <2> QED  BY <1>1, <1>5, <2>1, <2>2, TurnedFacts
<1>6. ASSUME NEW l \in Layer, NEW reqs \in SUBSET pool[l], RunBatch(l, reqs) PROVE BuffersInTurn'
  <2>1. PICK b : b = LaunchedBatch(l, reqs)
    OBVIOUS
  <2>2. /\ pc = "schedule" /\ pc' = "finish" /\ forward = None /\ last' = last
        /\ b \in Batch /\ b # None /\ b.layer = l /\ forward' = b
        /\ buffer' = Turned(IF IsExpert(l) THEN {"m_indices", "expert_weights"}
                                           ELSE {"attn_meta", "topk_ids"})
    BY <1>6, <2>1, RunBatchFacts
  <2>3. {"m_indices", "expert_weights", "attn_meta", "topk_ids"} \subseteq Staging
    BY DEF Staging
  <2>4. last # None => Newest(last)
    BY <1>1, <2>2 DEF BuffersInTurn
  <2>5. CASE IsExpert(l)
    <3>1. /\ b.in = Handle("m_indices") /\ b.out = Handle("expert_weights")
      BY <2>1, <2>5 DEF LaunchedBatch
    <3>2. /\ buffer'["m_indices"] = Handle("m_indices") /\ buffer'["expert_weights"] = Handle("expert_weights")
          /\ buffer'["attn_meta"] = buffer["attn_meta"] /\ buffer'["topk_ids"] = buffer["topk_ids"]
      BY <1>1, <2>2, <2>3, <2>5, TurnedFacts
    <3>3. Handle("m_indices") # buffer["m_indices"] /\ Handle("expert_weights") # buffer["expert_weights"]
      BY <1>1, <2>3, BufferFacts
    <3> QED  BY <2>2, <2>4, <2>5, <3>1, <3>2, <3>3 DEF BuffersInTurn, Newest, SameKind
  <2>6. CASE ~IsExpert(l)
    <3>1. /\ b.in = Handle("attn_meta") /\ b.out = Handle("topk_ids")
      BY <2>1, <2>6 DEF LaunchedBatch
    <3>2. /\ buffer'["attn_meta"] = Handle("attn_meta") /\ buffer'["topk_ids"] = Handle("topk_ids")
          /\ buffer'["m_indices"] = buffer["m_indices"] /\ buffer'["expert_weights"] = buffer["expert_weights"]
      BY <1>1, <2>2, <2>3, <2>6, TurnedFacts
    <3>3. Handle("attn_meta") # buffer["attn_meta"] /\ Handle("topk_ids") # buffer["topk_ids"]
      BY <1>1, <2>3, BufferFacts
    <3> QED  BY <2>2, <2>4, <2>6, <3>1, <3>2, <3>3 DEF BuffersInTurn, Newest, SameKind
  <2> QED  BY <2>5, <2>6
<1>7. ASSUME NEW reqs \in SUBSET pool[Sampling], Sample(reqs) PROVE BuffersInTurn'
  <2>1. /\ pc = "schedule" /\ UNCHANGED <<forward, last>>
        /\ buffer' = buffer \/ buffer' = Turned({"continue_ids"})
    BY <1>7 DEF Sample
  <2>2. CASE buffer' = Turned({"continue_ids"})
    BY <1>1, <1>5, <2>1, <2>2 DEF BuffersInTurn, Newest
  <2> QED  BY <1>3, <2>1, <2>2
<1>8. CASE FinishAttention
  <2>1. pc' = "sync" /\ UNCHANGED <<forward, last>> /\ buffer' = Turned({"token_mapping"})
    BY <1>8 DEF FinishAttention
  <2> QED  BY <1>1, <1>5, <2>1 DEF BuffersInTurn, Newest
<1>9. CASE FinishExpert \/ SendAttention \/ NothingToFinish
  BY <1>4, <1>9 DEF FinishExpert, SendAttention, NothingToFinish
<1>10. CASE Receive \/ NothingScheduled \/ LeaveLoop
  BY <1>3, <1>10 DEF Receive, NothingScheduled, LeaveLoop
<1>11. CASE \/ \E r \in Req : Submit(r)
            \/ \E b \in away : Deliver(b)
            \/ GpuStep \/ Terminate \/ UNCHANGED vars
  BY <1>2, <1>11 DEF Submit, Deliver, GpuStep, Terminate, vars, cpu
<1> QED
  BY <1>6, <1>7, <1>8, <1>9, <1>10, <1>11 DEF Next, Loop

(* The results are the batches in flight.                                  *)
LEMMA ResultsInFlight ==
  ASSUME Control
  PROVE  \A i \in DOMAIN results : results[i] \in InFlight
<1>1. \A b : DOMAIN <<b>> = {1} /\ <<b>>[1] = b
  OBVIOUS
<1>2. /\ DOMAIN <<>> = {}
      /\ \A b : Launched(b) # <<>> => b # None /\ Launched(b) = <<b>>
  BY DEF Launched
<1>3. CASE pc = "sync"
  BY <1>1, <1>2, <1>3, ResultForms DEF InFlight
<1>4. CASE pc # "sync"
  <2>1. results = Launched(last) \o Launched(forward)
    BY <1>4 DEF Control, ResultsPairUp
  <2>2. Launched(last) \in Seq({last, forward} \ {None}) /\ Launched(forward) \in Seq({last, forward} \ {None})
    <3>1. \A S, b : b \in S => <<>> \in Seq(S) /\ <<b>> \in Seq(S)
      OBVIOUS
    <3>2. \A S : <<>> \in Seq(S)
      OBVIOUS
    <3> QED  BY <3>1, <3>2 DEF Launched
  <2>3. results \in Seq({last, forward} \ {None})
    BY <2>1, <2>2, ConcatProperties
  <2> QED  BY <1>4, <2>3 DEF InFlight
<1> QED  BY <1>3, <1>4

LEMMA StagedStep == IInv /\ [Next]_vars => StagedIntact'
<1> SUFFICES ASSUME IInv, [Next]_vars PROVE StagedIntact'
  OBVIOUS
<1>1. TypeOK /\ Control /\ BuffersInTurn /\ Kernels /\ StagedIntact
  BY DEF IInv
<1>2. ASSUME UNCHANGED torn PROVE StagedIntact'
  BY <1>1, <1>2 DEF StagedIntact
<1>3. \A i \in DOMAIN stream : stream[i] \in Kernel /\ KernelIsOurs(stream[i])
  BY <1>1 DEF Kernels, OurKernels
<1>4. ASSUME NEW l \in Layer, NEW reqs \in SUBSET pool[l], RunBatch(l, reqs) PROVE StagedIntact'
  <2> DEFINE written == IF IsExpert(l) THEN {"m_indices", "expert_weights"} ELSE {"attn_meta"}
  <2>1. pc = "schedule" /\ forward = None /\ torn' = torn \cup Overwritten(written)
    BY <1>4, RunBatchFacts
  <2>2. \A i \in DOMAIN stream : /\ stream[i].name # "permute"
                                 /\ stream[i].name = "attention" =>
                                      stream[i].batch.in = buffer["attn_meta"]
                                 /\ stream[i].name = "expert" =>
                                      /\ stream[i].batch.in = buffer["m_indices"]
                                      /\ stream[i].batch.out = buffer["expert_weights"]
    BY <1>1, <1>3, <2>1 DEF KernelIsOurs, InFlight, BuffersInTurn, Newest
  <2>3. \A s \in {"attn_meta", "m_indices", "expert_weights"} : Handle(s) # buffer[s]
    BY <1>1, BufferFacts DEF Staging
  <2>4. \A i \in DOMAIN stream : stream[i].name \in {"attention", "permute", "expert", "select"}
    BY <1>3 DEF Kernel
  <2>5. \A s \in {"attn_meta", "m_indices", "expert_weights"} :
           \A i \in DOMAIN stream : ~WaitsFor(stream[i], s, Handle(s))
    <3> SUFFICES ASSUME NEW s \in {"attn_meta", "m_indices", "expert_weights"}, NEW i \in DOMAIN stream
                 PROVE  ~WaitsFor(stream[i], s, Handle(s))
      OBVIOUS
    <3>1. CASE stream[i].name = "attention"
      BY <2>2, <2>3, <3>1 DEF WaitsFor
    <3>2. CASE stream[i].name = "expert"
      BY <2>2, <2>3, <3>2 DEF WaitsFor
    <3>3. CASE stream[i].name = "select"
      BY <3>3 DEF WaitsFor
    <3> QED  BY <2>2, <2>4, <3>1, <3>2, <3>3
  <2>6. Overwritten(written) = {}
    BY <2>5 DEF Overwritten
  <2> QED  BY <1>1, <2>1, <2>6 DEF StagedIntact
<1>5. CASE FinishAttention
  <2>1. pc = "finish" /\ torn' = torn \cup Overwritten({"token_mapping"})
    BY <1>5 DEF FinishAttention
  <2>2. \A i \in DOMAIN stream : stream[i].name \in {"attention", "expert", "select"}
    BY <1>3, <2>1 DEF Kernel, KernelIsOurs
  <2>3. \A i \in DOMAIN stream : ~WaitsFor(stream[i], "token_mapping", Handle("token_mapping"))
    <3> SUFFICES ASSUME NEW i \in DOMAIN stream
                 PROVE  ~WaitsFor(stream[i], "token_mapping", Handle("token_mapping"))
      OBVIOUS
    <3> QED  BY <2>2 DEF WaitsFor
  <2>4. Overwritten({"token_mapping"}) = {}
    BY <2>3 DEF Overwritten
  <2> QED  BY <1>1, <2>1, <2>4 DEF StagedIntact
<1>6. ASSUME NEW reqs \in SUBSET pool[Sampling], Sample(reqs) PROVE StagedIntact'
  BY <1>1, <1>6 DEF Sample, StagedIntact, Overwritten
<1>7. CASE GpuStep
  <2> DEFINE k == Head(stream)
             unread == {i \in DOMAIN results : /\ ~IsExpert(results[i].layer)
                                               /\ results[i].out = k.batch.out
                                               /\ results[i] # k.batch}
  <2>1. /\ stream # <<>>
        /\ torn' = IF k.name = "attention" /\ unread # {} THEN torn \cup {"topk_ids"} ELSE torn
    BY <1>7 DEF GpuStep
  <2>2. k.name = "attention" => k.batch \in InFlight /\ ~IsExpert(k.batch.layer)
    <3>1. k = stream[1] /\ 1 \in DOMAIN stream
      BY <1>1, <2>1 DEF TypeOK
    <3> QED  BY <1>3, <3>1 DEF KernelIsOurs
  <2>3. ASSUME k.name = "attention", NEW i \in unread PROVE FALSE
    <3>1. PICK b, c : b = k.batch /\ c = results[i]
      OBVIOUS
    <3>2. /\ b \in InFlight /\ c \in InFlight /\ b # c /\ b.out = c.out
          /\ ~IsExpert(b.layer) /\ ~IsExpert(c.layer)
      BY <1>1, <2>2, <2>3, <3>1, ResultsInFlight
    <3>3. /\ pc # "sync" /\ last # None /\ forward # None /\ SameKind(last, forward)
          /\ last.out = forward.out
      BY <3>2 DEF InFlight, SameKind
    <3> QED  BY <1>1, <3>3 DEF BuffersInTurn
  <2>4. torn' = torn
    BY <2>1, <2>3
  <2> QED  BY <1>2, <2>4
<1>8. CASE FinishExpert \/ SendAttention \/ NothingToFinish
  BY <1>2, <1>8 DEF FinishExpert, SendAttention, NothingToFinish
<1>9. CASE Receive \/ NothingScheduled \/ LeaveLoop
  BY <1>2, <1>9 DEF Receive, NothingScheduled, LeaveLoop
<1>10. CASE \/ \E r \in Req : Submit(r)
            \/ \E b \in away : Deliver(b)
            \/ Terminate \/ UNCHANGED vars
  BY <1>2, <1>10 DEF Submit, Deliver, Terminate, vars, cpu
<1> QED
  BY <1>4, <1>5, <1>6, <1>7, <1>8, <1>9, <1>10 DEF Next, Loop

-----------------------------------------------------------------------------
(* Where a token is, and where it goes.                                    *)
LEMMA OnlyThere ==
  ASSUME NEW r \in Req, Account(r)
  PROVE  /\ InInbox(r) # {} => /\ Sole(InInbox(r)) /\ InPool(r) = {} /\ InAway(r) = {}
                               /\ InResults(r) = {} /\ InHand(r) = {}
         /\ InPool(r) # {} => /\ InInbox(r) = {} /\ Sole(InPool(r)) /\ InAway(r) = {}
                              /\ InResults(r) = {} /\ InHand(r) = {}
         /\ InAway(r) # {} => /\ InInbox(r) = {} /\ InPool(r) = {} /\ Sole(InAway(r))
                              /\ InResults(r) = {} /\ InHand(r) = {}
         /\ InResults(r) # {} => /\ InInbox(r) = {} /\ InPool(r) = {} /\ InAway(r) = {}
                                 /\ Sole(InResults(r)) /\ InHand(r) = {}
         /\ InHand(r) # {} => /\ InInbox(r) = {} /\ InPool(r) = {} /\ InAway(r) = {}
                              /\ InResults(r) = {} /\ Sole(InHand(r))
         /\ (InInbox(r) # {} \/ InPool(r) # {} \/ InAway(r) # {} \/ InResults(r) # {} \/ InHand(r) # {})
              => r \notin coming \cup eos
BY DEF Account, Nowhere, Somewhere

(* Positions in a queue whose head leaves.                                 *)
At(q, P) == {i \in DOMAIN q : q[i] \in P}

LEMMA HeadLeaves ==
  ASSUME NEW S, NEW q \in Seq(S), q # <<>>, NEW P
  PROVE  /\ Head(q) \notin P /\ At(q, P) = {} => At(Tail(q), P) = {}
         /\ Head(q) \notin P /\ Sole(At(q, P)) => Sole(At(Tail(q), P))
         /\ Head(q) \in P => At(q, P) # {}
         /\ Head(q) \in P /\ Sole(At(q, P)) => At(Tail(q), P) = {}
<1>1. /\ Len(q) \in Nat /\ DOMAIN q = 1 .. Len(q) /\ 1 \in DOMAIN q /\ Head(q) = q[1]
      /\ DOMAIN Tail(q) = 1 .. Len(q) - 1
      /\ \A i \in 1 .. Len(q) - 1 : Tail(q)[i] = q[i + 1]
  <2>1. Len(q) \in Nat /\ DOMAIN q = 1 .. Len(q) /\ 1 \in DOMAIN q /\ Head(q) = q[1]
    BY LenProperties, EmptySeq
  <2>2. /\ Tail(q) \in Seq(S) /\ Len(Tail(q)) = Len(q) - 1
        /\ \A i \in 1 .. Len(Tail(q)) : Tail(q)[i] = q[i + 1]
    BY HeadTailProperties
  <2>3. DOMAIN Tail(q) = 1 .. Len(q) - 1
    BY <2>2, LenProperties
  <2> QED  BY <2>1, <2>2, <2>3
<1>2. At(Tail(q), P) = {i \in 1 .. Len(q) - 1 : i + 1 \in At(q, P)}
  BY <1>1 DEF At
<1>3. Head(q) \in P <=> 1 \in At(q, P)
  BY <1>1 DEF At
<1>4. At(q, P) \subseteq 1 .. Len(q)
  BY <1>1 DEF At
<1>5. Head(q) \notin P /\ At(q, P) = {} => At(Tail(q), P) = {}
  BY <1>2
<1>6. ASSUME Head(q) \notin P, Sole(At(q, P)) PROVE Sole(At(Tail(q), P))
  <2>1. PICK j : At(q, P) = {j}
    BY <1>6 DEF Sole
  <2>2. j \in 2 .. Len(q)
    BY <1>1, <1>3, <1>4, <1>6, <2>1
  <2>3. At(Tail(q), P) = {j - 1}
    BY <1>1, <1>2, <2>1, <2>2
  <2> QED  BY <2>3 DEF Sole
<1>7. Head(q) \in P => At(q, P) # {}
  BY <1>3
<1>8. ASSUME Head(q) \in P, Sole(At(q, P)) PROVE At(Tail(q), P) = {}
  <2>1. At(q, P) = {1}
    BY <1>3, <1>8 DEF Sole
  <2> QED  BY <1>1, <1>2, <2>1
<1> QED  BY <1>5, <1>6, <1>7, <1>8

LEMMA TailJoins ==
  ASSUME NEW S, NEW q \in Seq(S), NEW x \in S, NEW P
  PROVE  /\ x \notin P => At(Append(q, x), P) = At(q, P)
         /\ x \in P /\ At(q, P) = {} => Sole(At(Append(q, x), P))
<1>1. /\ Len(q) \in Nat /\ DOMAIN q = 1 .. Len(q) /\ DOMAIN Append(q, x) = 1 .. Len(q) + 1
      /\ \A i \in 1 .. Len(q) : Append(q, x)[i] = q[i]
      /\ Append(q, x)[Len(q) + 1] = x
  BY AppendProperties, LenProperties
<1>2. At(Append(q, x), P) = At(q, P) \cup (IF x \in P THEN {Len(q) + 1} ELSE {})
  BY <1>1 DEF At
<1> QED  BY <1>2 DEF Sole

Holding(r) == {b \in Batch : r \in b.reqs}

LEMMA PlacesAt ==
  ASSUME TypeOK, NEW r \in Req
  PROVE  InInbox(r) = At(inbox, {r}) /\ InResults(r) = At(results, Holding(r))
<1>1. \A i \in DOMAIN results : results[i] \in Batch
  BY DEF TypeOK
<1> QED  BY <1>1 DEF InInbox, InResults, At, Holding

(* A place is as full as before.                                           *)
Same(S, T) == (T = {} <=> S = {}) /\ (Sole(S) => Sole(T))

LEMMA Undisturbed ==
  ASSUME NEW r \in Req, Account(r),
         Same(InInbox(r), InInbox(r)'), Same(InPool(r), InPool(r)'), Same(InAway(r), InAway(r)'),
         Same(InResults(r), InResults(r)'), Same(InHand(r), InHand(r)'),
         r \in coming' <=> r \in coming, r \in eos' <=> r \in eos,
         outputLen'[r] = outputLen[r], reported'[r] = reported[r]
  PROVE  Account(r)'
<1>1. Nowhere(r) => Nowhere(r)'
  BY DEF Nowhere, Same
<1>2. Somewhere(r) => Somewhere(r)'
  BY DEF Somewhere, Same
<1>3. InInbox(r)' = {} <=> InInbox(r) = {}
  BY DEF Same
<1> QED  BY <1>1, <1>2, <1>3 DEF Account

(* The token goes from one place behind the inbox to another.              *)
LEMMA Moved ==
  ASSUME NEW r \in Req, Account(r), r \notin coming \cup eos, InInbox(r) = {},
         InInbox(r)' = {}, Somewhere(r)', r \notin coming' \cup eos',
         outputLen'[r] = outputLen[r], reported'[r] = reported[r]
  PROVE  Account(r)'
BY DEF Account

LEMMA SubmitAccounts ==
  ASSUME IInv, TypeOK', NEW q \in Req, Submit(q), NEW r \in Req
  PROVE  Account(r)'
<1>1. /\ q \in coming /\ coming' = coming \ {q} /\ inbox' = Append(inbox, q)
      /\ UNCHANGED <<pool, away, outputLen, reported, eos, results, hand>>
  BY DEF Submit, cpu
<1>2. TypeOK /\ Account(r) /\ inbox \in Seq(Req)
  BY DEF IInv, Accounts, TypeOK
<1>3. /\ InPool(r)' = InPool(r) /\ InAway(r)' = InAway(r) /\ InResults(r)' = InResults(r)
      /\ InHand(r)' = InHand(r)
  BY <1>1 DEF InPool, InAway, InResults, InHand
<1>4. InInbox(r) = At(inbox, {r}) /\ InInbox(r)' = At(inbox', {r})
  BY DEF InInbox, At
<1>5. CASE r = q
  <2>1. Nowhere(r) /\ r \notin eos /\ outputLen[r] = None /\ reported[r] = 0
    BY <1>1, <1>2, <1>5 DEF Account
  <2>2. Sole(InInbox(r)')
    <3>1. r \in {r} /\ At(inbox, {r}) = {}
      BY <1>4, <2>1 DEF Nowhere
    <3>2. Sole(At(Append(inbox, r), {r}))
      BY <1>2, <3>1, TailJoins
    <3> QED  BY <1>1, <1>4, <1>5, <3>2
  <2>3. InInbox(r)' # {}
    BY <2>2 DEF Sole
  <2>4. Somewhere(r)'
    BY <1>3, <2>1, <2>2 DEF Nowhere, Somewhere
  <2> QED  BY <1>1, <1>5, <2>1, <2>3, <2>4 DEF Account
<1>6. CASE r # q
  <2>1. InInbox(r)' = InInbox(r)
    BY <1>1, <1>2, <1>4, <1>6, TailJoins
  <2> QED  BY <1>1, <1>2, <1>3, <1>6, <2>1, Undisturbed DEF Same
<1> QED  BY <1>5, <1>6

LEMMA DeliverAccounts ==
  ASSUME IInv, TypeOK', NEW b \in away, Deliver(b), NEW r \in Req
  PROVE  Account(r)'
<1>1. /\ away' = away \ {b} /\ pool' = [pool EXCEPT ![b.layer] = @ \cup b.reqs]
      /\ UNCHANGED <<coming, inbox, outputLen, reported, eos, results, hand>>
  BY DEF Deliver, cpu
<1>2. /\ TypeOK /\ Account(r) /\ pool \in [Layer -> SUBSET Req]
      /\ b.layer \in Layer
  BY DEF IInv, Accounts, TypeOK
<1>3. InInbox(r)' = InInbox(r) /\ InResults(r)' = InResults(r) /\ InHand(r)' = InHand(r)
  BY <1>1 DEF InInbox, InResults, InHand
<1>4. CASE r \in b.reqs
  <2>1. b \in InAway(r)
    BY <1>4 DEF InAway
  <2>2. /\ r \notin coming \cup eos /\ InAway(r) = {b}
        /\ InInbox(r) = {} /\ InPool(r) = {} /\ InResults(r) = {} /\ InHand(r) = {}
    BY <1>2, <2>1, OnlyThere DEF Sole
  <2>3. InAway(r)' = {}
    BY <1>1, <2>2 DEF InAway
  <2>4. InPool(r)' = {b.layer}
    BY <1>1, <1>2, <1>4, <2>2 DEF InPool
  <2>5. Somewhere(r)'
    BY <1>3, <2>2, <2>3, <2>4 DEF Somewhere, Sole
  <2> QED  BY <1>1, <1>2, <1>3, <2>2, <2>5, Moved
<1>5. CASE r \notin b.reqs
  <2>1. InAway(r)' = InAway(r)
    BY <1>1, <1>5 DEF InAway
  <2>2. InPool(r)' = InPool(r)
    BY <1>1, <1>2, <1>5 DEF InPool
  <2> QED  BY <1>1, <1>2, <1>3, <2>1, <2>2, Undisturbed DEF Same
<1> QED  BY <1>4, <1>5

LEMMA ReceiveAccounts ==
  ASSUME IInv, TypeOK', Receive, NEW r \in Req
  PROVE  Account(r)'
<1>1. UNCHANGED <<coming, away, reported, eos, results, hand>>
  BY DEF Receive
<1>2. /\ TypeOK /\ Account(r) /\ pool \in [Layer -> SUBSET Req] /\ inbox \in Seq(Req)
      /\ outputLen \in [Req -> Nat \cup {None}] /\ 0 \in Layer
  BY LayerFacts DEF IInv, Accounts, TypeOK
<1>3. InAway(r)' = InAway(r) /\ InResults(r)' = InResults(r) /\ InHand(r)' = InHand(r)
  BY <1>1 DEF InAway, InResults, InHand
<1>4. InInbox(r) = At(inbox, {r}) /\ InInbox(r)' = At(inbox', {r})
  BY DEF InInbox, At
<1>5. CASE UNCHANGED <<inbox, pool, outputLen>>
  <2>1. InInbox(r)' = InInbox(r) /\ InPool(r)' = InPool(r)
    BY <1>5 DEF InInbox, InPool
  <2> QED  BY <1>1, <1>2, <1>3, <1>5, <2>1, Undisturbed DEF Same
<1>6. CASE /\ inbox # <<>> /\ inbox' = Tail(inbox)
           /\ pool' = [pool EXCEPT ![0] = @ \cup {Head(inbox)}]
           /\ outputLen' = [outputLen EXCEPT ![Head(inbox)] = 0]
  <2>1. PICK h : h = Head(inbox)
    OBVIOUS
  <2>2. h \in Req /\ pool' = [pool EXCEPT ![0] = @ \cup {h}] /\ outputLen' = [outputLen EXCEPT ![h] = 0]
    BY <1>2, <1>6, <2>1, HeadTailProperties
  <2>3. CASE r = h
    <3>0. Head(inbox) \in {r}
      BY <2>1, <2>3
    <3>1. At(inbox, {r}) # {}
      BY <1>2, <1>6, <3>0, HeadLeaves
    <3>2. /\ r \notin coming \cup eos /\ Sole(At(inbox, {r}))
          /\ InPool(r) = {} /\ InAway(r) = {} /\ InResults(r) = {} /\ InHand(r) = {}
      BY <1>2, <1>4, <3>1, OnlyThere
    <3>3. InInbox(r)' = {}
      BY <1>2, <1>4, <1>6, <3>0, <3>2, HeadLeaves
    <3>4. InPool(r)' = {0}
      BY <1>2, <2>2, <2>3, <3>2 DEF InPool
    <3>5. Somewhere(r)'
      BY <1>3, <3>2, <3>3, <3>4 DEF Somewhere, Sole
    <3>6. reported[r] = 0
      BY <1>2, <1>4, <3>1 DEF Account
    <3>7. outputLen'[r] = 0 /\ 0 \in 0 .. MaxOutput[r] - 1
      <4>1. MaxOutput[r] \in Nat \ {0}
        BY EngineAssumption
      <4>2. outputLen'[r] = 0
        BY <1>2, <2>2, <2>3
      <4> QED  BY <4>1, <4>2
    <3> QED  BY <1>1, <3>2, <3>3, <3>5, <3>6, <3>7 DEF Account
  <2>4. CASE r # h
    <3>1. InPool(r)' = InPool(r)
      BY <1>2, <2>2, <2>4 DEF InPool
    <3>2. h \notin {r}
      BY <2>4
    <3>3. /\ InInbox(r) = {} => InInbox(r)' = {}
          /\ Sole(InInbox(r)) => Sole(InInbox(r)')
      BY <1>2, <1>4, <1>6, <2>1, <3>2, HeadLeaves
    <3>4. Same(InInbox(r), InInbox(r)')
      <4>1. InInbox(r) # {} => Sole(InInbox(r))
        BY <1>2, OnlyThere
      <4>2. \A S : Sole(S) => S # {}
        BY DEF Sole
      <4> QED  BY <3>3, <4>1, <4>2 DEF Same
    <3>5. outputLen'[r] = outputLen[r]
      BY <1>2, <2>2, <2>4
    <3> QED  BY <1>1, <1>2, <1>3, <3>1, <3>4, <3>5, Undisturbed DEF Same
  <2> QED  BY <2>3, <2>4
<1> QED  BY <1>5, <1>6 DEF Receive

LEMMA RunBatchAccounts ==
  ASSUME IInv, TypeOK', NEW l \in Layer, NEW reqs \in SUBSET pool[l], RunBatch(l, reqs), NEW r \in Req
  PROVE  Account(r)'
<1>1. PICK b : b = LaunchedBatch(l, reqs)
  OBVIOUS
<1>2. /\ b \in Batch /\ b.reqs = reqs /\ results' = Append(results, b)
      /\ pool' = [pool EXCEPT ![l] = @ \ reqs]
      /\ UNCHANGED <<coming, inbox, away, outputLen, reported, eos, hand>>
  BY <1>1, RunBatchFacts
<1>3. TypeOK /\ Account(r) /\ pool \in [Layer -> SUBSET Req] /\ results \in Seq(Batch)
  BY DEF IInv, Accounts, TypeOK
<1>4. InInbox(r)' = InInbox(r) /\ InAway(r)' = InAway(r) /\ InHand(r)' = InHand(r)
  BY <1>2 DEF InInbox, InAway, InHand
<1>5. InResults(r) = At(results, Holding(r)) /\ InResults(r)' = At(results', Holding(r))
  <2>1. results' \in Seq(Batch)
    BY DEF TypeOK
  <2> QED  BY <1>3, <2>1 DEF InResults, At, Holding
<1>6. CASE r \in reqs
  <2>1. l \in InPool(r)
    BY <1>6 DEF InPool
  <2>2. /\ r \notin coming \cup eos /\ InPool(r) = {l}
        /\ InInbox(r) = {} /\ InAway(r) = {} /\ InResults(r) = {} /\ InHand(r) = {}
    BY <1>3, <2>1, OnlyThere DEF Sole
  <2>3. InPool(r)' = {}
    BY <1>2, <1>3, <1>6, <2>2 DEF InPool
  <2>4. b \in Holding(r)
    BY <1>2, <1>6 DEF Holding
  <2>5. Sole(InResults(r)')
    <3>1. At(results, Holding(r)) = {}
      BY <1>5, <2>2
    <3>2. Sole(At(Append(results, b), Holding(r)))
      BY <1>2, <1>3, <2>4, <3>1, TailJoins
    <3> QED  BY <1>2, <1>5, <3>2
  <2>6. Somewhere(r)'
    BY <1>4, <2>2, <2>3, <2>5 DEF Somewhere
  <2> QED  BY <1>2, <1>3, <1>4, <2>2, <2>6, Moved
<1>7. CASE r \notin reqs
  <2>1. InPool(r)' = InPool(r)
    BY <1>2, <1>3, <1>7 DEF InPool
  <2>2. b \notin Holding(r)
    BY <1>2, <1>7 DEF Holding
  <2>3. InResults(r)' = InResults(r)
    BY <1>2, <1>3, <1>5, <2>2, TailJoins
  <2> QED  BY <1>2, <1>3, <1>4, <2>1, <2>3, Undisturbed DEF Same
<1> QED  BY <1>6, <1>7

(* The sampler ends a request exactly when its last token is reported.     *)
LEMMA SampleAccounts ==
  ASSUME IInv, TypeOK', NEW reqs \in SUBSET pool[Sampling], Sample(reqs), NEW r \in Req
  PROVE  Account(r)'
<1>1. PICK goesOn : goesOn = {q \in reqs : ~Ends(q)}
  OBVIOUS
<1>2. /\ outputLen' = [q \in Req |-> IF q \in goesOn THEN outputLen[q] + 1
                                     ELSE IF q \in reqs THEN None ELSE outputLen[q]]
      /\ reported'  = [q \in Req |-> IF q \in reqs THEN reported[q] + 1 ELSE reported[q]]
      /\ eos'       = eos \cup (reqs \ goesOn)
      /\ pool'      = [pool EXCEPT ![Sampling] = @ \ reqs, ![0] = @ \cup goesOn]
      /\ UNCHANGED <<coming, inbox, away, results, hand>>
  BY <1>1 DEF Sample
<1>3. /\ TypeOK /\ Account(r) /\ pool \in [Layer -> SUBSET Req]
      /\ Sampling \in Layer /\ 0 \in Layer /\ 0 # Sampling
      /\ outputLen[r] \in Nat \cup {None} /\ reported[r] \in Nat
  BY LayerFacts DEF IInv, Accounts, TypeOK
<1>4. /\ InInbox(r)' = InInbox(r) /\ InAway(r)' = InAway(r) /\ InResults(r)' = InResults(r)
      /\ InHand(r)' = InHand(r)
  BY <1>2 DEF InInbox, InAway, InResults, InHand
<1>5. /\ \A m \in Layer \ {0, Sampling} : pool'[m] = pool[m]
      /\ pool'[0] = pool[0] \cup goesOn /\ pool'[Sampling] = pool[Sampling] \ reqs
  BY <1>2, <1>3
<1>6. CASE r \in reqs
  <2>1. Sampling \in InPool(r)
    BY <1>3, <1>6 DEF InPool
  <2>2. /\ r \notin coming \cup eos /\ InPool(r) = {Sampling}
        /\ InInbox(r) = {} /\ InAway(r) = {} /\ InResults(r) = {} /\ InHand(r) = {}
    BY <1>3, <2>1, OnlyThere DEF Sole
  <2>3. outputLen[r] \in 0 .. MaxOutput[r] - 1 /\ reported[r] = outputLen[r]
    BY <1>3, <2>2 DEF Account
  <2>4. MaxOutput[r] \in Nat \ {0}
    BY EngineAssumption
  <2>5. \A m \in Layer : r \in pool[m] <=> m = Sampling
    BY <2>2 DEF InPool
  <2>6. CASE ~Ends(r)
    <3>1. r \in goesOn
      BY <1>1, <1>6, <2>6
    <3>2. InPool(r)' = {0}
      BY <1>3, <1>5, <1>6, <2>5, <3>1 DEF InPool
    <3>3. Somewhere(r)'
      BY <1>4, <2>2, <3>2 DEF Somewhere, Sole
    <3>4. outputLen'[r] = outputLen[r] + 1 /\ reported'[r] = reported[r] + 1
      BY <1>2, <1>6, <3>1
    <3>5. outputLen'[r] \in 0 .. MaxOutput[r] - 1 /\ reported'[r] = outputLen'[r]
      BY <2>3, <2>4, <2>6, <3>4 DEF Ends
    <3>6. r \notin coming' \cup eos' /\ InInbox(r)' = {}
      BY <1>2, <1>4, <2>2, <3>1
    <3> QED  BY <3>3, <3>5, <3>6 DEF Account
  <2>7. CASE Ends(r)
    <3>1. r \notin goesOn
      BY <1>1, <2>7
    <3>2. InPool(r)' = {}
      BY <1>3, <1>5, <1>6, <2>5, <3>1 DEF InPool
    <3>3. Nowhere(r)'
      BY <1>4, <2>2, <3>2 DEF Nowhere
    <3>4. outputLen'[r] = None /\ reported'[r] = MaxOutput[r]
      BY <1>2, <1>6, <2>3, <2>4, <2>7, <3>1 DEF Ends
    <3>5. r \notin coming' /\ r \in eos' /\ InInbox(r)' = {}
      BY <1>2, <1>4, <1>6, <2>2, <3>1
    <3> QED  BY <3>3, <3>4, <3>5 DEF Account
  <2> QED  BY <2>6, <2>7
<1>7. CASE r \notin reqs
  <2>1. r \notin goesOn
    BY <1>1, <1>7
  <2>2. InPool(r)' = InPool(r)
    BY <1>3, <1>5, <1>7, <2>1 DEF InPool
  <2>3. outputLen'[r] = outputLen[r] /\ reported'[r] = reported[r] /\ (r \in eos' <=> r \in eos)
    BY <1>2, <1>7, <2>1
  <2> QED  BY <1>2, <1>3, <1>4, <2>2, <2>3, Undisturbed DEF Same
<1> QED  BY <1>6, <1>7

(* The oldest result is the last batch: its requests leave the queue.      *)
LEMMA FinishAccounts ==
  ASSUME IInv, TypeOK', FinishExpert \/ FinishAttention, NEW r \in Req
  PROVE  Account(r)'
<1>1. /\ results # <<>> /\ Head(results) = last /\ hand = None /\ results' = Tail(results)
      /\ UNCHANGED <<coming, inbox, pool, outputLen, reported, eos>>
  BY ResultForms DEF IInv, FinishExpert, FinishAttention
<1>2. /\ TypeOK /\ Account(r) /\ results \in Seq(Batch)
      /\ last \in Batch /\ last # None /\ last.layer # Sampling
  BY <1>1, ResultsType, BatchFacts DEF IInv, Accounts, TypeOK, Control
<1>3. InInbox(r)' = InInbox(r) /\ InPool(r)' = InPool(r)
  BY <1>1 DEF InInbox, InPool
<1>4. InResults(r) = At(results, Holding(r)) /\ InResults(r)' = At(results', Holding(r))
  <2>1. results' \in Seq(Batch)
    BY DEF TypeOK
  <2> QED  BY <1>2, <2>1 DEF InResults, At, Holding
<1>5. CASE r \in last.reqs
  <2>1. last \in Holding(r)
    BY <1>2, <1>5 DEF Holding
  <2>2. InResults(r) # {}
    BY <1>1, <1>2, <1>4, <2>1, HeadLeaves
  <2>3. /\ r \notin coming \cup eos /\ Sole(InResults(r))
        /\ InInbox(r) = {} /\ InPool(r) = {} /\ InAway(r) = {} /\ InHand(r) = {}
    BY <1>2, <2>2, OnlyThere
  <2>4. InResults(r)' = {}
    BY <1>1, <1>2, <1>4, <2>1, <2>3, HeadLeaves
  <2>5. CASE FinishExpert
    <3>1. hand' = hand /\ away' = away \cup {Dispatched(last)}
      BY <1>1, <2>5 DEF FinishExpert
    <3>2. Dispatched(last).reqs = last.reqs
      BY <1>2, DispatchedType
    <3>3. InHand(r)' = {} /\ InAway(r)' = {Dispatched(last)}
      BY <1>5, <2>3, <3>1, <3>2 DEF InHand, InAway
    <3>4. Somewhere(r)'
      BY <1>3, <2>3, <2>4, <3>3 DEF Somewhere, Sole
    <3> QED  BY <1>1, <1>2, <1>3, <2>3, <3>4, Moved
  <2>6. CASE FinishAttention
    <3>1. hand' = [last EXCEPT !.in = Handle("token_mapping")] /\ away' = away
      BY <1>1, <2>6 DEF FinishAttention
    <3>2. Handle("token_mapping") \in 0 .. 1
      BY <1>2, BufferFacts DEF Staging
    <3>3. hand' # None /\ hand'.reqs = last.reqs
      BY <1>2, <3>1, <3>2, BatchFacts
    <3>4. InHand(r)' = {hand'} /\ InAway(r)' = {}
      BY <1>5, <2>3, <3>1, <3>3 DEF InHand, InAway
    <3>5. Somewhere(r)'
      BY <1>3, <2>3, <2>4, <3>4 DEF Somewhere, Sole
    <3> QED  BY <1>1, <1>2, <1>3, <2>3, <3>5, Moved
  <2> QED  BY <2>5, <2>6
<1>6. CASE r \notin last.reqs
  <2>1. last \notin Holding(r)
    BY <1>6 DEF Holding
  <2>2. Same(InResults(r), InResults(r)')
    <3>1. /\ InResults(r) = {} => InResults(r)' = {}
          /\ Sole(InResults(r)) => Sole(InResults(r)')
      BY <1>1, <1>2, <1>4, <2>1, HeadLeaves
    <3>2. InResults(r) # {} => Sole(InResults(r))
      BY <1>2, OnlyThere
    <3>3. \A S : Sole(S) => S # {}
      BY DEF Sole
    <3> QED  BY <3>1, <3>2, <3>3 DEF Same
  <2>3. InAway(r)' = InAway(r) /\ InHand(r)' = InHand(r)
    <3>1. CASE FinishExpert
      <4>1. hand' = hand /\ away' = away \cup {Dispatched(last)} /\ Dispatched(last).reqs = last.reqs
        BY <1>1, <1>2, <3>1, DispatchedType DEF FinishExpert
      <4> QED  BY <1>6, <4>1 DEF InAway, InHand
    <3>2. CASE FinishAttention
      <4>1. Handle("token_mapping") \in 0 .. 1
        BY <1>2, BufferFacts DEF Staging
      <4>2. hand' = [last EXCEPT !.in = Handle("token_mapping")] /\ away' = away
        BY <1>1, <3>2 DEF FinishAttention
      <4>3. hand'.reqs = last.reqs
        BY <1>2, <4>1, <4>2, BatchFacts
      <4> QED  BY <1>1, <1>6, <4>2, <4>3 DEF InAway, InHand
    <3> QED  BY <3>1, <3>2
  <2> QED  BY <1>1, <1>2, <1>3, <2>2, <2>3, Undisturbed DEF Same
<1> QED  BY <1>5, <1>6

LEMMA SendAccounts ==
  ASSUME IInv, TypeOK', SendAttention, NEW r \in Req
  PROVE  Account(r)'
<1>1. /\ pc = "sync" /\ away' = away \cup {Dispatched(hand)} /\ hand' = None
      /\ UNCHANGED <<coming, inbox, pool, outputLen, reported, eos, results>>
  BY DEF SendAttention
<1>2. TypeOK /\ Account(r) /\ hand \in Batch /\ hand # None /\ hand.layer # Sampling
  BY <1>1 DEF IInv, Accounts, TypeOK, Control
<1>3. /\ InInbox(r)' = InInbox(r) /\ InPool(r)' = InPool(r) /\ InResults(r)' = InResults(r)
      /\ InHand(r)' = {}
  BY <1>1 DEF InInbox, InPool, InResults, InHand
<1>4. Dispatched(hand).reqs = hand.reqs
  BY <1>2, DispatchedType
<1>5. CASE r \in hand.reqs
  <2>1. hand \in InHand(r)
    BY <1>2, <1>5 DEF InHand
  <2>2. /\ r \notin coming \cup eos
        /\ InInbox(r) = {} /\ InPool(r) = {} /\ InAway(r) = {} /\ InResults(r) = {}
    BY <1>2, <2>1, OnlyThere
  <2>3. InAway(r)' = {Dispatched(hand)}
    BY <1>1, <1>4, <1>5, <2>2 DEF InAway
  <2>4. Somewhere(r)'
    BY <1>3, <2>2, <2>3 DEF Somewhere, Sole
  <2> QED  BY <1>1, <1>2, <1>3, <2>2, <2>4, Moved
<1>6. CASE r \notin hand.reqs
  <2>1. InAway(r)' = InAway(r) /\ InHand(r) = {}
    BY <1>1, <1>4, <1>6 DEF InAway, InHand
  <2> QED  BY <1>1, <1>2, <1>3, <2>1, Undisturbed DEF Same
<1> QED  BY <1>5, <1>6

LEMMA AccountsStep == IInv /\ [Next]_vars => Accounts'
<1> SUFFICES ASSUME IInv, [Next]_vars, NEW r \in Req PROVE Account(r)'
  BY DEF Accounts
<1>1. Account(r) /\ TypeOK'
  BY TypeStep DEF IInv, Accounts
<1>2. ASSUME UNCHANGED <<coming, inbox, pool, away, outputLen, reported, eos, results, hand>>
      PROVE  Account(r)'
  <2>1. /\ InInbox(r)' = InInbox(r) /\ InPool(r)' = InPool(r) /\ InAway(r)' = InAway(r)
        /\ InResults(r)' = InResults(r) /\ InHand(r)' = InHand(r)
    BY <1>2 DEF InInbox, InPool, InAway, InResults, InHand
  <2> QED  BY <1>1, <1>2, <2>1, Undisturbed DEF Same
<1>3. ASSUME NEW q \in Req, Submit(q) PROVE Account(r)'
  BY <1>1, <1>3, SubmitAccounts
<1>4. ASSUME NEW b \in away, Deliver(b) PROVE Account(r)'
  BY <1>1, <1>4, DeliverAccounts
<1>5. CASE Receive
  BY <1>1, <1>5, ReceiveAccounts
<1>6. ASSUME NEW l \in Layer, NEW reqs \in SUBSET pool[l], RunBatch(l, reqs) PROVE Account(r)'
  BY <1>1, <1>6, RunBatchAccounts
<1>7. ASSUME NEW reqs \in SUBSET pool[Sampling], Sample(reqs) PROVE Account(r)'
  BY <1>1, <1>7, SampleAccounts
<1>8. CASE FinishExpert \/ FinishAttention
  BY <1>1, <1>8, FinishAccounts
<1>9. CASE SendAttention
  BY <1>1, <1>9, SendAccounts
<1>10. CASE NothingScheduled \/ NothingToFinish \/ LeaveLoop
  BY <1>2, <1>10 DEF NothingScheduled, NothingToFinish, LeaveLoop
<1>11. CASE GpuStep \/ Terminate \/ UNCHANGED vars
  BY <1>2, <1>11 DEF GpuStep, Terminate, vars, cpu
<1> QED
  BY <1>3, <1>4, <1>5, <1>6, <1>7, <1>8, <1>9, <1>10, <1>11 DEF Next, Loop

-----------------------------------------------------------------------------
(* The invariant holds in every reachable state of the loop.               *)
THEOREM Invariance == Spec => []IInv
<1>1. IInv /\ [Next]_vars => IInv'
  BY TypeStep, ControlStep, KernelsStep, BuffersStep, StagedStep, AccountsStep DEF IInv
<1> QED  BY InitIInv, <1>1, PTL DEF Spec

Tagged(t, S) == {<<t, x>> : x \in S}

LEMMA OnePlace ==
  ASSUME IInv, NEW r \in Req
  PROVE  Cardinality(Places(r)) = IF r \in coming \cup eos THEN 0 ELSE 1
<1>1. Account(r) /\ TypeOK
  BY DEF IInv, Accounts
<1>2. CASE r \in coming \cup eos
  <2>1. Nowhere(r)
    BY <1>1, <1>2 DEF Account
  <2>2. Places(r) = {}
    BY <2>1 DEF Places, Nowhere, InInbox, InPool, InAway, InResults, InHand
  <2> QED  BY <1>2, <2>2, FS_EmptySet
<1>3. CASE r \notin coming \cup eos
  <2>1. Somewhere(r)
    BY <1>1, <1>3 DEF Account
  <2>2. Places(r) = Tagged("inbox", InInbox(r)) \cup Tagged("pool", InPool(r))
                      \cup Tagged("away", InAway(r)) \cup Tagged("result", InResults(r))
                      \cup Tagged("hand", InHand(r))
    BY DEF Places, InInbox, InPool, InAway, InResults, InHand, Tagged
  <2>3. \A t : Tagged(t, {}) = {} /\ \A x : Tagged(t, {x}) = {<<t, x>>}
    BY DEF Tagged
  <2>4. \E x : Places(r) = {x}
    <3>1. CASE Sole(InInbox(r))
      <4>1. PICK x : InInbox(r) = {x}
        BY <3>1 DEF Sole
      <4>2. InPool(r) = {} /\ InAway(r) = {} /\ InResults(r) = {} /\ InHand(r) = {}
        BY <1>1, <4>1, OnlyThere
      <4>3. Places(r) = {<<"inbox", x>>}
        BY <2>2, <2>3, <4>1, <4>2
      <4> QED  BY <4>3
    <3>2. CASE Sole(InPool(r))
      <4>1. PICK x : InPool(r) = {x}
        BY <3>2 DEF Sole
      <4>2. InInbox(r) = {} /\ InAway(r) = {} /\ InResults(r) = {} /\ InHand(r) = {}
        BY <1>1, <4>1, OnlyThere
      <4>3. Places(r) = {<<"pool", x>>}
        BY <2>2, <2>3, <4>1, <4>2
      <4> QED  BY <4>3
    <3>3. CASE Sole(InAway(r))
      <4>1. PICK x : InAway(r) = {x}
        BY <3>3 DEF Sole
      <4>2. InInbox(r) = {} /\ InPool(r) = {} /\ InResults(r) = {} /\ InHand(r) = {}
        BY <1>1, <4>1, OnlyThere
      <4>3. Places(r) = {<<"away", x>>}
        BY <2>2, <2>3, <4>1, <4>2
      <4> QED  BY <4>3
    <3>4. CASE Sole(InResults(r))
      <4>1. PICK x : InResults(r) = {x}
        BY <3>4 DEF Sole
      <4>2. InInbox(r) = {} /\ InPool(r) = {} /\ InAway(r) = {} /\ InHand(r) = {}
        BY <1>1, <4>1, OnlyThere
      <4>3. Places(r) = {<<"result", x>>}
        BY <2>2, <2>3, <4>1, <4>2
      <4> QED  BY <4>3
    <3>5. CASE Sole(InHand(r))
      <4>1. PICK x : InHand(r) = {x}
        BY <3>5 DEF Sole
      <4>2. InInbox(r) = {} /\ InPool(r) = {} /\ InAway(r) = {} /\ InResults(r) = {}
        BY <1>1, <4>1, OnlyThere
      <4>3. Places(r) = {<<"hand", x>>}
        BY <2>2, <2>3, <4>1, <4>2
      <4> QED  BY <4>3
    <3> QED  BY <2>1, <3>1, <3>2, <3>3, <3>4, <3>5 DEF Somewhere
  <2> QED  BY <1>3, <2>4, FS_Singleton
<1> QED  BY <1>2, <1>3

(* Whatever the overlap of two batches, a submitted request has one token  *)
(* until it is reported with is_eos, after exactly max_output_len tokens   *)
(* (sample_results, result_queue).                                         *)
THEOREM OneToken == Spec => []OneTokenPerRequest
<1>1. ASSUME IInv PROVE OneTokenPerRequest
  <2>1. TypeOK
    BY <1>1 DEF IInv
  <2> SUFFICES ASSUME NEW r \in Req
               PROVE  /\ Cardinality(Places(r)) = IF r \in coming \cup eos THEN 0 ELSE 1
                      /\ r \in eos => reported[r] = MaxOutput[r] /\ outputLen[r] = None
                      /\ r \notin eos /\ outputLen[r] # None => reported[r] = outputLen[r]
    BY <2>1 DEF OneTokenPerRequest
  <2>2. Account(r)
    BY <1>1 DEF IInv, Accounts
  <2>3. r \in eos => reported[r] = MaxOutput[r] /\ outputLen[r] = None
    BY <2>2 DEF Account
  <2>4. r \notin eos /\ outputLen[r] # None => reported[r] = outputLen[r]
    BY <2>2 DEF Account
  <2> QED  BY <1>1, <2>3, <2>4, OnePlace
<1> QED  BY Invariance, <1>1, PTL

(* The popleft of an iteration is the batch launched before its own.       *)
THEOREM Pairs == Spec => []ResultsPairUp
<1>1. IInv => ResultsPairUp
  BY DEF IInv, Control
<1> QED  BY Invariance, <1>1, PTL

(* Two staging buffers per pair are enough for the two batches in flight,  *)
(* except for the rows that go on after sampling (get_one_handle).         *)
THEOREM Staged == Spec => []StagedIntact
<1>1. IInv => StagedIntact
  BY DEF IInv
<1> QED  BY Invariance, <1>1, PTL

(* terminate() costs at most the one batch whose result is not finished.   *)
THEOREM EndLosesOne == Spec => []EndLosesOneBatch
<1>1. ASSUME IInv PROVE EndLosesOneBatch
  <2> SUFFICES ASSUME pc = "ended" PROVE Len(results) <= 1 /\ hand = None /\ forward = None
    BY DEF EndLosesOneBatch
  <2>1. results = Launched(last) /\ hand = None /\ forward = None
    BY <1>1, ResultForms DEF IInv
  <2>2. \A x : Len(<<x>>) <= 1
    OBVIOUS
  <2>3. Len(<<>>) <= 1
    OBVIOUS
  <2> QED  BY <2>1, <2>2, <2>3 DEF Launched
<1> QED  BY Invariance, <1>1, PTL
=============================================================================
