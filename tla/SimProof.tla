------------------------------- MODULE SimProof -------------------------------
(***************************************************************************)
(* The serving simulators are right for every number of requests, GPUs,    *)
(* layers, experts and tokens, and every routing.                          *)
(*                                                                         *)
(* The lockstep simulators (SimLockstep), for all durations and arrivals:  *)
(* their times are sound, and they implement Autoregressive.  The          *)
(* invariant has two parts.  Lifecycle: the requests are, in order of      *)
(* arrival, those admitted, those waiting and those to come.  Schedule:    *)
(* where the stages placed so far can end, and how long they must take.    *)
(*                                                                         *)
(* The asynchronous simulator (SimAsync), for all timings of its events:   *)
(* each token is in one place, no worker sleeps through work, a run that   *)
(* ends is complete, and it implements Autoregressive.  The operators that *)
(* count tokens take the parts of the state as arguments, so that each     *)
(* lemma on counts speaks of one change of one part; a step of the         *)
(* simulator is then a few of them in a row.                               *)
(***************************************************************************)
EXTENDS SimLockstep, SimAsync, CollectionFacts

(* The first request not admitted yet.                                     *)
Boundary == index - Len(waiting)

Lifecycle ==
  /\ Len(waiting) <= index /\ waiting = Run(Boundary, index)
  /\ \A r \in Requests : r \in active <=> r < Boundary /\ nextIndex[r] < TokensPerRequest
  /\ \A r \in Requests : r >= Boundary => nextIndex[r] = 0
  /\ \A r \in Requests : r < index => cfg.arrivals[r + 1] <= now

(* How long the stages of a half that are placed take.                     *)
Placed(h) == Total(StageTimes(h), 0 .. next[h] - 1)

Schedule ==
  pc = "tbo" =>
    /\ \A s \in spans :
         /\ s.at < next[s.half]
         /\ s.at % 2 = 0 => s.end <= free /\ s.end <= ready[s.half]
         /\ s.at % 2 # 0 => s.end <= inflight[s.half]
         /\ ~Computes(s.half) => s.end <= ready[s.half]
    /\ \A h \in Half :
         /\ ready[h] <= Placed(0) + Placed(1) /\ inflight[h] <= Placed(0) + Placed(1)
         /\ Computes(h) => inflight[h] >= Placed(h)
         /\ Computes(h) /\ next[h] > 0 => ready[h] + StageTimes(h)[next[h] - 1] >= Placed(h)
         /\ ~Computes(h) => ready[h] >= Placed(h)
    /\ free <= Placed(0) + Placed(1)

IInv == TypeOK /\ ScheduleIsFeasible /\ CompletionsInOrder /\ Lifecycle /\ Schedule

-----------------------------------------------------------------------------
(* Numbers.                                                                *)
LEMMA MaxOfThree ==
  ASSUME NEW a \in Nat, NEW b \in Nat, NEW c \in Nat
  PROVE  /\ Max({a, b, c}) \in Nat /\ Max({a, b, c}) \in {a, b, c}
         /\ a <= Max({a, b, c}) /\ b <= Max({a, b, c}) /\ c <= Max({a, b, c})
<1>1. IsFiniteSet({a, b, c}) /\ {a, b, c} \in SUBSET Nat /\ {a, b, c} # {}
  <2>1. {a, b, c} = ({a} \cup {b}) \cup {c}
    OBVIOUS
  <2>2. IsFiniteSet({a} \cup {b})
    BY FS_Singleton, FS_AddElement
  <2>3. IsFiniteSet(({a} \cup {b}) \cup {c})
    BY <2>2, FS_AddElement
  <2> QED  BY <2>1, <2>3
<1> QED  BY <1>1, MaxIs

LEMMA NumberAdded ==
  ASSUME NEW d \in Seq(Nat), NEW v \in Nat
  PROVE  /\ Append(d, v) \in Seq(Nat) /\ Len(Append(d, v)) = Len(d) + 1
         /\ \A i \in 1 .. Len(d) : Append(d, v)[i] = d[i]
         /\ Append(d, v)[Len(d) + 1] = v
BY AppendProperties

LEMMA DivMod ==
  ASSUME NEW a \in Nat, NEW b \in Nat \ {0}
  PROVE  a \div b \in Nat /\ a % b \in 0 .. b - 1
OBVIOUS

LEMMA RangesFinite ==
  /\ IsFiniteSet(Requests) /\ IsFiniteSet(Gpus) /\ IsFiniteSet(Layers) /\ IsFiniteSet(Experts)
  /\ Requests \subseteq Nat /\ Gpus # {}
<1>1. NumRequests \in Nat /\ NumGpus \in Nat \ {0} /\ NumLayers \in Nat \ {0} /\ ExpertsPerGpu \in Nat \ {0}
  BY ClusterAssumption, LockstepAssumption
<1>2. NumGpus * ExpertsPerGpu \in Nat
  BY <1>1
<1>3. \A n \in Nat : n - 1 \in Int
  OBVIOUS
<1>4. IsFiniteSet(0 .. NumRequests - 1) /\ IsFiniteSet(0 .. NumGpus - 1) /\ IsFiniteSet(0 .. NumLayers - 1)
      /\ IsFiniteSet(0 .. NumGpus * ExpertsPerGpu - 1)
  <2>1. \A n \in Nat : IsFiniteSet(0 .. n - 1)
    BY <1>3, FS_Interval
  <2> QED  BY <1>1, <1>2, <2>1
<1>5. 0 \in Gpus
  BY <1>1 DEF Gpus
<1> QED  BY <1>1, <1>4, <1>5 DEF Requests, Gpus, Layers, Experts

(* A phase, or a group of queues, lasts as long as its slowest part.       *)
LEMMA SlowestOf ==
  ASSUME NEW f, \A g \in Gpus : f[g] \in Nat
  PROVE  Max({f[g] : g \in Gpus}) \in Nat
<1>1. IsFiniteSet({f[g] : g \in Gpus})
  <2> DEFINE F == [g \in Gpus |-> f[g]]
  <2>1. F \in Surjection(Gpus, {f[g] : g \in Gpus})
    BY DEF Surjection
  <2> QED  BY <2>1, RangesFinite, FS_Surjection
<1>2. {f[g] : g \in Gpus} \in SUBSET Nat /\ {f[g] : g \in Gpus} # {}
  BY RangesFinite
<1> QED  BY <1>1, <1>2, MaxIs

-----------------------------------------------------------------------------
(* The stages of a layer last a number of ticks each.                      *)
LEMMA QueueTimeType == \A n \in Nat : QueueTime(n) \in Nat
<1> SUFFICES ASSUME NEW n \in Nat PROVE QueueTime(n) \in Nat
  OBVIOUS
<1>1. MaxBatch \in Nat \ {0} /\ BatchCost \in [1 .. MaxBatch -> Nat]
  BY ClusterAssumption, LockstepAssumption
<1>2. n \div MaxBatch \in Nat /\ n % MaxBatch \in 0 .. MaxBatch - 1
  BY <1>1, DivMod
<1>3. BatchCost[MaxBatch] \in Nat /\ (n % MaxBatch # 0 => BatchCost[n % MaxBatch] \in Nat)
  BY <1>1, <1>2
<1>4. (n \div MaxBatch) * BatchCost[MaxBatch] \in Nat
  BY <1>2, <1>3
<1> QED  BY <1>3, <1>4 DEF QueueTime

LEMMA PhaseTimeType ==
  ASSUME NEW flow, \A a, b \in Gpus : flow[<<a, b>>] \in Nat
  PROVE  PhaseTime(flow) \in Nat
<1> DEFINE into(g)   == [a \in Gpus |-> flow[<<a, g>>]]
           local(g)  == Total(into(g), {a \in Gpus : Local(a, g)})
           remote(g) == Total(into(g), {a \in Gpus : ~Local(a, g)})
           most == [g \in Gpus |-> Max({local(g) * IntraDelay, remote(g) * InterDelay})]
<1>1. ASSUME NEW g \in Gpus PROVE most[g] \in Nat
  <2>1. IsFiniteSet({a \in Gpus : Local(a, g)}) /\ IsFiniteSet({a \in Gpus : ~Local(a, g)})
    BY RangesFinite, FS_Subset
  <2>2. \A a \in Gpus : into(g)[a] \in Nat
    OBVIOUS
  <2> HIDE DEF into
  <2>3. local(g) \in Nat /\ remote(g) \in Nat
    BY <2>1, <2>2, TotalType
  <2> HIDE DEF local, remote
  <2>4. local(g) * IntraDelay \in Nat /\ remote(g) * InterDelay \in Nat
    BY <2>3, ClusterAssumption, LockstepAssumption
  <2>5. Max({local(g) * IntraDelay, remote(g) * InterDelay}) \in Nat
    BY <2>4, MaxOfTwo
  <2> QED  BY <2>5
<1>2. Max({most[g] : g \in Gpus}) \in Nat
  <2> HIDE DEF most
  <2> QED  BY <1>1, SlowestOf
<1>3. PhaseTime(flow) = Max({most[g] : g \in Gpus})
  <2>1. {Max({local(g) * IntraDelay, remote(g) * InterDelay}) : g \in Gpus} = {most[g] : g \in Gpus}
    OBVIOUS
  <2>2. PhaseTime(flow) = Max({Max({local(g) * IntraDelay, remote(g) * InterDelay}) : g \in Gpus})
    BY DEF PhaseTime
  <2> QED  BY <2>1, <2>2
<1> QED  BY <1>2, <1>3

LEMMA StagesType ==
  ASSUME NEW R \in SUBSET Requests, NEW route, \A r \in R : route[r] \in Routes
  PROVE  \A i \in 1 .. 4 : Stages(R, route)[i] \in Nat
<1>1. IsFiniteSet(R) /\ Cardinality(R) \in Nat
  BY RangesFinite, FS_Subset, FS_CardinalityType
<1>2. AttentionTime(R) \in Nat
  <2>1. NumGpus \in Nat \ {0} /\ AttnTime \in Nat
    BY ClusterAssumption, LockstepAssumption
  <2>2. Cardinality(R) + NumGpus - 1 \in Nat
    BY <1>1, <2>1
  <2>3. (Cardinality(R) + NumGpus - 1) \div NumGpus \in Nat
    BY <2>1, <2>2, DivMod
  <2> QED  BY <2>1, <2>3 DEF AttentionTime, CeilDiv
<1>3. \A a, b \in Gpus : Flow(R, route)[<<a, b>>] \in Nat
  <2> SUFFICES ASSUME NEW a \in Gpus, NEW b \in Gpus PROVE Flow(R, route)[<<a, b>>] \in Nat
    OBVIOUS
  <2> DEFINE copies == [r \in R |-> Cardinality({e \in route[r] : home[r] = a /\ GpuOf(e) = b})]
  <2>1. \A r \in R : copies[r] \in Nat
    <3> SUFFICES ASSUME NEW r \in R PROVE Cardinality({e \in route[r] : home[r] = a /\ GpuOf(e) = b}) \in Nat
      OBVIOUS
    <3>1. {e \in route[r] : home[r] = a /\ GpuOf(e) = b} \subseteq Experts
      BY ClusterAssumption, LockstepAssumption
    <3> QED  BY <3>1, RangesFinite, FS_Subset, FS_CardinalityType
  <2>2. Total(copies, R) \in Nat
    <3> HIDE DEF copies
    <3> QED  BY <1>1, <2>1, TotalType
  <2>3. Flow(R, route)[<<a, b>>] = Total(copies, R)
    BY DEF Flow
  <2> QED  BY <2>2, <2>3
<1>4. \A a, b \in Gpus : Back(Flow(R, route))[<<a, b>>] \in Nat
  BY <1>3 DEF Back
<1>5. ExpertTime(R, route) \in Nat
  <2> DEFINE load == [e \in Experts |-> QueueTime(Cardinality({r \in R : e \in route[r]}))]
             worker == [g \in Gpus |-> Total(load, {e \in Experts : GpuOf(e) = g})]
  <2>1. \A e \in Experts : load[e] \in Nat
    <3> SUFFICES ASSUME NEW e \in Experts PROVE QueueTime(Cardinality({r \in R : e \in route[r]})) \in Nat
      OBVIOUS
    <3>1. Cardinality({r \in R : e \in route[r]}) \in Nat
      BY <1>1, FS_Subset, FS_CardinalityType
    <3> QED  BY <3>1, QueueTimeType
  <2>2. ASSUME NEW g \in Gpus PROVE worker[g] \in Nat
    <3>1. IsFiniteSet({e \in Experts : GpuOf(e) = g})
      BY RangesFinite, FS_Subset
    <3>2. Total(load, {e \in Experts : GpuOf(e) = g}) \in Nat
      <4> HIDE DEF load
      <4> QED  BY <2>1, <3>1, TotalType
    <3> QED  BY <3>2
  <2>3. ExpertTime(R, route) = Max({worker[g] : g \in Gpus})
    <3>1. {Total(load, {e \in Experts : GpuOf(e) = g}) : g \in Gpus} = {worker[g] : g \in Gpus}
      OBVIOUS
    <3>2. ExpertTime(R, route) = Max({Total(load, {e \in Experts : GpuOf(e) = g}) : g \in Gpus})
      BY DEF ExpertTime
    <3> QED  BY <3>1, <3>2
  <2> HIDE DEF worker
  <2> QED  BY <2>2, <2>3, SlowestOf
<1>6. PhaseTime(Flow(R, route)) \in Nat /\ PhaseTime(Back(Flow(R, route))) \in Nat
  BY <1>3, <1>4, PhaseTimeType
<1> QED  BY <1>2, <1>5, <1>6 DEF Stages

-----------------------------------------------------------------------------
(* Runs of requests in the order of their arrival.                         *)
LEMMA RunIs ==
  ASSUME NEW a \in Nat, NEW b \in Nat, a <= b, b <= NumRequests
  PROVE  /\ Run(a, b) \in Seq(Requests) /\ Len(Run(a, b)) = b - a
         /\ \A i \in 1 .. b - a : Run(a, b)[i] = a + i - 1
         /\ Range(Run(a, b)) = a .. b - 1
<1>1. NumRequests \in Nat
  BY ClusterAssumption, LockstepAssumption
<1>2. Run(a, b) = [i \in 1 .. b - a |-> a + i - 1] /\ b - a \in Nat
  BY DEF Run
<1>3. \A i \in 1 .. b - a : a + i - 1 \in Requests
  BY <1>1 DEF Requests
<1>4. Run(a, b) \in Seq(Requests) /\ Len(Run(a, b)) = b - a
  <2>1. PICK n \in Nat : n = b - a
    BY <1>2
  <2>2. Run(a, b) \in [1 .. n -> Requests]
    BY <1>2, <1>3, <2>1
  <2> QED  BY <2>1, <2>2
<1>5. Range(Run(a, b)) = a .. b - 1
  <2>1. \A r \in a .. b - 1 : r - a + 1 \in 1 .. b - a /\ Run(a, b)[r - a + 1] = r
    BY <1>2
  <2>2. \A i \in 1 .. b - a : Run(a, b)[i] \in a .. b - 1
    BY <1>2
  <2>3. DOMAIN Run(a, b) = 1 .. b - a
    BY <1>2
  <2> QED  BY <2>1, <2>2, <2>3 DEF Range
<1> QED  BY <1>2, <1>4, <1>5

LEMMA RunsMeet ==
  ASSUME NEW a \in Nat, NEW b \in Nat, NEW c \in Nat, a <= b, b <= c, c <= NumRequests
  PROVE  Run(a, b) \o Run(b, c) = Run(a, c)
<1>1. NumRequests \in Nat /\ a <= c /\ b <= NumRequests
  BY ClusterAssumption, LockstepAssumption
<1>2. PICK p, q, s : p = Run(a, b) /\ q = Run(b, c) /\ s = Run(a, c)
  OBVIOUS
<1>3. /\ p \in Seq(Requests) /\ Len(p) = b - a /\ \A i \in 1 .. b - a : p[i] = a + i - 1
      /\ q \in Seq(Requests) /\ Len(q) = c - b /\ \A i \in 1 .. c - b : q[i] = b + i - 1
      /\ s \in Seq(Requests) /\ Len(s) = c - a /\ \A i \in 1 .. c - a : s[i] = a + i - 1
  BY <1>1, <1>2, RunIs
<1>4. /\ p \o q \in Seq(Requests) /\ Len(p \o q) = Len(p) + Len(q)
      /\ \A i \in 1 .. Len(p) + Len(q) : (p \o q)[i] = IF i <= Len(p) THEN p[i] ELSE q[i - Len(p)]
  BY <1>3, ConcatProperties
<1>5. \A i \in 1 .. Len(p \o q) : (p \o q)[i] = s[i]
  BY <1>1, <1>3, <1>4
<1>6. Len(p \o q) = Len(s)
  BY <1>1, <1>3, <1>4
<1> QED  BY <1>2, <1>3, <1>4, <1>5, <1>6, SeqEqual

LEMMA RunCut ==
  ASSUME NEW a \in Nat, NEW c \in Nat, a <= c, c <= NumRequests, NEW n \in 0 .. c - a
  PROVE  /\ SubSeq(Run(a, c), 1, n) = Run(a, a + n)
         /\ SubSeq(Run(a, c), n + 1, Len(Run(a, c))) = Run(a + n, c)
<1>1. NumRequests \in Nat /\ a + n \in Nat /\ a + n <= c /\ a <= a + n
  BY ClusterAssumption, LockstepAssumption
<1>2. PICK s, p, q : s = Run(a, c) /\ p = Run(a, a + n) /\ q = Run(a + n, c)
  OBVIOUS
<1>3. /\ s \in Seq(Requests) /\ Len(s) = c - a /\ \A i \in 1 .. c - a : s[i] = a + i - 1
      /\ p \in Seq(Requests) /\ Len(p) = n /\ \A i \in 1 .. n : p[i] = a + i - 1
      /\ q \in Seq(Requests) /\ Len(q) = c - (a + n)
      /\ \A i \in 1 .. c - (a + n) : q[i] = a + n + i - 1
  <2>1. PICK e \in Nat : e = a + n /\ a <= e /\ e <= c /\ e <= NumRequests /\ e - a = n
    BY <1>1
  <2>2. s \in Seq(Requests) /\ Len(s) = c - a /\ \A i \in 1 .. c - a : s[i] = a + i - 1
    BY <1>2, RunIs
  <2>3. p \in Seq(Requests) /\ Len(p) = e - a /\ \A i \in 1 .. e - a : p[i] = a + i - 1
    BY <1>2, <2>1, RunIs
  <2>4. q \in Seq(Requests) /\ Len(q) = c - e /\ \A i \in 1 .. c - e : q[i] = e + i - 1
    BY <1>2, <2>1, RunIs
  <2> QED  BY <2>1, <2>2, <2>3, <2>4
<1>4. SubSeq(s, 1, n) = p
  <2>1. /\ SubSeq(s, 1, n) \in Seq(Requests) /\ Len(SubSeq(s, 1, n)) = n
        /\ \A i \in 1 .. n : SubSeq(s, 1, n)[i] = s[i]
    <3>1. \A i \in 1 .. n : s[i] \in Requests
      BY <1>3
    <3>2. /\ SubSeq(s, 1, n) \in Seq(Requests)
          /\ Len(SubSeq(s, 1, n)) = IF 1 <= n THEN n - 1 + 1 ELSE 0
          /\ \A i \in 1 .. n - 1 + 1 : SubSeq(s, 1, n)[i] = s[1 + i - 1]
      BY <3>1, SubSeqProperties
    <3>3. n - 1 + 1 = n /\ \A i \in 1 .. n : 1 + i - 1 = i
      OBVIOUS
    <3> QED  BY <3>2, <3>3
  <2>2. \A i \in 1 .. Len(p) : SubSeq(s, 1, n)[i] = p[i]
    BY <1>3, <2>1
  <2> QED  BY <1>3, <2>1, <2>2, SeqEqual
<1>5. SubSeq(s, n + 1, Len(s)) = q
  <2>1. PICK m \in Nat : m = c - (a + n)
    BY <1>1
  <2>2. /\ SubSeq(s, n + 1, Len(s)) \in Seq(Requests) /\ Len(SubSeq(s, n + 1, Len(s))) = m
        /\ \A i \in 1 .. m : SubSeq(s, n + 1, Len(s))[i] = s[n + i]
    <3>1. PICK x, y \in Nat : x = n + 1 /\ y = Len(s)
      BY <1>1, <1>3
    <3>2. y - x + 1 = m /\ (m = 0 => ~(x <= y)) /\ (m > 0 => x <= y)
      BY <1>3, <2>1, <3>1
    <3>3. \A i \in x .. y : s[i] \in Requests
      BY <1>3, <3>1
    <3>4. /\ SubSeq(s, x, y) \in Seq(Requests)
          /\ Len(SubSeq(s, x, y)) = IF x <= y THEN y - x + 1 ELSE 0
          /\ \A i \in 1 .. y - x + 1 : SubSeq(s, x, y)[i] = s[x + i - 1]
      BY <3>3, SubSeqProperties
    <3>5. Len(SubSeq(s, x, y)) = m
      BY <3>2, <3>4
    <3>6. \A i \in 1 .. m : SubSeq(s, x, y)[i] = s[n + i]
      <4>1. ASSUME NEW i \in 1 .. m PROVE SubSeq(s, x, y)[i] = s[n + i]
        <5>1. i \in 1 .. y - x + 1 /\ x + i - 1 = n + i
          BY <3>1, <3>2
        <5> QED  BY <3>4, <5>1
      <4> QED  BY <4>1
    <3> QED  BY <3>1, <3>4, <3>5, <3>6
  <2>3. \A i \in 1 .. Len(q) : SubSeq(s, n + 1, Len(s))[i] = q[i]
    BY <1>3, <2>1, <2>2
  <2> QED  BY <1>3, <2>1, <2>2, <2>3, SeqEqual
<1> QED  BY <1>2, <1>4, <1>5

(* Arrival times do not decrease, so those due are the next few.           *)
LEMMA DueIs ==
  ASSUME TypeOK, NEW t \in Nat
  PROVE  /\ Due(t) \in Nat /\ index + Due(t) <= NumRequests
         /\ \A r \in Requests : index <= r /\ r < index + Due(t) => cfg.arrivals[r + 1] <= t
<1> DEFINE D == {r \in Requests : r >= index /\ cfg.arrivals[r + 1] <= t}
           L == {n \in index .. NumRequests : n \notin D}
<1>1. /\ NumRequests \in Nat /\ index \in 0 .. NumRequests /\ Requests = 0 .. NumRequests - 1
      /\ cfg.arrivals \in [1 .. NumRequests -> Nat]
      /\ \A i, j \in 1 .. NumRequests : i <= j => cfg.arrivals[i] <= cfg.arrivals[j]
  BY ClusterAssumption, LockstepAssumption DEF TypeOK, Requests
<1>2. NumRequests \in L /\ L \in SUBSET Nat
  BY <1>1
<1>3. PICK k \in L : \A n \in L : k <= n
  <2> HIDE DEF L
  <2> QED  BY <1>2, LeastNumber
<1>4. k \in Nat /\ index <= k /\ k <= NumRequests
  BY <1>1
<1>5. \A r \in Requests : index <= r /\ r < k => r \in D
  <2> SUFFICES ASSUME NEW r \in Requests, index <= r, r < k PROVE r \in D
    OBVIOUS
  <2>1. r \in index .. NumRequests /\ ~(k <= r)
    BY <1>1, <1>4
  <2>2. r \notin L
    BY <1>3, <2>1
  <2> QED  BY <2>1, <2>2
<1>6. \A r \in D : r < k
  <2> SUFFICES ASSUME NEW r \in D, k <= r PROVE FALSE
    BY <1>1, <1>4
  <2>1. /\ k \in Requests /\ k >= index /\ k + 1 \in 1 .. NumRequests /\ r + 1 \in 1 .. NumRequests
        /\ k + 1 <= r + 1
    BY <1>1, <1>4
  <2>2. cfg.arrivals[k + 1] <= cfg.arrivals[r + 1] /\ cfg.arrivals[r + 1] <= t
        /\ cfg.arrivals[k + 1] \in Nat /\ cfg.arrivals[r + 1] \in Nat
    BY <1>1, <2>1
  <2>3. cfg.arrivals[k + 1] <= t
    BY <2>2
  <2>4. k \in D
    BY <2>1, <2>3
  <2> QED  BY <1>3, <2>4
<1>7. D = index .. k - 1
  BY <1>1, <1>4, <1>5, <1>6
<1>8. Cardinality(D) = k - index
  <2> HIDE DEF D, L
  <2>1. PICK x, y \in Nat : x = index /\ y = k /\ x <= y
    BY <1>1, <1>4
  <2>2. Cardinality(x .. y - 1) = IF x > y - 1 THEN 0 ELSE (y - 1) - x + 1
    <3>1. x \in Int /\ y - 1 \in Int
      OBVIOUS
    <3> QED  BY <3>1, FS_Interval
  <2>3. Cardinality(x .. y - 1) = y - x
    BY <2>1, <2>2
  <2> QED  BY <1>7, <2>1, <2>3
<1>9. Due(t) = k - index
  BY <1>8 DEF Due
<1>10. \A r \in Requests : index <= r /\ r < k => cfg.arrivals[r + 1] <= t
  BY <1>5
<1> QED  BY <1>1, <1>4, <1>9, <1>10

-----------------------------------------------------------------------------
(* The invariant holds initially.                                          *)
LEMMA InitIInv == Init => IInv
<1> SUFFICES ASSUME Init PROVE IInv
  OBVIOUS
<1>1. /\ NumRequests \in Nat /\ TokensPerRequest \in Nat \ {0} /\ MaxActive \in Nat /\ NumLayers \in Nat \ {0}
      /\ Requests \subseteq Nat
  BY ClusterAssumption, LockstepAssumption, RangesFinite
<1>2. TypeOK
  <2>1. Cardinality(active) <= MaxActive
    BY <1>1, FS_EmptySet DEF Init
  <2>2. next \in [Half -> 0 .. 4 * NumLayers]
    BY <1>1 DEF Init
  <2>3. waiting \in Seq(Requests) /\ doneAt \in [Requests -> Seq(Nat)]
        /\ \A r \in Requests : Len(doneAt[r]) = nextIndex[r]
    BY DEF Init
  <2> QED  BY <1>1, <2>1, <2>2, <2>3 DEF Init, TypeOK
<1>3. ScheduleIsFeasible /\ CompletionsInOrder /\ Schedule
  BY DEF Init, ScheduleIsFeasible, CompletionsInOrder, Schedule
<1>4. Lifecycle
  <2>1. Boundary = 0 /\ index = 0 /\ Len(waiting) = 0
    <3>1. index = 0 /\ waiting = <<>>
      BY DEF Init
    <3>2. Len(waiting) = 0
      BY <3>1
    <3>3. PICK x, y : x = index /\ y = Len(waiting)
      OBVIOUS
    <3>4. Boundary = x - y
      BY <3>3 DEF Boundary
    <3> QED  BY <3>1, <3>2, <3>3, <3>4
  <2>2. Run(0, 0) \in Seq(Requests) /\ Len(Run(0, 0)) = 0
    BY <1>1, RunIs
  <2>3. Run(0, 0) = waiting
    BY <2>2, EmptySeq DEF Init
  <2> QED  BY <1>1, <2>1, <2>3 DEF Init, Lifecycle
<1> QED  BY <1>2, <1>3, <1>4 DEF IInv

(* Requests that were waiting or are due now get the free places.          *)
LEMMA FillIs ==
  ASSUME TypeOK, Lifecycle, Fill, UNCHANGED <<cfg, now, nextIndex>>
  PROVE  /\ index' \in 0 .. NumRequests /\ waiting' \in Seq(Requests) /\ active' \subseteq Requests
         /\ Cardinality(active') <= MaxActive /\ index <= index'
         /\ home' \in [Requests -> Gpus \cup {None}]
         /\ sat' \in Nat \cup {None}
         /\ Lifecycle'
<1>1. /\ NumRequests \in Nat /\ TokensPerRequest \in Nat \ {0} /\ MaxActive \in Nat /\ NumGpus \in Nat \ {0}
      /\ Requests = 0 .. NumRequests - 1 /\ IsFiniteSet(Requests)
  BY ClusterAssumption, LockstepAssumption, RangesFinite DEF Requests
<1>2. /\ index \in 0 .. NumRequests /\ waiting \in Seq(Requests) /\ active \subseteq Requests
      /\ Cardinality(active) <= MaxActive /\ home \in [Requests -> Gpus \cup {None}]
      /\ sat \in Nat \cup {None} /\ now \in Nat /\ Len(waiting) \in Nat
  BY LenProperties DEF TypeOK
<1>3. PICK b \in Nat : b = Boundary /\ b <= index /\ waiting = Run(b, index)
  BY <1>2 DEF Boundary, Lifecycle
<1>4. PICK c \in Nat : /\ c = index + Due(now) /\ index <= c /\ c <= NumRequests
                       /\ \A r \in Requests : index <= r /\ r < c => cfg.arrivals[r + 1] <= now
  <2>1. /\ Due(now) \in Nat /\ index + Due(now) <= NumRequests
        /\ \A r \in Requests : index <= r /\ r < index + Due(now) => cfg.arrivals[r + 1] <= now
    BY <1>2, DueIs
  <2> QED  BY <1>2, <2>1
<1>5. PICK line, n, admitted, seen :
        /\ line = waiting \o Run(index, index + Due(now)) /\ n = Min({Len(line), Places})
        /\ admitted = SubSeq(line, 1, n)
        /\ seen = Cardinality({r \in Requests : home[r] # None})
  OBVIOUS
<1> DEFINE newHome == [r \in Requests |->
                         IF \E i \in 1 .. n : admitted[i] = r
                         THEN (seen + (CHOOSE i \in 1 .. n : admitted[i] = r) - 1) % NumGpus
                         ELSE home[r]]
<1>5f. /\ index' = c /\ waiting' = SubSeq(line, n + 1, Len(line))
      /\ active' = active \cup Range(admitted)
      /\ home' = newHome
      /\ sat' \in {Completed, sat}
  BY <1>4, <1>5 DEF Fill
<1>6. line = Run(b, c) /\ Len(line) = c - b
  <2>1. Run(b, index) \o Run(index, c) = Run(b, c)
    <3>1. index \in Nat
      BY <1>1, <1>2
    <3> QED  BY <1>3, <1>4, <3>1, RunsMeet
  <2>2. b <= c
    BY <1>2, <1>3, <1>4
  <2> QED  BY <1>3, <1>4, <1>5, <2>1, <2>2, RunIs
<1>7. IsFiniteSet(active) /\ Cardinality(active) \in Nat /\ Places \in Nat
  <2>1. IsFiniteSet(active) /\ Cardinality(active) \in Nat
    BY <1>1, <1>2, FS_Subset, FS_CardinalityType
  <2>2. PICK x \in Nat : x = Cardinality(active)
    BY <2>1
  <2> QED  BY <1>1, <1>2, <2>1, <2>2 DEF Places
<1>8. n \in 0 .. c - b /\ n <= Places
  <2>1. PICK l \in Nat : l = c - b
    BY <1>2, <1>3, <1>4
  <2>2. n = IF l <= Places THEN l ELSE Places
    BY <1>5, <1>6, <1>7, <2>1, MinOfTwo
  <2> QED  BY <1>7, <2>1, <2>2
<1>9. admitted = Run(b, b + n) /\ waiting' = Run(b + n, c)
  <2>1. b <= c
    BY <1>2, <1>3, <1>4
  <2>2. /\ SubSeq(Run(b, c), 1, n) = Run(b, b + n)
        /\ SubSeq(Run(b, c), n + 1, Len(Run(b, c))) = Run(b + n, c)
    BY <1>4, <1>8, <2>1, RunCut
  <2> QED  BY <1>5, <1>5f, <1>6, <2>2
<1>10. PICK d \in Nat : d = b + n /\ b <= d /\ d <= c
  BY <1>3, <1>4, <1>8
<1>11. /\ Range(admitted) = b .. d - 1 /\ waiting' \in Seq(Requests) /\ Len(waiting') = c - d
  <2>1. d <= NumRequests
    BY <1>1, <1>4, <1>10
  <2> QED  BY <1>4, <1>9, <1>10, <2>1, RunIs
<1>12. b .. d - 1 \subseteq Requests
  BY <1>1, <1>4, <1>10
<1>13. Cardinality(active') <= MaxActive
  <2>1. IsFiniteSet(b .. d - 1) /\ Cardinality(b .. d - 1) = n
    <3>1. b \in Int /\ d - 1 \in Int
      OBVIOUS
    <3>2. IsFiniteSet(b .. d - 1) /\ Cardinality(b .. d - 1) = IF b > d - 1 THEN 0 ELSE (d - 1) - b + 1
      BY <3>1, FS_Interval
    <3> QED  BY <1>8, <1>10, <3>2
  <2>2. active \cap (b .. d - 1) = {}
    <3>1. \A r \in active : r < b
      BY <1>2, <1>3 DEF Lifecycle
    <3> QED  BY <1>1, <1>2, <3>1
  <2>3. Cardinality(active \cup (b .. d - 1)) = Cardinality(active) + n
    <3>1. Cardinality(active \cap (b .. d - 1)) = 0
      BY <2>2, FS_EmptySet
    <3>2. Cardinality(active \cup (b .. d - 1))
            = Cardinality(active) + Cardinality(b .. d - 1) - Cardinality(active \cap (b .. d - 1))
      BY <1>7, <2>1, FS_Union
    <3> QED  BY <1>7, <1>8, <2>1, <3>1, <3>2
  <2>4. n <= MaxActive - Cardinality(active) /\ n \in Nat
    BY <1>8 DEF Places
  <2>5. active' = active \cup (b .. d - 1)
    BY <1>5f, <1>11
  <2> QED  BY <1>1, <1>7, <2>3, <2>4, <2>5
<1>14. home' \in [Requests -> Gpus \cup {None}]
  <2>1. seen \in Nat
    <3>1. {r \in Requests : home[r] # None} \subseteq Requests
      OBVIOUS
    <3> QED  BY <1>1, <1>5, <3>1, FS_Subset, FS_CardinalityType
  <2>2. \A i \in 1 .. n : (seen + i - 1) % NumGpus \in Gpus
    <3> SUFFICES ASSUME NEW i \in 1 .. n PROVE (seen + i - 1) % NumGpus \in Gpus
      OBVIOUS
    <3>1. seen + i - 1 \in Nat
      BY <1>8, <2>1
    <3> QED  BY <1>1, <3>1, DivMod DEF Gpus
  <2>3. ASSUME NEW r \in Requests, \E i \in 1 .. n : admitted[i] = r
        PROVE  (CHOOSE i \in 1 .. n : admitted[i] = r) \in 1 .. n
    BY <2>3
  <2> QED  BY <1>2, <1>5f, <2>2, <2>3
<1>15. sat' \in Nat \cup {None}
  <2>1. \A r \in Requests : Len(doneAt[r]) \in Nat
    BY LenProperties DEF TypeOK
  <2>2. Completed \in Nat
    BY <1>1, <2>1, TotalType DEF Completed
  <2> QED  BY <1>2, <1>5f, <2>2
<1>16. Lifecycle'
  <2>1. Boundary' = d /\ Len(waiting') <= index' /\ waiting' = Run(d, index')
    <3>1. Boundary' = index' - Len(waiting')
      BY DEF Boundary
    <3>2. c - (c - d) = d /\ c - d <= c
      BY <1>10
    <3> QED  BY <1>5f, <1>9, <1>10, <1>11, <3>1, <3>2
  <2>2. \A r \in Requests : r \in active' <=> r < d /\ nextIndex'[r] < TokensPerRequest
    <3> SUFFICES ASSUME NEW r \in Requests
                 PROVE  r \in active' <=> r < d /\ nextIndex[r] < TokensPerRequest
      OBVIOUS
    <3>1. r \in Nat
      BY <1>1
    <3>2. r \in active' <=> r \in active \/ (b <= r /\ r < d)
      BY <1>1, <1>3, <1>5f, <1>10, <1>11, <3>1
    <3>3. r \in active <=> r < b /\ nextIndex[r] < TokensPerRequest
      BY <1>3 DEF Lifecycle
    <3>4. r >= b => nextIndex[r] = 0
      BY <1>3 DEF Lifecycle
    <3> QED  BY <1>1, <1>3, <1>10, <3>1, <3>2, <3>3, <3>4
  <2>3. \A r \in Requests : r >= d => nextIndex'[r] = 0
    BY <1>1, <1>3, <1>10 DEF Lifecycle
  <2>4. \A r \in Requests : r < index' => cfg'.arrivals[r + 1] <= now'
    BY <1>1, <1>2, <1>4, <1>5f DEF Lifecycle
  <2>5. Len(waiting') <= index' /\ waiting' = Run(d, index') /\ Boundary' = d
    BY <2>1
  <2> QED  BY <2>2, <2>3, <2>4, <2>5 DEF Lifecycle, Run
<1>17. active' \subseteq Requests
  BY <1>2, <1>5f, <1>11, <1>12
<1>18. index' \in 0 .. NumRequests /\ index <= index'
  BY <1>1, <1>4, <1>5f
<1> QED  BY <1>11, <1>13, <1>14, <1>15, <1>16, <1>17, <1>18

LEMMA AdmitStep == IInv /\ Admit => IInv'
<1> SUFFICES ASSUME IInv, Admit PROVE IInv'
  OBVIOUS
<1>1. /\ TypeOK /\ Lifecycle /\ ScheduleIsFeasible /\ CompletionsInOrder
      /\ Fill /\ UNCHANGED <<cfg, now, nextIndex, doneAt, schedule>>
      /\ pc' \in {"wait", "route"}
  BY DEF IInv, Admit
<1>2. /\ index' \in 0 .. NumRequests /\ waiting' \in Seq(Requests) /\ active' \subseteq Requests
      /\ Cardinality(active') <= MaxActive
      /\ home' \in [Requests -> Gpus \cup {None}] /\ sat' \in Nat \cup {None}
      /\ Lifecycle'
  BY <1>1, FillIs
<1>3. TypeOK'
  BY <1>1, <1>2 DEF TypeOK, schedule
<1>4. ScheduleIsFeasible' /\ CompletionsInOrder' /\ Schedule'
  BY <1>1 DEF ScheduleIsFeasible, CompletionsInOrder, Schedule, schedule
<1> QED  BY <1>2, <1>3, <1>4 DEF IInv

(* The clock moves to the next arrival, and the requests due by then wait. *)
LEMMA AwaitArrivalStep == IInv /\ AwaitArrival => IInv'
<1> SUFFICES ASSUME IInv, AwaitArrival PROVE IInv'
  OBVIOUS
<1>1. /\ TypeOK /\ Lifecycle /\ ScheduleIsFeasible /\ CompletionsInOrder
      /\ UNCHANGED <<cfg, active, home, nextIndex, doneAt, sat, schedule>>
      /\ pc' \in {"loop", "stop"}
  BY DEF IInv, AwaitArrival
<1>2. /\ NumRequests \in Nat /\ Requests = 0 .. NumRequests - 1
      /\ cfg.arrivals \in [1 .. NumRequests -> Nat]
      /\ index \in 0 .. NumRequests /\ waiting \in Seq(Requests) /\ now \in Nat
      /\ Len(waiting) \in Nat /\ index \in Nat
  BY <1>1, ClusterAssumption, LockstepAssumption, LenProperties DEF TypeOK, Requests
<1>3. now' \in Nat /\ now <= now'
  <2>1. CASE index < NumRequests
    <3>1. cfg.arrivals[index + 1] \in Nat
      BY <1>2, <2>1
    <3>2. now' = Max({now, cfg.arrivals[index + 1]})
      BY <2>1, <1>2 DEF AwaitArrival
    <3> QED  BY <1>2, <3>1, <3>2, MaxOfTwo
  <2>2. CASE index >= NumRequests
    BY <1>2, <2>2 DEF AwaitArrival
  <2> QED  BY <1>2, <2>1, <2>2
<1>4. PICK b \in Nat : b = Boundary /\ b <= index /\ waiting = Run(b, index)
  BY <1>1, <1>2 DEF Boundary, Lifecycle
<1>5. PICK c \in Nat : /\ index' = c /\ index <= c /\ c <= NumRequests
                       /\ waiting' = Run(b, c)
                       /\ \A r \in Requests : index <= r /\ r < c => cfg.arrivals[r + 1] <= now'
  <2>1. CASE index < NumRequests
    <3>1. /\ index' = index + Due(now') /\ waiting' = waiting \o Run(index, index + Due(now'))
      BY <1>2, <2>1 DEF AwaitArrival
    <3>2. PICK t \in Nat : t = now'
      BY <1>3
    <3>3. /\ Due(t) \in Nat /\ index + Due(t) <= NumRequests
          /\ \A r \in Requests : index <= r /\ r < index + Due(t) => cfg.arrivals[r + 1] <= t
      BY <1>1, DueIs
    <3>4. PICK c \in Nat : c = index + Due(t) /\ index <= c
      BY <1>2, <3>3
    <3>5. Run(b, index) \o Run(index, c) = Run(b, c)
      <4>1. index \in Nat /\ b <= index /\ index <= c /\ c <= NumRequests
        BY <1>2, <1>4, <3>3, <3>4
      <4> QED  BY <4>1, RunsMeet
    <3> QED  BY <1>4, <3>1, <3>2, <3>3, <3>4, <3>5
  <2>2. CASE index >= NumRequests
    <3>1. UNCHANGED <<index, waiting>>
      BY <1>2, <2>2 DEF AwaitArrival
    <3> QED  BY <1>2, <1>4, <2>2, <3>1
  <2> QED  BY <1>2, <2>1, <2>2
<1>6. waiting' \in Seq(Requests) /\ Len(waiting') = c - b /\ b <= c
  <2>1. b <= c
    BY <1>2, <1>4, <1>5
  <2> QED  BY <1>5, <2>1, RunIs
<1>7. TypeOK'
  <2>1. index' \in 0 .. NumRequests
    BY <1>2, <1>5
  <2> QED  BY <1>1, <1>3, <1>6, <2>1 DEF TypeOK, schedule
<1>8. ScheduleIsFeasible' /\ Schedule'
  BY <1>1 DEF ScheduleIsFeasible, Schedule, schedule
<1>9. CompletionsInOrder'
  <2> SUFFICES ASSUME NEW r \in Requests, NEW i \in DOMAIN doneAt[r]
               PROVE  /\ cfg.arrivals[r + 1] <= doneAt[r][i] /\ doneAt[r][i] <= now'
                      /\ i > 1 => doneAt[r][i - 1] <= doneAt[r][i]
    BY <1>1 DEF CompletionsInOrder
  <2>1. /\ cfg.arrivals[r + 1] <= doneAt[r][i] /\ doneAt[r][i] <= now
        /\ i > 1 => doneAt[r][i - 1] <= doneAt[r][i]
    BY <1>1 DEF CompletionsInOrder
  <2>2. doneAt[r][i] \in Nat
    BY <1>1 DEF TypeOK
  <2> QED  BY <1>2, <1>3, <2>1, <2>2
<1>10. Lifecycle'
  <2>1. Boundary' = b
    <3>1. Boundary' = index' - Len(waiting')
      BY DEF Boundary
    <3>2. c - (c - b) = b
      OBVIOUS
    <3> QED  BY <1>5, <1>6, <3>1, <3>2
  <2>2. Len(waiting') <= index' /\ waiting' = Run(b, index')
    BY <1>4, <1>5, <1>6
  <2>3. ASSUME NEW r \in Requests, r < index' PROVE cfg.arrivals[r + 1] <= now'
    <3>1. r \in Nat /\ r + 1 \in 1 .. NumRequests
      BY <1>2
    <3>2. cfg.arrivals[r + 1] \in Nat
      BY <1>2, <3>1
    <3>3. CASE r < index
      <4>1. cfg.arrivals[r + 1] <= now
        BY <1>1, <3>3 DEF Lifecycle
      <4> QED  BY <1>2, <1>3, <3>2, <4>1
    <3>4. CASE index <= r
      BY <1>5, <2>3, <3>4
    <3> QED  BY <1>2, <3>1, <3>3, <3>4
  <2>4. \A r \in Requests : r \in active <=> r < b /\ nextIndex[r] < TokensPerRequest
    BY <1>1, <1>4 DEF Lifecycle
  <2>5. \A r \in Requests : r >= b => nextIndex[r] = 0
    BY <1>1, <1>4 DEF Lifecycle
  <2> QED  BY <1>1, <2>1, <2>2, <2>3, <2>4, <2>5 DEF Lifecycle, Run
<1> QED  BY <1>7, <1>8, <1>9, <1>10 DEF IInv

(* A new iteration: its stages last what they last, and none is placed.    *)
LEMMA RouteStep == IInv /\ Route => IInv'
<1> SUFFICES ASSUME IInv, Route PROVE IInv'
  OBVIOUS
<1>1. /\ TypeOK /\ Lifecycle /\ CompletionsInOrder
      /\ UNCHANGED <<lifecycle, now>> /\ pc' = cfg.mode
      /\ next' = [h \in Half |-> 0] /\ ready' = [h \in Half |-> 0] /\ free' = 0
      /\ inflight' = [h \in Half |-> 0] /\ spans' = {}
  BY DEF IInv, Route
<1>2. PICK route \in [Layers -> [active -> Routes]] :
        times' = [h \in Half |-> [l \in Layers |-> Stages(InHalf(h), route[l])]]
  BY DEF Route
<1>3. NumLayers \in Nat \ {0} /\ Layers = 0 .. NumLayers - 1 /\ pc' \in {"sync", "tbo"}
  BY <1>1, ClusterAssumption, LockstepAssumption DEF TypeOK, Layers
<1>4. ASSUME NEW h \in Half, NEW k \in 0 .. 4 * NumLayers - 1
      PROVE  StageTimes(h)'[k] \in Nat
  <2>1. k \div 4 \in Layers /\ 1 + (k % 4) \in 1 .. 4
    BY <1>3
  <2>2. InHalf(h) \subseteq active /\ active \subseteq Requests
    BY <1>1 DEF InHalf, TypeOK
  <2>3. \A i \in 1 .. 4 : Stages(InHalf(h), route[k \div 4])[i] \in Nat
    <3>1. InHalf(h) \in SUBSET Requests
      BY <2>2
    <3>2. \A r \in InHalf(h) : route[k \div 4][r] \in Routes
      BY <2>1, <2>2
    <3> QED  BY <3>1, <3>2, StagesType
  <2>4. times'[h][k \div 4] = Stages(InHalf(h), route[k \div 4])
    BY <1>2, <2>1
  <2>5. StageTimes(h)'[k] = times'[h][k \div 4][1 + (k % 4)]
    BY DEF StageTimes
  <2> QED  BY <2>1, <2>3, <2>4, <2>5
<1>5. TypeOK'
  <2>1. next' \in [Half -> 0 .. 4 * NumLayers]
    BY <1>1, <1>3
  <2> QED  BY <1>1, <1>3, <1>4, <2>1 DEF TypeOK, lifecycle
<1>6. ScheduleIsFeasible' /\ CompletionsInOrder'
  BY <1>1 DEF ScheduleIsFeasible, CompletionsInOrder, lifecycle
<1>7. Lifecycle'
  BY <1>1 DEF Lifecycle, Boundary, Run, lifecycle
<1>8. Schedule'
  <2>1. ASSUME NEW h \in Half PROVE Placed(h)' = 0
    <3>1. next'[h] = 0 /\ 0 .. 0 - 1 = {}
      BY <1>1
    <3>2. Placed(h)' = Total(StageTimes(h)', 0 .. next'[h] - 1)
      BY DEF Placed, StageTimes
    <3> QED  BY <3>1, <3>2, TotalEmpty
  <2>2. 0 \in Half /\ 1 \in Half
    BY DEF Half
  <2>3. Placed(0)' = 0 /\ Placed(1)' = 0
    BY <2>1, <2>2
  <2> QED  BY <1>1, <2>1, <2>3 DEF Schedule, Computes
<1> QED  BY <1>5, <1>6, <1>7, <1>8 DEF IInv

LEMMA LeaveLoopStep == IInv /\ LeaveLoop => IInv'
<1> SUFFICES ASSUME IInv, LeaveLoop PROVE IInv'
  OBVIOUS
<1>1. TypeOK /\ Lifecycle /\ CompletionsInOrder /\ ScheduleIsFeasible
      /\ UNCHANGED <<lifecycle, now, schedule>> /\ pc' = "stop"
  BY DEF IInv, LeaveLoop
<1>2. TypeOK' /\ ScheduleIsFeasible' /\ CompletionsInOrder' /\ Schedule'
  BY <1>1 DEF TypeOK, ScheduleIsFeasible, CompletionsInOrder, Schedule, lifecycle, schedule
<1>3. Lifecycle'
  BY <1>1 DEF Lifecycle, Boundary, Run, lifecycle
<1> QED  BY <1>2, <1>3 DEF IInv

-----------------------------------------------------------------------------
(* The end of an iteration: each token completes after those before it,    *)
(* and the clock has then passed them all.                                 *)
LEMMA FinalizeIs ==
  ASSUME TypeOK, Lifecycle, CompletionsInOrder,
         NEW offset, NEW duration \in Nat,
         \A r \in active : offset[r] \in Nat /\ offset[r] <= duration,
         Finalize(offset, duration)
  PROVE  /\ now' \in Nat /\ active' \subseteq active /\ Cardinality(active') <= MaxActive
         /\ nextIndex' \in [Requests -> 0 .. TokensPerRequest]
         /\ doneAt' \in [Requests -> Seq(Nat)]
         /\ \A r \in Requests : Len(doneAt'[r]) = nextIndex'[r]
         /\ pc' \in {"loop", "stop"}
         /\ Lifecycle' /\ CompletionsInOrder'
<1>1. /\ NumRequests \in Nat /\ TokensPerRequest \in Nat \ {0} /\ MaxActive \in Nat
      /\ Requests = 0 .. NumRequests - 1 /\ IsFiniteSet(Requests)
      /\ cfg.arrivals \in [1 .. NumRequests -> Nat]
  BY ClusterAssumption, LockstepAssumption, RangesFinite DEF Requests, TypeOK
<1>2. /\ now \in Nat /\ active \subseteq Requests /\ Cardinality(active) <= MaxActive
      /\ index \in 0 .. NumRequests /\ waiting \in Seq(Requests) /\ Len(waiting) \in Nat
      /\ nextIndex \in [Requests -> 0 .. TokensPerRequest]
      /\ doneAt \in [Requests -> Seq(Nat)]
      /\ \A r \in Requests : Len(doneAt[r]) = nextIndex[r]
  BY LenProperties DEF TypeOK
<1>3. /\ doneAt' = [r \in Requests |->
            IF r \in active THEN Append(doneAt[r], now + offset[r]) ELSE doneAt[r]]
      /\ nextIndex' = [r \in Requests |-> nextIndex[r] + IF r \in active THEN 1 ELSE 0]
      /\ active' = {r \in active : nextIndex'[r] < TokensPerRequest}
      /\ now' = now + duration /\ pc' \in {"loop", "stop"}
      /\ UNCHANGED <<cfg, index, waiting, home, sat>>
  BY DEF Finalize
<1>4. \A r \in active : r < Boundary /\ nextIndex[r] < TokensPerRequest
  BY <1>2 DEF Lifecycle
<1>5. now' \in Nat /\ now <= now'
  BY <1>2, <1>3
<1>6. active' \subseteq active /\ Cardinality(active') <= MaxActive
  <2>1. IsFiniteSet(active) /\ active' \subseteq active
    BY <1>1, <1>2, <1>3, FS_Subset
  <2>2. /\ Cardinality(active') \in Nat /\ Cardinality(active) \in Nat
        /\ Cardinality(active') <= Cardinality(active)
    BY <2>1, FS_Subset, FS_CardinalityType
  <2> QED  BY <1>1, <1>2, <2>1, <2>2
<1>7. nextIndex' \in [Requests -> 0 .. TokensPerRequest]
  <2>1. ASSUME NEW r \in Requests
        PROVE  (nextIndex[r] + IF r \in active THEN 1 ELSE 0) \in 0 .. TokensPerRequest
    <3>1. nextIndex[r] \in 0 .. TokensPerRequest
      BY <1>2
    <3>2. r \in active => nextIndex[r] < TokensPerRequest
      BY <1>4
    <3> QED  BY <1>1, <3>1, <3>2
  <2> QED  BY <1>3, <2>1
<1>8. ASSUME NEW r \in Requests
      PROVE  /\ doneAt'[r] \in Seq(Nat) /\ Len(doneAt'[r]) = nextIndex'[r]
             /\ DOMAIN doneAt[r] = 1 .. Len(doneAt[r]) /\ Len(doneAt[r]) \in Nat
             /\ \A i \in DOMAIN doneAt[r] : doneAt'[r][i] = doneAt[r][i] /\ doneAt[r][i] \in Nat
             /\ r \in active =>
                  /\ DOMAIN doneAt'[r] = 1 .. Len(doneAt[r]) + 1
                  /\ doneAt'[r][Len(doneAt[r]) + 1] = now + offset[r]
  <2>1. PICK d \in Seq(Nat) : d = doneAt[r]
    BY <1>2
  <2>2. Len(d) \in Nat /\ DOMAIN d = 1 .. Len(d) /\ d \in [1 .. Len(d) -> Nat]
    BY LenProperties
  <2>3. CASE r \in active
    <3>1. PICK v \in Nat : v = now + offset[r]
      <4>1. PICK o \in Nat : o = offset[r]
        BY <2>3
      <4> QED  BY <1>2, <4>1
    <3>2. doneAt'[r] = Append(d, v) /\ nextIndex'[r] = nextIndex[r] + 1
      BY <1>3, <2>1, <2>3, <3>1
    <3>3. /\ Append(d, v) \in Seq(Nat) /\ Len(Append(d, v)) = Len(d) + 1
          /\ \A i \in 1 .. Len(d) : Append(d, v)[i] = d[i]
          /\ Append(d, v)[Len(d) + 1] = v
      BY NumberAdded
    <3>4. DOMAIN Append(d, v) = 1 .. Len(d) + 1
      BY <3>3, LenProperties
    <3> QED  BY <1>2, <2>1, <2>2, <3>1, <3>2, <3>3, <3>4
  <2>4. CASE r \notin active
    <3>1. doneAt'[r] = d /\ nextIndex'[r] = nextIndex[r] + 0
      BY <1>3, <2>1, <2>4
    <3>2. nextIndex[r] + 0 = nextIndex[r]
      BY <1>2
    <3> QED  BY <1>2, <2>1, <2>2, <2>4, <3>1, <3>2
  <2> QED  BY <2>3, <2>4
<1>9. doneAt' \in [Requests -> Seq(Nat)]
  <2>1. doneAt' = [r \in Requests |-> doneAt'[r]]
    BY <1>3
  <2> QED  BY <1>8, <2>1
<1>10. Lifecycle'
  <2>1. UNCHANGED <<Boundary, index, waiting, cfg>>
    BY <1>3 DEF Boundary
  <2>2. waiting' = Run(Boundary', index') /\ Len(waiting') <= index'
    BY <2>1 DEF Lifecycle
  <2>3. \A r \in Requests : r \in active' <=> r < Boundary' /\ nextIndex'[r] < TokensPerRequest
    <3> SUFFICES ASSUME NEW r \in Requests
                 PROVE  r \in active' <=> r < Boundary /\ nextIndex'[r] < TokensPerRequest
      BY <2>1
    <3>1. r \in active <=> r < Boundary /\ nextIndex[r] < TokensPerRequest
      BY DEF Lifecycle
    <3>2. nextIndex[r] \in Nat /\ nextIndex'[r] = nextIndex[r] + IF r \in active THEN 1 ELSE 0
      BY <1>2, <1>3
    <3>3. nextIndex'[r] < TokensPerRequest => nextIndex[r] < TokensPerRequest
      BY <1>1, <3>2
    <3> QED  BY <1>3, <3>1, <3>3
  <2>4. \A r \in Requests : r >= Boundary' => nextIndex'[r] = 0
    <3> SUFFICES ASSUME NEW r \in Requests, r >= Boundary PROVE nextIndex'[r] = 0
      BY <2>1
    <3>1. Boundary \in Int /\ r \in Int
      BY <1>1, <1>2 DEF Boundary
    <3>2. ~(r < Boundary) /\ nextIndex[r] = 0
      BY <3>1 DEF Lifecycle
    <3>3. r \notin active
      BY <1>4, <3>2
    <3> QED  BY <1>3, <3>2, <3>3
  <2>5. ASSUME NEW r \in Requests, r < index' PROVE cfg'.arrivals[r + 1] <= now'
    <3>1. cfg.arrivals[r + 1] <= now /\ cfg.arrivals[r + 1] \in Nat
      BY <1>1, <2>1, <2>5 DEF Lifecycle
    <3> QED  BY <1>2, <1>5, <2>1, <3>1
  <2> QED  BY <2>2, <2>3, <2>4, <2>5 DEF Lifecycle, Run
<1>11. CompletionsInOrder'
  <2> SUFFICES ASSUME NEW r \in Requests, NEW i \in DOMAIN doneAt'[r]
               PROVE  /\ cfg.arrivals[r + 1] <= doneAt'[r][i] /\ doneAt'[r][i] <= now'
                      /\ i > 1 => doneAt'[r][i - 1] <= doneAt'[r][i]
    BY <1>3 DEF CompletionsInOrder
  <2>1. cfg.arrivals[r + 1] \in Nat
    BY <1>1
  <2>2. ASSUME NEW j \in DOMAIN doneAt[r]
        PROVE  /\ doneAt[r][j] \in Nat /\ doneAt'[r][j] = doneAt[r][j]
               /\ cfg.arrivals[r + 1] <= doneAt[r][j] /\ doneAt[r][j] <= now
               /\ j > 1 => doneAt[r][j - 1] <= doneAt[r][j]
    BY <1>8 DEF CompletionsInOrder
  <2>3. CASE i \in DOMAIN doneAt[r]
    <3>1. i > 1 => i - 1 \in DOMAIN doneAt[r]
      BY <1>8, <2>3
    <3>2. i > 1 => doneAt'[r][i - 1] = doneAt[r][i - 1]
      BY <2>2, <3>1
    <3> QED  BY <1>2, <1>5, <2>2, <2>3, <3>2
  <2>4. CASE i \notin DOMAIN doneAt[r]
    <3>1. r \in active
      BY <1>3, <2>4
    <3>2. PICK l \in Nat : l = Len(doneAt[r]) /\ DOMAIN doneAt[r] = 1 .. l /\ i \in 1 .. l + 1
      BY <1>8, <3>1
    <3>3. i = l + 1
      BY <2>4, <3>2
    <3>4. doneAt'[r][i] = now + offset[r] /\ offset[r] \in Nat /\ offset[r] <= duration
      BY <1>8, <3>1, <3>2, <3>3
    <3>5. cfg.arrivals[r + 1] <= now
      <4>1. r < Boundary /\ Boundary \in Int /\ Boundary <= index /\ r \in Int /\ index \in Int
        BY <1>1, <1>2, <1>4, <3>1 DEF Boundary
      <4>2. r < index
        BY <4>1
      <4> QED  BY <4>2 DEF Lifecycle
    <3>6. i > 1 => doneAt'[r][i - 1] \in Nat /\ doneAt'[r][i - 1] <= now
      <4>1. i > 1 => i - 1 \in DOMAIN doneAt[r]
        BY <3>2, <3>3
      <4> QED  BY <2>2, <4>1
    <3>7. PICK o \in Nat : o = offset[r] /\ o <= duration
      BY <3>4
    <3>8. now <= now + o /\ now + o <= now + duration /\ now + o \in Nat
      BY <1>2, <3>7
    <3>9. PICK x \in Nat : x = doneAt'[r][i] /\ now <= x /\ x <= now'
      BY <1>3, <3>4, <3>7, <3>8
    <3>10. cfg.arrivals[r + 1] <= x
      BY <1>2, <2>1, <3>5, <3>9
    <3>11. i > 1 => doneAt'[r][i - 1] <= x
      BY <1>2, <3>6, <3>9
    <3> QED  BY <3>9, <3>10, <3>11
  <2> QED  BY <2>3, <2>4
<1> QED  BY <1>3, <1>5, <1>6, <1>7, <1>8, <1>9, <1>10, <1>11

(* The rest of the invariant does not depend on what Finalize changes.     *)
LEMMA FinalizeStep ==
  ASSUME IInv, NEW offset, NEW duration \in Nat,
         \A r \in active : offset[r] \in Nat /\ offset[r] <= duration,
         Finalize(offset, duration), UNCHANGED schedule
  PROVE  IInv'
<1>1. /\ TypeOK /\ Lifecycle /\ CompletionsInOrder /\ ScheduleIsFeasible
      /\ UNCHANGED <<cfg, index, waiting, home, sat>>
  BY DEF IInv, Finalize
<1>2. /\ now' \in Nat /\ active' \subseteq active /\ Cardinality(active') <= MaxActive
      /\ nextIndex' \in [Requests -> 0 .. TokensPerRequest]
      /\ doneAt' \in [Requests -> Seq(Nat)]
      /\ \A r \in Requests : Len(doneAt'[r]) = nextIndex'[r]
      /\ pc' \in {"loop", "stop"}
      /\ Lifecycle' /\ CompletionsInOrder'
  BY <1>1, FinalizeIs
<1>3. TypeOK'
  BY <1>1, <1>2 DEF TypeOK, schedule
<1>4. ScheduleIsFeasible' /\ Schedule'
  BY <1>1, <1>2 DEF ScheduleIsFeasible, Schedule, schedule
<1> QED  BY <1>2, <1>3, <1>4 DEF IInv

LEMMA SerialTimeType ==
  ASSUME TypeOK, pc \in {"sync", "tbo"}, NEW h \in Half
  PROVE  SerialTime(h) \in Nat
<1>1. NumLayers \in Nat \ {0} /\ 4 * NumLayers - 1 \in Int
  BY ClusterAssumption, LockstepAssumption
<1>2. DOMAIN StageTimes(h) = 0 .. 4 * NumLayers - 1
  BY DEF StageTimes
<1>3. IsFiniteSet(0 .. 4 * NumLayers - 1)
  BY <1>1, FS_Interval
<1>4. \A k \in 0 .. 4 * NumLayers - 1 : StageTimes(h)[k] \in Nat
  BY DEF TypeOK
<1> QED  BY <1>2, <1>3, <1>4, TotalType DEF SerialTime

LEMMA RunSyncStep == IInv /\ RunSync => IInv'
<1> SUFFICES ASSUME IInv, RunSync PROVE IInv'
  OBVIOUS
<1>1. SerialTime(0) \in Nat
  BY SerialTimeType DEF IInv, RunSync, Half
<1>2. PICK t \in Nat : t = SerialTime(0)
  BY <1>1
<1>3. Finalize([r \in active |-> t], t) /\ UNCHANGED schedule
  BY <1>2 DEF RunSync
<1>4. \A r \in active : [q \in active |-> t][r] \in Nat /\ [q \in active |-> t][r] <= t
  OBVIOUS
<1> QED  BY <1>3, <1>4, FinalizeStep

LEMMA FinishTboStep == IInv /\ FinishTbo => IInv'
<1> SUFFICES ASSUME IInv, FinishTbo PROVE IInv'
  OBVIOUS
<1>1. ready \in [Half -> Nat] /\ active \subseteq Requests /\ IsFiniteSet(active)
  BY RangesFinite, FS_Subset DEF IInv, TypeOK
<1>2. ready[0] \in Nat /\ ready[1] \in Nat
  BY <1>1 DEF Half
<1>3. Makespan \in Nat /\ ready[0] <= Makespan /\ ready[1] <= Makespan
  BY <1>2, MaxOfTwo DEF Makespan
<1>4. ASSUME NEW r \in active PROVE HalfOf(r) \in {0, 1}
  <2>1. {q \in active : q < r} \subseteq active
    OBVIOUS
  <2>2. Cardinality({q \in active : q < r}) \in Nat
    BY <1>1, <2>1, FS_Subset, FS_CardinalityType
  <2>3. \A n \in Nat : n % 2 \in {0, 1}
    OBVIOUS
  <2> QED  BY <2>2, <2>3 DEF HalfOf
<1>5. \A r \in active : /\ [q \in active |-> ready[HalfOf(q)]][r] \in Nat
                        /\ [q \in active |-> ready[HalfOf(q)]][r] <= Makespan
  BY <1>2, <1>3, <1>4
<1>6. Finalize([r \in active |-> ready[HalfOf(r)]], Makespan) /\ UNCHANGED schedule
  BY DEF FinishTbo
<1>7. PICK offset, m : offset = [q \in active |-> ready[HalfOf(q)]] /\ m = Makespan
  OBVIOUS
<1>8. m \in Nat /\ Finalize(offset, m) /\ \A r \in active : offset[r] \in Nat /\ offset[r] <= m
  BY <1>3, <1>5, <1>6, <1>7
<1> QED  BY <1>6, <1>8, FinalizeStep

-----------------------------------------------------------------------------
(* Placing a stage adds its duration to what is placed.                    *)
LEMMA PlacedIs ==
  ASSUME TypeOK, pc = "tbo", NEW h \in Half
  PROVE  /\ Placed(h) \in Nat
         /\ Pending(h) => /\ Duration(h) \in Nat
                          /\ Total(StageTimes(h), 0 .. next[h]) = Placed(h) + Duration(h)
<1>1. /\ NumLayers \in Nat \ {0} /\ next[h] \in 0 .. 4 * NumLayers
      /\ \A k \in 0 .. 4 * NumLayers - 1 : StageTimes(h)[k] \in Nat
  BY ClusterAssumption, LockstepAssumption DEF TypeOK
<1>2. PICK n \in Nat, m \in Nat : n = next[h] /\ m = 4 * NumLayers /\ n <= m
  BY <1>1
<1>3. PICK f : f = StageTimes(h) /\ \A k \in 0 .. m - 1 : f[k] \in Nat
  BY <1>1, <1>2
<1>4. IsFiniteSet(0 .. n - 1) /\ \A k \in 0 .. n - 1 : f[k] \in Nat
  <2>1. n - 1 \in Int
    OBVIOUS
  <2>2. IsFiniteSet(0 .. n - 1)
    BY <2>1, FS_Interval
  <2> QED  BY <1>2, <1>3, <2>2
<1>5. Placed(h) = Total(f, 0 .. n - 1)
  BY <1>2, <1>3 DEF Placed
<1>6. Placed(h) \in Nat
  BY <1>4, <1>5, TotalType
<1>7. ASSUME Pending(h)
      PROVE  Duration(h) \in Nat /\ Total(f, 0 .. n) = Placed(h) + Duration(h)
  <2>1. n < m /\ Duration(h) = f[n]
    BY <1>2, <1>3, <1>7 DEF Pending, Duration
  <2>2. n \in 0 .. m - 1 /\ n \notin 0 .. n - 1 /\ 0 .. n = (0 .. n - 1) \cup {n}
    BY <2>1
  <2>3. f[n] \in Nat /\ \A k \in (0 .. n - 1) \cup {n} : f[k] \in Nat
    BY <1>3, <1>4, <2>2
  <2>4. Total(f, (0 .. n - 1) \cup {n}) = Total(f, 0 .. n - 1) + f[n]
    BY <1>4, <2>2, <2>3, TotalAdd
  <2> QED  BY <1>5, <2>1, <2>2, <2>3, <2>4
<1> QED  BY <1>2, <1>3, <1>6, <1>7

(* A stage starts when the earlier ones of its half have ended and, if it  *)
(* computes, when no other stage computes; so it ends no later than if the *)
(* halves took turns, and no earlier than its half could alone.            *)
LEMMA ScheduleStageStep ==
  ASSUME IInv, NEW h \in Half, ScheduleStage(h)
  PROVE  IInv'
<1>1. /\ TypeOK /\ Lifecycle /\ CompletionsInOrder /\ ScheduleIsFeasible /\ Schedule
      /\ pc = "tbo" /\ Pending(h) /\ UNCHANGED <<lifecycle, now, pc, times>>
      /\ next' = [next EXCEPT ![h] = @ + 1]
  BY DEF IInv, ScheduleStage
<1>2. /\ NumLayers \in Nat \ {0} /\ next \in [Half -> 0 .. 4 * NumLayers]
      /\ ready \in [Half -> Nat] /\ inflight \in [Half -> Nat] /\ free \in Nat
      /\ spans \subseteq [half : Half, at : 0 .. 4 * NumLayers - 1, start : Nat, end : Nat]
      /\ 0 \in Half /\ 1 \in Half
  BY <1>1, ClusterAssumption, LockstepAssumption DEF TypeOK, Half
<1>3. PICK n \in Nat, m \in Nat : n = next[h] /\ m = 4 * NumLayers /\ n < m
  BY <1>1, <1>2 DEF Pending
<1>4. /\ Placed(0) \in Nat /\ Placed(1) \in Nat /\ Placed(h) \in Nat /\ Duration(h) \in Nat
      /\ Total(StageTimes(h), 0 .. n) = Placed(h) + Duration(h)
  BY <1>1, <1>2, <1>3, PlacedIs
<1>5. PICK d \in Nat, P \in Nat, T \in Nat :
        d = Duration(h) /\ P = Placed(h) /\ T = Placed(0) + Placed(1)
  BY <1>4
<1>6. PICK r \in Nat, i \in Nat, f \in Nat : r = ready[h] /\ i = inflight[h] /\ f = free
  BY <1>2
(* What the schedule says of half h, in these terms.                       *)
<1>7. /\ r <= T /\ i <= T /\ f <= T
      /\ n % 2 = 0 => i >= P
      /\ n % 2 # 0 => r >= P
  BY <1>1, <1>3, <1>5, <1>6 DEF Schedule, Computes
<1>8. ASSUME NEW s \in spans
      PROVE  /\ s.half \in Half /\ s.at \in Nat /\ s.start \in Nat /\ s.end \in Nat
             /\ s.at < next[s.half]
             /\ s.at % 2 = 0 => s.end <= f /\ s.end <= ready[s.half]
             /\ s.at % 2 # 0 => s.end <= inflight[s.half]
             /\ next[s.half] % 2 # 0 => s.end <= ready[s.half]
  BY <1>1, <1>2, <1>6 DEF Schedule, Computes
<1>9. PICK start, end, new :
        /\ start \in Nat /\ end \in Nat /\ start = Earliest(h) /\ end = start + d
        /\ new = [half |-> h, at |-> n, start |-> start, end |-> end]
        /\ spans' = spans \cup {new}
        /\ n % 2 = 0 => /\ r <= start /\ i <= start /\ f <= start /\ start <= T
                        /\ ready' = [ready EXCEPT ![h] = end] /\ free' = end /\ inflight' = inflight
        /\ n % 2 # 0 => /\ start = r /\ ready' = ready /\ free' = free
                        /\ inflight' = [inflight EXCEPT ![h] = Max({i, end})]
  <2>1. Computes(h) <=> n % 2 = 0
    BY <1>3 DEF Computes
  <2>2. CASE n % 2 = 0
    <3>1. Earliest(h) = Max({r, i, f})
      BY <1>6, <2>1, <2>2 DEF Earliest
    <3>2. PICK start \in Nat : /\ start = Earliest(h) /\ start \in {r, i, f}
                               /\ r <= start /\ i <= start /\ f <= start
      BY <3>1, MaxOfThree
    <3>3. start + d \in Nat /\ start <= T
      BY <1>7, <3>2
    <3> QED  BY <1>3, <1>5, <2>1, <2>2, <3>2, <3>3 DEF ScheduleStage
  <2>3. CASE n % 2 # 0
    <3>1. Earliest(h) = r
      BY <1>6, <2>1, <2>3 DEF Earliest
    <3>2. r + d \in Nat
      OBVIOUS
    <3> QED  BY <1>3, <1>5, <1>6, <2>1, <2>3, <3>1, <3>2 DEF ScheduleStage
  <2> QED  BY <2>2, <2>3
<1>10. /\ new \in [half : Half, at : 0 .. 4 * NumLayers - 1, start : Nat, end : Nat]
       /\ new.half = h /\ new.at = n /\ new.start = start /\ new.end = end
  BY <1>3, <1>9
(* Either way the three times move forward, to the end of the stage or not.*)
<1>11. PICK r1 \in Nat, i1 \in Nat, f1 \in Nat :
         /\ ready' = [ready EXCEPT ![h] = r1] /\ inflight' = [inflight EXCEPT ![h] = i1] /\ free' = f1
         /\ n % 2 = 0 => r1 = end /\ i1 = i /\ f1 = end
         /\ n % 2 # 0 => r1 = r /\ i1 \in {i, end} /\ i <= i1 /\ end <= i1 /\ f1 = f
  <2>1. CASE n % 2 = 0
    BY <1>2, <1>6, <1>9, <2>1
  <2>2. CASE n % 2 # 0
    <3>1. PICK x \in Nat : x = Max({i, end}) /\ x \in {i, end} /\ i <= x /\ end <= x
      BY <1>9, MaxOfTwo
    <3> QED  BY <1>2, <1>6, <1>9, <2>2, <3>1
  <2> QED  BY <2>1, <2>2
<1>12. start <= end /\ end <= T + d /\ end >= P + d
  BY <1>7, <1>9
<1>13. TypeOK'
  <2>1. next' \in [Half -> 0 .. 4 * NumLayers]
    BY <1>1, <1>2, <1>3
  <2>2. \A g \in Half : \A k \in 0 .. 4 * NumLayers - 1 : StageTimes(g)'[k] \in Nat
    BY <1>1 DEF TypeOK, StageTimes
  <2>3. ready' \in [Half -> Nat] /\ inflight' \in [Half -> Nat] /\ free' \in Nat
    BY <1>2, <1>11
  <2>4. spans' \subseteq [half : Half, at : 0 .. 4 * NumLayers - 1, start : Nat, end : Nat]
    BY <1>2, <1>9, <1>10
  <2> QED  BY <1>1, <2>1, <2>2, <2>3, <2>4 DEF TypeOK, lifecycle
<1>14. ScheduleIsFeasible'
  <2>1. ASSUME NEW s \in spans
        PROVE  /\ s.at % 2 = 0 /\ n % 2 = 0 => s.end <= start
               /\ s.half = h => s.at < n /\ s.end <= start
    <3>1. s.at % 2 = 0 /\ n % 2 = 0 => s.end <= start
      BY <1>8, <1>9
    <3>2. ASSUME s.half = h PROVE s.at < n /\ s.end <= start
      <4>1. /\ s.at \in Nat /\ s.end \in Nat /\ s.at < n
            /\ s.at % 2 = 0 => s.end <= r
            /\ s.at % 2 # 0 => s.end <= i
            /\ n % 2 # 0 => s.end <= r
        BY <1>3, <1>6, <1>8, <3>2
      <4> QED  BY <1>9, <4>1
    <3> QED  BY <3>1, <3>2
  <2>2. ASSUME NEW s \in spans, NEW t \in spans
        PROVE  /\ s # t /\ s.at % 2 = 0 /\ t.at % 2 = 0 => s.end <= t.start \/ t.end <= s.start
               /\ s.half = t.half /\ s.at < t.at => s.end <= t.start
    BY <1>1 DEF ScheduleIsFeasible
  <2>3. ASSUME NEW s \in spans', NEW t \in spans'
        PROVE  /\ s # t /\ s.at % 2 = 0 /\ t.at % 2 = 0 => s.end <= t.start \/ t.end <= s.start
               /\ s.half = t.half /\ s.at < t.at => s.end <= t.start
    <3>1. CASE s \in spans /\ t \in spans
      BY <2>2, <3>1
    <3>2. CASE s \in spans /\ t = new
      BY <1>10, <2>1, <3>2
    <3>3. CASE s = new /\ t \in spans
      <4>1. t.half = h => ~(n < t.at)
        BY <1>8, <2>1, <3>3
      <4> QED  BY <1>10, <2>1, <3>3, <4>1
    <3>4. CASE s = new /\ t = new
      BY <1>10, <3>4
    <3> QED  BY <1>9, <3>1, <3>2, <3>3, <3>4
  <2> QED  BY <2>3 DEF ScheduleIsFeasible
<1>15. CompletionsInOrder'
  BY <1>1 DEF CompletionsInOrder, lifecycle
<1>16. Lifecycle'
  BY <1>1 DEF Lifecycle, Boundary, Run, lifecycle
<1>17. next'[h] = n + 1 /\ \A g \in Half \ {h} : next'[g] = next[g]
  BY <1>1, <1>2, <1>3
<1>18. /\ \A g \in Half : StageTimes(g)' = StageTimes(g)
       /\ Placed(h)' = P + d /\ \A g \in Half \ {h} : Placed(g)' = Placed(g)
       /\ Placed(0)' + Placed(1)' = T + d
  <2>1. ASSUME NEW g \in Half PROVE StageTimes(g)' = StageTimes(g)
    BY <1>1 DEF StageTimes
  <2>2. ASSUME NEW g \in Half PROVE Placed(g)' = Total(StageTimes(g), 0 .. next'[g] - 1)
    <3>1. Placed(g)' = Total(StageTimes(g)', 0 .. next'[g] - 1)
      BY DEF Placed, StageTimes
    <3> QED  BY <2>1, <3>1
  <2>3. Placed(h)' = P + d
    <3>1. n + 1 - 1 = n
      OBVIOUS
    <3> QED  BY <1>4, <1>5, <1>17, <2>2, <3>1
  <2>4. \A g \in Half \ {h} : Placed(g)' = Placed(g)
    BY <1>17, <2>2 DEF Placed
  <2>5. Placed(0)' + Placed(1)' = T + d
    <3>1. CASE h = 0
      <4>1. Placed(0)' = P + d /\ Placed(1)' = Placed(1) /\ P = Placed(0)
        BY <1>2, <1>5, <2>3, <2>4, <3>1
      <4> QED  BY <1>4, <1>5, <4>1
    <3>2. CASE h = 1
      <4>1. Placed(1)' = P + d /\ Placed(0)' = Placed(0) /\ P = Placed(1)
        BY <1>2, <1>5, <2>3, <2>4, <3>2
      <4> QED  BY <1>4, <1>5, <4>1
    <3> QED  BY <3>1, <3>2 DEF Half
  <2> QED  BY <2>1, <2>3, <2>4, <2>5
<1>19. /\ \A k \in Half : Computes(k)' <=> next'[k] % 2 = 0
       /\ (n + 1) % 2 = 0 <=> n % 2 # 0
  BY DEF Computes
<1>20. \A s \in spans' : /\ s.at < next'[s.half]
                         /\ s.at % 2 = 0 => s.end <= free' /\ s.end <= ready'[s.half]
                         /\ s.at % 2 # 0 => s.end <= inflight'[s.half]
                         /\ ~Computes(s.half)' => s.end <= ready'[s.half]
  <2>1. r <= r1 /\ i <= i1 /\ f <= f1
    BY <1>9, <1>11, <1>12
  <2>2. ASSUME NEW s \in spans, s.half = h
        PROVE  /\ s.at < n + 1
               /\ s.at % 2 = 0 => s.end <= f1 /\ s.end <= r1
               /\ s.at % 2 # 0 => s.end <= i1
               /\ (n + 1) % 2 # 0 => s.end <= r1
    <3>1. PICK a \in Nat, e \in Nat : a = s.at /\ e = s.end
      BY <1>8
    <3>2. /\ a < n
          /\ a % 2 = 0 => e <= f /\ e <= r
          /\ a % 2 # 0 => e <= i
          /\ n % 2 # 0 => e <= r
      BY <1>3, <1>6, <1>8, <2>2, <3>1
    <3>3. a < n + 1 /\ (a % 2 = 0 => e <= f1 /\ e <= r1) /\ (a % 2 # 0 => e <= i1)
      BY <2>1, <3>2
    <3>4. n % 2 = 0 => e <= r1
      <4>1. a % 2 = 0 \/ a % 2 # 0
        OBVIOUS
      <4> QED  BY <1>9, <1>11, <1>12, <3>2, <4>1
    <3> QED  BY <1>19, <3>1, <3>3, <3>4
  <2>3. ASSUME NEW s \in spans, s.half # h
        PROVE  /\ s.at < next[s.half]
               /\ s.at % 2 = 0 => s.end <= f1 /\ s.end <= ready[s.half]
               /\ s.at % 2 # 0 => s.end <= inflight[s.half]
               /\ next[s.half] % 2 # 0 => s.end <= ready[s.half]
    BY <1>8, <2>1
  <2>4. ASSUME NEW s \in spans
        PROVE  /\ s.at < next'[s.half]
               /\ s.at % 2 = 0 => s.end <= free' /\ s.end <= ready'[s.half]
               /\ s.at % 2 # 0 => s.end <= inflight'[s.half]
               /\ ~Computes(s.half)' => s.end <= ready'[s.half]
    <3>1. CASE s.half = h
      <4>1. ready'[h] = r1 /\ inflight'[h] = i1 /\ free' = f1
        BY <1>2, <1>11
      <4> QED  BY <1>17, <1>19, <2>2, <3>1, <4>1
    <3>2. CASE s.half # h
      <4>1. /\ s.half \in Half \ {h} /\ ready'[s.half] = ready[s.half]
            /\ inflight'[s.half] = inflight[s.half] /\ next'[s.half] = next[s.half] /\ free' = f1
        BY <1>2, <1>8, <1>11, <1>17, <3>2
      <4> QED  BY <1>19, <2>3, <3>2, <4>1
    <3> QED  BY <3>1, <3>2
  <2>5. /\ new.at < next'[new.half]
        /\ new.at % 2 = 0 => new.end <= free' /\ new.end <= ready'[new.half]
        /\ new.at % 2 # 0 => new.end <= inflight'[new.half]
        /\ ~Computes(new.half)' => new.end <= ready'[new.half]
    <3>1. ready'[h] = r1 /\ inflight'[h] = i1 /\ free' = f1
      BY <1>2, <1>11
    <3> QED  BY <1>10, <1>11, <1>17, <1>19, <3>1
  <2> QED  BY <1>9, <2>4, <2>5
<1>21. \A g \in Half :
         /\ ready'[g] <= T + d /\ inflight'[g] <= T + d
         /\ Computes(g)' => inflight'[g] >= Placed(g)'
         /\ Computes(g)' /\ next'[g] > 0 => ready'[g] + StageTimes(g)'[next'[g] - 1] >= Placed(g)'
         /\ ~Computes(g)' => ready'[g] >= Placed(g)'
  <2>1. /\ r1 <= T + d /\ i1 <= T + d
        /\ n % 2 # 0 => i1 >= P + d /\ r1 + d >= P + d
        /\ n % 2 = 0 => r1 >= P + d
    BY <1>7, <1>9, <1>11, <1>12
  <2>2. StageTimes(h)'[next'[h] - 1] = d
    <3>1. n + 1 - 1 = n
      OBVIOUS
    <3>2. StageTimes(h)[n] = d
      BY <1>3, <1>5 DEF Duration
    <3> QED  BY <1>17, <1>18, <3>1, <3>2
  <2>3. ready'[h] = r1 /\ inflight'[h] = i1
    BY <1>2, <1>11
  <2>4. /\ ready'[h] <= T + d /\ inflight'[h] <= T + d
        /\ Computes(h)' => inflight'[h] >= Placed(h)'
        /\ Computes(h)' /\ next'[h] > 0 => ready'[h] + StageTimes(h)'[next'[h] - 1] >= Placed(h)'
        /\ ~Computes(h)' => ready'[h] >= Placed(h)'
    BY <1>17, <1>18, <1>19, <2>1, <2>2, <2>3
  <2>5. ASSUME NEW g \in Half \ {h}
        PROVE  /\ ready'[g] <= T + d /\ inflight'[g] <= T + d
               /\ Computes(g)' => inflight'[g] >= Placed(g)'
               /\ Computes(g)' /\ next'[g] > 0 => ready'[g] + StageTimes(g)'[next'[g] - 1] >= Placed(g)'
               /\ ~Computes(g)' => ready'[g] >= Placed(g)'
    <3>1. /\ ready'[g] = ready[g] /\ inflight'[g] = inflight[g] /\ next'[g] = next[g]
          /\ Placed(g)' = Placed(g) /\ StageTimes(g)' = StageTimes(g)
          /\ ready[g] \in Nat /\ inflight[g] \in Nat
      BY <1>2, <1>11, <1>17, <1>18
    <3>2. /\ ready[g] <= T /\ inflight[g] <= T
          /\ next[g] % 2 = 0 => inflight[g] >= Placed(g)
          /\ next[g] % 2 = 0 /\ next[g] > 0 => ready[g] + StageTimes(g)[next[g] - 1] >= Placed(g)
          /\ next[g] % 2 # 0 => ready[g] >= Placed(g)
      BY <1>1, <1>5 DEF Schedule, Computes
    <3>3. ready[g] <= T + d /\ inflight[g] <= T + d
      BY <3>1, <3>2
    <3> QED  BY <1>19, <3>1, <3>2, <3>3
  <2> QED  BY <2>4, <2>5
<1>22. free' <= T + d
  BY <1>7, <1>11, <1>12
<1>23. Schedule'
  BY <1>18, <1>20, <1>21, <1>22 DEF Schedule
<1> QED  BY <1>13, <1>14, <1>15, <1>16, <1>23 DEF IInv

(* Every reachable state satisfies the invariant.                          *)
THEOREM Invariance == Spec => []IInv
<1>1. IInv /\ [Next]_vars => IInv'
  <2> SUFFICES ASSUME IInv, [Next]_vars PROVE IInv'
    OBVIOUS
  <2>1. CASE UNCHANGED vars
    <3>1. UNCHANGED <<cfg, index, waiting, active, home, nextIndex, doneAt, sat, now, pc,
                      times, next, ready, free, inflight, spans>>
      BY <2>1 DEF vars, lifecycle, schedule
    <3>2. \A h \in Half : StageTimes(h)' = StageTimes(h) /\ Placed(h)' = Placed(h)
      BY <3>1 DEF StageTimes, Placed
    <3>3. TypeOK' /\ ScheduleIsFeasible' /\ CompletionsInOrder'
      BY <3>1, <3>2 DEF IInv, TypeOK, ScheduleIsFeasible, CompletionsInOrder
    <3>4. Lifecycle'
      BY <3>1 DEF IInv, Lifecycle, Boundary, Run
    <3>5. Schedule'
      BY <3>1, <3>2 DEF IInv, Schedule, Computes, Half
    <3> QED  BY <3>3, <3>4, <3>5 DEF IInv
  <2> QED  BY <2>1, AdmitStep, AwaitArrivalStep, RouteStep, RunSyncStep, FinishTboStep, LeaveLoopStep,
              ScheduleStageStep DEF Next
<1> QED  BY <1>1, InitIInv, PTL DEF Spec

(* The halves end no later than one after the other, and none earlier than *)
(* it could alone, up to its last transfer.                                *)
LEMMA OverlapPaysAlways == IInv => OverlapPays
<1> SUFFICES ASSUME IInv, pc = "tbo", \A h \in Half : ~Pending(h), NEW h \in Half
             PROVE  /\ Max({ready[h], inflight[h]}) <= SerialTime(0) + SerialTime(1)
                    /\ ready[h] >= SerialTime(h) - times[h][NumLayers - 1][4]
  BY DEF OverlapPays
<1>1. /\ TypeOK /\ Schedule /\ NumLayers \in Nat \ {0} /\ 0 \in Half /\ 1 \in Half
  BY ClusterAssumption, LockstepAssumption DEF IInv, Half
<1>2. PICK m \in Nat : m = 4 * NumLayers /\ m > 0 /\ m % 2 = 0 /\ (m - 1) \div 4 = NumLayers - 1
                       /\ 1 + ((m - 1) % 4) = 4
  BY <1>1
<1>3. ASSUME NEW g \in Half
      PROVE  next[g] = m /\ SerialTime(g) = Placed(g) /\ SerialTime(g) \in Nat
  <2>1. next[g] \in 0 .. m /\ ~(next[g] < m)
    BY <1>1, <1>2 DEF TypeOK, Pending
  <2>2. next[g] = m
    BY <2>1
  <2>3. SerialTime(g) = Total(StageTimes(g), 0 .. m - 1)
    BY <1>2 DEF SerialTime, StageTimes
  <2> QED  BY <1>1, <2>2, <2>3, SerialTimeType DEF Placed
<1>4. /\ ready[h] <= SerialTime(0) + SerialTime(1) /\ inflight[h] <= SerialTime(0) + SerialTime(1)
      /\ ready[h] + StageTimes(h)[m - 1] >= SerialTime(h)
  BY <1>1, <1>2, <1>3 DEF Schedule, Computes
<1>5. StageTimes(h)[m - 1] = times[h][NumLayers - 1][4] /\ StageTimes(h)[m - 1] \in Nat
  <2>1. m - 1 \in 0 .. 4 * NumLayers - 1
    BY <1>2
  <2>2. StageTimes(h)[m - 1] = times[h][(m - 1) \div 4][1 + ((m - 1) % 4)]
    BY <2>1 DEF StageTimes
  <2> QED  BY <1>1, <1>2, <2>1, <2>2 DEF TypeOK
<1>6. ready[h] \in Nat /\ inflight[h] \in Nat
  BY <1>1 DEF TypeOK
<1>7. Max({ready[h], inflight[h]}) \in {ready[h], inflight[h]}
  BY <1>6, MaxOfTwo
<1>8. ready[h] >= SerialTime(h) - StageTimes(h)[m - 1]
  <2>1. PICK x \in Nat, y \in Nat, z \in Nat :
          x = ready[h] /\ y = StageTimes(h)[m - 1] /\ z = SerialTime(h)
    BY <1>3, <1>5, <1>6
  <2> QED  BY <1>4, <2>1
<1> QED  BY <1>4, <1>5, <1>7, <1>8

(* The times of the simulators are sound, whatever the durations, arrivals *)
(* and routes are (run() and _schedule_resources).                         *)
THEOREM Sound == Spec => []TimesAreSound
<1>1. IInv => TimesAreSound
  BY OverlapPaysAlways DEF IInv, TimesAreSound
<1> QED  BY <1>1, Invariance, PTL

-----------------------------------------------------------------------------
(* The requests of an iteration are the first unfinished ones that have    *)
(* arrived.                                                                *)
LEMMA ActiveAreAdmitted == IInv => active \subseteq A!Admitted
<1> SUFFICES ASSUME IInv, NEW r \in active PROVE r \in A!Admitted
  OBVIOUS
<1>1. /\ TypeOK /\ Lifecycle /\ MaxActive \in Nat /\ Requests = 0 .. NumRequests - 1
      /\ IsFiniteSet(Requests) /\ NumRequests \in Nat
  BY ClusterAssumption, LockstepAssumption, RangesFinite DEF IInv, Requests
<1>2. /\ active \subseteq Requests /\ index \in 0 .. NumRequests /\ Len(waiting) \in Nat
      /\ Cardinality(active) <= MaxActive /\ \A q \in Requests : Len(doneAt[q]) = nextIndex[q]
  BY <1>1, LenProperties DEF TypeOK
<1>3. Boundary \in Int /\ Boundary <= index
  BY <1>1, <1>2 DEF Boundary
<1>4. \A q \in Requests : q \in active <=> q < Boundary /\ nextIndex[q] < TokensPerRequest
  BY <1>1 DEF Lifecycle
<1>5. r \in A!Unfinished
  <2>1. r \in Requests /\ r \in 0 .. index - 1 /\ Len(doneAt[r]) < TokensPerRequest
    BY <1>1, <1>2, <1>3, <1>4
  <2> QED  BY <2>1 DEF A!Unfinished
<1>6. {q \in A!Unfinished : q < r} \subseteq active \ {r}
  <2> SUFFICES ASSUME NEW q \in A!Unfinished, q < r PROVE q \in active \ {r}
    OBVIOUS
  <2>1. q \in 0 .. index - 1 /\ [p \in Requests |-> Len(doneAt[p])][q] < TokensPerRequest
    BY DEF A!Unfinished
  <2>2. q \in Requests /\ q # r /\ r \in Requests
    BY <1>1, <1>2, <2>1
  <2>3. q < Boundary
    BY <1>1, <1>2, <1>3, <1>4, <2>2
  <2>4. nextIndex[q] < TokensPerRequest
    BY <1>2, <2>1, <2>2
  <2> QED  BY <1>4, <2>2, <2>3, <2>4
<1>7. Cardinality({q \in A!Unfinished : q < r}) < MaxActive
  <2>1. IsFiniteSet(active) /\ Cardinality(active) \in Nat
    BY <1>1, <1>2, FS_Subset, FS_CardinalityType
  <2>2. IsFiniteSet(active \ {r}) /\ Cardinality(active \ {r}) = Cardinality(active) - 1
    BY <2>1, FS_RemoveElement
  <2>3. Cardinality({q \in A!Unfinished : q < r}) <= Cardinality(active \ {r})
        /\ Cardinality({q \in A!Unfinished : q < r}) \in Nat
    BY <1>6, <2>2, FS_Subset, FS_CardinalityType
  <2> QED  BY <1>1, <1>2, <2>1, <2>2, <2>3
<1>8. A!Admitted = {p \in A!Unfinished : Cardinality({q \in A!Unfinished : q < p}) < MaxActive}
  <2>1. \A S : A!Cardinality(S) = Cardinality(S)
    BY DEF A!Cardinality, Cardinality
  <2> QED  BY <2>1, Zenon DEF A!Admitted
<1> QED  BY <1>5, <1>7, <1>8, Zenon

LEMMA FinalizeCompletes ==
  ASSUME IInv, NEW offset, NEW duration, Finalize(offset, duration)
  PROVE  A!Complete
<1>1. active \subseteq A!Admitted /\ active \subseteq Requests /\ doneAt \in [Requests -> Seq(Nat)]
      /\ index' = index
  BY ActiveAreAdmitted DEF IInv, TypeOK, Finalize
<1> DEFINE completed == [r \in Requests |-> Len(doneAt[r])]
<1>2. ASSUME NEW r \in Requests
      PROVE  Len(doneAt'[r]) = IF r \in active THEN completed[r] + 1 ELSE completed[r]
  <2>1. doneAt'[r] = IF r \in active THEN Append(doneAt[r], now + offset[r]) ELSE doneAt[r]
    BY DEF Finalize
  <2>2. doneAt[r] \in Seq(Nat) /\ completed[r] = Len(doneAt[r])
    BY <1>1
  <2> QED  BY <2>1, <2>2
<1>3. completed' = [r \in A!Requests |-> IF r \in active THEN completed[r] + 1 ELSE completed[r]]
  <2>1. completed' = [r \in Requests |-> Len(doneAt'[r])]
    BY DEF Requests
  <2>2. A!Requests = Requests
    BY DEF A!Requests, Requests
  <2> HIDE DEF completed
  <2> QED  BY <1>2, <2>1, <2>2
<1>4. active \in SUBSET A!Admitted
  BY <1>1
<1> QED  BY <1>1, <1>3, <1>4 DEF A!Complete, Requests

(* The simulators admit and complete as Autoregressive says.               *)
THEOREM Implements == Spec => ImplementsAutoregressive
<1>1. Init => A!Init
  <2> SUFFICES ASSUME Init PROVE A!Init
    OBVIOUS
  <2>1. index = 0 /\ \A r \in Requests : Len(doneAt[r]) = 0
    BY DEF Init
  <2>2. A!Requests = Requests
    BY DEF A!Requests, Requests
  <2> QED  BY <2>1, <2>2 DEF A!Init
<1>2. IInv /\ IInv' /\ [Next]_vars => [A!Next]_(A!vars)
  <2> SUFFICES ASSUME IInv, IInv', [Next]_vars PROVE [A!Next]_(A!vars)
    OBVIOUS
  <2>1. NumRequests \in Nat /\ index \in 0 .. NumRequests /\ index' \in 0 .. NumRequests
    BY ClusterAssumption, LockstepAssumption DEF IInv, TypeOK
  <2>2. ASSUME UNCHANGED doneAt, index <= index' PROVE [A!Next]_(A!vars)
    <3>1. UNCHANGED [r \in Requests |-> Len(doneAt[r])]
      BY <2>2 DEF Requests
    <3>2. CASE index' = index
      BY <3>1, <3>2 DEF A!vars
    <3>3. CASE index' # index
      <4>1. index < NumRequests /\ index' \in index + 1 .. NumRequests
        BY <2>1, <2>2, <3>3
      <4> QED  BY <3>1, <4>1 DEF A!Next, A!Arrive
    <3> QED  BY <3>2, <3>3
  <2>3. CASE Admit
    <3>1. TypeOK /\ Lifecycle /\ Fill /\ UNCHANGED <<cfg, now, nextIndex, doneAt>>
      BY <2>3 DEF IInv, Admit
    <3>2. index <= index'
      BY <3>1, FillIs
    <3> QED  BY <2>2, <3>1, <3>2
  <2>4. CASE AwaitArrival
    <3>1. UNCHANGED doneAt
      BY <2>4 DEF AwaitArrival
    <3>2. index <= index'
      <4>1. CASE index' = index
        BY <2>1, <4>1
      <4>2. CASE index' = index + Due(now')
        <5>1. now' \in Nat /\ TypeOK
          BY DEF IInv, TypeOK
        <5>2. PICK t \in Nat : t = now'
          BY <5>1
        <5>3. Due(t) \in Nat
          BY <5>1, DueIs
        <5> QED  BY <2>1, <4>2, <5>2, <5>3
      <4> QED  BY <2>4, <4>1, <4>2 DEF AwaitArrival
    <3> QED  BY <2>2, <3>1, <3>2
  <2>5. CASE RunSync
    BY <2>5, FinalizeCompletes DEF RunSync, A!Next
  <2>6. CASE FinishTbo
    BY <2>6, FinalizeCompletes DEF FinishTbo, A!Next
  <2>7. CASE Route \/ LeaveLoop \/ (\E h \in Half : ScheduleStage(h)) \/ UNCHANGED vars
    <3>1. UNCHANGED <<doneAt, index>>
      BY <2>7 DEF Route, LeaveLoop, ScheduleStage, vars, lifecycle
    <3>2. index <= index'
      BY <2>1, <3>1
    <3> QED  BY <2>2, <3>1, <3>2
  <2> QED  BY <2>3, <2>4, <2>5, <2>6, <2>7 DEF Next
<1> QED  BY <1>1, <1>2, Invariance, PTL DEF Spec, ImplementsAutoregressive, A!Spec
-----------------------------------------------------------------------------

(* The first request not admitted yet.                                     *)
FirstWaiting == arrived - Len(pending)

(* What a worker holds fits where it stands, one worker at a time          *)
(* delivers, and the fan-out of a token on its way is the number of its    *)
(* experts.                                                                *)
Shape ==
  /\ setup \in AsyncConfigs
  /\ work \in [Gpus -> [layer : Layers, batch : Seq(Tokens)]]
  /\ \A g \in Gpus : at[g] = "attention" => Len(work[g].batch) = 1
  /\ \A g, h \in Gpus : at[g] = "deliver" /\ at[h] = "deliver" => g = h
  /\ IsFiniteSet(routing) /\ routing \subseteq [token : Tokens, layer : Layers, experts : Routes]
  /\ \A d \in routing : fanout[d.token][d.layer] = Cardinality(d.experts)

(* The requests before FirstWaiting were admitted and the next ones wait,  *)
(* in their order; an active request awaits its next token; nothing waits  *)
(* while a place is free.                                                  *)
Admissions ==
  /\ Len(pending) <= arrived
  /\ \A i \in 1 .. Len(pending) : pending[i] = FirstWaiting + i - 1
  /\ \A r \in Requests : r \in Active <=> r < FirstWaiting /\ done[r] < TokensPerRequest
  /\ \A r \in Active : issued[r] = done[r] + 1 /\ homeOf[r] \in Gpus
  /\ \A r \in Requests : r >= FirstWaiting => done[r] = 0
  /\ Cardinality(Active) <= MaxActive
  /\ pending # <<>> => Cardinality(Active) = MaxActive

(* The queue length a worker keeps is that of its queues, and a sleeping   *)
(* worker with work is woken.                                              *)
Loads == \A g \in Gpus :
    /\ total[g] = Total([l \in Layers |-> LayerTotal(g, l)], Layers)
    /\ at[g] = "asleep" /\ ~woken[g] => total[g] = 0 /\ attnQ[g] = <<>>

(* The driver counts from the saturation on, and stops before a batch too  *)
(* many.                                                                   *)
InTime ==
  /\ satAt # None => /\ satAt \in Nat /\ setup.stopAfter \in Nat
                     /\ CompletedTokens - satAt < setup.stopAfter + MaxBatch
                     /\ \A g \in Gpus : at[g] = "deliver" =>
                          CompletedTokens + Len(work[g].batch) - satAt < setup.stopAfter + MaxBatch
  /\ stopped => satAt # None /\ CompletedTokens - satAt >= setup.stopAfter

(* The inductive invariant of the asynchronous simulator.                  *)
AsyncIInv == AsyncTypeOK /\ Shape /\ Admissions /\ TokenInOnePlace /\ Loads /\ InTime

-----------------------------------------------------------------------------

(* The sets of the model, from its assumptions.                            *)
LEMMA AsyncSets ==
  /\ IsFiniteSet(Requests) /\ IsFiniteSet(Gpus) /\ IsFiniteSet(Layers) /\ IsFiniteSet(LocalExperts)
  /\ NumRequests \in Nat /\ TokensPerRequest \in Nat \ {0} /\ MaxActive \in Nat \ {0}
  /\ NumGpus \in Nat \ {0} /\ NumLayers \in Nat \ {0} /\ ExpertsPerGpu \in Nat \ {0}
  /\ MaxBatch \in Nat \ {0} /\ TopK \in Nat
<1>1. /\ NumRequests \in Nat /\ TokensPerRequest \in Nat \ {0} /\ MaxActive \in Nat \ {0}
      /\ NumGpus \in Nat \ {0} /\ NumLayers \in Nat \ {0} /\ ExpertsPerGpu \in Nat \ {0}
      /\ MaxBatch \in Nat \ {0} /\ TopK \in Nat
  BY ClusterAssumption, AsyncAssumption
<1>2. \A n \in Nat : n - 1 \in Int
  OBVIOUS
<1>3. \A n \in Nat : IsFiniteSet(0 .. n - 1)
  BY <1>2, FS_Interval
<1> QED  BY <1>1, <1>3 DEF Requests, Gpus, Layers, LocalExperts

(* A chosen set of experts: finite, not empty, at most TopK of them.       *)
LEMMA RouteIs ==
  ASSUME NEW E \in Routes
  PROVE  E \subseteq Experts /\ IsFiniteSet(E) /\ Cardinality(E) \in 1 .. TopK
<1>1. E # {} /\ E \subseteq Experts /\ Cardinality(E) <= TopK
  BY ClusterAssumption, AsyncAssumption
<1>2. IsFiniteSet(Experts)
  <2>1. NumGpus \in Nat /\ ExpertsPerGpu \in Nat
    BY AsyncSets
  <2>2. NumGpus * ExpertsPerGpu \in Nat
    BY <2>1
  <2>3. NumGpus * ExpertsPerGpu - 1 \in Int
    BY <2>2
  <2> QED  BY <2>3, FS_Interval DEF Experts
<1>3. IsFiniteSet(E) /\ Cardinality(E) \in Nat /\ Cardinality(E) # 0
  BY <1>1, <1>2, FS_Subset, FS_CardinalityType, FS_EmptySet
<1> QED  BY <1>1, <1>3, AsyncSets

-----------------------------------------------------------------------------
(* Occurrences are hits.                                                   *)
TokenOf(t) == Layers \X {t}

LEMMA OccurrencesAre == ASSUME NEW x, NEW s PROVE Occurrences(x, s) = Hits(s, {x})
<1>1. {i \in DOMAIN s : s[i] = x} = {i \in DOMAIN s : s[i] \in {x}}
  OBVIOUS
<1> QED  BY <1>1 DEF Occurrences, Hits

LEMMA AttentionHits ==
  ASSUME NEW q \in Seq(Layers \X Tokens), NEW t
  PROVE  Cardinality({i \in DOMAIN q : q[i][2] = t}) = Hits(q, TokenOf(t))
<1>1. \A i \in DOMAIN q : q[i] \in Layers \X Tokens
  BY LenProperties
<1>2. \A i \in DOMAIN q : q[i][2] = t <=> q[i] \in TokenOf(t)
  BY <1>1 DEF TokenOf
<1>3. {i \in DOMAIN q : q[i][2] = t} = {i \in DOMAIN q : q[i] \in TokenOf(t)}
  BY <1>2
<1> QED  BY <1>3 DEF Hits

-----------------------------------------------------------------------------
(* Attention work for one token joins the queue of one GPU.                *)
JoinAttention(l, t, g) ==
  /\ attnQ' = [attnQ EXCEPT ![g] = Append(@, <<l, t>>)]
  /\ woken' = [h \in Gpus |-> woken[h] \/ (h = g /\ NoWork(h))]
  /\ UNCHANGED <<queue, total>>

(* QueueAttention for one token.                                           *)
LEMMA QueueOne ==
  ASSUME attnQ \in [Gpus -> Seq(Layers \X Tokens)],
         NEW l \in Layers, NEW t \in Tokens, NEW g \in Gpus, QueueAttention(l, <<t>>, <<g>>)
  PROVE  JoinAttention(l, t, g)
<1> DEFINE row(h) == [i \in DOMAIN <<t>> |-> IF <<g>>[i] = h THEN <<<<l, <<t>>[i]>>>> ELSE <<>>]
           add(h) == FlattenSeq(row(h))
<1>1. /\ attnQ' = [h \in Gpus |-> attnQ[h] \o add(h)]
      /\ woken' = [h \in Gpus |-> woken[h] \/ (add(h) # <<>> /\ NoWork(h))]
      /\ UNCHANGED <<queue, total>>
  BY DEF QueueAttention
<1>2. add(g) = <<<<l, t>>>>
  <2>1. row(g) = <<<<<<l, t>>>>>>
    OBVIOUS
  <2>2. <<<<l, t>>>> \in Seq(Layers \X Tokens)
    OBVIOUS
  <2> HIDE DEF row
  <2> QED  BY <2>1, <2>2, FlattenOne
<1>3. ASSUME NEW h \in Gpus, h # g PROVE add(h) = <<>>
  <2>1. row(h) = << <<>> >>
    BY <1>3
  <2>2. <<>> \in Seq(Layers \X Tokens)
    BY EmptySeq
  <2> HIDE DEF row
  <2> QED  BY <2>1, <2>2, FlattenOne
<1> HIDE DEF add
<1>4. attnQ' = [attnQ EXCEPT ![g] = Append(@, <<l, t>>)]
  <2>1. attnQ[g] \o <<<<l, t>>>> = Append(attnQ[g], <<l, t>>)
    <3>1. attnQ[g] \in Seq(Layers \X Tokens) /\ <<l, t>> \in Layers \X Tokens
      OBVIOUS
    <3> QED  BY <3>1, AppendIsConcat
  <2>2. \A h \in Gpus : h # g => attnQ[h] \o add(h) = attnQ[h]
    <3>1. \A h \in Gpus : attnQ[h] \in Seq(Layers \X Tokens)
      OBVIOUS
    <3>2. \A s \in Seq(Layers \X Tokens) : s \o <<>> = s
      BY ConcatEmptySeq
    <3> QED  BY <1>3, <3>1, <3>2
  <2> QED  BY <1>1, <1>2, <2>1, <2>2
<1>5. woken' = [h \in Gpus |-> woken[h] \/ (h = g /\ NoWork(h))]
  <2>1. \A h \in Gpus : add(h) # <<>> <=> h = g
    <3>1. <<<<l, t>>>> # <<>>
      OBVIOUS
    <3> QED  BY <1>2, <1>3, <3>1
  <2> QED  BY <1>1, <2>1
<1> QED  BY <1>1, <1>4, <1>5 DEF JoinAttention

(* QueueAttention for none.                                                *)
LEMMA QueueNone ==
  ASSUME attnQ \in [Gpus -> Seq(Layers \X Tokens)], woken \in [Gpus -> BOOLEAN],
         NEW l, NEW gpu, QueueAttention(l, <<>>, gpu)
  PROVE  UNCHANGED <<attnQ, woken, queue, total>>
<1> DEFINE row(h) == [i \in DOMAIN <<>> |-> IF gpu[i] = h THEN <<<<l, <<>>[i]>>>> ELSE <<>>]
           add(h) == FlattenSeq(row(h))
<1>1. /\ attnQ' = [h \in Gpus |-> attnQ[h] \o add(h)]
      /\ woken' = [h \in Gpus |-> woken[h] \/ (add(h) # <<>> /\ NoWork(h))]
      /\ UNCHANGED <<queue, total>>
  BY DEF QueueAttention
<1>2. \A h : add(h) = <<>>
  <2>1. \A h : row(h) = <<>>
    OBVIOUS
  <2> HIDE DEF row
  <2> QED  BY <2>1, FlattenEmpty
<1> HIDE DEF add
<1>3. \A h \in Gpus : attnQ[h] \o <<>> = attnQ[h]
  <2>1. \A h \in Gpus : attnQ[h] \in Seq(Layers \X Tokens)
    OBVIOUS
  <2> QED  BY <2>1, ConcatEmptySeq
<1> QED  BY <1>1, <1>2, <1>3

(* One request starts: its first token awaits attention.                   *)
StartsOne(r, left) ==
  /\ issued' = [q \in Requests |-> IF q = r THEN 1 ELSE left[q]]
  /\ homeOf' = [q \in Requests |-> IF q = r THEN nextHome % NumGpus
                                   ELSE IF left[q] = None THEN None ELSE homeOf[q]]
  /\ nextHome % NumGpus \in Gpus /\ nextHome' = nextHome + 1
  /\ JoinAttention(0, <<r, 0>>, nextHome % NumGpus)

(* Start for one request.                                                  *)
LEMMA StartOne ==
  ASSUME AsyncTypeOK, NEW r \in Requests, NEW left, Start(<<r>>, left)
  PROVE  StartsOne(r, left)
<1>1. /\ attnQ \in [Gpus -> Seq(Layers \X Tokens)] /\ nextHome \in Nat
      /\ NumGpus \in Nat \ {0} /\ NumLayers \in Nat \ {0} /\ TokensPerRequest \in Nat \ {0}
  BY AsyncSets DEF AsyncTypeOK
<1>2. nextHome % NumGpus \in Gpus /\ 0 \in Layers /\ <<r, 0>> \in Tokens
  BY <1>1 DEF Gpus, Layers, Tokens
<1> DEFINE gpu == [i \in DOMAIN <<r>> |-> (nextHome + i - 1) % NumGpus]
           pos(q) == CHOOSE i \in DOMAIN <<r>> : <<r>>[i] = q
<1>3. /\ issued' = [q \in Requests |-> IF q \in Range(<<r>>) THEN 1 ELSE left[q]]
      /\ homeOf' = [q \in Requests |-> IF q \in Range(<<r>>) THEN gpu[pos(q)]
                                       ELSE IF left[q] = None THEN None ELSE homeOf[q]]
      /\ nextHome' = nextHome + Len(<<r>>)
      /\ QueueAttention(0, [i \in DOMAIN <<r>> |-> <<<<r>>[i], 0>>], gpu)
  BY DEF Start
<1>4. Range(<<r>>) = {r} /\ pos(r) = 1 /\ Len(<<r>>) = 1
  BY DEF Range
<1>5. gpu = <<nextHome % NumGpus>> /\ gpu[1] = nextHome % NumGpus
  <2>1. nextHome + 1 - 1 = nextHome
    BY <1>1
  <2>2. DOMAIN <<r>> = {1}
    OBVIOUS
  <2>3. \A i \in {1} : nextHome + i - 1 = nextHome
    BY <1>1
  <2>4. gpu = [i \in {1} |-> nextHome % NumGpus]
    BY <2>2, <2>3
  <2> HIDE DEF gpu
  <2> QED  BY <2>4
<1>6. [i \in DOMAIN <<r>> |-> <<<<r>>[i], 0>>] = <<<<r, 0>>>>
  OBVIOUS
<1> HIDE DEF gpu, pos
<1>7. QueueAttention(0, <<<<r, 0>>>>, <<nextHome % NumGpus>>)
  BY <1>3, <1>5, <1>6
<1>8. JoinAttention(0, <<r, 0>>, nextHome % NumGpus)
  BY <1>1, <1>2, <1>7, QueueOne
<1>9. /\ issued' = [q \in Requests |-> IF q = r THEN 1 ELSE left[q]]
      /\ homeOf' = [q \in Requests |-> IF q = r THEN nextHome % NumGpus
                                       ELSE IF left[q] = None THEN None ELSE homeOf[q]]
  BY <1>3, <1>4, <1>5
<1> QED  BY <1>2, <1>3, <1>4, <1>8, <1>9 DEF StartsOne

(* Start for none.                                                         *)
LEMMA StartNone ==
  ASSUME AsyncTypeOK, NEW left, Start(<<>>, left)
  PROVE  /\ issued' = [q \in Requests |-> left[q]]
         /\ homeOf' = [q \in Requests |-> IF left[q] = None THEN None ELSE homeOf[q]]
         /\ nextHome' = nextHome
         /\ UNCHANGED <<attnQ, woken, queue, total>>
<1> DEFINE gpu == [i \in DOMAIN <<>> |-> (nextHome + i - 1) % NumGpus]
           pos(q) == CHOOSE i \in DOMAIN <<>> : <<>>[i] = q
<1>1. /\ issued' = [q \in Requests |-> IF q \in Range(<<>>) THEN 1 ELSE left[q]]
      /\ homeOf' = [q \in Requests |-> IF q \in Range(<<>>) THEN gpu[pos(q)]
                                       ELSE IF left[q] = None THEN None ELSE homeOf[q]]
      /\ nextHome' = nextHome + Len(<<>>)
      /\ QueueAttention(0, [i \in DOMAIN <<>> |-> <<<<>>[i], 0>>], gpu)
  BY DEF Start
<1> HIDE DEF gpu, pos
<1>2. Range(<<>>) = {} /\ Len(<<>>) = 0
  BY DEF Range
<1>3. [i \in DOMAIN <<>> |-> <<<<>>[i], 0>>] = <<>>
  OBVIOUS
<1>4. UNCHANGED <<attnQ, woken, queue, total>>
  BY <1>1, <1>3, QueueNone DEF AsyncTypeOK
<1> QED  BY <1>1, <1>2, <1>4 DEF AsyncTypeOK

-----------------------------------------------------------------------------
(* One GPU: its attention, its copies and its load, by its queues, where   *)
(* its worker stands and what that works on.                               *)
Computing == {"expert", "return", "deliver"}

(* How often a token is in or waits for attention on a GPU.                *)
AttnCount(q, stand, batch, t) ==
  Cardinality({i \in DOMAIN q : q[i][2] = t})
  + IF stand = "attention" THEN Occurrences(t, batch) ELSE 0

(* How many copies of a token a GPU has at a layer.                        *)
CopyCount(qs, stand, w, t, l) ==
  Total([x \in LocalExperts |-> Occurrences(t, qs[<<l, x>>])], LocalExperts)
  + IF stand \in Computing /\ w.layer = l THEN Occurrences(t, w.batch) ELSE 0

WaitingCopies(qs, t, l) == Total([x \in LocalExperts |-> Hits(qs[<<l, x>>], {t})], LocalExperts)

WorkedCopies(stand, w, t, l) ==
  IF stand \in Computing /\ w.layer = l THEN Hits(w.batch, {t}) ELSE 0

LayerLoad(qs, l) == Total([x \in LocalExperts |-> Len(qs[<<l, x>>])], LocalExperts)
LoadOf(qs)       == Total([l \in Layers |-> LayerLoad(qs, l)], Layers)

AttnQueues == Seq(Layers \X Tokens)
Batches    == Seq(Tokens)
Works      == [layer : Layers, batch : Batches]

LEMMA AttnCountIs ==
  ASSUME NEW q \in AttnQueues, NEW stand, NEW batch \in Batches, NEW t
  PROVE  /\ AttnCount(q, stand, batch, t)
              = Hits(q, TokenOf(t)) + IF stand = "attention" THEN Hits(batch, {t}) ELSE 0
         /\ Hits(q, TokenOf(t)) \in Nat /\ Hits(batch, {t}) \in Nat
         /\ AttnCount(q, stand, batch, t) \in Nat
<1>1. Hits(q, TokenOf(t)) \in Nat /\ Hits(batch, {t}) \in Nat
  BY HitsType DEF AttnQueues, Batches
<1>2. Cardinality({i \in DOMAIN q : q[i][2] = t}) = Hits(q, TokenOf(t)) /\ Occurrences(t, batch) = Hits(batch, {t})
  BY AttentionHits, OccurrencesAre DEF AttnQueues
<1>3. AttnCount(q, stand, batch, t) = Hits(q, TokenOf(t)) + IF stand = "attention" THEN Hits(batch, {t}) ELSE 0
  BY <1>2, Zenon DEF AttnCount
<1> QED  BY <1>1, <1>3

LEMMA AttnCountAppend ==
  ASSUME NEW q \in AttnQueues, NEW stand, NEW batch \in Batches, NEW t,
         NEW l \in Layers, NEW u \in Tokens
  PROVE  /\ Append(q, <<l, u>>) \in AttnQueues
         /\ AttnCount(Append(q, <<l, u>>), stand, batch, t)
              = AttnCount(q, stand, batch, t) + IF t = u THEN 1 ELSE 0
<1>1. <<l, u>> \in Layers \X Tokens /\ (<<l, u>> \in TokenOf(t) <=> t = u)
  BY DEF TokenOf
<1>2. Append(q, <<l, u>>) \in AttnQueues
  BY <1>1, AppendProperties DEF AttnQueues
<1>3. Hits(Append(q, <<l, u>>), TokenOf(t)) = Hits(q, TokenOf(t)) + IF <<l, u>> \in TokenOf(t) THEN 1 ELSE 0
  BY <1>1, HitsAppend DEF AttnQueues
<1>4. /\ AttnCount(q, stand, batch, t)
           = Hits(q, TokenOf(t)) + IF stand = "attention" THEN Hits(batch, {t}) ELSE 0
      /\ AttnCount(Append(q, <<l, u>>), stand, batch, t)
           = Hits(Append(q, <<l, u>>), TokenOf(t)) + IF stand = "attention" THEN Hits(batch, {t}) ELSE 0
      /\ Hits(q, TokenOf(t)) \in Nat /\ Hits(batch, {t}) \in Nat
  BY <1>2, AttnCountIs
<1> QED  BY <1>1, <1>2, <1>3, <1>4

(* Hits in a batch of one token.                                           *)
LEMMA HitsOne ==
  ASSUME NEW S, NEW x \in S, NEW T
  PROVE  <<x>> \in Seq(S) /\ Hits(<<x>>, T) = IF x \in T THEN 1 ELSE 0
<1>1. <<>> \in Seq(S) /\ Append(<<>>, x) = <<x>> /\ <<x>> \in Seq(S)
  OBVIOUS
<1>2. \A q \in Seq(S) : Hits(Append(q, x), T) = Hits(q, T) + IF x \in T THEN 1 ELSE 0
  BY HitsAppend
<1>3. Hits(Append(<<>>, x), T) = Hits(<<>>, T) + IF x \in T THEN 1 ELSE 0
  BY <1>1, <1>2, Zenon
<1> QED  BY <1>1, <1>3, HitsEmpty

(* The worker takes the head of its attention queue.                       *)
LEMMA AttnCountTake ==
  ASSUME NEW q \in AttnQueues, q # <<>>, NEW stand, stand # "attention", NEW batch \in Batches, NEW t
  PROVE  /\ Tail(q) \in AttnQueues /\ Head(q) \in Layers \X Tokens
         /\ <<Head(q)[2]>> \in Batches
         /\ AttnCount(Tail(q), "attention", <<Head(q)[2]>>, t) = AttnCount(q, stand, batch, t)
<1>1. Tail(q) \in AttnQueues /\ Head(q) \in Layers \X Tokens
  BY HeadTailProperties DEF AttnQueues
<1>2. Head(q)[2] \in Tokens /\ (Head(q) \in TokenOf(t) <=> Head(q)[2] = t)
  BY <1>1 DEF TokenOf
<1>3. /\ <<Head(q)[2]>> \in Batches
      /\ Hits(<<Head(q)[2]>>, {t}) = IF Head(q)[2] \in {t} THEN 1 ELSE 0
  BY <1>2, HitsOne DEF Batches
<1>4. Hits(q, TokenOf(t)) = Hits(Tail(q), TokenOf(t)) + IF Head(q) \in TokenOf(t) THEN 1 ELSE 0
  BY HitsTail DEF AttnQueues
<1>5. /\ AttnCount(q, stand, batch, t) = Hits(q, TokenOf(t)) + 0
      /\ AttnCount(Tail(q), "attention", <<Head(q)[2]>>, t)
           = Hits(Tail(q), TokenOf(t)) + Hits(<<Head(q)[2]>>, {t})
      /\ Hits(q, TokenOf(t)) \in Nat /\ Hits(Tail(q), TokenOf(t)) \in Nat
  BY <1>1, <1>3, AttnCountIs
<1> QED  BY <1>1, <1>2, <1>3, <1>4, <1>5

(* The worker is done with the token in attention.                         *)
LEMMA AttnCountDone ==
  ASSUME NEW q \in AttnQueues, NEW batch \in Batches, Len(batch) = 1, NEW idle \in Batches, NEW t
  PROVE  /\ batch[1] \in Tokens
         /\ AttnCount(q, "attention", batch, t)
              = AttnCount(q, "top", idle, t) + IF t = batch[1] THEN 1 ELSE 0
<1>1. batch[1] \in Tokens /\ batch = <<batch[1]>>
  <2>1. batch \in Seq(Tokens)
    BY DEF Batches
  <2>2. 1 \in DOMAIN batch /\ batch[1] \in Tokens
    BY <2>1, LenProperties
  <2> QED  BY <2>1, <2>2
<1>2. Hits(<<batch[1]>>, {t}) = IF batch[1] \in {t} THEN 1 ELSE 0
  BY <1>1, HitsOne
<1>3. Hits(batch, {t}) = IF t = batch[1] THEN 1 ELSE 0
  BY <1>1, <1>2
<1>4. /\ AttnCount(q, "attention", batch, t) = Hits(q, TokenOf(t)) + Hits(batch, {t})
      /\ AttnCount(q, "top", idle, t) = Hits(q, TokenOf(t)) + 0
      /\ Hits(q, TokenOf(t)) \in Nat
  BY AttnCountIs
<1> QED  BY <1>1, <1>3, <1>4

LEMMA CopyCountIs ==
  ASSUME NEW qs \in [Queues -> Batches], NEW stand, NEW w \in Works, NEW t, NEW l \in Layers
  PROVE  /\ CopyCount(qs, stand, w, t, l) = WaitingCopies(qs, t, l) + WorkedCopies(stand, w, t, l)
         /\ WaitingCopies(qs, t, l) \in Nat /\ WorkedCopies(stand, w, t, l) \in Nat
         /\ CopyCount(qs, stand, w, t, l) \in Nat
<1>1. \A x \in LocalExperts : qs[<<l, x>>] \in Batches
  BY DEF Queues
<1>2. \A x \in LocalExperts : Hits(qs[<<l, x>>], {t}) \in Nat
  BY <1>1, HitsType DEF Batches
<1>3. w.batch \in Batches /\ Hits(w.batch, {t}) \in Nat
  BY HitsType DEF Batches, Works
<1>4. WorkedCopies(stand, w, t, l) \in Nat
  BY <1>3 DEF WorkedCopies
<1> DEFINE f == [x \in LocalExperts |-> Hits(qs[<<l, x>>], {t})]
           h == [x \in LocalExperts |-> Occurrences(t, qs[<<l, x>>])]
<1>5. h = f
  BY OccurrencesAre
<1>6. WaitingCopies(qs, t, l) = Total(f, LocalExperts) /\ Total(f, LocalExperts) \in Nat
  <2>1. \A x \in LocalExperts : f[x] \in Nat
    BY <1>2
  <2>2. WaitingCopies(qs, t, l) = Total(f, LocalExperts)
    BY DEF WaitingCopies
  <2> HIDE DEF f
  <2> QED  BY <2>1, <2>2, AsyncSets, TotalType
<1>7. CopyCount(qs, stand, w, t, l) = Total(f, LocalExperts) + WorkedCopies(stand, w, t, l)
  <2>1. CopyCount(qs, stand, w, t, l)
          = Total(h, LocalExperts) + IF stand \in Computing /\ w.layer = l THEN Occurrences(t, w.batch) ELSE 0
    BY DEF CopyCount
  <2>2. Occurrences(t, w.batch) = Hits(w.batch, {t})
    BY OccurrencesAre
  <2> HIDE DEF f, h
  <2> QED  BY <1>5, <2>1, <2>2 DEF WorkedCopies
<1> HIDE DEF f, h
<1> QED  BY <1>4, <1>6, <1>7

(* A worker that computes nothing has only its queues.                     *)
LEMMA CopyCountIdle ==
  ASSUME NEW qs \in [Queues -> Batches], NEW stand, stand \notin Computing,
         NEW stand2, NEW w \in Works, NEW w2 \in Works,
         stand2 \notin Computing \/ w2.batch = <<>>, NEW t, NEW l \in Layers
  PROVE  CopyCount(qs, stand, w, t, l) = CopyCount(qs, stand2, w2, t, l)
<1>1. WorkedCopies(stand, w, t, l) = 0 /\ WorkedCopies(stand2, w2, t, l) = 0
  BY HitsEmpty DEF WorkedCopies
<1>2. /\ CopyCount(qs, stand, w, t, l) = WaitingCopies(qs, t, l) + WorkedCopies(stand, w, t, l)
      /\ CopyCount(qs, stand2, w2, t, l) = WaitingCopies(qs, t, l) + WorkedCopies(stand2, w2, t, l)
  BY CopyCountIs
<1> QED  BY <1>1, <1>2

(* The reply for the first token of a batch is delivered.                  *)
LEMMA CopyCountHead ==
  ASSUME NEW qs \in [Queues -> Batches], NEW w \in Works, w.batch # <<>>, NEW t, NEW l \in Layers,
         NEW w2 \in Works, w2.layer = w.layer, w2.batch = Tail(w.batch)
  PROVE  /\ Head(w.batch) \in Tokens
         /\ CopyCount(qs, "deliver", w, t, l)
              = CopyCount(qs, "deliver", w2, t, l) + IF t = Head(w.batch) /\ l = w.layer THEN 1 ELSE 0
<1>1. w.batch \in Batches /\ Tail(w.batch) \in Batches /\ Head(w.batch) \in Tokens
  BY HeadTailProperties DEF Works, Batches
<1>2. Hits(w.batch, {t}) = Hits(Tail(w.batch), {t}) + IF Head(w.batch) \in {t} THEN 1 ELSE 0
  BY <1>1, HitsTail DEF Batches
<1>3. Hits(Tail(w.batch), {t}) \in Nat
  BY <1>1, HitsType DEF Batches
<1>4. WorkedCopies("deliver", w, t, l)
        = WorkedCopies("deliver", w2, t, l) + IF t = Head(w.batch) /\ l = w.layer THEN 1 ELSE 0
  BY <1>2, <1>3 DEF WorkedCopies, Computing
<1>5. /\ CopyCount(qs, "deliver", w, t, l) = WaitingCopies(qs, t, l) + WorkedCopies("deliver", w, t, l)
      /\ CopyCount(qs, "deliver", w2, t, l) = WaitingCopies(qs, t, l) + WorkedCopies("deliver", w2, t, l)
      /\ WaitingCopies(qs, t, l) \in Nat /\ WorkedCopies("deliver", w2, t, l) \in Nat
  BY CopyCountIs
<1> QED  BY <1>1, <1>4, <1>5

LEMMA LoadType ==
  ASSUME NEW qs \in [Queues -> Batches]
  PROVE  /\ \A l \in Layers : \A x \in LocalExperts : qs[<<l, x>>] \in Batches /\ Len(qs[<<l, x>>]) \in Nat
         /\ \A l \in Layers : LayerLoad(qs, l) \in Nat
         /\ LoadOf(qs) \in Nat
<1>1. \A l \in Layers : \A x \in LocalExperts : qs[<<l, x>>] \in Batches
  BY DEF Queues
<1>2. \A l \in Layers : \A x \in LocalExperts : Len(qs[<<l, x>>]) \in Nat
  BY <1>1, LenProperties DEF Batches
<1>3. \A l \in Layers : LayerLoad(qs, l) \in Nat
  <2> SUFFICES ASSUME NEW l \in Layers PROVE LayerLoad(qs, l) \in Nat
    OBVIOUS
  <2> DEFINE f == [x \in LocalExperts |-> Len(qs[<<l, x>>])]
  <2>1. \A x \in LocalExperts : f[x] \in Nat
    BY <1>2
  <2>2. LayerLoad(qs, l) = Total(f, LocalExperts)
    BY DEF LayerLoad
  <2> HIDE DEF f
  <2> QED  BY <2>1, <2>2, AsyncSets, TotalType
<1>4. LoadOf(qs) \in Nat
  <2> DEFINE f == [l \in Layers |-> LayerLoad(qs, l)]
  <2>1. \A l \in Layers : f[l] \in Nat
    BY <1>3
  <2>2. LoadOf(qs) = Total(f, Layers)
    BY DEF LoadOf
  <2> HIDE DEF f
  <2> QED  BY <2>1, <2>2, AsyncSets, TotalType
<1> QED  BY <1>1, <1>2, <1>3, <1>4

(* Only one layer's load changes.                                          *)
LEMMA LoadAtOneLayer ==
  ASSUME NEW qs \in [Queues -> Batches], NEW qs2 \in [Queues -> Batches], NEW l \in Layers,
         \A q \in Queues : q[1] # l => qs2[q] = qs[q]
  PROVE  LoadOf(qs2) + LayerLoad(qs, l) = LoadOf(qs) + LayerLoad(qs2, l)
<1>1. \A k \in Layers : k # l => LayerLoad(qs2, k) = LayerLoad(qs, k)
  <2> SUFFICES ASSUME NEW k \in Layers, k # l PROVE LayerLoad(qs2, k) = LayerLoad(qs, k)
    OBVIOUS
  <2>1. \A x \in LocalExperts : qs2[<<k, x>>] = qs[<<k, x>>]
    BY DEF Queues
  <2> QED  BY <2>1 DEF LayerLoad
<1> DEFINE f == [k \in Layers |-> LayerLoad(qs, k)]
           h == [k \in Layers |-> LayerLoad(qs2, k)]
<1>2. \A k \in Layers : f[k] \in Nat /\ h[k] \in Nat
  BY LoadType
<1>3. \A k \in Layers : k # l => h[k] = f[k]
  BY <1>1
<1>4. /\ f[l] = LayerLoad(qs, l) /\ h[l] = LayerLoad(qs2, l)
      /\ LoadOf(qs) = Total(f, Layers) /\ LoadOf(qs2) = Total(h, Layers)
  BY DEF LoadOf
<1> HIDE DEF f, h
<1>5. Total(h, Layers) + f[l] = Total(f, Layers) + h[l]
  BY <1>2, <1>3, AsyncSets, TotalPoint
<1> QED  BY <1>4, <1>5

-----------------------------------------------------------------------------
(* A batch takes a share of each queue of a layer.                         *)
TakeShares(qs, l, share) ==
  [q \in Queues |-> IF q[1] = l THEN SubSeq(qs[q], share[q[2]] + 1, Len(qs[q])) ELSE qs[q]]

BatchOf(qs, l, share) ==
  FlattenSeq([i \in 1 .. ExpertsPerGpu |-> SubSeq(qs[<<l, i - 1>>], 1, share[i - 1])])

(* Each share and what it leaves make up the queue.                        *)
SharesLeave(qs, rest, l, share) ==
  /\ rest \in [Queues -> Batches]
  /\ \A q \in Queues : q[1] # l => rest[q] = qs[q]
  /\ \A x \in LocalExperts :
       /\ SubSeq(qs[<<l, x>>], 1, share[x]) \in Batches
       /\ Len(SubSeq(qs[<<l, x>>], 1, share[x])) = share[x]
       /\ Len(rest[<<l, x>>]) = Len(qs[<<l, x>>]) - share[x]
       /\ \A t : Hits(qs[<<l, x>>], {t})
                  = Hits(SubSeq(qs[<<l, x>>], 1, share[x]), {t}) + Hits(rest[<<l, x>>], {t})

LEMMA TakeSharesIs ==
  ASSUME NEW qs \in [Queues -> Batches], NEW l \in Layers, NEW share,
         \A x \in LocalExperts : share[x] \in 0 .. Len(qs[<<l, x>>])
  PROVE  SharesLeave(qs, TakeShares(qs, l, share), l, share)
<1>1. \A q \in Queues : /\ qs[q] \in Batches /\ q[1] \in Layers /\ q[2] \in LocalExperts
                        /\ q = <<q[1], q[2]>>
  BY DEF Queues
<1>2. ASSUME NEW q \in Queues, q[1] = l
      PROVE  /\ SubSeq(qs[q], share[q[2]] + 1, Len(qs[q])) \in Batches
             /\ SubSeq(qs[q], 1, share[q[2]]) \in Batches
             /\ Len(SubSeq(qs[q], 1, share[q[2]])) = share[q[2]]
             /\ Len(SubSeq(qs[q], share[q[2]] + 1, Len(qs[q]))) = Len(qs[q]) - share[q[2]]
             /\ \A t : Hits(qs[q], {t}) = Hits(SubSeq(qs[q], 1, share[q[2]]), {t})
                         + Hits(SubSeq(qs[q], share[q[2]] + 1, Len(qs[q])), {t})
  <2>1. share[q[2]] \in 0 .. Len(qs[q]) /\ qs[q] \in Seq(Tokens)
    BY <1>1, <1>2 DEF Batches
  <2>2. PICK s \in Seq(Tokens) : s = qs[q]
    BY <2>1
  <2> PICK n \in 0 .. Len(s) : n = share[q[2]]
    BY <2>1, <2>2
  <2>3. /\ SubSeq(s, 1, n) \in Seq(Tokens) /\ SubSeq(s, n + 1, Len(s)) \in Seq(Tokens)
        /\ Len(SubSeq(s, 1, n)) = n /\ Len(SubSeq(s, n + 1, Len(s))) = Len(s) - n
        /\ \A t : Hits(s, {t}) = Hits(SubSeq(s, 1, n), {t}) + Hits(SubSeq(s, n + 1, Len(s)), {t})
    BY SplitAt, HitsSplit
  <2> QED  BY <2>2, <2>3, Zenon DEF Batches
<1>3. TakeShares(qs, l, share) \in [Queues -> Batches]
  BY <1>1, <1>2 DEF TakeShares
<1>4. \A q \in Queues : q[1] # l => TakeShares(qs, l, share)[q] = qs[q]
  BY DEF TakeShares
<1>5. ASSUME NEW x \in LocalExperts
      PROVE  /\ <<l, x>> \in Queues
             /\ TakeShares(qs, l, share)[<<l, x>>] = SubSeq(qs[<<l, x>>], share[x] + 1, Len(qs[<<l, x>>]))
  BY DEF TakeShares, Queues
<1>6. ASSUME NEW x \in LocalExperts, NEW t
      PROVE  /\ SubSeq(qs[<<l, x>>], 1, share[x]) \in Batches
             /\ Len(SubSeq(qs[<<l, x>>], 1, share[x])) = share[x]
             /\ Len(TakeShares(qs, l, share)[<<l, x>>]) = Len(qs[<<l, x>>]) - share[x]
             /\ Hits(qs[<<l, x>>], {t}) = Hits(SubSeq(qs[<<l, x>>], 1, share[x]), {t})
                                           + Hits(TakeShares(qs, l, share)[<<l, x>>], {t})
  <2>1. PICK q \in Queues : q = <<l, x>> /\ q[1] = l /\ q[2] = x
    BY <1>5
  <2>2. TakeShares(qs, l, share)[q] = SubSeq(qs[q], share[x] + 1, Len(qs[q]))
    BY <1>5, <2>1
  <2> QED  BY <1>2, <2>1, <2>2, Zenon
<1> QED  BY <1>3, <1>4, <1>6 DEF SharesLeave

LEMMA BatchOfIs ==
  ASSUME NEW qs \in [Queues -> Batches], NEW l \in Layers, NEW share,
         \A x \in LocalExperts : share[x] \in 0 .. Len(qs[<<l, x>>])
  PROVE  /\ BatchOf(qs, l, share) \in Batches
         /\ Len(BatchOf(qs, l, share)) = Total(share, LocalExperts)
         /\ \A t : WaitingCopies(TakeShares(qs, l, share), t, l) + Hits(BatchOf(qs, l, share), {t})
                     = WaitingCopies(qs, t, l)
<1> DEFINE F == [x \in LocalExperts |-> SubSeq(qs[<<l, x>>], 1, share[x])]
           rest == TakeShares(qs, l, share)
<1> HIDE DEF rest
<1>0. SharesLeave(qs, rest, l, share)
  BY TakeSharesIs DEF rest
<1>1. /\ rest \in [Queues -> Batches]
      /\ \A x \in LocalExperts :
           /\ F[x] \in Batches /\ Len(F[x]) = share[x]
           /\ \A t : Hits(qs[<<l, x>>], {t}) = Hits(F[x], {t}) + Hits(rest[<<l, x>>], {t})
  BY <1>0 DEF SharesLeave
<1>2. ExpertsPerGpu \in Nat /\ \A x \in 0 .. ExpertsPerGpu - 1 : F[x] \in Seq(Tokens)
  BY <1>1, AsyncSets DEF LocalExperts, Batches
<1>3. BatchOf(qs, l, share) = FlattenSeq([i \in 1 .. ExpertsPerGpu |-> F[i - 1]])
  <2>1. \A i \in 1 .. ExpertsPerGpu : i - 1 \in LocalExperts
    BY <1>2 DEF LocalExperts
  <2>2. \A i \in 1 .. ExpertsPerGpu : F[i - 1] = SubSeq(qs[<<l, i - 1>>], 1, share[i - 1])
    BY <2>1
  <2>3. [i \in 1 .. ExpertsPerGpu |-> F[i - 1]]
          = [i \in 1 .. ExpertsPerGpu |-> SubSeq(qs[<<l, i - 1>>], 1, share[i - 1])]
    BY <2>2
  <2> HIDE DEF F
  <2> QED  BY <2>3 DEF BatchOf
<1> HIDE DEF F
<1>4. PICK all : all = FlattenSeq([i \in 1 .. ExpertsPerGpu |-> F[i - 1]])
  OBVIOUS
<1>5. IsRow(all, F, ExpertsPerGpu, Tokens)
  BY <1>2, <1>4 DEF IsRow
<1>6. ASSUME NEW t, NEW h, \A x \in LocalExperts : h[x] = Hits(F[x], {t})
      PROVE  all \in Seq(Tokens) /\ Hits(all, {t}) = Total(h, LocalExperts) /\ Len(all) = Total(share, LocalExperts)
  <2>1. HitsOfRow(h, F, LocalExperts, {t}) /\ LensOfRow(share, F, LocalExperts)
    BY <1>1, <1>6 DEF HitsOfRow, LensOfRow
  <2>2. ExpertsPerGpu \in Nat /\ LocalExperts = 0 .. ExpertsPerGpu - 1
    BY <1>2 DEF LocalExperts
  <2> QED  BY <1>5, <2>1, <2>2, FlattenRow
<1>7. all \in Seq(Tokens) /\ Len(all) = Total(share, LocalExperts)
  <2> DEFINE h == [x \in LocalExperts |-> Hits(F[x], {0})]
  <2>1. \A x \in LocalExperts : h[x] = Hits(F[x], {0})
    OBVIOUS
  <2> HIDE DEF h
  <2> QED  BY <1>6, <2>1
<1>8. \A t : WaitingCopies(rest, t, l) + Hits(all, {t}) = WaitingCopies(qs, t, l)
  <2> TAKE t
  <2> DEFINE f == [x \in LocalExperts |-> Hits(rest[<<l, x>>], {t})]
             h == [x \in LocalExperts |-> Hits(F[x], {t})]
             k == [x \in LocalExperts |-> Hits(qs[<<l, x>>], {t})]
  <2>1. \A x \in LocalExperts : /\ rest[<<l, x>>] \in Seq(Tokens) /\ F[x] \in Seq(Tokens)
    BY <1>1 DEF Queues, Batches
  <2>2. ASSUME NEW x \in LocalExperts PROVE f[x] \in Nat /\ h[x] \in Nat /\ k[x] = f[x] + h[x]
    <3>1. Hits(rest[<<l, x>>], {t}) \in Nat /\ Hits(F[x], {t}) \in Nat
      BY <2>1, HitsType
    <3>2. Hits(qs[<<l, x>>], {t}) = Hits(F[x], {t}) + Hits(rest[<<l, x>>], {t})
      BY <1>1
    <3>3. f[x] = Hits(rest[<<l, x>>], {t}) /\ h[x] = Hits(F[x], {t}) /\ k[x] = Hits(qs[<<l, x>>], {t})
      OBVIOUS
    <3> HIDE DEF f, h, k
    <3> QED  BY <3>1, <3>2, <3>3
  <2>3. /\ WaitingCopies(rest, t, l) = Total(f, LocalExperts)
        /\ WaitingCopies(qs, t, l) = Total(k, LocalExperts)
        /\ Hits(all, {t}) = Total(h, LocalExperts)
    <3>1. \A x \in LocalExperts : h[x] = Hits(F[x], {t})
      OBVIOUS
    <3>2. Hits(all, {t}) = Total(h, LocalExperts)
      <4> HIDE DEF h
      <4> QED  BY <1>6, <3>1
    <3> QED  BY <3>2 DEF WaitingCopies
  <2> HIDE DEF f, h, k
  <2>4. \A x \in LocalExperts : f[x] \in Nat /\ h[x] \in Nat /\ k[x] \in Nat
    BY <2>2
  <2>5. Total(k, LocalExperts) = Total(f, LocalExperts) + Total(h, LocalExperts)
    BY <2>2, <2>4, AsyncSets, TotalPlus
  <2> QED  BY <2>3, <2>5
<1> QED  BY <1>3, <1>4, <1>7, <1>8 DEF rest, Batches

(* What leaves the queues is in the batch.                                 *)
LEMMA CopyCountTake ==
  ASSUME NEW qs \in [Queues -> Batches], NEW k \in Layers, NEW share,
         \A x \in LocalExperts : share[x] \in 0 .. Len(qs[<<k, x>>]),
         NEW w2, w2 = [layer |-> k, batch |-> BatchOf(qs, k, share)],
         NEW stand, stand \notin Computing, NEW w \in Works, NEW t, NEW l \in Layers
  PROVE  /\ w2 \in Works
         /\ CopyCount(TakeShares(qs, k, share), "expert", w2, t, l) = CopyCount(qs, stand, w, t, l)
<1>1. PICK rest \in [Queues -> Batches] : /\ rest = TakeShares(qs, k, share)
                                          /\ \A q \in Queues : q[1] # k => rest[q] = qs[q]
  BY TakeSharesIs DEF SharesLeave
<1>2. PICK batch \in Batches : /\ batch = BatchOf(qs, k, share)
                               /\ WaitingCopies(rest, t, k) + Hits(batch, {t}) = WaitingCopies(qs, t, k)
  BY <1>1, BatchOfIs
<1>3. w2 \in Works /\ w2.layer = k /\ w2.batch = batch
  BY <1>2 DEF Works
<1>4. l # k => WaitingCopies(rest, t, l) = WaitingCopies(qs, t, l)
  <2> SUFFICES ASSUME l # k PROVE WaitingCopies(rest, t, l) = WaitingCopies(qs, t, l)
    OBVIOUS
  <2>1. \A x \in LocalExperts : rest[<<l, x>>] = qs[<<l, x>>]
    BY <1>1 DEF Queues
  <2> QED  BY <2>1 DEF WaitingCopies
<1>5. WorkedCopies(stand, w, t, l) = 0 /\ WorkedCopies("expert", w2, t, l) = IF k = l THEN Hits(batch, {t}) ELSE 0
  BY <1>3 DEF WorkedCopies, Computing
<1>6. /\ CopyCount(rest, "expert", w2, t, l) = WaitingCopies(rest, t, l) + WorkedCopies("expert", w2, t, l)
      /\ CopyCount(qs, stand, w, t, l) = WaitingCopies(qs, t, l) + WorkedCopies(stand, w, t, l)
      /\ WaitingCopies(rest, t, l) \in Nat /\ WaitingCopies(qs, t, l) \in Nat
  BY <1>3, CopyCountIs
<1> QED  BY <1>1, <1>2, <1>3, <1>4, <1>5, <1>6

LEMMA LoadTake ==
  ASSUME NEW qs \in [Queues -> Batches], NEW l \in Layers, NEW share,
         \A x \in LocalExperts : share[x] \in 0 .. Len(qs[<<l, x>>])
  PROVE  LoadOf(TakeShares(qs, l, share)) + Len(BatchOf(qs, l, share)) = LoadOf(qs)
<1> DEFINE rest == TakeShares(qs, l, share)
<1>1. /\ rest \in [Queues -> Batches]
      /\ \A q \in Queues : q[1] # l => rest[q] = qs[q]
      /\ \A x \in LocalExperts : Len(rest[<<l, x>>]) = Len(qs[<<l, x>>]) - share[x]
  <2>1. SharesLeave(qs, rest, l, share)
    BY TakeSharesIs
  <2> HIDE DEF rest
  <2> QED  BY <2>1 DEF SharesLeave
<1> HIDE DEF rest
<1>2. Len(BatchOf(qs, l, share)) = Total(share, LocalExperts)
  BY BatchOfIs
<1> DEFINE f == [x \in LocalExperts |-> Len(rest[<<l, x>>])]
           k == [x \in LocalExperts |-> Len(qs[<<l, x>>])]
<1>3. \A x \in LocalExperts : f[x] \in Nat /\ share[x] \in Nat /\ k[x] \in Nat /\ k[x] = f[x] + share[x]
  <2>1. \A x \in LocalExperts : Len(rest[<<l, x>>]) \in Nat /\ Len(qs[<<l, x>>]) \in Nat
    BY LoadType
  <2> QED  BY <1>1, <2>1
<1>4. LayerLoad(rest, l) = Total(f, LocalExperts) /\ LayerLoad(qs, l) = Total(k, LocalExperts)
  BY DEF LayerLoad
<1> HIDE DEF f, k
<1>5. Total(k, LocalExperts) = Total(f, LocalExperts) + Total(share, LocalExperts)
  BY <1>3, AsyncSets, TotalPlus
<1>6. Total(share, LocalExperts) \in Nat
  BY <1>3, AsyncSets, TotalType
<1>7. LoadOf(rest) + LayerLoad(qs, l) = LoadOf(qs) + LayerLoad(rest, l)
  BY <1>1, LoadAtOneLayer
<1>8. LoadOf(rest) \in Nat /\ LoadOf(qs) \in Nat /\ LayerLoad(rest, l) \in Nat
  BY <1>1, LoadType
<1> QED  BY <1>2, <1>4, <1>5, <1>6, <1>7, <1>8 DEF rest

(* A copy joins some queues of a layer.                                    *)
PutCopies(qs, l, X, u) ==
  [q \in Queues |-> IF q[1] = l /\ q[2] \in X THEN Append(qs[q], u) ELSE qs[q]]

(* The queues with and without the copies put there.                       *)
CopiesPut(qs, rest, l, X, u) ==
  /\ rest \in [Queues -> Batches]
  /\ \A q \in Queues : q[1] # l => rest[q] = qs[q]
  /\ \A x \in LocalExperts :
       /\ x \in X => Len(rest[<<l, x>>]) = Len(qs[<<l, x>>]) + 1
       /\ x \notin X => Len(rest[<<l, x>>]) = Len(qs[<<l, x>>])
       /\ \A t : IF x \in X /\ t = u THEN Hits(rest[<<l, x>>], {t}) = Hits(qs[<<l, x>>], {t}) + 1
                                     ELSE Hits(rest[<<l, x>>], {t}) = Hits(qs[<<l, x>>], {t})

LEMMA PutCopiesIs ==
  ASSUME NEW qs \in [Queues -> Batches], NEW l \in Layers, NEW X \in SUBSET LocalExperts, NEW u \in Tokens
  PROVE  CopiesPut(qs, PutCopies(qs, l, X, u), l, X, u)
<1>1. \A q \in Queues : qs[q] \in Seq(Tokens)
  BY DEF Batches
<1>2. ASSUME NEW s \in Seq(Tokens), NEW t
      PROVE  /\ Append(s, u) \in Seq(Tokens) /\ Len(Append(s, u)) = Len(s) + 1
             /\ t = u => Hits(Append(s, u), {t}) = Hits(s, {t}) + 1
             /\ t # u => Hits(Append(s, u), {t}) = Hits(s, {t})
  <2>1. Append(s, u) \in Seq(Tokens) /\ Len(Append(s, u)) = Len(s) + 1
    BY AppendProperties
  <2>2. Hits(s, {t}) \in Nat /\ Hits(Append(s, u), {t}) = Hits(s, {t}) + IF u \in {t} THEN 1 ELSE 0
    BY HitsType, HitsAppend
  <2> QED  BY <2>1, <2>2
<1> DEFINE rest == PutCopies(qs, l, X, u)
<1>3. rest \in [Queues -> Batches] /\ \A q \in Queues : q[1] # l => rest[q] = qs[q]
  BY <1>1, <1>2 DEF PutCopies, Batches
<1>4. ASSUME NEW x \in LocalExperts
      PROVE  <<l, x>> \in Queues /\ rest[<<l, x>>] = IF x \in X THEN Append(qs[<<l, x>>], u) ELSE qs[<<l, x>>]
  BY DEF PutCopies, Queues
<1> HIDE DEF rest
<1>5. ASSUME NEW x \in LocalExperts, NEW t
      PROVE  /\ x \in X => Len(rest[<<l, x>>]) = Len(qs[<<l, x>>]) + 1
             /\ x \notin X => Len(rest[<<l, x>>]) = Len(qs[<<l, x>>])
             /\ IF x \in X /\ t = u THEN Hits(rest[<<l, x>>], {t}) = Hits(qs[<<l, x>>], {t}) + 1
                                    ELSE Hits(rest[<<l, x>>], {t}) = Hits(qs[<<l, x>>], {t})
  <2>1. PICK s \in Seq(Tokens) : s = qs[<<l, x>>]
    BY <1>1, <1>4
  <2>2. /\ Len(Append(s, u)) = Len(s) + 1
        /\ t = u => Hits(Append(s, u), {t}) = Hits(s, {t}) + 1
        /\ t # u => Hits(Append(s, u), {t}) = Hits(s, {t})
    BY <1>2
  <2>3. rest[<<l, x>>] = IF x \in X THEN Append(s, u) ELSE s
    BY <1>4, <2>1
  <2>4. CASE x \in X
    <3>1. rest[<<l, x>>] = Append(s, u)
      BY <2>3, <2>4
    <3> QED  BY <2>1, <2>2, <2>4, <3>1, Zenon
  <2>5. CASE x \notin X
    <3>1. rest[<<l, x>>] = s
      BY <2>3, <2>5
    <3> QED  BY <2>1, <2>5, <3>1, Zenon
  <2> QED  BY <2>4, <2>5
<1> QED  BY <1>3, <1>5, Zenon DEF CopiesPut, rest

LEMMA PutCounts ==
  ASSUME NEW qs \in [Queues -> Batches], NEW k \in Layers, NEW X \in SUBSET LocalExperts, NEW u \in Tokens
  PROVE  /\ LoadOf(PutCopies(qs, k, X, u)) = LoadOf(qs) + Cardinality(X)
         /\ \A t : \A l \in Layers :
              WaitingCopies(PutCopies(qs, k, X, u), t, l)
                = WaitingCopies(qs, t, l) + IF t = u /\ l = k THEN Cardinality(X) ELSE 0
<1> DEFINE rest == PutCopies(qs, k, X, u)
           one == [x \in LocalExperts |-> IF x \in X THEN 1 ELSE 0]
<1>0. CopiesPut(qs, rest, k, X, u)
  BY PutCopiesIs
<1> HIDE DEF rest
<1>1. /\ rest \in [Queues -> Batches]
      /\ \A q \in Queues : q[1] # k => rest[q] = qs[q]
      /\ \A x \in LocalExperts : /\ x \in X => Len(rest[<<k, x>>]) = Len(qs[<<k, x>>]) + 1
                                 /\ x \notin X => Len(rest[<<k, x>>]) = Len(qs[<<k, x>>])
  BY <1>0 DEF CopiesPut
<1>2. \A x \in LocalExperts : \A t :
        IF x \in X /\ t = u THEN Hits(rest[<<k, x>>], {t}) = Hits(qs[<<k, x>>], {t}) + 1
                            ELSE Hits(rest[<<k, x>>], {t}) = Hits(qs[<<k, x>>], {t})
  BY <1>0 DEF CopiesPut
<1>3. /\ \A x \in LocalExperts : one[x] \in Nat /\ one[x] = IF x \in X THEN 1 ELSE 0
      /\ IsFiniteSet(LocalExperts) /\ Cardinality(X) \in Nat
  BY AsyncSets, FS_Subset, FS_CardinalityType
<1> HIDE DEF one
<1>4. Total(one, LocalExperts) = Cardinality(X)
  BY <1>3, TotalCounts
<1>5. LoadOf(rest) = LoadOf(qs) + Cardinality(X)
  <2> DEFINE f == [x \in LocalExperts |-> Len(qs[<<k, x>>])]
             h == [x \in LocalExperts |-> Len(rest[<<k, x>>])]
  <2>1. \A x \in LocalExperts : f[x] \in Nat /\ h[x] \in Nat /\ h[x] = f[x] + one[x]
    <3>1. \A x \in LocalExperts : Len(qs[<<k, x>>]) \in Nat
      BY LoadType
    <3>2. \A x \in LocalExperts : f[x] = Len(qs[<<k, x>>]) /\ h[x] = Len(rest[<<k, x>>])
      OBVIOUS
    <3>5. \A x \in LocalExperts : Len(rest[<<k, x>>]) \in Nat
      BY <1>1, LoadType
    <3> HIDE DEF f, h
    <3> TAKE x \in LocalExperts
    <3>0. f[x] = Len(qs[<<k, x>>]) /\ h[x] = Len(rest[<<k, x>>]) /\ f[x] \in Nat /\ h[x] \in Nat
      BY <3>1, <3>2, <3>5
    <3>3. CASE x \in X
      <4>1. one[x] = 1
        BY <1>3, <3>3
      <4>2. h[x] = f[x] + 1
        BY <1>1, <3>0, <3>3
      <4> QED  BY <3>0, <4>1, <4>2
    <3>4. CASE x \notin X
      <4>1. one[x] = 0
        BY <1>3, <3>4
      <4>2. h[x] = f[x]
        BY <1>1, <3>0, <3>4
      <4> QED  BY <3>0, <4>1, <4>2
    <3> QED  BY <3>3, <3>4
  <2>2. LayerLoad(qs, k) = Total(f, LocalExperts) /\ LayerLoad(rest, k) = Total(h, LocalExperts)
    BY DEF LayerLoad
  <2> HIDE DEF f, h
  <2>3. Total(h, LocalExperts) = Total(f, LocalExperts) + Total(one, LocalExperts)
    BY <1>3, <2>1, TotalPlus
  <2>4. LoadOf(rest) + LayerLoad(qs, k) = LoadOf(qs) + LayerLoad(rest, k)
    BY <1>1, LoadAtOneLayer
  <2>5. LoadOf(rest) \in Nat /\ LoadOf(qs) \in Nat /\ LayerLoad(qs, k) \in Nat
    BY <1>1, LoadType
  <2> QED  BY <1>3, <1>4, <2>2, <2>3, <2>4, <2>5
<1>6. ASSUME NEW t, NEW l \in Layers
      PROVE  WaitingCopies(rest, t, l) = WaitingCopies(qs, t, l) + IF t = u /\ l = k THEN Cardinality(X) ELSE 0
  <2> DEFINE f == [x \in LocalExperts |-> Hits(qs[<<l, x>>], {t})]
             h == [x \in LocalExperts |-> Hits(rest[<<l, x>>], {t})]
  <2>1. WaitingCopies(qs, t, l) = Total(f, LocalExperts) /\ WaitingCopies(rest, t, l) = Total(h, LocalExperts)
    BY DEF WaitingCopies
  <2>2. \A x \in LocalExperts : f[x] = Hits(qs[<<l, x>>], {t}) /\ h[x] = Hits(rest[<<l, x>>], {t})
    OBVIOUS
  <2>3. \A x \in LocalExperts : f[x] \in Nat
    <3>1. \A x \in LocalExperts : qs[<<l, x>>] \in Seq(Tokens)
      BY DEF Queues, Batches
    <3>2. \A x \in LocalExperts : Hits(qs[<<l, x>>], {t}) \in Nat
      BY <3>1, HitsType
    <3> QED  BY <3>2
  <2> HIDE DEF f, h
  <2>4. Total(f, LocalExperts) \in Nat
    BY <1>3, <2>3, TotalType
  <2>5. CASE t = u /\ l = k
    <3>1. \A x \in LocalExperts : h[x] \in Nat /\ h[x] = f[x] + one[x]
      <4> TAKE x \in LocalExperts
      <4>0. f[x] \in Nat /\ f[x] = Hits(qs[<<k, x>>], {t}) /\ h[x] = Hits(rest[<<k, x>>], {t})
        BY <2>2, <2>3, <2>5
      <4>1. CASE x \in X
        <5>1. one[x] = 1
          BY <1>3, <4>1
        <5>2. h[x] = f[x] + 1
          BY <1>2, <2>5, <4>0, <4>1
        <5> QED  BY <4>0, <5>1, <5>2
      <4>2. CASE x \notin X
        <5>1. one[x] = 0
          BY <1>3, <4>2
        <5>2. h[x] = f[x]
          BY <1>2, <2>5, <4>0, <4>2
        <5> QED  BY <4>0, <5>1, <5>2
      <4> QED  BY <4>1, <4>2
    <3>2. Total(h, LocalExperts) = Total(f, LocalExperts) + Total(one, LocalExperts)
      BY <1>3, <2>3, <3>1, TotalPlus
    <3> QED  BY <1>4, <2>1, <2>5, <3>2
  <2>6. CASE ~(t = u /\ l = k)
    <3>1. \A x \in LocalExperts : h[x] = f[x]
      <4> SUFFICES ASSUME NEW x \in LocalExperts PROVE h[x] = f[x]
        OBVIOUS
      <4>1. CASE l = k
        <5>1. Hits(rest[<<k, x>>], {t}) = Hits(qs[<<k, x>>], {t})
          BY <1>2, <2>6, <4>1
        <5> QED  BY <2>2, <4>1, <5>1
      <4>2. CASE l # k
        <5>1. <<l, x>> \in Queues /\ <<l, x>>[1] = l
          BY DEF Queues
        <5>2. rest[<<l, x>>] = qs[<<l, x>>]
          BY <1>1, <4>2, <5>1
        <5> QED  BY <2>2, <5>2
      <4> QED  BY <4>1, <4>2
    <3>2. Total(h, LocalExperts) = Total(f, LocalExperts)
      BY <3>1, TotalSame
    <3> QED  BY <2>1, <2>4, <2>6, <3>2
  <2> QED  BY <2>5, <2>6
<1> QED  BY <1>5, <1>6 DEF rest

LEMMA CopyCountPut ==
  ASSUME NEW qs \in [Queues -> Batches], NEW k \in Layers, NEW X \in SUBSET LocalExperts, NEW u \in Tokens,
         NEW stand, NEW w \in Works, NEW t, NEW l \in Layers
  PROVE  CopyCount(PutCopies(qs, k, X, u), stand, w, t, l)
           = CopyCount(qs, stand, w, t, l) + IF t = u /\ l = k THEN Cardinality(X) ELSE 0
<1> DEFINE rest == PutCopies(qs, k, X, u)
<1>1. rest \in [Queues -> Batches]
  BY PutCopiesIs DEF CopiesPut
<1>2. WaitingCopies(rest, t, l) = WaitingCopies(qs, t, l) + IF t = u /\ l = k THEN Cardinality(X) ELSE 0
  <2>1. \A v : \A m \in Layers :
          WaitingCopies(rest, v, m) = WaitingCopies(qs, v, m) + IF v = u /\ m = k THEN Cardinality(X) ELSE 0
    BY PutCounts, SMTT(30)
  <2> HIDE DEF rest
  <2> QED  BY <2>1
<1> HIDE DEF rest
<1>3. /\ CopyCount(rest, stand, w, t, l) = WaitingCopies(rest, t, l) + WorkedCopies(stand, w, t, l)
      /\ CopyCount(qs, stand, w, t, l) = WaitingCopies(qs, t, l) + WorkedCopies(stand, w, t, l)
      /\ WaitingCopies(qs, t, l) \in Nat /\ WorkedCopies(stand, w, t, l) \in Nat
  <2>1. CopyCount(rest, stand, w, t, l) = WaitingCopies(rest, t, l) + WorkedCopies(stand, w, t, l)
    BY <1>1, CopyCountIs
  <2>2. /\ CopyCount(qs, stand, w, t, l) = WaitingCopies(qs, t, l) + WorkedCopies(stand, w, t, l)
        /\ WaitingCopies(qs, t, l) \in Nat /\ WorkedCopies(stand, w, t, l) \in Nat
    BY CopyCountIs
  <2> QED  BY <2>1, <2>2
<1>4. Cardinality(X) \in Nat
  BY AsyncSets, FS_Subset, FS_CardinalityType
<1> QED  BY <1>2, <1>3, <1>4 DEF rest

Stands == {"asleep", "top", "attention", "expert", "return", "deliver"}

(* The types of a state that the invariant describes.                      *)
LEMMA GpuTypes ==
  ASSUME AsyncTypeOK, Shape
  PROVE  /\ attnQ \in [Gpus -> AttnQueues] /\ queue \in [Gpus -> [Queues -> Batches]]
         /\ total \in [Gpus -> Nat] /\ woken \in [Gpus -> BOOLEAN]
         /\ at \in [Gpus -> Stands] /\ work \in [Gpus -> Works]
         /\ \A g \in Gpus : /\ attnQ[g] \in AttnQueues /\ queue[g] \in [Queues -> Batches]
                            /\ work[g] \in Works /\ work[g].layer \in Layers /\ work[g].batch \in Batches
                            /\ total[g] \in Nat /\ at[g] \in Stands /\ Len(work[g].batch) <= MaxBatch
BY DEF AsyncTypeOK, Shape, AttnQueues, Batches, Works, Stands

-----------------------------------------------------------------------------
(* What a worker chooses.                                                  *)
LEMMA ScoresAre ==
  ASSUME AsyncTypeOK, Shape, NEW g \in Gpus
  PROVE  /\ \A l \in Layers : Score(g, l) \in Nat
         /\ BestScore(g) \in Nat
         /\ BestLayer(g) # None => BestLayer(g) \in Layers
<1>0. /\ queue[g] \in [Queues -> Batches] /\ NumLayers \in Nat \ {0} /\ IsFiniteSet(Layers)
  BY GpuTypes, AsyncSets
<1>1. \A l \in Layers : LayerTotal(g, l) \in Nat
  <2>1. \A l \in Layers : LayerTotal(g, l) = LayerLoad(queue[g], l)
    BY DEF LayerTotal, LayerLoad
  <2> QED  BY <1>0, <2>1, LoadType
<1>2. \A l \in Layers : \A k \in Nat : (l + k) % NumLayers \in Layers
  BY <1>0 DEF Layers
<1>3. ASSUME NEW l \in Layers PROVE Score(g, l) \in Nat
  <2>1. /\ LayerTotal(g, (l + 1) % NumLayers) \in Nat
        /\ LayerTotal(g, (l + 2) % NumLayers) \in Nat
        /\ LayerTotal(g, (l + 3) % NumLayers) \in Nat
    BY <1>1, <1>2
  <2>2. \A a, b, c, d \in Nat : 125 * a + (100 * b + 80 * c + 64 * d) \in Nat /\ 125 * a + 0 \in Nat
    OBVIOUS
  <2>3. Score(g, l) = IF LayerTotal(g, l) = 0 THEN 0
          ELSE 125 * LayerTotal(g, l)
               + IF setup.policy = "longest_queue_first" THEN 0
                 ELSE 100 * LayerTotal(g, (l + 1) % NumLayers) + 80 * LayerTotal(g, (l + 2) % NumLayers)
                      + 64 * LayerTotal(g, (l + 3) % NumLayers)
    BY DEF Score
  <2> QED  BY <1>1, <2>1, <2>2, <2>3
<1> DEFINE S == {Score(g, l) : l \in Layers}
<1>4. S \in SUBSET Nat /\ IsFiniteSet(S) /\ S # {}
  <2>1. S \in SUBSET Nat
    BY <1>3
  <2>2. 0 \in Layers
    BY <1>0 DEF Layers
  <2>3. IsFiniteSet(S)
    <3> DEFINE f == [l \in Layers |-> Score(g, l)]
    <3>1. f \in Surjection(Layers, S)
      BY DEF Surjection
    <3> HIDE DEF f, S
    <3> QED  BY <1>0, <3>1, FS_Surjection
  <2> QED  BY <2>1, <2>2, <2>3
<1>5. BestScore(g) = Max(S)
  BY DEF BestScore
<1>6. Max(S) \in S
  <2> HIDE DEF S
  <2> QED  BY <1>4, MaxIs
<1>7. BestScore(g) \in Nat /\ \E l \in Layers : Score(g, l) = BestScore(g)
  BY <1>4, <1>5, <1>6
<1> DEFINE B == {l \in Layers : Score(g, l) = BestScore(g)}
<1>8. \E l \in B : \A k \in B : l <= k
  <2>1. B \in SUBSET Nat /\ B # {}
    BY <1>0, <1>7 DEF Layers
  <2> HIDE DEF B
  <2> QED  BY <2>1, LeastNumber
<1>9. Min(B) \in B
  BY <1>8 DEF Min
<1>10. BestLayer(g) # None => BestLayer(g) = Min(B)
  BY DEF BestLayer
<1> QED  BY <1>3, <1>7, <1>9, <1>10

LEMMA AttentionWaits ==
  ASSUME AsyncTypeOK, Shape, NEW g \in Gpus, AttentionFirst(g)
  PROVE  attnQ[g] # <<>>
<1>1. BestScore(g) \in Nat /\ TopK \in Nat
  BY ScoresAre, AsyncSets
<1>2. \A k, b \in Nat : ~(125 * k * 0 > b)
  OBVIOUS
<1>3. attnQ[g] = <<>> => Len(attnQ[g]) = 0
  OBVIOUS
<1>4. 125 * TopK * Len(attnQ[g]) > BestScore(g)
  BY DEF AttentionFirst
<1> QED  BY <1>1, <1>2, <1>3, <1>4, Zenon

LEMMA SharesAre ==
  ASSUME AsyncTypeOK, Shape, NEW g \in Gpus, NEW l \in Layers, NEW share,
         share = [x \in LocalExperts |-> Share(g, l, x)]
  PROVE  /\ \A x \in LocalExperts : share[x] \in 0 .. Len(queue[g][<<l, x>>])
         /\ Total(share, LocalExperts) <= MaxBatch
<1>1. queue[g] \in [Queues -> Batches] /\ ExpertsPerGpu \in Nat /\ MaxBatch \in Nat
  BY GpuTypes, AsyncSets
<1> DEFINE len == [x \in LocalExperts |-> Len(queue[g][<<l, x>>])]
<1>2. \A x \in LocalExperts : len[x] = Len(queue[g][<<l, x>>])
  OBVIOUS
<1>3. \A x \in LocalExperts : len[x] \in Nat
  BY <1>1, LoadType
<1>4. \A x \in LocalExperts : share[x] = Min({len[x], Max({0, MaxBatch - Total(len, 0 .. x - 1)})})
  BY DEF Share
<1> HIDE DEF len
<1>5. LocalExperts = 0 .. ExpertsPerGpu - 1
  BY DEF LocalExperts
<1>6. /\ \A x \in LocalExperts : share[x] \in 0 .. len[x]
      /\ Total(share, LocalExperts) <= MaxBatch
  BY <1>1, <1>3, <1>4, <1>5, SharesWithinCap
<1> QED  BY <1>2, <1>6

-----------------------------------------------------------------------------
(* The tokens of a GPU stay where they are.                                *)
SameCounts(q, qs, stand, w, q2, qs2, stand2, w2) ==
  \A t : /\ AttnCount(q2, stand2, w2.batch, t) = AttnCount(q, stand, w.batch, t)
         /\ \A l \in Layers : CopyCount(qs2, stand2, w2, t, l) = CopyCount(qs, stand, w, t, l)

(* A worker without work in hand, or with nothing left of it.              *)
Free(stand, w) == stand \in {"top", "asleep"} \/ (stand = "deliver" /\ w.batch = <<>>)

LEMMA CountsFree ==
  ASSUME NEW q \in AttnQueues, NEW qs \in [Queues -> Batches], NEW w \in Works, NEW w2 \in Works,
         NEW stand, NEW stand2, Free(stand, w), Free(stand2, w2)
  PROVE  SameCounts(q, qs, stand, w, q, qs, stand2, w2)
<1>0. w.batch \in Batches /\ w2.batch \in Batches
  BY DEF Works
<1>1. ASSUME NEW t PROVE AttnCount(q, stand2, w2.batch, t) = AttnCount(q, stand, w.batch, t)
  <2>1. stand # "attention" /\ stand2 # "attention"
    BY DEF Free
  <2> QED  BY <2>1, Zenon DEF AttnCount
<1>2. ASSUME NEW t, NEW l \in Layers PROVE CopyCount(qs, stand2, w2, t, l) = CopyCount(qs, stand, w, t, l)
  <2>1. WorkedCopies(stand, w, t, l) = 0 /\ WorkedCopies(stand2, w2, t, l) = 0
    BY HitsEmpty DEF WorkedCopies, Free, Computing
  <2>2. /\ CopyCount(qs, stand, w, t, l) = WaitingCopies(qs, t, l) + WorkedCopies(stand, w, t, l)
        /\ CopyCount(qs, stand2, w2, t, l) = WaitingCopies(qs, t, l) + WorkedCopies(stand2, w2, t, l)
    BY CopyCountIs
  <2> QED  BY <2>1, <2>2
<1> QED  BY <1>1, <1>2, Zenon DEF SameCounts

IsTask(w, l, batch) == w = [layer |-> l, batch |-> batch]
SharesWithin(qs, l, share) == \A x \in LocalExperts : share[x] \in 0 .. Len(qs[<<l, x>>])

LEMMA CountsAttention ==
  ASSUME NEW q \in AttnQueues, q # <<>>, NEW qs \in [Queues -> Batches], NEW stand \in {"top", "asleep"},
         NEW w \in Works, NEW w2, IsTask(w2, Head(q)[1], <<Head(q)[2]>>)
  PROVE  /\ Tail(q) \in AttnQueues /\ w2 \in Works /\ Len(w2.batch) = 1
         /\ SameCounts(q, qs, stand, w, Tail(q), qs, "attention", w2)
<1>0. stand # "attention" /\ stand \notin Computing /\ w.batch \in Batches /\ "attention" \notin Computing
  BY DEF Works, Computing
<1>1. /\ Tail(q) \in AttnQueues /\ Head(q) \in Layers \X Tokens /\ <<Head(q)[2]>> \in Batches
  <2>1. Tail(q) \in AttnQueues /\ Head(q) \in Layers \X Tokens
    BY HeadTailProperties DEF AttnQueues
  <2> QED  BY <2>1 DEF Batches
<1>2. w2 \in Works /\ w2.batch = <<Head(q)[2]>> /\ Len(w2.batch) = 1
  BY <1>1 DEF Works, IsTask
<1>3. ASSUME NEW t PROVE AttnCount(Tail(q), "attention", w2.batch, t) = AttnCount(q, stand, w.batch, t)
  <2>1. PICK b \in Batches : b = w.batch
    BY <1>0
  <2>2. AttnCount(Tail(q), "attention", <<Head(q)[2]>>, t) = AttnCount(q, stand, b, t)
    BY <1>0, AttnCountTake
  <2> QED  BY <1>2, <2>1, <2>2, Zenon
<1>4. ASSUME NEW t, NEW l \in Layers
      PROVE CopyCount(qs, "attention", w2, t, l) = CopyCount(qs, stand, w, t, l)
  <2>1. WorkedCopies(stand, w, t, l) = 0 /\ WorkedCopies("attention", w2, t, l) = 0
    BY <1>0 DEF WorkedCopies
  <2>2. /\ CopyCount(qs, stand, w, t, l) = WaitingCopies(qs, t, l) + WorkedCopies(stand, w, t, l)
        /\ CopyCount(qs, "attention", w2, t, l) = WaitingCopies(qs, t, l) + WorkedCopies("attention", w2, t, l)
    BY <1>2, CopyCountIs
  <2> QED  BY <2>1, <2>2
<1> QED  BY <1>1, <1>2, <1>3, <1>4, Zenon DEF SameCounts

LEMMA CountsExperts ==
  ASSUME NEW q \in AttnQueues, NEW qs \in [Queues -> Batches], NEW stand \in {"top", "asleep"},
         NEW w \in Works, NEW k \in Layers, NEW share, SharesWithin(qs, k, share),
         NEW batch, batch = BatchOf(qs, k, share), NEW w2, IsTask(w2, k, batch),
         NEW rest, rest = TakeShares(qs, k, share)
  PROVE  /\ rest \in [Queues -> Batches] /\ batch \in Batches /\ w2 \in Works
         /\ Len(batch) = Total(share, LocalExperts)
         /\ LoadOf(rest) \in Nat /\ LoadOf(rest) = LoadOf(qs) - Len(batch)
         /\ SameCounts(q, qs, stand, w, q, rest, "expert", w2)
<1>0. stand # "attention" /\ stand \notin Computing /\ w.batch \in Batches
  BY DEF Works, Computing
<1>1. rest \in [Queues -> Batches]
  BY TakeSharesIs DEF SharesLeave, SharesWithin
<1>2. batch \in Batches /\ Len(batch) = Total(share, LocalExperts) /\ w2 \in Works
  BY BatchOfIs DEF Works, SharesWithin, IsTask
<1>3. LoadOf(rest) \in Nat /\ LoadOf(rest) = LoadOf(qs) - Len(batch)
  <2>1. LoadOf(rest) + Len(batch) = LoadOf(qs)
    BY LoadTake DEF SharesWithin
  <2>2. LoadOf(rest) \in Nat /\ Len(batch) \in Nat
    BY <1>1, <1>2, LoadType, LenProperties DEF Batches
  <2> QED  BY <2>1, <2>2
<1>4. ASSUME NEW t PROVE AttnCount(q, "expert", w2.batch, t) = AttnCount(q, stand, w.batch, t)
  <2>1. w2.batch = batch
    BY DEF IsTask
  <2> QED  BY <1>0, <2>1, Zenon DEF AttnCount
<1>5. ASSUME NEW t, NEW l \in Layers
      PROVE CopyCount(rest, "expert", w2, t, l) = CopyCount(qs, stand, w, t, l)
  BY <1>0, CopyCountTake DEF SharesWithin, IsTask
<1> QED  BY <1>1, <1>2, <1>3, <1>4, <1>5, Zenon DEF SameCounts

-----------------------------------------------------------------------------
(* A worker's own step: what it does to its GPU, and to no other.          *)
GpuStep(g) ==
  /\ attnQ' \in [Gpus -> AttnQueues] /\ queue' \in [Gpus -> [Queues -> Batches]]
  /\ total' \in [Gpus -> Nat] /\ at' \in [Gpus -> Stands] /\ work' \in [Gpus -> Works]
  /\ \A h \in Gpus : h # g => /\ attnQ'[h] = attnQ[h] /\ queue'[h] = queue[h] /\ total'[h] = total[h]
                              /\ at'[h] = at[h] /\ work'[h] = work[h]

PlacesKept(g) == SameCounts(attnQ[g], queue[g], at[g], work[g], attnQ'[g], queue'[g], at'[g], work'[g])

(* TakeTask, as far as the tokens of the GPU go.                           *)
TaskTaken(g) ==
  /\ GpuStep(g) /\ PlacesKept(g)
  /\ at'[g] \in {"top", "attention", "expert"} /\ Len(work'[g].batch) <= MaxBatch
  /\ at'[g] = "attention" => Len(work'[g].batch) = 1
  /\ total'[g] = LoadOf(queue'[g])

(* The state of one GPU, after a step and before it.                       *)
GpuPut(g, q, qs, n, stand, w) ==
  /\ attnQ' = [attnQ EXCEPT ![g] = q] /\ queue' = [queue EXCEPT ![g] = qs] /\ total' = [total EXCEPT ![g] = n]
  /\ at' = [at EXCEPT ![g] = stand] /\ work' = [work EXCEPT ![g] = w]

GpuNow(g, q, qs, n, stand, w) ==
  attnQ'[g] = q /\ queue'[g] = qs /\ total'[g] = n /\ at'[g] = stand /\ work'[g] = w

LEMMA GpuStepIs ==
  ASSUME AsyncTypeOK, Shape, NEW g \in Gpus,
         NEW q \in AttnQueues, NEW qs \in [Queues -> Batches], NEW n \in Nat, NEW stand \in Stands, NEW w \in Works,
         GpuPut(g, q, qs, n, stand, w)
  PROVE  GpuStep(g) /\ GpuNow(g, q, qs, n, stand, w)
<1>1. /\ attnQ \in [Gpus -> AttnQueues] /\ queue \in [Gpus -> [Queues -> Batches]]
      /\ total \in [Gpus -> Nat] /\ at \in [Gpus -> Stands] /\ work \in [Gpus -> Works]
  BY GpuTypes
<1> QED  BY <1>1 DEF GpuStep, GpuPut, GpuNow

(* What a step leaves alone it leaves as it is.                            *)
LEMMA ExceptSame == ASSUME NEW S, NEW T, NEW f \in [S -> T], NEW x \in S PROVE f = [f EXCEPT ![x] = f[x]]
OBVIOUS

LEMMA TaskAttention ==
  ASSUME AsyncTypeOK, Shape, NEW g \in Gpus, at[g] \in {"top", "asleep"}, total[g] = LoadOf(queue[g]),
         AttentionFirst(g),
         attnQ' = [attnQ EXCEPT ![g] = Tail(@)],
         work'  = [work EXCEPT ![g] = [layer |-> Head(attnQ[g])[1], batch |-> <<Head(attnQ[g])[2]>>]],
         at' = [at EXCEPT ![g] = "attention"], UNCHANGED <<queue, total>>
  PROVE  TaskTaken(g)
<1>1. /\ attnQ \in [Gpus -> AttnQueues] /\ queue \in [Gpus -> [Queues -> Batches]]
      /\ total \in [Gpus -> Nat] /\ at \in [Gpus -> Stands] /\ work \in [Gpus -> Works]
      /\ attnQ[g] \in AttnQueues /\ queue[g] \in [Queues -> Batches] /\ work[g] \in Works
  BY GpuTypes
<1>2. attnQ[g] # <<>>
  BY AttentionWaits
<1>3. PICK q \in AttnQueues : q = attnQ[g]
  BY <1>1
<1>4. PICK w : w = [layer |-> Head(q)[1], batch |-> <<Head(q)[2]>>] /\ IsTask(w, Head(q)[1], <<Head(q)[2]>>)
  BY DEF IsTask
<1>5. /\ Tail(q) \in AttnQueues /\ w \in Works /\ Len(w.batch) = 1
      /\ SameCounts(q, queue[g], at[g], work[g], Tail(q), queue[g], "attention", w)
  <2>1. PICK qs \in [Queues -> Batches], stand \in {"top", "asleep"}, v \in Works :
           qs = queue[g] /\ stand = at[g] /\ v = work[g]
    BY <1>1
  <2>2. q # <<>> /\ IsTask(w, Head(q)[1], <<Head(q)[2]>>)
    BY <1>2, <1>3, <1>4
  <2>3. /\ Tail(q) \in AttnQueues /\ w \in Works /\ Len(w.batch) = 1
        /\ SameCounts(q, qs, stand, v, Tail(q), qs, "attention", w)
    BY <2>2, CountsAttention
  <2> QED  BY <2>1, <2>3
<1>6. /\ attnQ' = [attnQ EXCEPT ![g] = Tail(q)] /\ work' = [work EXCEPT ![g] = w]
      /\ queue' = [queue EXCEPT ![g] = queue[g]] /\ total' = [total EXCEPT ![g] = total[g]]
  BY <1>1, <1>3, <1>4
<1>7. /\ GpuStep(g) /\ attnQ'[g] = Tail(q) /\ queue'[g] = queue[g] /\ total'[g] = total[g]
      /\ at'[g] = "attention" /\ work'[g] = w
  <2>1. "attention" \in Stands /\ total[g] \in Nat
    BY <1>1 DEF Stands
  <2>2. GpuPut(g, Tail(q), queue[g], total[g], "attention", w)
    BY <1>6 DEF GpuPut
  <2>3. GpuStep(g) /\ GpuNow(g, Tail(q), queue[g], total[g], "attention", w)
    BY <1>1, <1>5, <2>1, <2>2, GpuStepIs
  <2> QED  BY <2>3 DEF GpuNow
<1>8. PlacesKept(g)
  BY <1>3, <1>5, <1>7 DEF PlacesKept
<1>9. MaxBatch >= 1
  BY AsyncSets
<1> QED  BY <1>5, <1>7, <1>8, <1>9 DEF TaskTaken

LEMMA TaskExperts ==
  ASSUME AsyncTypeOK, Shape, NEW g \in Gpus, at[g] \in {"top", "asleep"}, total[g] = LoadOf(queue[g]),
         NEW l \in Layers, NEW batch,
         batch = FlattenSeq([i \in 1 .. ExpertsPerGpu |-> SubSeq(queue[g][<<l, i - 1>>], 1, Share(g, l, i - 1))]),
         queue' = [queue EXCEPT ![g] = [q \in Queues |->
                 IF q[1] = l THEN SubSeq(@[q], Share(g, l, q[2]) + 1, Len(@[q])) ELSE @[q]]],
         total' = [total EXCEPT ![g] = @ - Len(batch)],
         work'  = [work EXCEPT ![g] = [layer |-> l, batch |-> batch]],
         at' = [at EXCEPT ![g] = "expert"], UNCHANGED attnQ
  PROVE  TaskTaken(g)
<1>1. /\ attnQ \in [Gpus -> AttnQueues] /\ queue \in [Gpus -> [Queues -> Batches]]
      /\ total \in [Gpus -> Nat] /\ at \in [Gpus -> Stands] /\ work \in [Gpus -> Works]
      /\ attnQ[g] \in AttnQueues /\ queue[g] \in [Queues -> Batches] /\ work[g] \in Works
  BY GpuTypes
<1>2. PICK share : share = [x \in LocalExperts |-> Share(g, l, x)]
  OBVIOUS
<1>3. /\ \A x \in LocalExperts : share[x] \in 0 .. Len(queue[g][<<l, x>>])
      /\ Total(share, LocalExperts) <= MaxBatch
  BY <1>2, SharesAre
<1>4. batch = BatchOf(queue[g], l, share)
  <2>1. \A i \in 1 .. ExpertsPerGpu : i - 1 \in LocalExperts
    BY AsyncSets DEF LocalExperts
  <2>2. \A i \in 1 .. ExpertsPerGpu : share[i - 1] = Share(g, l, i - 1)
    BY <1>2, <2>1
  <2>3. [i \in 1 .. ExpertsPerGpu |-> SubSeq(queue[g][<<l, i - 1>>], 1, Share(g, l, i - 1))]
          = [i \in 1 .. ExpertsPerGpu |-> SubSeq(queue[g][<<l, i - 1>>], 1, share[i - 1])]
    BY <2>2
  <2> QED  BY <2>3 DEF BatchOf
<1>5. PICK rest : rest = TakeShares(queue[g], l, share)
  OBVIOUS
<1>6. queue' = [queue EXCEPT ![g] = rest]
  <2>1. \A q \in Queues : q[2] \in LocalExperts
    BY DEF Queues
  <2>2. \A q \in Queues : share[q[2]] = Share(g, l, q[2])
    BY <1>2, <2>1
  <2>3. [q \in Queues |-> IF q[1] = l THEN SubSeq(queue[g][q], Share(g, l, q[2]) + 1, Len(queue[g][q])) ELSE queue[g][q]]
          = TakeShares(queue[g], l, share)
    BY <2>2 DEF TakeShares
  <2> QED  BY <1>5, <2>3
<1>7. PICK w : w = [layer |-> l, batch |-> batch] /\ IsTask(w, l, batch)
  BY DEF IsTask
<1>8. /\ rest \in [Queues -> Batches] /\ batch \in Batches /\ w \in Works
      /\ Len(batch) = Total(share, LocalExperts)
      /\ LoadOf(rest) \in Nat /\ LoadOf(rest) = LoadOf(queue[g]) - Len(batch)
      /\ SameCounts(attnQ[g], queue[g], at[g], work[g], attnQ[g], rest, "expert", w)
  <2>1. PICK qs \in [Queues -> Batches], q \in AttnQueues, stand \in {"top", "asleep"}, v \in Works :
           qs = queue[g] /\ q = attnQ[g] /\ stand = at[g] /\ v = work[g]
    BY <1>1
  <2>2. /\ SharesWithin(qs, l, share)
        /\ batch = BatchOf(qs, l, share) /\ rest = TakeShares(qs, l, share)
    BY <1>3, <1>4, <1>5, <2>1 DEF SharesWithin
  <2>3. /\ rest \in [Queues -> Batches] /\ batch \in Batches /\ w \in Works
        /\ Len(batch) = Total(share, LocalExperts)
        /\ LoadOf(rest) \in Nat /\ LoadOf(rest) = LoadOf(qs) - Len(batch)
        /\ SameCounts(q, qs, stand, v, q, rest, "expert", w)
    BY <1>7, <2>2, CountsExperts
  <2> QED  BY <2>1, <2>3
<1>9. /\ total' = [total EXCEPT ![g] = LoadOf(rest)] /\ work' = [work EXCEPT ![g] = w]
      /\ attnQ' = [attnQ EXCEPT ![g] = attnQ[g]]
  BY <1>1, <1>7, <1>8
<1>10. /\ GpuStep(g) /\ attnQ'[g] = attnQ[g] /\ queue'[g] = rest /\ total'[g] = LoadOf(rest)
       /\ at'[g] = "expert" /\ work'[g] = w
  <2>1. "expert" \in Stands
    BY DEF Stands
  <2>2. GpuPut(g, attnQ[g], rest, LoadOf(rest), "expert", w)
    BY <1>6, <1>9 DEF GpuPut
  <2>3. GpuStep(g) /\ GpuNow(g, attnQ[g], rest, LoadOf(rest), "expert", w)
    BY <1>1, <1>8, <2>1, <2>2, GpuStepIs
  <2> QED  BY <2>3 DEF GpuNow
<1>11. PlacesKept(g)
  BY <1>8, <1>10 DEF PlacesKept
<1>12. w.batch = batch
  BY <1>7
<1> QED  BY <1>3, <1>8, <1>10, <1>11, <1>12 DEF TaskTaken

LEMMA TaskNone ==
  ASSUME AsyncTypeOK, Shape, NEW g \in Gpus, at[g] \in {"top", "asleep"}, total[g] = LoadOf(queue[g]),
         NEW stand \in {"top", "asleep"},
         at' = [at EXCEPT ![g] = stand], UNCHANGED <<attnQ, queue, total, work>>
  PROVE  /\ GpuStep(g) /\ PlacesKept(g) /\ at'[g] = stand /\ total'[g] = LoadOf(queue'[g])
<1>1. /\ attnQ \in [Gpus -> AttnQueues] /\ queue \in [Gpus -> [Queues -> Batches]]
      /\ total \in [Gpus -> Nat] /\ at \in [Gpus -> Stands] /\ work \in [Gpus -> Works]
      /\ attnQ[g] \in AttnQueues /\ queue[g] \in [Queues -> Batches] /\ work[g] \in Works
  BY GpuTypes
<1>2. at'[g] = stand
  BY <1>1
<1>3. GpuStep(g)
  BY <1>1 DEF GpuStep, Stands
<1>4. SameCounts(attnQ[g], queue[g], at[g], work[g], attnQ[g], queue[g], stand, work[g])
  <2>1. Free(at[g], work[g]) /\ Free(stand, work[g])
    BY DEF Free
  <2> QED  BY <1>1, <2>1, CountsFree
<1>5. PlacesKept(g)
  BY <1>2, <1>4 DEF PlacesKept
<1> QED  BY <1>2, <1>3, <1>5

LEMMA TaskTakenIs ==
  ASSUME AsyncTypeOK, Shape, NEW g \in Gpus, at[g] \in {"top", "asleep"}, total[g] = LoadOf(queue[g]),
         TakeTask(g)
  PROVE  TaskTaken(g)
<1>1. CASE /\ AttentionFirst(g)
           /\ attnQ' = [attnQ EXCEPT ![g] = Tail(@)]
           /\ work'  = [work EXCEPT ![g] = [layer |-> Head(attnQ[g])[1], batch |-> <<Head(attnQ[g])[2]>>]]
           /\ at' = [at EXCEPT ![g] = "attention"] /\ UNCHANGED <<queue, total>>
  BY <1>1, TaskAttention
<1>2. CASE /\ BestLayer(g) # None
           /\ LET l     == BestLayer(g)
                  batch == FlattenSeq([i \in 1 .. ExpertsPerGpu |->
                             SubSeq(queue[g][<<l, i - 1>>], 1, Share(g, l, i - 1))])
              IN /\ queue' = [queue EXCEPT ![g] = [q \in Queues |->
                       IF q[1] = l THEN SubSeq(@[q], Share(g, l, q[2]) + 1, Len(@[q])) ELSE @[q]]]
                 /\ total' = [total EXCEPT ![g] = @ - Len(batch)]
                 /\ work'  = [work EXCEPT ![g] = [layer |-> l, batch |-> batch]]
           /\ at' = [at EXCEPT ![g] = "expert"]
           /\ UNCHANGED attnQ
  <2>1. PICK l \in Layers : l = BestLayer(g)
    BY <1>2, ScoresAre
  <2> QED  BY <1>2, <2>1, TaskExperts
<1>3. CASE at' = [at EXCEPT ![g] = "top"] /\ UNCHANGED <<attnQ, queue, total, work>>
  <2>1. GpuStep(g) /\ PlacesKept(g) /\ at'[g] = "top" /\ total'[g] = LoadOf(queue'[g])
    BY <1>3, TaskNone
  <2>2. Len(work'[g].batch) <= MaxBatch
    BY <1>3, GpuTypes
  <2> QED  BY <2>1, <2>2 DEF TaskTaken
<1> QED  BY <1>1, <1>2, <1>3 DEF TakeTask

(* The tokens of all GPUs.                                                 *)
InAttn(aq, a, w, t) == Total([g \in Gpus |-> AttnCount(aq[g], a[g], w[g].batch, t)], Gpus)
CopiesOf(qs, a, w, t, l) == Total([g \in Gpus |-> CopyCount(qs[g], a[g], w[g], t, l)], Gpus)

QueuesOfAll == [Gpus -> AttnQueues]
StoresOfAll == [Gpus -> [Queues -> Batches]]
WorksOfAll  == [Gpus -> Works]

LEMMA InAttnType ==
  ASSUME NEW aq \in QueuesOfAll, NEW a, NEW w \in WorksOfAll, NEW t
  PROVE  /\ InAttn(aq, a, w, t) \in Nat
         /\ \A g \in Gpus : /\ AttnCount(aq[g], a[g], w[g].batch, t) \in Nat
                            /\ AttnCount(aq[g], a[g], w[g].batch, t) <= InAttn(aq, a, w, t)
<1> DEFINE f == [g \in Gpus |-> AttnCount(aq[g], a[g], w[g].batch, t)]
<1>1. \A g \in Gpus : f[g] = AttnCount(aq[g], a[g], w[g].batch, t)
  OBVIOUS
<1>2. ASSUME NEW g \in Gpus PROVE f[g] \in Nat
  <2>1. aq[g] \in AttnQueues /\ w[g].batch \in Batches
    BY DEF QueuesOfAll, WorksOfAll, Works
  <2>2. AttnCount(aq[g], a[g], w[g].batch, t) \in Nat
    BY <2>1, AttnCountIs
  <2> QED  BY <2>2
<1>3. InAttn(aq, a, w, t) = Total(f, Gpus)
  BY DEF InAttn
<1> HIDE DEF f
<1>4. Total(f, Gpus) \in Nat /\ \A g \in Gpus : f[g] <= Total(f, Gpus)
  BY <1>2, AsyncSets, TotalType, TotalAtLeast
<1> QED  BY <1>1, <1>2, <1>3, <1>4

LEMMA CopiesOfType ==
  ASSUME NEW qs \in StoresOfAll, NEW a, NEW w \in WorksOfAll, NEW t, NEW l \in Layers
  PROVE  /\ CopiesOf(qs, a, w, t, l) \in Nat
         /\ \A g \in Gpus : /\ CopyCount(qs[g], a[g], w[g], t, l) \in Nat
                            /\ CopyCount(qs[g], a[g], w[g], t, l) <= CopiesOf(qs, a, w, t, l)
<1> DEFINE f == [g \in Gpus |-> CopyCount(qs[g], a[g], w[g], t, l)]
<1>1. \A g \in Gpus : f[g] = CopyCount(qs[g], a[g], w[g], t, l)
  OBVIOUS
<1>2. ASSUME NEW g \in Gpus PROVE f[g] \in Nat
  <2>1. qs[g] \in [Queues -> Batches] /\ w[g] \in Works
    BY DEF StoresOfAll, WorksOfAll
  <2>2. CopyCount(qs[g], a[g], w[g], t, l) \in Nat
    BY <2>1, CopyCountIs
  <2> QED  BY <2>2
<1>3. CopiesOf(qs, a, w, t, l) = Total(f, Gpus)
  BY DEF CopiesOf
<1> HIDE DEF f
<1>4. Total(f, Gpus) \in Nat /\ \A g \in Gpus : f[g] <= Total(f, Gpus)
  BY <1>2, AsyncSets, TotalType, TotalAtLeast
<1> QED  BY <1>1, <1>2, <1>3, <1>4

(* Only one GPU differs.                                                   *)
Elsewhere(g, f, f2) == \A h \in Gpus : h # g => f2[h] = f[h]

LEMMA InAttnPoint ==
  ASSUME NEW aq \in QueuesOfAll, NEW a, NEW w \in WorksOfAll,
         NEW aq2 \in QueuesOfAll, NEW a2, NEW w2 \in WorksOfAll, NEW t, NEW g \in Gpus,
         Elsewhere(g, aq, aq2), Elsewhere(g, a, a2), Elsewhere(g, w, w2)
  PROVE  InAttn(aq2, a2, w2, t) + AttnCount(aq[g], a[g], w[g].batch, t)
           = InAttn(aq, a, w, t) + AttnCount(aq2[g], a2[g], w2[g].batch, t)
<1> DEFINE f == [h \in Gpus |-> AttnCount(aq[h], a[h], w[h].batch, t)]
           k == [h \in Gpus |-> AttnCount(aq2[h], a2[h], w2[h].batch, t)]
<1>1. f[g] = AttnCount(aq[g], a[g], w[g].batch, t) /\ k[g] = AttnCount(aq2[g], a2[g], w2[g].batch, t)
  OBVIOUS
<1>2. \A h \in Gpus : h # g => k[h] = f[h]
  BY DEF Elsewhere
<1>3. \A h \in Gpus : f[h] \in Nat /\ k[h] \in Nat
  <2>1. \A h \in Gpus : AttnCount(aq[h], a[h], w[h].batch, t) \in Nat
    BY InAttnType
  <2>2. \A h \in Gpus : AttnCount(aq2[h], a2[h], w2[h].batch, t) \in Nat
    BY InAttnType
  <2> QED  BY <2>1, <2>2
<1>4. InAttn(aq, a, w, t) = Total(f, Gpus) /\ InAttn(aq2, a2, w2, t) = Total(k, Gpus)
  BY DEF InAttn
<1> HIDE DEF f, k
<1>5. Total(k, Gpus) + f[g] = Total(f, Gpus) + k[g]
  BY <1>2, <1>3, AsyncSets, TotalPoint
<1> QED  BY <1>1, <1>4, <1>5

LEMMA CopiesOfPoint ==
  ASSUME NEW qs \in StoresOfAll, NEW a, NEW w \in WorksOfAll,
         NEW qs2 \in StoresOfAll, NEW a2, NEW w2 \in WorksOfAll, NEW t, NEW l \in Layers, NEW g \in Gpus,
         Elsewhere(g, qs, qs2), Elsewhere(g, a, a2), Elsewhere(g, w, w2)
  PROVE  CopiesOf(qs2, a2, w2, t, l) + CopyCount(qs[g], a[g], w[g], t, l)
           = CopiesOf(qs, a, w, t, l) + CopyCount(qs2[g], a2[g], w2[g], t, l)
<1> DEFINE f == [h \in Gpus |-> CopyCount(qs[h], a[h], w[h], t, l)]
           k == [h \in Gpus |-> CopyCount(qs2[h], a2[h], w2[h], t, l)]
<1>1. f[g] = CopyCount(qs[g], a[g], w[g], t, l) /\ k[g] = CopyCount(qs2[g], a2[g], w2[g], t, l)
  OBVIOUS
<1>2. \A h \in Gpus : h # g => k[h] = f[h]
  BY DEF Elsewhere
<1>3. \A h \in Gpus : f[h] \in Nat /\ k[h] \in Nat
  <2>1. \A h \in Gpus : CopyCount(qs[h], a[h], w[h], t, l) \in Nat
    BY CopiesOfType
  <2>2. \A h \in Gpus : CopyCount(qs2[h], a2[h], w2[h], t, l) \in Nat
    BY CopiesOfType
  <2> QED  BY <2>1, <2>2
<1>4. CopiesOf(qs, a, w, t, l) = Total(f, Gpus) /\ CopiesOf(qs2, a2, w2, t, l) = Total(k, Gpus)
  BY DEF CopiesOf
<1> HIDE DEF f, k
<1>5. Total(k, Gpus) + f[g] = Total(f, Gpus) + k[g]
  BY <1>2, <1>3, AsyncSets, TotalPoint
<1> QED  BY <1>1, <1>4, <1>5

(* A token joins an attention queue.                                       *)
Joins(aq, aq2, l, u, g) == aq2 = [aq EXCEPT ![g] = Append(@, <<l, u>>)]

LEMMA InAttnJoin ==
  ASSUME NEW aq \in QueuesOfAll, NEW a, NEW w \in WorksOfAll, NEW l \in Layers, NEW u \in Tokens, NEW g \in Gpus,
         NEW aq2, Joins(aq, aq2, l, u, g), NEW t
  PROVE  /\ aq2 \in QueuesOfAll
         /\ t = u => InAttn(aq2, a, w, t) = InAttn(aq, a, w, t) + 1
         /\ t # u => InAttn(aq2, a, w, t) = InAttn(aq, a, w, t)
<1>1. aq[g] \in AttnQueues /\ w[g].batch \in Batches
  BY DEF QueuesOfAll, WorksOfAll, Works
<1>2. PICK q \in AttnQueues, b \in Batches, stand \in {a[g]} : q = aq[g] /\ b = w[g].batch /\ stand = a[g]
  BY <1>1
<1>3. /\ Append(q, <<l, u>>) \in AttnQueues
      /\ AttnCount(Append(q, <<l, u>>), stand, b, t) = AttnCount(q, stand, b, t) + IF t = u THEN 1 ELSE 0
  BY AttnCountAppend
<1>4. aq2 \in QueuesOfAll /\ aq2[g] = Append(q, <<l, u>>)
  BY <1>2, <1>3 DEF QueuesOfAll, Joins
<1>5. Elsewhere(g, aq, aq2) /\ Elsewhere(g, a, a) /\ Elsewhere(g, w, w)
  BY DEF Elsewhere, QueuesOfAll, Joins
<1>6. InAttn(aq2, a, w, t) + AttnCount(aq[g], a[g], w[g].batch, t)
        = InAttn(aq, a, w, t) + AttnCount(aq2[g], a[g], w[g].batch, t)
  <2>1. \A aq3 \in QueuesOfAll : Elsewhere(g, aq, aq3) =>
          InAttn(aq3, a, w, t) + AttnCount(aq[g], a[g], w[g].batch, t)
            = InAttn(aq, a, w, t) + AttnCount(aq3[g], a[g], w[g].batch, t)
    BY <1>5, InAttnPoint
  <2> QED  BY <1>4, <1>5, <2>1, Zenon
<1>7. InAttn(aq2, a, w, t) + AttnCount(q, stand, b, t)
        = InAttn(aq, a, w, t) + AttnCount(Append(q, <<l, u>>), stand, b, t)
  BY <1>2, <1>4, <1>6
<1>8. InAttn(aq2, a, w, t) \in Nat /\ InAttn(aq, a, w, t) \in Nat
  BY <1>4, InAttnType
<1>9. AttnCount(q, stand, b, t) \in Nat
  BY AttnCountIs
<1>10. CASE t = u
  <2>1. AttnCount(Append(q, <<l, u>>), stand, b, t) = AttnCount(q, stand, b, t) + 1
    BY <1>3, <1>10
  <2> QED  BY <1>4, <1>7, <1>8, <1>9, <1>10, <2>1
<1>11. CASE t # u
  <2>1. AttnCount(Append(q, <<l, u>>), stand, b, t) = AttnCount(q, stand, b, t)
    BY <1>3, <1>9, <1>11
  <2> QED  BY <1>4, <1>7, <1>8, <1>9, <1>11, <2>1
<1> QED  BY <1>10, <1>11

-----------------------------------------------------------------------------
(* The place of a token: n times in attention or on its way, c[l] copies   *)
(* at each layer with j[l] replies counted.                                *)
Counts == [Layers -> Nat]

(* A token is in one place if it is due, and nowhere if it is not.         *)
OnePlace(n, c, j, f, due) ==
  /\ n + Cardinality({l \in Layers : c[l] > 0 \/ j[l] > 0}) = due
  /\ \A l \in Layers : c[l] > 0 \/ j[l] > 0 => c[l] > 0 /\ c[l] + j[l] = f[l]

Nowhere(c, j) == \A l \in Layers : c[l] = 0 /\ j[l] = 0

OnlyAt(l, c, j) == \A k \in Layers : k # l => c[k] = 0 /\ j[k] = 0

LEMMA BusyIs ==
  ASSUME NEW c \in Counts, NEW j \in Counts
  PROVE  LET B == {l \in Layers : c[l] > 0 \/ j[l] > 0}
         IN  /\ IsFiniteSet(B) /\ Cardinality(B) \in Nat
             /\ Cardinality(B) = 0 <=> Nowhere(c, j)
             /\ \A l \in B : Cardinality(B) = 1 <=> OnlyAt(l, c, j)
             /\ \A l \in B : Cardinality(B) > 0
<1> DEFINE B == {l \in Layers : c[l] > 0 \/ j[l] > 0}
<1>0. \A l \in Layers : c[l] \in Nat /\ j[l] \in Nat
  BY DEF Counts
<1>1. IsFiniteSet(B) /\ Cardinality(B) \in Nat
  <2>1. B \in SUBSET Layers
    OBVIOUS
  <2> HIDE DEF B
  <2> QED  BY <2>1, AsyncSets, FS_Subset, FS_CardinalityType
<1>2. B = {} <=> Nowhere(c, j)
  <2>1. ASSUME B = {}, NEW l \in Layers PROVE c[l] = 0 /\ j[l] = 0
    <3>1. l \notin B
      BY <2>1
    <3> QED  BY <1>0, <3>1
  <2>2. ASSUME Nowhere(c, j), NEW l \in B PROVE FALSE
    BY <2>2 DEF Nowhere
  <2> QED  BY <2>1, <2>2 DEF Nowhere
<1>3. ASSUME NEW l \in B PROVE B = {l} <=> OnlyAt(l, c, j)
  <2>1. ASSUME B = {l}, NEW k \in Layers, k # l PROVE c[k] = 0 /\ j[k] = 0
    <3>1. k \notin B
      BY <2>1
    <3> QED  BY <1>0, <3>1
  <2>2. ASSUME OnlyAt(l, c, j), NEW k \in B PROVE k = l
    BY <2>2 DEF OnlyAt
  <2> QED  BY <2>1, <2>2 DEF OnlyAt
<1> HIDE DEF B
<1>4. Cardinality(B) = 0 <=> B = {}
  BY <1>1, FS_EmptySet
<1>5. ASSUME NEW l \in B PROVE Cardinality(B) = 1 <=> B = {l}
  <2>1. Cardinality({l}) = 1
    BY FS_Singleton
  <2>2. ASSUME Cardinality(B) = 1 PROVE B = {l}
    <3>1. PICK x : B = {x}
      BY <1>1, <2>2, FS_Singleton
    <3> QED  BY <1>5, <3>1
  <2> QED  BY <2>1, <2>2
<1>6. \A l \in B : Cardinality(B) > 0
  BY <1>1, <1>4
<1> QED  BY <1>1, <1>2, <1>3, <1>4, <1>5, <1>6 DEF B

LEMMA PlaceNone ==
  ASSUME NEW n \in Nat, NEW c \in Counts, NEW j \in Counts, NEW f
  PROVE  OnePlace(n, c, j, f, 0) <=> n = 0 /\ Nowhere(c, j)
<1> DEFINE B == {l \in Layers : c[l] > 0 \/ j[l] > 0}
<1>1. Cardinality(B) \in Nat /\ (Cardinality(B) = 0 <=> Nowhere(c, j))
  BY BusyIs
<1>2. Nowhere(c, j) => \A l \in Layers : ~(c[l] > 0 \/ j[l] > 0)
  BY DEF Nowhere
<1>3. OnePlace(n, c, j, f, 0) <=> /\ n + Cardinality(B) = 0
                                  /\ \A l \in Layers : c[l] > 0 \/ j[l] > 0 => c[l] > 0 /\ c[l] + j[l] = f[l]
  BY DEF OnePlace
<1> HIDE DEF B
<1> QED  BY <1>1, <1>2, <1>3

LEMMA PlaceFound ==
  ASSUME NEW n \in Nat, NEW c \in Counts, NEW j \in Counts, NEW f, NEW due \in {0, 1}, OnePlace(n, c, j, f, due)
  PROVE  /\ n >= 1 => n = 1 /\ due = 1 /\ Nowhere(c, j)
         /\ \A l \in Layers : c[l] > 0 => n = 0 /\ due = 1 /\ OnlyAt(l, c, j) /\ c[l] + j[l] = f[l]
         /\ due = 1 => n = 1 \/ \E l \in Layers : c[l] > 0
<1> DEFINE B == {l \in Layers : c[l] > 0 \/ j[l] > 0}
<1>1. /\ Cardinality(B) \in Nat /\ (Cardinality(B) = 0 <=> Nowhere(c, j))
      /\ \A l \in B : Cardinality(B) = 1 <=> OnlyAt(l, c, j)
      /\ \A l \in B : Cardinality(B) > 0
  BY BusyIs
<1>2. /\ n + Cardinality(B) = due
      /\ \A l \in Layers : c[l] > 0 \/ j[l] > 0 => c[l] > 0 /\ c[l] + j[l] = f[l]
  BY DEF OnePlace
<1>3. \A l \in Layers : l \in B <=> c[l] > 0 \/ j[l] > 0
  OBVIOUS
<1> HIDE DEF B
<1>4. n >= 1 => n = 1 /\ due = 1 /\ Nowhere(c, j)
  BY <1>1, <1>2
<1>5. ASSUME NEW l \in Layers, c[l] > 0 PROVE n = 0 /\ due = 1 /\ OnlyAt(l, c, j) /\ c[l] + j[l] = f[l]
  <2>1. l \in B /\ Cardinality(B) > 0 /\ (Cardinality(B) = 1 <=> OnlyAt(l, c, j))
    BY <1>1, <1>3, <1>5
  <2>2. n = 0 /\ due = 1 /\ Cardinality(B) = 1
    BY <1>1, <1>2, <2>1
  <2> QED  BY <1>2, <1>5, <2>1, <2>2
<1>6. ASSUME due = 1, n # 1 PROVE \E l \in Layers : c[l] > 0
  <2>1. Cardinality(B) # 0
    BY <1>1, <1>2, <1>6
  <2>2. PICK l \in Layers : ~(c[l] = 0 /\ j[l] = 0)
    BY <1>1, <2>1 DEF Nowhere
  <2>3. c[l] \in Nat /\ j[l] \in Nat
    BY DEF Counts
  <2> QED  BY <1>2, <2>2, <2>3
<1> QED  BY <1>4, <1>5, <1>6

LEMMA PlaceWaiting ==
  ASSUME NEW c \in Counts, NEW j \in Counts, NEW f, Nowhere(c, j)
  PROVE  OnePlace(1, c, j, f, 1)
<1> DEFINE B == {l \in Layers : c[l] > 0 \/ j[l] > 0}
<1>1. Cardinality(B) = 0
  BY BusyIs
<1>2. \A l \in Layers : ~(c[l] > 0 \/ j[l] > 0)
  BY DEF Nowhere
<1> QED  BY <1>1, <1>2 DEF OnePlace

LEMMA PlaceLayer ==
  ASSUME NEW c \in Counts, NEW j \in Counts, NEW f, NEW l \in Layers, c[l] > 0, c[l] + j[l] = f[l], OnlyAt(l, c, j)
  PROVE  OnePlace(0, c, j, f, 1)
<1> DEFINE B == {k \in Layers : c[k] > 0 \/ j[k] > 0}
<1>1. l \in B
  OBVIOUS
<1>2. Cardinality(B) = 1
  BY <1>1, BusyIs
<1>3. \A k \in Layers : k # l => ~(c[k] > 0 \/ j[k] > 0)
  BY DEF OnlyAt
<1> QED  BY <1>2, <1>3 DEF OnePlace

(* An expert is on one GPU, and there in one queue.                        *)
LEMMA DivParts ==
  ASSUME NEW n \in Nat \ {0}, NEW m \in Nat, NEW e \in Nat, e < m * n
  PROVE  e \div n \in 0 .. m - 1 /\ e % n \in 0 .. n - 1 /\ e = n * (e \div n) + (e % n)
<1>1. e \div n \in Nat /\ e % n \in 0 .. n - 1 /\ e = n * (e \div n) + (e % n)
  OBVIOUS
<1>2. \A d \in Nat : d >= m => n * d >= m * n
  <2> SUFFICES ASSUME NEW d \in Nat, d >= m PROVE n * d >= m * n
    OBVIOUS
  <2>1. PICK k \in Nat : d = m + k
    <3>1. d - m \in Nat /\ d = m + (d - m)
      OBVIOUS
    <3> QED  BY <3>1
  <2>2. n * (m + k) = m * n + n * k /\ n * k \in Nat /\ m * n \in Nat
    OBVIOUS
  <2>3. n * d = m * n + n * k
    BY <2>1, <2>2
  <2> QED  BY <2>2, <2>3
<1>3. ~(e \div n >= m)
  <2> SUFFICES ASSUME e \div n >= m PROVE FALSE
    OBVIOUS
  <2> DEFINE d == e \div n
  <2>1. d \in Nat /\ d >= m /\ e = n * d + (e % n) /\ e % n \in Nat
    BY <1>1
  <2> HIDE DEF d
  <2>2. n * d >= m * n
    BY <1>2, <2>1
  <2>3. n * d \in Nat /\ m * n \in Nat
    BY <2>1
  <2> QED  BY <2>1, <2>2, <2>3
<1> QED  BY <1>1, <1>3

LEMMA ExpertIs ==
  /\ \A e \in Experts : GpuOf(e) \in Gpus /\ QueueOf(e) \in LocalExperts
  /\ \A e, f \in Experts : GpuOf(e) = GpuOf(f) /\ QueueOf(e) = QueueOf(f) => e = f
<1>1. NumGpus \in Nat /\ ExpertsPerGpu \in Nat \ {0}
  BY AsyncSets
<1>2. ASSUME NEW e \in Experts
      PROVE  /\ e \div ExpertsPerGpu \in 0 .. NumGpus - 1 /\ e % ExpertsPerGpu \in 0 .. ExpertsPerGpu - 1
             /\ e = ExpertsPerGpu * (e \div ExpertsPerGpu) + (e % ExpertsPerGpu)
  <2>1. NumGpus * ExpertsPerGpu \in Nat
    BY <1>1
  <2>2. e \in Nat /\ e < NumGpus * ExpertsPerGpu
    BY <2>1 DEF Experts
  <2> QED  BY <1>1, <2>2, DivParts
<1>3. ASSUME NEW e \in Experts, NEW f \in Experts,
             e \div ExpertsPerGpu = f \div ExpertsPerGpu, e % ExpertsPerGpu = f % ExpertsPerGpu
      PROVE  e = f
  BY <1>2, <1>3, Zenon
<1> QED  BY <1>2, <1>3, Zenon DEF GpuOf, QueueOf, Gpus, LocalExperts

On(E, g) == {e \in E : GpuOf(e) = g}
Slots(E, g) == {QueueOf(e) : e \in On(E, g)}

LEMMA SlotsAre ==
  ASSUME NEW E \in Routes, NEW g
  PROVE  /\ Slots(E, g) \in SUBSET LocalExperts
         /\ Cardinality(Slots(E, g)) = Cardinality(On(E, g)) /\ Cardinality(On(E, g)) \in Nat
<1>1. E \subseteq Experts /\ IsFiniteSet(E)
  BY RouteIs
<1>2. On(E, g) \subseteq E /\ IsFiniteSet(On(E, g)) /\ Cardinality(On(E, g)) \in Nat
  <2>1. On(E, g) \in SUBSET E
    BY DEF On
  <2> QED  BY <1>1, <2>1, FS_Subset, FS_CardinalityType
<1>3. Slots(E, g) \in SUBSET LocalExperts
  BY <1>1, <1>2, ExpertIs DEF Slots
<1> DEFINE f == [e \in On(E, g) |-> QueueOf(e)]
<1>4. f \in Bijection(On(E, g), Slots(E, g))
  <2>1. f \in Surjection(On(E, g), Slots(E, g))
    BY DEF Surjection, Slots
  <2>2. \A a, b \in On(E, g) : f[a] = f[b] => a = b
    <3>1. \A a \in On(E, g) : a \in Experts /\ GpuOf(a) = g
      BY <1>1, <1>2 DEF On
    <3> QED  BY <3>1, ExpertIs
  <2>3. f \in Injection(On(E, g), Slots(E, g))
    <3>1. f \in [On(E, g) -> Slots(E, g)]
      BY DEF Slots
    <3> HIDE DEF f
    <3> QED  BY <2>2, <3>1 DEF Injection, IsInjective
  <2> HIDE DEF f
  <2> QED  BY <2>1, <2>3 DEF Bijection
<1>5. Cardinality(Slots(E, g)) = Cardinality(On(E, g))
  <2> HIDE DEF f
  <2> QED  BY <1>2, <1>4, FS_Bijection DEF ExistsBijection
<1> QED  BY <1>2, <1>3, <1>5

LEMMA SlotsTotal ==
  ASSUME NEW E \in Routes
  PROVE  Total([g \in Gpus |-> Cardinality(On(E, g))], Gpus) = Cardinality(E)
<1>1. E \subseteq Experts /\ IsFiniteSet(E) /\ NumGpus \in Nat
  BY RouteIs, AsyncSets
<1> DEFINE m == [e \in E |-> GpuOf(e)]
<1>2. \A e \in E : m[e] = GpuOf(e) /\ m[e] \in 0 .. NumGpus - 1
  BY <1>1, ExpertIs DEF Gpus
<1> HIDE DEF m
<1>3. Total([g \in 0 .. NumGpus - 1 |-> Cardinality({e \in E : m[e] = g})], 0 .. NumGpus - 1) = Cardinality(E)
  BY <1>1, <1>2, TotalOfClasses
<1>4. \A g : {e \in E : m[e] = g} = On(E, g)
  BY <1>2 DEF On
<1> QED  BY <1>3, <1>4 DEF Gpus

(* Copies for a set of experts join their queues.                          *)
Spreads(qs, qs2, k, E, u) == qs2 = [g \in Gpus |-> PutCopies(qs[g], k, Slots(E, g), u)]

LEMMA SpreadIs ==
  ASSUME NEW qs \in StoresOfAll, NEW k \in Layers, NEW E \in Routes, NEW u \in Tokens,
         NEW qs2, Spreads(qs, qs2, k, E, u)
  PROVE  /\ qs2 \in StoresOfAll
         /\ \A g \in Gpus : LoadOf(qs2[g]) = LoadOf(qs[g]) + Cardinality(On(E, g))
<1>1. ASSUME NEW g \in Gpus
      PROVE  /\ PutCopies(qs[g], k, Slots(E, g), u) \in [Queues -> Batches]
             /\ LoadOf(PutCopies(qs[g], k, Slots(E, g), u)) = LoadOf(qs[g]) + Cardinality(On(E, g))
  <2>1. qs[g] \in [Queues -> Batches] /\ Slots(E, g) \in SUBSET LocalExperts
        /\ Cardinality(Slots(E, g)) = Cardinality(On(E, g))
    BY SlotsAre DEF StoresOfAll
  <2>2. PutCopies(qs[g], k, Slots(E, g), u) \in [Queues -> Batches]
    BY <2>1, PutCopiesIs DEF CopiesPut
  <2>3. LoadOf(PutCopies(qs[g], k, Slots(E, g), u)) = LoadOf(qs[g]) + Cardinality(Slots(E, g))
    BY <2>1, PutCounts
  <2> QED  BY <2>1, <2>2, <2>3
<1>2. \A g \in Gpus : qs2[g] = PutCopies(qs[g], k, Slots(E, g), u)
  BY DEF Spreads
<1>3. qs2 \in StoresOfAll
  BY <1>1 DEF Spreads, StoresOfAll
<1> QED  BY <1>1, <1>2, <1>3

LEMMA SpreadCounts ==
  ASSUME NEW qs \in StoresOfAll, NEW k \in Layers, NEW E \in Routes, NEW u \in Tokens,
         NEW qs2, Spreads(qs, qs2, k, E, u), NEW a, NEW w \in WorksOfAll, NEW t, NEW l \in Layers
  PROVE  /\ t = u /\ l = k => CopiesOf(qs2, a, w, t, l) = CopiesOf(qs, a, w, t, l) + Cardinality(E)
         /\ ~(t = u /\ l = k) => CopiesOf(qs2, a, w, t, l) = CopiesOf(qs, a, w, t, l)
<1>1. \A g \in Gpus : qs2[g] = PutCopies(qs[g], k, Slots(E, g), u)
  BY DEF Spreads
<1> DEFINE f == [g \in Gpus |-> CopyCount(qs[g], a[g], w[g], t, l)]
           h == [g \in Gpus |-> CopyCount(qs2[g], a[g], w[g], t, l)]
           n == [g \in Gpus |-> Cardinality(On(E, g))]
<1>2. ASSUME NEW g \in Gpus
      PROVE  /\ f[g] \in Nat /\ n[g] \in Nat
             /\ t = u /\ l = k => h[g] = f[g] + n[g]
             /\ ~(t = u /\ l = k) => h[g] = f[g]
  <2>1. /\ qs[g] \in [Queues -> Batches] /\ w[g] \in Works /\ Slots(E, g) \in SUBSET LocalExperts
        /\ Cardinality(Slots(E, g)) = Cardinality(On(E, g)) /\ Cardinality(On(E, g)) \in Nat
    BY SlotsAre DEF StoresOfAll, WorksOfAll
  <2>2. CopyCount(PutCopies(qs[g], k, Slots(E, g), u), a[g], w[g], t, l)
          = CopyCount(qs[g], a[g], w[g], t, l) + IF t = u /\ l = k THEN Cardinality(Slots(E, g)) ELSE 0
    BY <2>1, CopyCountPut
  <2>3. CopyCount(qs[g], a[g], w[g], t, l) \in Nat
    BY <2>1, CopyCountIs
  <2>4. /\ f[g] = CopyCount(qs[g], a[g], w[g], t, l) /\ n[g] = Cardinality(On(E, g))
        /\ h[g] = CopyCount(PutCopies(qs[g], k, Slots(E, g), u), a[g], w[g], t, l)
    BY <1>1
  <2> HIDE DEF f, h, n
  <2>5. CASE t = u /\ l = k
    <3>1. h[g] = f[g] + n[g]
      BY <2>1, <2>2, <2>4, <2>5
    <3> QED  BY <2>1, <2>3, <2>4, <2>5, <3>1
  <2>6. CASE ~(t = u /\ l = k)
    <3>1. h[g] = f[g] + 0
      BY <2>2, <2>4, <2>6
    <3> QED  BY <2>1, <2>3, <2>4, <2>6, <3>1
  <2> QED  BY <2>5, <2>6
<1>3. CopiesOf(qs, a, w, t, l) = Total(f, Gpus) /\ CopiesOf(qs2, a, w, t, l) = Total(h, Gpus)
  BY DEF CopiesOf
<1>4. Total(n, Gpus) = Cardinality(E)
  BY SlotsTotal
<1> HIDE DEF f, h, n
<1>5. CASE t = u /\ l = k
  <2>1. Total(h, Gpus) = Total(f, Gpus) + Total(n, Gpus)
    <3>1. \A g \in Gpus : f[g] \in Nat /\ n[g] \in Nat /\ h[g] = f[g] + n[g]
      BY <1>2, <1>5
    <3> QED  BY <3>1, AsyncSets, TotalPlus
  <2> QED  BY <1>3, <1>4, <1>5, <2>1
<1>6. CASE ~(t = u /\ l = k)
  <2>1. \A g \in Gpus : h[g] = f[g]
    BY <1>2, <1>6
  <2>2. Total(h, Gpus) = Total(f, Gpus)
    BY <2>1, TotalSame
  <2> QED  BY <1>3, <1>6, <2>2
<1> QED  BY <1>5, <1>6

(* The place of a token, by what describes it.                             *)
OnTheWay(rt, t) == Cardinality({d \in rt : d.token = t})
CopiesAll(qs, a, w, t) == [l \in Layers |-> CopiesOf(qs, a, w, t, l)]
IsDue(is, t) == IF t[2] + 1 = is[t[1]] THEN 1 ELSE 0

TokenPlaced(aq, qs, a, w, rt, jn, fo, is, t) ==
  OnePlace(InAttn(aq, a, w, t) + OnTheWay(rt, t), CopiesAll(qs, a, w, t), jn[t], fo[t], IsDue(is, t))

AllPlaced(aq, qs, a, w, rt, jn, fo, is) == \A t \in Tokens : TokenPlaced(aq, qs, a, w, rt, jn, fo, is, t)

(* TokenInOnePlace is the sum of these.                                    *)
LEMMA TokenPlacedIs ==
  /\ TokenInOnePlace <=> AllPlaced(attnQ, queue, at, work, routing, joined, fanout, issued)
  /\ TokenInOnePlace' <=> AllPlaced(attnQ', queue', at', work', routing', joined', fanout', issued')
<1>1. \A t \in Tokens : /\ InAttention(t) = InAttn(attnQ, at, work, t)
                        /\ \A l \in Layers : Copies(t, l) = CopiesAll(queue, at, work, t)[l]
  BY DEF InAttention, InAttn, AttentionAt, AttnCount, Copies, CopiesAll, CopiesOf, CopiesAt, CopyCount, Computing
<1>2. \A t \in Tokens : /\ InAttention(t)' = InAttn(attnQ', at', work', t)
                        /\ \A l \in Layers : Copies(t, l)' = CopiesAll(queue', at', work', t)[l]
  BY DEF InAttention, InAttn, AttentionAt, AttnCount, Copies, CopiesAll, CopiesOf, CopiesAt, CopyCount, Computing
<1>3. TokenInOnePlace <=> AllPlaced(attnQ, queue, at, work, routing, joined, fanout, issued)
  <2> DEFINE copies(t, l) == Copies(t, l)
             attention(t) == InAttention(t)
             busy(t) == {l \in Layers : copies(t, l) > 0 \/ joined[t][l] > 0}
             one(t) == /\ attention(t) + OnTheWay(routing, t) + Cardinality(busy(t)) = IsDue(issued, t)
                       /\ \A l \in busy(t) : /\ copies(t, l) > 0
                                           /\ copies(t, l) + joined[t][l] = fanout[t][l]
  <2>1. TokenInOnePlace <=> \A t \in Tokens : one(t)
    BY DEF TokenInOnePlace, OnTheWay, IsDue
  <2>2. \A t \in Tokens : /\ attention(t) = InAttn(attnQ, at, work, t)
                          /\ \A l \in Layers : copies(t, l) = CopiesAll(queue, at, work, t)[l]
    BY <1>1
  <2> HIDE DEF copies, attention
  <2>3. ASSUME NEW t \in Tokens PROVE one(t) <=> TokenPlaced(attnQ, queue, at, work, routing, joined, fanout, issued, t)
    <3>1. busy(t) = {l \in Layers : CopiesAll(queue, at, work, t)[l] > 0 \/ joined[t][l] > 0}
      BY <2>2
    <3>2. \A l \in busy(t) : copies(t, l) = CopiesAll(queue, at, work, t)[l]
      BY <2>2
    <3> HIDE DEF busy
    <3> QED  BY <2>2, <3>1, <3>2 DEF TokenPlaced, OnePlace
  <2> QED  BY <2>1, <2>3 DEF AllPlaced
<1>4. TokenInOnePlace' <=> AllPlaced(attnQ', queue', at', work', routing', joined', fanout', issued')
  <2> DEFINE copies(t, l) == Copies(t, l)'
             attention(t) == InAttention(t)'
             busy(t) == {l \in Layers : copies(t, l) > 0 \/ joined'[t][l] > 0}
             one(t) == /\ attention(t) + OnTheWay(routing', t) + Cardinality(busy(t)) = IsDue(issued', t)
                       /\ \A l \in busy(t) : /\ copies(t, l) > 0
                                           /\ copies(t, l) + joined'[t][l] = fanout'[t][l]
  <2>1. TokenInOnePlace' <=> \A t \in Tokens : one(t)
    BY DEF TokenInOnePlace, OnTheWay, IsDue
  <2>2. \A t \in Tokens : /\ attention(t) = InAttn(attnQ', at', work', t)
                          /\ \A l \in Layers : copies(t, l) = CopiesAll(queue', at', work', t)[l]
    BY <1>2
  <2> HIDE DEF copies, attention
  <2>3. ASSUME NEW t \in Tokens PROVE one(t) <=> TokenPlaced(attnQ', queue', at', work', routing', joined', fanout', issued', t)
    <3>1. busy(t) = {l \in Layers : CopiesAll(queue', at', work', t)[l] > 0 \/ joined'[t][l] > 0}
      BY <2>2
    <3>2. \A l \in busy(t) : copies(t, l) = CopiesAll(queue', at', work', t)[l]
      BY <2>2
    <3> HIDE DEF busy
    <3> QED  BY <2>2, <3>1, <3>2 DEF TokenPlaced, OnePlace
  <2> QED  BY <2>1, <2>3 DEF AllPlaced
<1> QED  BY <1>3, <1>4

LEMMA PlaceTypes ==
  ASSUME NEW aq \in QueuesOfAll, NEW qs \in StoresOfAll, NEW a, NEW w \in WorksOfAll,
         NEW rt, IsFiniteSet(rt), NEW is, NEW t
  PROVE  /\ InAttn(aq, a, w, t) \in Nat /\ OnTheWay(rt, t) \in Nat
         /\ CopiesAll(qs, a, w, t) \in Counts /\ IsDue(is, t) \in {0, 1}
         /\ \A l \in Layers : CopiesAll(qs, a, w, t)[l] = CopiesOf(qs, a, w, t, l)
<1>1. InAttn(aq, a, w, t) \in Nat /\ \A l \in Layers : CopiesOf(qs, a, w, t, l) \in Nat
  BY InAttnType, CopiesOfType
<1>2. OnTheWay(rt, t) \in Nat
  <2> DEFINE D == {d \in rt : d.token = t}
  <2>1. D \in SUBSET rt
    OBVIOUS
  <2>2. OnTheWay(rt, t) = Cardinality(D)
    BY DEF OnTheWay
  <2> HIDE DEF D
  <2> QED  BY <2>1, <2>2, FS_Subset, FS_CardinalityType
<1> QED  BY <1>1, <1>2 DEF CopiesAll, Counts, IsDue

LEMMA StateTypes ==
  ASSUME AsyncTypeOK, Shape
  PROVE  /\ attnQ \in QueuesOfAll /\ queue \in StoresOfAll /\ work \in WorksOfAll
         /\ IsFiniteSet(routing) /\ \A t \in Tokens : joined[t] \in Counts
         /\ \A t \in Tokens : fanout[t] \in Counts
<1>1. \A n \in Nat : \A i \in 0 .. n : i \in Nat
  OBVIOUS
<1>2. TopK \in Nat
  BY AsyncSets
<1>3. \A i \in 0 .. TopK : i \in Nat
  BY <1>1, <1>2
<1> QED  BY <1>3, GpuTypes DEF AsyncTypeOK, Shape, QueuesOfAll, StoresOfAll, WorksOfAll, Counts

(* A step of one GPU that keeps its tokens keeps all.                      *)
LEMMA StepKeepsPlaces ==
  ASSUME AsyncTypeOK, Shape, TokenInOnePlace, NEW g \in Gpus, GpuStep(g), PlacesKept(g),
         UNCHANGED <<routing, joined, fanout, issued>>
  PROVE  TokenInOnePlace'
<1>1. attnQ \in QueuesOfAll /\ queue \in StoresOfAll /\ work \in WorksOfAll
  BY StateTypes
<1>2. attnQ' \in QueuesOfAll /\ queue' \in StoresOfAll /\ work' \in WorksOfAll
  BY DEF GpuStep, QueuesOfAll, StoresOfAll, WorksOfAll
<1>3. Elsewhere(g, attnQ, attnQ') /\ Elsewhere(g, queue, queue') /\ Elsewhere(g, at, at') /\ Elsewhere(g, work, work')
  BY DEF GpuStep, Elsewhere
<1>4. ASSUME NEW t PROVE InAttn(attnQ', at', work', t) = InAttn(attnQ, at, work, t)
  <2>1. InAttn(attnQ', at', work', t) + AttnCount(attnQ[g], at[g], work[g].batch, t)
          = InAttn(attnQ, at, work, t) + AttnCount(attnQ'[g], at'[g], work'[g].batch, t)
    BY <1>1, <1>2, <1>3, InAttnPoint
  <2>2. AttnCount(attnQ'[g], at'[g], work'[g].batch, t) = AttnCount(attnQ[g], at[g], work[g].batch, t)
    BY DEF PlacesKept, SameCounts
  <2>3. /\ InAttn(attnQ', at', work', t) \in Nat /\ InAttn(attnQ, at, work, t) \in Nat
        /\ AttnCount(attnQ[g], at[g], work[g].batch, t) \in Nat
    BY <1>1, <1>2, InAttnType
  <2> QED  BY <2>1, <2>2, <2>3
<1>5. ASSUME NEW t, NEW l \in Layers PROVE CopiesOf(queue', at', work', t, l) = CopiesOf(queue, at, work, t, l)
  <2>1. CopiesOf(queue', at', work', t, l) + CopyCount(queue[g], at[g], work[g], t, l)
          = CopiesOf(queue, at, work, t, l) + CopyCount(queue'[g], at'[g], work'[g], t, l)
    BY <1>1, <1>2, <1>3, CopiesOfPoint
  <2>2. CopyCount(queue'[g], at'[g], work'[g], t, l) = CopyCount(queue[g], at[g], work[g], t, l)
    BY DEF PlacesKept, SameCounts
  <2>3. /\ CopiesOf(queue', at', work', t, l) \in Nat /\ CopiesOf(queue, at, work, t, l) \in Nat
        /\ CopyCount(queue[g], at[g], work[g], t, l) \in Nat
    BY <1>1, <1>2, CopiesOfType
  <2> QED  BY <2>1, <2>2, <2>3
<1>6. \A t : CopiesAll(queue', at', work', t) = CopiesAll(queue, at, work, t)
  BY <1>5 DEF CopiesAll
<1>7. AllPlaced(attnQ, queue, at, work, routing, joined, fanout, issued)
  BY TokenPlacedIs
<1>8. AllPlaced(attnQ', queue', at', work', routing', joined', fanout', issued')
  BY <1>4, <1>6, <1>7 DEF AllPlaced, TokenPlaced
<1> QED  BY <1>8, TokenPlacedIs

(* The parts of a state that tell where tokens are.                        *)
PlaceState(aq, qs, w, rt, jn) ==
  /\ aq \in QueuesOfAll /\ qs \in StoresOfAll /\ w \in WorksOfAll /\ IsFiniteSet(rt)
  /\ \A t \in Tokens : jn[t] \in Counts

LEMMA TokenIs ==
  /\ \A t \in Tokens : t = <<t[1], t[2]>> /\ t[1] \in Requests /\ t[2] \in 0 .. TokensPerRequest - 1 /\ t[2] \in Nat
  /\ \A r \in Requests : \A n \in 1 .. TokensPerRequest : <<r, n - 1>> \in Tokens
<1>1. TokensPerRequest \in Nat
  BY AsyncSets
<1> QED  BY <1>1 DEF Tokens

(* A token that is due joins an attention queue.                           *)
LEMMA PlaceJoin ==
  ASSUME NEW aq, NEW qs, NEW a, NEW w, NEW rt, NEW jn, NEW fo, PlaceState(aq, qs, w, rt, jn),
         NEW is \in [Requests -> Int], NEW r \in Requests, NEW n \in 1 .. TokensPerRequest, is[r] = None,
         NEW l \in Layers, NEW g \in Gpus, NEW aq2, Joins(aq, aq2, l, <<r, n - 1>>, g),
         AllPlaced(aq, qs, a, w, rt, jn, fo, is)
  PROVE  aq2 \in QueuesOfAll /\ AllPlaced(aq2, qs, a, w, rt, jn, fo, [is EXCEPT ![r] = n])
<1> DEFINE u == <<r, n - 1>>
           is2 == [is EXCEPT ![r] = n]
<1>1. /\ aq \in QueuesOfAll /\ qs \in StoresOfAll /\ w \in WorksOfAll /\ IsFiniteSet(rt)
      /\ \A t \in Tokens : jn[t] \in Counts
  BY DEF PlaceState
<1>2. u \in Tokens /\ u[1] = r /\ u[2] = n - 1
  BY TokenIs
<1>3. ASSUME NEW t \in Tokens
      PROVE  /\ t = u => IsDue(is, t) = 0 /\ IsDue(is2, t) = 1
             /\ t # u => IsDue(is2, t) = IsDue(is, t)
  <2>1. t = <<t[1], t[2]>> /\ t[1] \in Requests /\ t[2] \in Nat
    BY TokenIs
  <2>2. is2[t[1]] = IF t[1] = r THEN n ELSE is[t[1]]
    BY <2>1
  <2>3. CASE t = u
    <3>1. t[1] = r /\ t[2] + 1 = n /\ is[t[1]] = None
      BY <1>2, <2>3
    <3>2. n # None
      BY DEF None
    <3> QED  BY <2>2, <2>3, <3>1, <3>2 DEF IsDue
  <2>4. CASE t # u /\ t[1] = r
    <3>1. t[2] + 1 # n
      <4> SUFFICES ASSUME t[2] + 1 = n PROVE FALSE
        OBVIOUS
      <4>1. t[2] = n - 1
        BY <2>1
      <4> QED  BY <2>1, <2>4, <4>1
    <3>2. t[2] + 1 # is[t[1]]
      BY <2>1, <2>4 DEF None
    <3> QED  BY <2>2, <2>4, <3>1, <3>2 DEF IsDue
  <2>5. CASE t[1] # r
    <3>1. t # u
      BY <1>2, <2>5
    <3> QED  BY <2>2, <2>5, <3>1 DEF IsDue
  <2> QED  BY <2>3, <2>4, <2>5
<1>4. aq2 \in QueuesOfAll
  BY <1>1, <1>2, InAttnJoin
<1>0. Joins(aq, aq2, l, u, g)
  OBVIOUS
<1> HIDE DEF is2, u
<1>5. ASSUME NEW t \in Tokens PROVE TokenPlaced(aq2, qs, a, w, rt, jn, fo, is2, t)
  <2>0. /\ t = u => InAttn(aq2, a, w, t) = InAttn(aq, a, w, t) + 1
        /\ t # u => InAttn(aq2, a, w, t) = InAttn(aq, a, w, t)
    BY <1>0, <1>1, <1>2, InAttnJoin
  <2>1. TokenPlaced(aq, qs, a, w, rt, jn, fo, is, t)
    BY DEF AllPlaced
  <2>2. /\ InAttn(aq, a, w, t) \in Nat /\ OnTheWay(rt, t) \in Nat
        /\ CopiesAll(qs, a, w, t) \in Counts /\ jn[t] \in Counts
    BY <1>1, PlaceTypes
  <2>3. CASE t # u
    BY <1>3, <2>0, <2>1, <2>3 DEF TokenPlaced
  <2>4. CASE t = u
    <3>1. OnePlace(InAttn(aq, a, w, t) + OnTheWay(rt, t), CopiesAll(qs, a, w, t), jn[t], fo[t], 0)
      BY <1>3, <2>1, <2>4 DEF TokenPlaced
    <3>2. InAttn(aq, a, w, t) + OnTheWay(rt, t) = 0 /\ Nowhere(CopiesAll(qs, a, w, t), jn[t])
      <4>1. InAttn(aq, a, w, t) + OnTheWay(rt, t) \in Nat
        BY <2>2
      <4> QED  BY <2>2, <3>1, <4>1, PlaceNone
    <3>3. InAttn(aq2, a, w, t) + OnTheWay(rt, t) = 1
      BY <2>0, <2>2, <2>4, <3>2
    <3>4. OnePlace(1, CopiesAll(qs, a, w, t), jn[t], fo[t], 1)
      BY <2>2, <3>2, PlaceWaiting
    <3> QED  BY <1>3, <2>4, <3>3, <3>4 DEF TokenPlaced
  <2> QED  BY <2>3, <2>4
<1> QED  BY <1>4, <1>5 DEF AllPlaced, is2

(* A token in attention goes on its way to its experts.                    *)
OnRoute(t, l, E) == [token |-> t, layer |-> l, experts |-> E]

LEMMA OnTheWayAdd ==
  ASSUME NEW rt, IsFiniteSet(rt), NEW u, NEW l, NEW E, NEW t
  PROVE  /\ IsFiniteSet(rt \cup {OnRoute(u, l, E)})
         /\ t # u => OnTheWay(rt \cup {OnRoute(u, l, E)}, t) = OnTheWay(rt, t)
         /\ t = u /\ OnTheWay(rt, t) = 0 => OnTheWay(rt \cup {OnRoute(u, l, E)}, t) = 1
<1> DEFINE D == {d \in rt : d.token = t}
           D2 == {d \in rt \cup {OnRoute(u, l, E)} : d.token = t}
<1>1. OnTheWay(rt, t) = Cardinality(D) /\ OnTheWay(rt \cup {OnRoute(u, l, E)}, t) = Cardinality(D2)
  BY DEF OnTheWay
<1>2. IsFiniteSet(rt \cup {OnRoute(u, l, E)})
  BY FS_AddElement
<1>3. OnRoute(u, l, E).token = u
  BY DEF OnRoute
<1>4. IsFiniteSet(D)
  <2>1. D \in SUBSET rt
    OBVIOUS
  <2> HIDE DEF D
  <2> QED  BY <2>1, FS_Subset
<1>5. t # u => D2 = D
  BY <1>3
<1>6. t = u /\ D = {} => D2 = {OnRoute(u, l, E)}
  BY <1>3
<1> HIDE DEF D, D2
<1>7. Cardinality(D) = 0 <=> D = {}
  BY <1>4, FS_EmptySet
<1>8. Cardinality({OnRoute(u, l, E)}) = 1
  BY FS_Singleton
<1> QED  BY <1>1, <1>2, <1>5, <1>6, <1>7, <1>8

LEMMA OnTheWayOther ==
  ASSUME NEW rt, NEW u, NEW l, NEW E, NEW t, t # u
  PROVE  OnTheWay(rt \cup {OnRoute(u, l, E)}, t) = OnTheWay(rt, t)
<1>1. {d \in rt \cup {OnRoute(u, l, E)} : d.token = t} = {d \in rt : d.token = t}
  BY DEF OnRoute
<1> QED  BY <1>1 DEF OnTheWay

LEMMA OnTheWayRemove ==
  ASSUME NEW rt, IsFiniteSet(rt), NEW d \in rt, NEW t
  PROVE  /\ IsFiniteSet(rt \ {d})
         /\ t # d.token => OnTheWay(rt \ {d}, t) = OnTheWay(rt, t)
         /\ t = d.token => OnTheWay(rt, t) >= 1 /\ OnTheWay(rt \ {d}, t) = OnTheWay(rt, t) - 1
<1> DEFINE D == {e \in rt : e.token = t}
           D2 == {e \in rt \ {d} : e.token = t}
<1>1. OnTheWay(rt, t) = Cardinality(D) /\ OnTheWay(rt \ {d}, t) = Cardinality(D2)
  BY DEF OnTheWay
<1>2. IsFiniteSet(rt \ {d})
  BY FS_RemoveElement
<1>4. IsFiniteSet(D)
  <2>1. D \in SUBSET rt
    OBVIOUS
  <2> HIDE DEF D
  <2> QED  BY <2>1, FS_Subset
<1>5. t # d.token => D2 = D
  OBVIOUS
<1>6. t = d.token => D2 = D \ {d} /\ d \in D
  OBVIOUS
<1> HIDE DEF D, D2
<1>7. d \in D => Cardinality(D \ {d}) = Cardinality(D) - 1 /\ Cardinality(D) \in Nat /\ Cardinality(D \ {d}) \in Nat
  BY <1>4, FS_RemoveElement, FS_CardinalityType
<1> QED  BY <1>1, <1>2, <1>5, <1>6, <1>7

LEMMA OffTheWay ==
  ASSUME NEW rt, IsFiniteSet(rt), NEW t, OnTheWay(rt, t) = 0
  PROVE  \A d \in rt : d.token # t
<1> DEFINE D == {e \in rt : e.token = t}
<1>1. IsFiniteSet(D)
  <2>1. D \in SUBSET rt
    OBVIOUS
  <2> HIDE DEF D
  <2> QED  BY <2>1, FS_Subset
<1>2. Cardinality(D) = 0
  BY DEF OnTheWay
<1>3. D = {}
  <2> HIDE DEF D
  <2> QED  BY <1>1, <1>2, FS_EmptySet
<1> QED  BY <1>3

(* AttentionDone, as far as tokens go.                                     *)
Routed(g, a, w, rt, fo, u, k, E, a2, w2, rt2, fo2) ==
  /\ g \in Gpus /\ a[g] = "attention" /\ Len(w[g].batch) = 1 /\ u = w[g].batch[1]
  /\ Elsewhere(g, a, a2) /\ a2[g] = "top"
  /\ w2 \in WorksOfAll /\ Elsewhere(g, w, w2)
  /\ rt2 = rt \cup {OnRoute(u, k, E)}
  /\ \A t \in Tokens : t # u => fo2[t] = fo[t]

(* The token that leaves attention is on its way to its experts.           *)
LEMMA PlaceRouted ==
  ASSUME NEW aq, NEW qs, NEW a, NEW w, NEW rt, NEW jn, NEW fo, PlaceState(aq, qs, w, rt, jn), NEW is,
         AllPlaced(aq, qs, a, w, rt, jn, fo, is),
         NEW g, NEW u, NEW k, NEW E, NEW a2, NEW w2, NEW rt2, NEW fo2,
         Routed(g, a, w, rt, fo, u, k, E, a2, w2, rt2, fo2)
  PROVE  /\ u \in Tokens /\ \A d \in rt : d.token # u
         /\ PlaceState(aq, qs, w2, rt2, jn) /\ AllPlaced(aq, qs, a2, w2, rt2, jn, fo2, is)
<1>0. /\ g \in Gpus /\ a[g] = "attention" /\ Len(w[g].batch) = 1 /\ u = w[g].batch[1]
      /\ Elsewhere(g, a, a2) /\ a2[g] = "top"
      /\ w2 \in WorksOfAll /\ Elsewhere(g, w, w2)
      /\ rt2 = rt \cup {OnRoute(u, k, E)}
      /\ \A t \in Tokens : t # u => fo2[t] = fo[t]
  BY DEF Routed
<1>1. /\ aq \in QueuesOfAll /\ qs \in StoresOfAll /\ w \in WorksOfAll /\ IsFiniteSet(rt)
      /\ \A t \in Tokens : jn[t] \in Counts
      /\ aq[g] \in AttnQueues /\ qs[g] \in [Queues -> Batches] /\ w[g] \in Works /\ w2[g] \in Works
      /\ w[g].batch \in Batches /\ w2[g].batch \in Batches
  BY <1>0 DEF PlaceState, QueuesOfAll, StoresOfAll, WorksOfAll, Works
<1>2. Elsewhere(g, aq, aq) /\ Elsewhere(g, qs, qs)
  BY <1>0 DEF Elsewhere
<1>3. ASSUME NEW t
      PROVE  /\ u \in Tokens
             /\ t = u => InAttn(aq, a, w, t) >= 1 /\ InAttn(aq, a2, w2, t) = InAttn(aq, a, w, t) - 1
             /\ t # u => InAttn(aq, a2, w2, t) = InAttn(aq, a, w, t)
  <2>1. InAttn(aq, a2, w2, t) + AttnCount(aq[g], a[g], w[g].batch, t)
          = InAttn(aq, a, w, t) + AttnCount(aq[g], a2[g], w2[g].batch, t)
    BY <1>0, <1>1, <1>2, InAttnPoint
  <2>2. /\ u \in Tokens
        /\ AttnCount(aq[g], "attention", w[g].batch, t)
             = AttnCount(aq[g], "top", w2[g].batch, t) + IF t = u THEN 1 ELSE 0
    BY <1>0, <1>1, AttnCountDone
  <2>3. InAttn(aq, a2, w2, t) \in Nat /\ InAttn(aq, a, w, t) \in Nat /\ AttnCount(aq[g], "top", w2[g].batch, t) \in Nat
    BY <1>0, <1>1, InAttnType, AttnCountIs
  <2>4. CASE t = u
    <3>1. AttnCount(aq[g], a[g], w[g].batch, t) = AttnCount(aq[g], a2[g], w2[g].batch, t) + 1
      BY <1>0, <2>2, <2>4
    <3> QED  BY <1>0, <2>1, <2>2, <2>3, <2>4, <3>1
  <2>5. CASE t # u
    <3>1. AttnCount(aq[g], a[g], w[g].batch, t) = AttnCount(aq[g], a2[g], w2[g].batch, t) + 0
      BY <1>0, <2>2, <2>5
    <3> QED  BY <1>0, <2>1, <2>2, <2>3, <2>5, <3>1
  <2> QED  BY <1>0, <2>4, <2>5
<1>4. ASSUME NEW t, NEW l \in Layers PROVE CopiesOf(qs, a2, w2, t, l) = CopiesOf(qs, a, w, t, l)
  <2>1. CopiesOf(qs, a2, w2, t, l) + CopyCount(qs[g], a[g], w[g], t, l)
          = CopiesOf(qs, a, w, t, l) + CopyCount(qs[g], a2[g], w2[g], t, l)
    BY <1>0, <1>1, <1>2, CopiesOfPoint
  <2>2. CopyCount(qs[g], a[g], w[g], t, l) = CopyCount(qs[g], a2[g], w2[g], t, l)
    <3>1. a[g] \notin Computing /\ a2[g] \notin Computing
      BY <1>0 DEF Computing
    <3> QED  BY <1>0, <1>1, <3>1, CopyCountIdle
  <2>3. /\ CopiesOf(qs, a2, w2, t, l) \in Nat /\ CopiesOf(qs, a, w, t, l) \in Nat
        /\ CopyCount(qs[g], a2[g], w2[g], t, l) \in Nat
    BY <1>0, <1>1, CopiesOfType
  <2> QED  BY <1>0, <2>1, <2>2, <2>3
<1>5. \A t : CopiesAll(qs, a2, w2, t) = CopiesAll(qs, a, w, t)
  BY <1>0, <1>4 DEF CopiesAll
<1>6. ASSUME NEW t \in Tokens
      PROVE  /\ InAttn(aq, a, w, t) \in Nat /\ OnTheWay(rt, t) \in Nat
             /\ CopiesAll(qs, a, w, t) \in Counts /\ IsDue(is, t) \in {0, 1} /\ jn[t] \in Counts
             /\ OnePlace(InAttn(aq, a, w, t) + OnTheWay(rt, t), CopiesAll(qs, a, w, t), jn[t], fo[t], IsDue(is, t))
  BY <1>0, <1>1, PlaceTypes DEF AllPlaced, TokenPlaced
<1>7. /\ u \in Tokens /\ OnTheWay(rt, u) = 0 /\ Nowhere(CopiesAll(qs, a, w, u), jn[u]) /\ IsDue(is, u) = 1
      /\ InAttn(aq, a, w, u) = 1
  <2>1. u \in Tokens /\ InAttn(aq, a, w, u) >= 1
    BY <1>0, <1>3
  <2>2. InAttn(aq, a, w, u) + OnTheWay(rt, u) \in Nat /\ InAttn(aq, a, w, u) + OnTheWay(rt, u) >= 1
    BY <1>0, <1>6, <2>1
  <2>3. /\ InAttn(aq, a, w, u) + OnTheWay(rt, u) = 1 /\ IsDue(is, u) = 1
        /\ Nowhere(CopiesAll(qs, a, w, u), jn[u])
    BY <1>0, <1>6, <2>1, <2>2, PlaceFound
  <2> QED  BY <1>0, <1>6, <2>1, <2>3
<1>8. \A d \in rt : d.token # u
  BY <1>0, <1>1, <1>7, OffTheWay
<1>9. ASSUME NEW t \in Tokens PROVE TokenPlaced(aq, qs, a2, w2, rt2, jn, fo2, is, t)
  <2>1. CASE t # u
    <3>1. InAttn(aq, a2, w2, t) = InAttn(aq, a, w, t) /\ OnTheWay(rt2, t) = OnTheWay(rt, t) /\ fo2[t] = fo[t]
      <4>1. OnTheWay(rt2, t) = OnTheWay(rt, t)
        <5>1. OnTheWay(rt \cup {OnRoute(u, k, E)}, t) = OnTheWay(rt, t)
          BY <1>0, <2>1, OnTheWayOther
        <5> QED  BY <1>0, <5>1
      <4> QED  BY <1>0, <1>3, <2>1, <4>1
    <3> QED  BY <1>0, <1>5, <1>6, <3>1 DEF TokenPlaced
  <2>2. CASE t = u
    <3>1. InAttn(aq, a2, w2, t) = 0 /\ OnTheWay(rt2, t) = 1
      BY <1>0, <1>1, <1>3, <1>7, <2>2, OnTheWayAdd
    <3>2. OnePlace(1, CopiesAll(qs, a, w, t), jn[t], fo2[t], 1)
      BY <1>0, <1>6, <1>7, <2>2, PlaceWaiting
    <3> QED  BY <1>0, <1>5, <1>7, <2>2, <3>1, <3>2 DEF TokenPlaced
  <2> QED  BY <1>0, <2>1, <2>2
<1>10. PlaceState(aq, qs, w2, rt2, jn)
  BY <1>0, <1>1, OnTheWayAdd DEF PlaceState
<1> QED  BY <1>0, <1>7, <1>8, <1>9, <1>10 DEF AllPlaced

(* A token on its way reaches its experts.                                 *)
LEMMA PlaceSpread ==
  ASSUME NEW aq, NEW qs, NEW a, NEW w, NEW rt, NEW jn, NEW fo, PlaceState(aq, qs, w, rt, jn), NEW is,
         AllPlaced(aq, qs, a, w, rt, jn, fo, is),
         NEW d \in rt, NEW u \in Tokens, u = d.token, NEW k \in Layers, NEW E \in Routes, fo[u][k] = Cardinality(E),
         NEW qs2, Spreads(qs, qs2, k, E, u), NEW rt2, rt2 = rt \ {d}
  PROVE  PlaceState(aq, qs2, w, rt2, jn) /\ AllPlaced(aq, qs2, a, w, rt2, jn, fo, is)
<1>1. /\ aq \in QueuesOfAll /\ qs \in StoresOfAll /\ w \in WorksOfAll /\ IsFiniteSet(rt)
      /\ \A t \in Tokens : jn[t] \in Counts
  BY DEF PlaceState
<1>2. qs2 \in StoresOfAll
  BY <1>1, SpreadIs
<1>3. IsFiniteSet(rt2)
  BY <1>1, FS_RemoveElement
<1>4. PlaceState(aq, qs2, w, rt2, jn)
  BY <1>1, <1>2, <1>3 DEF PlaceState
<1>5. ASSUME NEW t, NEW l \in Layers
      PROVE  /\ t = u /\ l = k => CopiesOf(qs2, a, w, t, l) = CopiesOf(qs, a, w, t, l) + Cardinality(E)
             /\ ~(t = u /\ l = k) => CopiesOf(qs2, a, w, t, l) = CopiesOf(qs, a, w, t, l)
  BY <1>1, SpreadCounts
<1>6. ASSUME NEW t \in Tokens
      PROVE  /\ InAttn(aq, a, w, t) \in Nat /\ OnTheWay(rt, t) \in Nat
             /\ CopiesAll(qs, a, w, t) \in Counts /\ IsDue(is, t) \in {0, 1} /\ jn[t] \in Counts
             /\ CopiesAll(qs2, a, w, t) \in Counts
             /\ OnePlace(InAttn(aq, a, w, t) + OnTheWay(rt, t), CopiesAll(qs, a, w, t), jn[t], fo[t], IsDue(is, t))
  BY <1>1, <1>2, PlaceTypes DEF AllPlaced, TokenPlaced
<1>7. OnTheWay(rt, u) >= 1 /\ OnTheWay(rt2, u) = OnTheWay(rt, u) - 1
  BY <1>1, OnTheWayRemove
<1>8. /\ InAttn(aq, a, w, u) = 0 /\ OnTheWay(rt2, u) = 0 /\ IsDue(is, u) = 1
      /\ Nowhere(CopiesAll(qs, a, w, u), jn[u])
  <2>1. InAttn(aq, a, w, u) + OnTheWay(rt, u) \in Nat /\ InAttn(aq, a, w, u) + OnTheWay(rt, u) >= 1
    BY <1>6, <1>7
  <2>2. /\ InAttn(aq, a, w, u) + OnTheWay(rt, u) = 1 /\ IsDue(is, u) = 1
        /\ Nowhere(CopiesAll(qs, a, w, u), jn[u])
    BY <1>6, <2>1, PlaceFound
  <2> QED  BY <1>6, <1>7, <2>2
<1>9. ASSUME NEW t \in Tokens PROVE TokenPlaced(aq, qs2, a, w, rt2, jn, fo, is, t)
  <2>1. CASE t # u
    <3>1. CopiesAll(qs2, a, w, t) = CopiesAll(qs, a, w, t)
      BY <1>5, <2>1 DEF CopiesAll
    <3>2. OnTheWay(rt2, t) = OnTheWay(rt, t)
      <4>1. {e \in rt2 : e.token = t} = {e \in rt : e.token = t}
        BY <2>1
      <4> QED  BY <4>1 DEF OnTheWay
    <3> QED  BY <1>6, <3>1, <3>2 DEF TokenPlaced
  <2>2. CASE t = u
    <3> DEFINE c == CopiesAll(qs2, a, w, u)
    <3>1. \A l \in Layers : c[l] = CopiesOf(qs2, a, w, u, l) /\ CopiesOf(qs, a, w, u, l) = 0 /\ jn[u][l] = 0
      BY <1>8 DEF CopiesAll, Nowhere
    <3>2. Cardinality(E) \in Nat /\ Cardinality(E) > 0
      BY RouteIs, AsyncSets
    <3>3. c[k] = Cardinality(E) /\ \A l \in Layers : l # k => c[l] = 0
      BY <1>5, <3>1, <3>2
    <3>4. c[k] > 0 /\ c[k] + jn[u][k] = fo[u][k] /\ OnlyAt(k, c, jn[u])
      BY <3>1, <3>2, <3>3 DEF OnlyAt
    <3>5. c \in Counts /\ jn[u] \in Counts
      BY <1>6
    <3> HIDE DEF c
    <3>6. OnePlace(0, c, jn[u], fo[u], 1)
      BY <3>4, <3>5, PlaceLayer
    <3> QED  BY <1>8, <2>2, <3>6 DEF TokenPlaced, c
  <2> QED  BY <2>1, <2>2
<1> QED  BY <1>4, <1>9 DEF AllPlaced

-----------------------------------------------------------------------------
(* A reply for the first token of a batch.                                 *)
Replies(g, a, w, w2, u, k) ==
  /\ g \in Gpus /\ a[g] = "deliver" /\ w[g].batch # <<>>
  /\ u = Head(w[g].batch) /\ k = w[g].layer
  /\ w2 = [w EXCEPT ![g].batch = Tail(@)]

OneCopyLess(aq, qs, a, w, w2, u, k) ==
  /\ w2 \in WorksOfAll /\ u \in Tokens /\ k \in Layers
  /\ \A t : InAttn(aq, a, w2, t) = InAttn(aq, a, w, t)
  /\ \A t : \A l \in Layers :
       /\ t = u /\ l = k => CopiesOf(qs, a, w, t, l) = CopiesOf(qs, a, w2, t, l) + 1
       /\ ~(t = u /\ l = k) => CopiesOf(qs, a, w, t, l) = CopiesOf(qs, a, w2, t, l)

LEMMA ReplyCounts ==
  ASSUME NEW aq, NEW qs, NEW a, NEW w, NEW rt, NEW jn, PlaceState(aq, qs, w, rt, jn),
         NEW g, NEW w2, NEW u, NEW k, Replies(g, a, w, w2, u, k)
  PROVE  OneCopyLess(aq, qs, a, w, w2, u, k)
<1>1. /\ aq \in QueuesOfAll /\ qs \in StoresOfAll /\ w \in WorksOfAll
      /\ g \in Gpus /\ a[g] = "deliver" /\ w[g].batch # <<>> /\ u = Head(w[g].batch) /\ k = w[g].layer
      /\ aq[g] \in AttnQueues /\ qs[g] \in [Queues -> Batches] /\ w[g] \in Works
  BY DEF PlaceState, Replies, QueuesOfAll, StoresOfAll, WorksOfAll
<1>2. PICK v : v = [layer |-> w[g].layer, batch |-> Tail(w[g].batch)]
  OBVIOUS
<1>3. v \in Works /\ v.layer = w[g].layer /\ v.batch = Tail(w[g].batch) /\ k \in Layers /\ u \in Tokens
  <2>1. w[g].batch \in Batches /\ w[g].layer \in Layers
    BY <1>1 DEF Works
  <2>2. Tail(w[g].batch) \in Batches /\ Head(w[g].batch) \in Tokens
    BY <1>1, <2>1, HeadTailProperties DEF Batches
  <2> QED  BY <1>1, <1>2, <2>1, <2>2 DEF Works
<1>4. w2 \in WorksOfAll /\ w2[g] = v /\ Elsewhere(g, w, w2)
  <2>1. w2 = [w EXCEPT ![g] = [w[g] EXCEPT !.batch = Tail(w[g].batch)]]
    BY <1>1 DEF Replies
  <2>2. [w[g] EXCEPT !.batch = Tail(w[g].batch)] = v
    <3>1. \A x \in [layer : Layers, batch : Batches] : \A b :
             [x EXCEPT !.batch = b] = [layer |-> x.layer, batch |-> b]
      OBVIOUS
    <3> QED  BY <1>1, <1>2, <3>1 DEF Works
  <2>3. w2 = [w EXCEPT ![g] = v]
    BY <2>1, <2>2
  <2> QED  BY <1>1, <1>3, <2>3 DEF WorksOfAll, Elsewhere
<1>5. Elsewhere(g, aq, aq) /\ Elsewhere(g, qs, qs) /\ Elsewhere(g, a, a)
  BY DEF Elsewhere
<1>6. ASSUME NEW t PROVE InAttn(aq, a, w2, t) = InAttn(aq, a, w, t)
  <2>1. InAttn(aq, a, w2, t) + AttnCount(aq[g], a[g], w[g].batch, t)
          = InAttn(aq, a, w, t) + AttnCount(aq[g], a[g], w2[g].batch, t)
    BY <1>1, <1>4, <1>5, InAttnPoint
  <2>2. AttnCount(aq[g], a[g], w[g].batch, t) = AttnCount(aq[g], a[g], w2[g].batch, t)
    BY <1>1 DEF AttnCount
  <2>3. /\ InAttn(aq, a, w2, t) \in Nat /\ InAttn(aq, a, w, t) \in Nat
        /\ AttnCount(aq[g], a[g], w[g].batch, t) \in Nat
    BY <1>1, <1>4, InAttnType
  <2> QED  BY <2>1, <2>2, <2>3
<1>7. ASSUME NEW t, NEW l \in Layers
      PROVE  /\ t = u /\ l = k => CopiesOf(qs, a, w, t, l) = CopiesOf(qs, a, w2, t, l) + 1
             /\ ~(t = u /\ l = k) => CopiesOf(qs, a, w, t, l) = CopiesOf(qs, a, w2, t, l)
  <2>1. CopiesOf(qs, a, w2, t, l) + CopyCount(qs[g], a[g], w[g], t, l)
          = CopiesOf(qs, a, w, t, l) + CopyCount(qs[g], a[g], w2[g], t, l)
    BY <1>1, <1>4, <1>5, CopiesOfPoint
  <2>2. CopyCount(qs[g], "deliver", w[g], t, l)
          = CopyCount(qs[g], "deliver", v, t, l) + IF t = Head(w[g].batch) /\ l = w[g].layer THEN 1 ELSE 0
    <3>1. PICK x \in Works : x = w[g]
      BY <1>1
    <3>2. CopyCount(qs[g], "deliver", x, t, l)
            = CopyCount(qs[g], "deliver", v, t, l) + IF t = Head(x.batch) /\ l = x.layer THEN 1 ELSE 0
      BY <1>1, <1>3, <3>1, CopyCountHead
    <3> QED  BY <3>1, <3>2
  <2>3. /\ CopiesOf(qs, a, w2, t, l) \in Nat /\ CopiesOf(qs, a, w, t, l) \in Nat
        /\ CopyCount(qs[g], a[g], w2[g], t, l) \in Nat
    BY <1>1, <1>4, CopiesOfType
  <2>4. CASE t = u /\ l = k
    <3>1. CopyCount(qs[g], a[g], w[g], t, l) = CopyCount(qs[g], a[g], w2[g], t, l) + 1
      BY <1>1, <1>4, <2>2, <2>4
    <3> QED  BY <2>1, <2>3, <2>4, <3>1
  <2>5. CASE ~(t = u /\ l = k)
    <3>1. CopyCount(qs[g], a[g], w[g], t, l) = CopyCount(qs[g], a[g], w2[g], t, l) + 0
      BY <1>1, <1>4, <2>2, <2>5
    <3> QED  BY <2>1, <2>3, <2>5, <3>1
  <2> QED  BY <2>4, <2>5
<1> QED  BY <1>3, <1>4, <1>6, <1>7 DEF OneCopyLess

(* Where the token of a reply is.                                          *)
LEMMA ReplyPlace ==
  ASSUME NEW aq, NEW qs, NEW a, NEW w, NEW rt, NEW jn, NEW fo, PlaceState(aq, qs, w, rt, jn), NEW is,
         AllPlaced(aq, qs, a, w, rt, jn, fo, is),
         NEW g, NEW w2, NEW u, NEW k, Replies(g, a, w, w2, u, k)
  PROVE  /\ u \in Tokens /\ k \in Layers
         /\ InAttn(aq, a, w, u) = 0 /\ OnTheWay(rt, u) = 0 /\ IsDue(is, u) = 1
         /\ OnlyAt(k, CopiesAll(qs, a, w2, u), jn[u])
         /\ CopiesAll(qs, a, w2, u) \in Counts /\ jn[u] \in Counts
         /\ CopiesAll(qs, a, w2, u)[k] + 1 + jn[u][k] = fo[u][k]
         /\ \A t \in Tokens : t # u => CopiesAll(qs, a, w2, t) = CopiesAll(qs, a, w, t)
<1>1. /\ aq \in QueuesOfAll /\ qs \in StoresOfAll /\ w \in WorksOfAll /\ IsFiniteSet(rt)
      /\ \A t \in Tokens : jn[t] \in Counts
  BY DEF PlaceState
<1>r. OneCopyLess(aq, qs, a, w, w2, u, k)
  BY ReplyCounts
<1>2. /\ w2 \in WorksOfAll /\ u \in Tokens /\ k \in Layers
      /\ \A t : \A l \in Layers :
              /\ t = u /\ l = k => CopiesOf(qs, a, w, t, l) = CopiesOf(qs, a, w2, t, l) + 1
              /\ ~(t = u /\ l = k) => CopiesOf(qs, a, w, t, l) = CopiesOf(qs, a, w2, t, l)
  BY <1>r DEF OneCopyLess
<1>3. /\ InAttn(aq, a, w, u) \in Nat /\ OnTheWay(rt, u) \in Nat
      /\ CopiesAll(qs, a, w, u) \in Counts /\ IsDue(is, u) \in {0, 1} /\ jn[u] \in Counts
      /\ CopiesAll(qs, a, w2, u) \in Counts
  BY <1>1, <1>2, PlaceTypes
<1>4. OnePlace(InAttn(aq, a, w, u) + OnTheWay(rt, u), CopiesAll(qs, a, w, u), jn[u], fo[u], IsDue(is, u))
  BY <1>2 DEF AllPlaced, TokenPlaced
<1>5. /\ CopiesAll(qs, a, w, u)[k] = CopiesAll(qs, a, w2, u)[k] + 1
      /\ \A l \in Layers : l # k => CopiesAll(qs, a, w, u)[l] = CopiesAll(qs, a, w2, u)[l]
  BY <1>2 DEF CopiesAll
<1> DEFINE c == CopiesAll(qs, a, w, u)
           c2 == CopiesAll(qs, a, w2, u)
<1>6. c[k] > 0 /\ c2[k] \in Nat
  BY <1>2, <1>3, <1>5 DEF Counts
<1> HIDE DEF c
<1>7. /\ InAttn(aq, a, w, u) + OnTheWay(rt, u) = 0 /\ IsDue(is, u) = 1
      /\ OnlyAt(k, c, jn[u]) /\ c[k] + jn[u][k] = fo[u][k]
  <2>1. InAttn(aq, a, w, u) + OnTheWay(rt, u) \in Nat
    BY <1>3
  <2> QED  BY <1>2, <1>3, <1>4, <1>6, <2>1, PlaceFound DEF c
<1>8. \A t \in Tokens : t # u => CopiesAll(qs, a, w2, t) = CopiesAll(qs, a, w, t)
  BY <1>2 DEF CopiesAll
<1>9. OnlyAt(k, c2, jn[u])
  BY <1>5, <1>7 DEF OnlyAt, c
<1>10. c2[k] + 1 + jn[u][k] = fo[u][k]
  BY <1>5, <1>7 DEF c
<1> QED  BY <1>2, <1>3, <1>7, <1>8, <1>9, <1>10

CountsReply(jn, jn2, fo, u, k) ==
  /\ jn[u][k] + 1 # fo[u][k]
  /\ jn2[u] = [jn[u] EXCEPT ![k] = @ + 1] /\ \A t \in Tokens : t # u => jn2[t] = jn[t]

(* A reply that is not the last is counted where its copy was.             *)
LEMMA PlaceReply ==
  ASSUME NEW aq, NEW qs, NEW a, NEW w, NEW rt, NEW jn, NEW fo, PlaceState(aq, qs, w, rt, jn), NEW is,
         AllPlaced(aq, qs, a, w, rt, jn, fo, is),
         NEW g, NEW w2, NEW u, NEW k, Replies(g, a, w, w2, u, k),
         NEW jn2, CountsReply(jn, jn2, fo, u, k)
  PROVE  /\ jn[u][k] + 1 <= fo[u][k]
         /\ AllPlaced(aq, qs, a, w2, rt, jn2, fo, is)
<1>0. /\ jn[u][k] + 1 # fo[u][k]
      /\ jn2[u] = [jn[u] EXCEPT ![k] = @ + 1] /\ \A t \in Tokens : t # u => jn2[t] = jn[t]
  BY DEF CountsReply
<1>1. /\ u \in Tokens /\ k \in Layers
      /\ InAttn(aq, a, w, u) = 0 /\ OnTheWay(rt, u) = 0 /\ IsDue(is, u) = 1
      /\ OnlyAt(k, CopiesAll(qs, a, w2, u), jn[u])
      /\ CopiesAll(qs, a, w2, u) \in Counts /\ jn[u] \in Counts
      /\ CopiesAll(qs, a, w2, u)[k] + 1 + jn[u][k] = fo[u][k]
      /\ \A t \in Tokens : t # u => CopiesAll(qs, a, w2, t) = CopiesAll(qs, a, w, t)
  BY ReplyPlace
<1>r. OneCopyLess(aq, qs, a, w, w2, u, k)
  BY ReplyCounts
<1>2. \A t : InAttn(aq, a, w2, t) = InAttn(aq, a, w, t)
  BY <1>r DEF OneCopyLess
<1> DEFINE c == CopiesAll(qs, a, w2, u)
<1>3. c[k] \in Nat /\ jn[u][k] \in Nat
  BY <1>1 DEF Counts
<1>4. c[k] > 0 /\ jn[u][k] + 1 <= fo[u][k]
  BY <1>0, <1>1, <1>3
<1>5. jn2[u] \in Counts /\ jn2[u][k] = jn[u][k] + 1 /\ \A l \in Layers : l # k => jn2[u][l] = jn[u][l]
  BY <1>0, <1>1, <1>3 DEF Counts
<1> HIDE DEF c
<1>6. OnePlace(0, c, jn2[u], fo[u], 1)
  <2>1. OnlyAt(k, c, jn2[u])
    BY <1>1, <1>5 DEF OnlyAt, c
  <2>2. c[k] + jn2[u][k] = fo[u][k]
    BY <1>0, <1>1, <1>3, <1>5 DEF c
  <2> QED  BY <1>1, <1>4, <1>5, <2>1, <2>2, PlaceLayer DEF c
<1>7. ASSUME NEW t \in Tokens PROVE TokenPlaced(aq, qs, a, w2, rt, jn2, fo, is, t)
  <2>1. CASE t = u
    BY <1>1, <1>2, <1>6, <2>1 DEF TokenPlaced, c
  <2>2. CASE t # u
    BY <1>0, <1>1, <1>2, <2>2 DEF AllPlaced, TokenPlaced
  <2> QED  BY <2>1, <2>2
<1> QED  BY <1>4, <1>7 DEF AllPlaced

CountsLeave(jn, jn2, fo, fo2, u, k) ==
  /\ jn[u][k] + 1 = fo[u][k]
  /\ jn2[u] = [jn[u] EXCEPT ![k] = 0] /\ \A t \in Tokens : t # u => jn2[t] = jn[t]
  /\ \A t \in Tokens : t # u => fo2[t] = fo[t]

Ends(is, is2, u) == is2 = [is EXCEPT ![u[1]] = None]

LeftBehind(aq, qs, a, w2, rt, jn2, fo2, is, is2, u) ==
  /\ u[2] + 1 = is[u[1]] /\ \A d \in rt : d.token # u
  /\ PlaceState(aq, qs, w2, rt, jn2) /\ AllPlaced(aq, qs, a, w2, rt, jn2, fo2, is2)

(* With the last reply, no trace of the token is left.                     *)
LEMMA PlaceLeaves ==
  ASSUME NEW aq, NEW qs, NEW a, NEW w, NEW rt, NEW jn, NEW fo, PlaceState(aq, qs, w, rt, jn),
         NEW is \in [Requests -> Int],
         AllPlaced(aq, qs, a, w, rt, jn, fo, is),
         NEW g, NEW w2, NEW u, NEW k, Replies(g, a, w, w2, u, k),
         NEW jn2, NEW fo2, CountsLeave(jn, jn2, fo, fo2, u, k), NEW is2, Ends(is, is2, u)
  PROVE  LeftBehind(aq, qs, a, w2, rt, jn2, fo2, is, is2, u)
<1>0. /\ jn[u][k] + 1 = fo[u][k]
      /\ jn2[u] = [jn[u] EXCEPT ![k] = 0] /\ \A t \in Tokens : t # u => jn2[t] = jn[t]
      /\ \A t \in Tokens : t # u => fo2[t] = fo[t]
  BY DEF CountsLeave
<1>1. /\ u \in Tokens /\ k \in Layers
      /\ InAttn(aq, a, w, u) = 0 /\ OnTheWay(rt, u) = 0 /\ IsDue(is, u) = 1
      /\ OnlyAt(k, CopiesAll(qs, a, w2, u), jn[u])
      /\ CopiesAll(qs, a, w2, u) \in Counts /\ jn[u] \in Counts
      /\ CopiesAll(qs, a, w2, u)[k] + 1 + jn[u][k] = fo[u][k]
      /\ \A t \in Tokens : t # u => CopiesAll(qs, a, w2, t) = CopiesAll(qs, a, w, t)
  BY ReplyPlace
<1>r. OneCopyLess(aq, qs, a, w, w2, u, k)
  BY ReplyCounts
<1>2. w2 \in WorksOfAll /\ \A t : InAttn(aq, a, w2, t) = InAttn(aq, a, w, t)
  BY <1>r DEF OneCopyLess
<1>3. u[2] + 1 = is[u[1]]
  BY <1>1 DEF IsDue
<1>4. \A d \in rt : d.token # u
  BY <1>1, OffTheWay DEF PlaceState
<1> DEFINE c == CopiesAll(qs, a, w2, u)
<1>5. c[k] = 0 /\ jn2[u] \in Counts /\ jn2[u][k] = 0 /\ \A l \in Layers : l # k => jn2[u][l] = jn[u][l]
  <2>1. c[k] \in Nat /\ jn[u][k] \in Nat
    BY <1>1 DEF Counts
  <2>2. c[k] = 0
    BY <1>0, <1>1, <2>1
  <2> QED  BY <1>0, <1>1, <2>2 DEF Counts
<1>6. PlaceState(aq, qs, w2, rt, jn2)
  BY <1>0, <1>2, <1>5 DEF PlaceState
<1>7. ASSUME NEW t \in Tokens
      PROVE  /\ t = u => IsDue(is2, t) = 0
             /\ t # u => IsDue(is2, t) = IsDue(is, t)
  <2>1. t = <<t[1], t[2]>> /\ t[1] \in Requests /\ t[2] \in Nat /\ u = <<u[1], u[2]>> /\ u[1] \in Requests /\ u[2] \in Nat
    BY <1>1, TokenIs
  <2>2. is2[t[1]] = IF t[1] = u[1] THEN None ELSE is[t[1]]
    BY <2>1 DEF Ends
  <2>3. t[2] + 1 # None
    BY <2>1 DEF None
  <2>4. CASE t[1] = u[1]
    <3>1. IsDue(is2, t) = 0
      BY <2>2, <2>3, <2>4 DEF IsDue
    <3>2. t # u => t[2] + 1 # is[t[1]]
      BY <1>3, <2>1, <2>4
    <3> QED  BY <3>1, <3>2 DEF IsDue
  <2>5. CASE t[1] # u[1]
    BY <2>2, <2>5 DEF IsDue
  <2> QED  BY <2>4, <2>5
<1> HIDE DEF c
<1>8. OnePlace(0, c, jn2[u], fo2[u], 0)
  <2>1. Nowhere(c, jn2[u])
    BY <1>1, <1>5 DEF OnlyAt, Nowhere, c
  <2> QED  BY <1>1, <1>5, <2>1, PlaceNone DEF c
<1>9. ASSUME NEW t \in Tokens PROVE TokenPlaced(aq, qs, a, w2, rt, jn2, fo2, is2, t)
  <2>1. CASE t = u
    BY <1>1, <1>2, <1>7, <1>8, <2>1 DEF TokenPlaced, c
  <2>2. CASE t # u
    BY <1>0, <1>1, <1>2, <1>7, <2>2 DEF AllPlaced, TokenPlaced
  <2> QED  BY <2>1, <2>2
<1> QED  BY <1>3, <1>4, <1>6, <1>9 DEF AllPlaced, LeftBehind

-----------------------------------------------------------------------------
(* Completed tokens are a number, and an idle worker holds none.           *)
LEMMA CompletedType == ASSUME AsyncTypeOK PROVE CompletedTokens \in Nat
<1>1. \A r \in Requests : done[r] \in Nat
  BY AsyncSets DEF AsyncTypeOK
<1> QED  BY <1>1, AsyncSets, TotalType DEF CompletedTokens

LEMMA IdleWorks == Idle \in Works /\ Len(Idle.batch) = 0 /\ Len(Idle.batch) <= MaxBatch
<1>1. 0 \in Layers /\ <<>> \in Seq(Tokens) /\ Len(<<>>) = 0 /\ MaxBatch >= 0
  BY AsyncSets, EmptySeq DEF Layers
<1> QED  BY <1>1 DEF Idle, Works, Batches

(* What the queues hold, now and after a step.                             *)
LEMMA LoadsAre ==
  /\ \A g : Total([l \in Layers |-> LayerTotal(g, l)], Layers) = LoadOf(queue[g])
  /\ \A g : Total([l \in Layers |-> LayerTotal(g, l)], Layers)' = LoadOf(queue'[g])
BY DEF LayerTotal, LoadOf, LayerLoad

(* Load and sleep of one GPU.                                              *)
LoadRight(n, qs, stand, up, q) ==
  n = LoadOf(qs) /\ (stand = "asleep" /\ ~up => n = 0 /\ q = <<>>)

LEMMA LoadsIs ==
  /\ Loads <=> \A g \in Gpus : LoadRight(total[g], queue[g], at[g], woken[g], attnQ[g])
  /\ Loads' <=> \A g \in Gpus : LoadRight(total'[g], queue'[g], at'[g], woken'[g], attnQ'[g])
BY LoadsAre DEF Loads, LoadRight

(* Nothing about requests changes.                                         *)
LEMMA AdmissionsSame ==
  ASSUME Admissions, UNCHANGED <<arrived, pending, issued, homeOf, done>>
  PROVE  Admissions'
BY DEF Admissions, FirstWaiting, Active

LEMMA InTimeSame ==
  ASSUME InTime, UNCHANGED <<setup, done, satAt, stopped>>,
         \A g \in Gpus : at'[g] = "deliver" => at[g] = "deliver" /\ work'[g] = work[g]
  PROVE  InTime'
BY DEF InTime, CompletedTokens

-----------------------------------------------------------------------------
(* A step of one worker between its tasks.                                 *)
OwnStep(g) ==
  /\ GpuStep(g) /\ PlacesKept(g)
  /\ woken' \in [Gpus -> BOOLEAN] /\ \A h \in Gpus : h # g => woken'[h] = woken[h]
  /\ LoadRight(total'[g], queue'[g], at'[g], woken'[g], attnQ'[g])
  /\ Len(work'[g].batch) <= MaxBatch
  /\ at'[g] = "attention" => Len(work'[g].batch) = 1
  /\ UNCHANGED <<setup, arrived, manager, done, routing, fanout, joined, driver>>

LEMMA OwnStepKeeps ==
  ASSUME AsyncIInv, NEW g \in Gpus, OwnStep(g),
         at'[g] = "deliver" => \A h \in Gpus : at[h] # "deliver",
         at'[g] = "deliver" /\ satAt # None =>
           CompletedTokens + Len(work'[g].batch) - satAt < setup.stopAfter + MaxBatch
  PROVE  AsyncIInv'
<1> USE DEF AsyncIInv
<1>1. /\ attnQ' \in [Gpus -> AttnQueues] /\ queue' \in [Gpus -> [Queues -> Batches]]
      /\ total' \in [Gpus -> Nat] /\ at' \in [Gpus -> Stands] /\ work' \in [Gpus -> Works]
      /\ \A h \in Gpus : h # g => /\ attnQ'[h] = attnQ[h] /\ queue'[h] = queue[h] /\ total'[h] = total[h]
                                  /\ at'[h] = at[h] /\ work'[h] = work[h]
      /\ woken' \in [Gpus -> BOOLEAN] /\ \A h \in Gpus : h # g => woken'[h] = woken[h]
      /\ Len(work'[g].batch) <= MaxBatch
      /\ UNCHANGED <<setup, arrived, pending, issued, homeOf, nextHome, done, routing, fanout, joined, satAt, stopped>>
  BY DEF OwnStep, GpuStep, manager, driver
<1>2. \A h \in Gpus : /\ work'[h].layer \in Layers /\ work'[h].batch \in Seq(Tokens)
                      /\ Len(work'[h].batch) <= MaxBatch
  <2>1. \A h \in Gpus : work'[h] \in Works
    BY <1>1
  <2>2. \A h \in Gpus : Len(work'[h].batch) <= MaxBatch
    BY <1>1 DEF AsyncTypeOK
  <2> QED  BY <2>1, <2>2 DEF Works, Batches
<1>3. AsyncTypeOK'
  BY <1>1, <1>2 DEF AsyncTypeOK, AttnQueues, Batches, Stands
<1>4. Shape'
  <2>1. work' \in [Gpus -> [layer : Layers, batch : Seq(Tokens)]]
    BY <1>1 DEF Works, Batches
  <2>2. \A h \in Gpus : at'[h] = "attention" => Len(work'[h].batch) = 1
    BY <1>1 DEF Shape, OwnStep
  <2>3. \A h, k \in Gpus : at'[h] = "deliver" /\ at'[k] = "deliver" => h = k
    BY <1>1 DEF Shape
  <2> QED  BY <1>1, <2>1, <2>2, <2>3 DEF Shape
<1>5. Admissions'
  BY <1>1, AdmissionsSame
<1>6. TokenInOnePlace'
  BY <1>1, StepKeepsPlaces DEF OwnStep
<1>7. Loads'
  <2>1. \A h \in Gpus : LoadRight(total[h], queue[h], at[h], woken[h], attnQ[h])
    BY LoadsIs
  <2>2. \A h \in Gpus : LoadRight(total'[h], queue'[h], at'[h], woken'[h], attnQ'[h])
    BY <1>1, <2>1, Zenon DEF OwnStep
  <2> QED  BY <2>2, LoadsIs
<1>8. InTime'
  BY <1>1 DEF InTime, CompletedTokens
<1> QED  BY <1>3, <1>4, <1>5, <1>6, <1>7, <1>8

(* Taking a task, from the top of the loop or woken up.                    *)
LEMMA TaskKeeps ==
  ASSUME AsyncIInv, NEW g \in Gpus, at[g] \in {"top", "asleep"}, TakeTask(g), UNCHANGED woken,
         UNCHANGED <<setup, arrived, manager, done, routing, fanout, joined, driver>>
  PROVE  AsyncIInv'
<1>1. AsyncTypeOK /\ Shape /\ Loads
  BY DEF AsyncIInv
<1>2. total[g] = LoadOf(queue[g])
  BY <1>1, LoadsIs DEF LoadRight
<1>3. TaskTaken(g)
  BY <1>1, <1>2, TaskTakenIs
<1>4. OwnStep(g) /\ at'[g] # "deliver"
  BY <1>1, <1>3 DEF TaskTaken, OwnStep, LoadRight, AsyncTypeOK
<1> QED  BY <1>4, OwnStepKeeps

LEMMA LoopTopKeeps ==
  ASSUME AsyncIInv, NEW g \in Gpus, LoopTop(g)
  PROVE  AsyncIInv'
<1>1. AsyncTypeOK /\ Shape /\ Loads
  BY DEF AsyncIInv
<1>2. CASE ~NoWork(g)
  BY <1>2, TaskKeeps DEF LoopTop
<1>3. CASE NoWork(g)
  <2>1. /\ woken' = [woken EXCEPT ![g] = FALSE] /\ at' = [at EXCEPT ![g] = "asleep"]
        /\ UNCHANGED <<attnQ, queue, total, work>>
    BY <1>3 DEF LoopTop
  <2>2. total[g] = LoadOf(queue[g]) /\ total[g] = 0 /\ attnQ[g] = <<>>
    BY <1>1, <1>3, LoadsIs DEF LoadRight, NoWork
  <2>3. at[g] = "top"
    BY DEF LoopTop
  <2>4. GpuStep(g) /\ PlacesKept(g) /\ at'[g] = "asleep" /\ total'[g] = LoadOf(queue'[g])
    BY <1>1, <2>1, <2>2, <2>3, TaskNone
  <2>5. Len(work'[g].batch) <= MaxBatch
    BY <1>1, <2>1 DEF AsyncTypeOK
  <2>6. woken' \in [Gpus -> BOOLEAN] /\ \A h \in Gpus : h # g => woken'[h] = woken[h]
    BY <1>1, <2>1 DEF AsyncTypeOK
  <2>7. OwnStep(g)
    BY <2>1, <2>2, <2>4, <2>5, <2>6 DEF OwnStep, LoadRight, LoopTop
  <2> QED  BY <2>4, <2>7, OwnStepKeeps
<1> QED  BY <1>2, <1>3

LEMMA WakeKeeps ==
  ASSUME AsyncIInv, NEW g \in Gpus, Wake(g)
  PROVE  AsyncIInv'
BY TaskKeeps DEF Wake

-----------------------------------------------------------------------------
(* A worker moves on with its batch.                                       *)
LEMMA MovesOn ==
  ASSUME AsyncTypeOK, Shape, Loads, NEW g \in Gpus, at[g] \in Computing, NEW stand \in Stands,
         at' = [at EXCEPT ![g] = stand], NEW w \in Works, work' = [work EXCEPT ![g] = w],
         Len(w.batch) <= MaxBatch,
         \/ stand \in Computing /\ w = work[g]
         \/ at[g] = "deliver" /\ work[g].batch = <<>> /\ stand = "top",
         UNCHANGED <<setup, arrived, manager, done, gpuWork, routing, fanout, joined, driver>>
  PROVE  OwnStep(g) /\ at'[g] = stand /\ work'[g] = w
<1>1. /\ attnQ \in [Gpus -> AttnQueues] /\ queue \in [Gpus -> [Queues -> Batches]]
      /\ total \in [Gpus -> Nat] /\ woken \in [Gpus -> BOOLEAN]
      /\ at \in [Gpus -> Stands] /\ work \in [Gpus -> Works]
      /\ attnQ[g] \in AttnQueues /\ queue[g] \in [Queues -> Batches] /\ work[g] \in Works
  BY GpuTypes
<1>2. UNCHANGED <<attnQ, queue, total, woken>>
  BY DEF gpuWork
<1>3. GpuStep(g) /\ at'[g] = stand /\ work'[g] = w
  BY <1>1, <1>2 DEF GpuStep
<1>4. SameCounts(attnQ[g], queue[g], at[g], work[g], attnQ[g], queue[g], stand, w)
  <2>1. CASE stand \in Computing /\ w = work[g]
    <3>1. ASSUME NEW t PROVE AttnCount(attnQ[g], stand, w.batch, t) = AttnCount(attnQ[g], at[g], work[g].batch, t)
      <4>1. stand # "attention" /\ at[g] # "attention"
        BY <2>1 DEF Computing
      <4> QED  BY <4>1, Zenon DEF AttnCount
    <3>2. ASSUME NEW t, NEW l \in Layers
          PROVE  CopyCount(queue[g], stand, w, t, l) = CopyCount(queue[g], at[g], work[g], t, l)
      BY <2>1, Zenon DEF CopyCount
    <3> QED  BY <3>1, <3>2, Zenon DEF SameCounts
  <2>2. CASE at[g] = "deliver" /\ work[g].batch = <<>> /\ stand = "top"
    <3>1. Free(at[g], work[g]) /\ Free(stand, w)
      BY <2>2 DEF Free
    <3> QED  BY <1>1, <3>1, CountsFree
  <2> QED  BY <2>1, <2>2
<1>5. PlacesKept(g)
  BY <1>2, <1>3, <1>4 DEF PlacesKept
<1>6. LoadRight(total'[g], queue'[g], at'[g], woken'[g], attnQ'[g])
  <2>1. total[g] = LoadOf(queue[g])
    BY LoadsIs DEF LoadRight
  <2>2. stand # "asleep"
    BY DEF Computing
  <2> QED  BY <1>2, <1>3, <2>1, <2>2 DEF LoadRight
<1>7. stand # "attention"
  BY DEF Computing
<1> QED  BY <1>1, <1>2, <1>3, <1>5, <1>6, <1>7 DEF OwnStep

LEMMA ExpertDoneKeeps ==
  ASSUME AsyncIInv, NEW g \in Gpus, ExpertDone(g)
  PROVE  AsyncIInv'
<1>1. AsyncTypeOK /\ Shape /\ Loads
  BY DEF AsyncIInv
<1>2. /\ at[g] = "expert" /\ at' = [at EXCEPT ![g] = "return"] /\ work' = work
      /\ UNCHANGED <<setup, arrived, manager, done, gpuWork, routing, fanout, joined, driver>>
  BY DEF ExpertDone
<1>3. work[g] \in Works /\ Len(work[g].batch) <= MaxBatch /\ work' = [work EXCEPT ![g] = work[g]]
  BY <1>1, <1>2, GpuTypes
<1>4. OwnStep(g) /\ at'[g] = "return"
  <2>1. at[g] \in Computing /\ "return" \in Stands /\ "return" \in Computing
    BY <1>2 DEF Computing, Stands
  <2> QED  BY <1>1, <1>2, <1>3, <2>1, MovesOn
<1> QED  BY <1>4, OwnStepKeeps

(* The driver would have stopped before a batch too many came back.        *)
LEMMA ReturnedKeeps ==
  ASSUME AsyncIInv, NEW g \in Gpus, Returned(g)
  PROVE  AsyncIInv'
<1>1. AsyncTypeOK /\ Shape /\ Loads /\ InTime
  BY DEF AsyncIInv
<1>2. /\ at[g] = "return" /\ at' = [at EXCEPT ![g] = "deliver"] /\ work' = work
      /\ UNCHANGED <<setup, arrived, manager, done, gpuWork, routing, fanout, joined, driver>>
      /\ ~EnoughAfter /\ \A h \in Gpus : at[h] # "deliver"
  BY DEF Returned, BetweenEvents, InEvent
<1>3. work[g] \in Works /\ Len(work[g].batch) <= MaxBatch /\ work' = [work EXCEPT ![g] = work[g]]
      /\ Len(work[g].batch) \in Nat
  BY <1>1, <1>2, GpuTypes DEF Works, Batches
<1>4. OwnStep(g) /\ work'[g] = work[g]
  <2>1. at[g] \in Computing /\ "deliver" \in Stands /\ "deliver" \in Computing
    BY <1>2 DEF Computing, Stands
  <2> QED  BY <1>1, <1>2, <1>3, <2>1, MovesOn
<1>5. ASSUME satAt # None
      PROVE  CompletedTokens + Len(work'[g].batch) - satAt < setup.stopAfter + MaxBatch
  <2>1. CompletedTokens - satAt < setup.stopAfter
    <3>1. satAt \in Nat /\ setup.stopAfter \in Nat /\ CompletedTokens \in Nat
      BY <1>1, <1>5, CompletedType DEF InTime
    <3> QED  BY <1>2, <1>5, <3>1 DEF EnoughAfter
  <2>2. satAt \in Nat /\ setup.stopAfter \in Nat /\ CompletedTokens \in Nat /\ MaxBatch \in Nat
    BY <1>1, <1>5, AsyncSets, CompletedType DEF InTime
  <2> QED  BY <1>3, <1>4, <2>1, <2>2
<1> QED  BY <1>2, <1>4, <1>5, OwnStepKeeps

LEMMA DeliveredKeeps ==
  ASSUME AsyncIInv, NEW g \in Gpus, Delivered(g)
  PROVE  AsyncIInv'
<1>1. AsyncTypeOK /\ Shape /\ Loads
  BY DEF AsyncIInv
<1>2. /\ at[g] = "deliver" /\ work[g].batch = <<>> /\ at' = [at EXCEPT ![g] = "top"]
      /\ work' = [work EXCEPT ![g] = Idle]
      /\ UNCHANGED <<setup, arrived, manager, done, gpuWork, routing, fanout, joined, driver>>
  BY DEF Delivered
<1>3. Idle \in Works /\ Len(Idle.batch) <= MaxBatch
  BY IdleWorks
<1>4. OwnStep(g) /\ at'[g] = "top"
  <2>1. at[g] \in Computing /\ "top" \in Stands
    BY <1>2 DEF Computing, Stands
  <2> QED  BY <1>1, <1>2, <1>3, <2>1, MovesOn
<1> QED  BY <1>4, OwnStepKeeps

(* The invariant as the lemmas about places want it.                       *)
LEMMA StateIs ==
  ASSUME AsyncTypeOK, Shape, TokenInOnePlace
  PROVE  /\ PlaceState(attnQ, queue, work, routing, joined)
         /\ AllPlaced(attnQ, queue, at, work, routing, joined, fanout, issued)
BY StateTypes, TokenPlacedIs DEF PlaceState

-----------------------------------------------------------------------------
(* A transfer ends, or the driver takes notice.                            *)
LEMMA TransferDoneKeeps ==
  ASSUME AsyncIInv, NEW c, TransferDone(c)
  PROVE  AsyncIInv'
<1>1. UNCHANGED <<setup, arrived, manager, done, gpuWork, at, work, routing, fanout, joined, driver>>
  BY DEF TransferDone
<1>2. AsyncTypeOK' /\ Shape' /\ Admissions' /\ InTime'
  BY <1>1 DEF AsyncIInv, AsyncTypeOK, Shape, Admissions, FirstWaiting, Active, InTime, CompletedTokens,
              manager, gpuWork, driver
<1>3. TokenInOnePlace'
  BY <1>1, TokenPlacedIs DEF AsyncIInv, manager, gpuWork
<1>4. Loads'
  BY <1>1, LoadsIs DEF AsyncIInv, gpuWork
<1> QED  BY <1>2, <1>3, <1>4 DEF AsyncIInv

LEMMA DriverKeeps ==
  ASSUME AsyncIInv, MarkSaturation \/ StopEarly
  PROVE  AsyncIInv'
<1>1. /\ UNCHANGED <<setup, arrived, manager, done, gpuWork, at, work, routing, fanout, joined>>
      /\ ~InEvent
  BY DEF MarkSaturation, StopEarly
<1>2. /\ CompletedTokens' = CompletedTokens /\ CompletedTokens \in Nat
      /\ \A g \in Gpus : at[g] # "deliver"
      /\ setup.stopAfter \in Nat \cup {None} /\ MaxBatch >= 1 /\ MaxBatch \in Nat
  <2>1. setup.stopAfter \in Nat \cup {None}
    BY AsyncAssumption DEF AsyncIInv, Shape
  <2> QED  BY <1>1, <2>1, CompletedType, AsyncSets DEF AsyncIInv, CompletedTokens, InEvent
<1>3. AsyncTypeOK' /\ InTime'
  <2>1. CASE MarkSaturation
    <3>1. satAt' = CompletedTokens /\ stopped' = stopped /\ setup.stopAfter \in Nat /\ satAt = None /\ ~stopped
      BY <1>2, <2>1 DEF MarkSaturation, Saturates
    <3>2. AsyncTypeOK'
      BY <1>1, <1>2, <3>1 DEF AsyncIInv, AsyncTypeOK, manager, gpuWork
    <3>3. \A n, k, m \in Nat : m >= 1 => n - n < k + m
      OBVIOUS
    <3>4. CompletedTokens - CompletedTokens < setup.stopAfter + MaxBatch
      BY <1>2, <3>1, <3>3
    <3> QED  BY <1>1, <1>2, <3>1, <3>2, <3>4 DEF InTime
  <2>2. CASE StopEarly
    <3>1. satAt' = satAt /\ stopped' = TRUE /\ EnoughAfter
      BY <2>2 DEF StopEarly
    <3>2. AsyncTypeOK'
      BY <1>1, <3>1 DEF AsyncIInv, AsyncTypeOK, manager, gpuWork
    <3> QED  BY <1>1, <1>2, <3>1, <3>2 DEF AsyncIInv, InTime, EnoughAfter
  <2> QED  BY <2>1, <2>2
<1>4. Shape' /\ Admissions'
  BY <1>1 DEF AsyncIInv, Shape, Admissions, FirstWaiting, Active, manager
<1>5. TokenInOnePlace'
  BY <1>1, TokenPlacedIs DEF AsyncIInv, manager, gpuWork
<1>6. Loads'
  BY <1>1, LoadsIs DEF AsyncIInv, gpuWork
<1> QED  BY <1>3, <1>4, <1>5, <1>6 DEF AsyncIInv

-----------------------------------------------------------------------------
(* Attention is done and the token on its way.                             *)
LEMMA AttentionDoneKeeps ==
  ASSUME AsyncIInv, NEW g \in Gpus, AttentionDone(g)
  PROVE  AsyncIInv'
<1>1. AsyncTypeOK /\ Shape /\ Admissions /\ TokenInOnePlace /\ Loads /\ InTime
  BY DEF AsyncIInv
<1>2. PICK t : t = work[g].batch[1]
  OBVIOUS
<1>3. PICK l : l = work[g].layer
  OBVIOUS
<1>4. PICK E \in Routes : /\ routing' = routing \cup {OnRoute(t, l, E)}
                          /\ fanout' = [fanout EXCEPT ![t][l] = Cardinality(E)]
  BY <1>2, <1>3 DEF AttentionDone, OnRoute
<1>5. /\ work' = [work EXCEPT ![g] = Idle] /\ at' = [at EXCEPT ![g] = "top"] /\ at[g] = "attention"
      /\ UNCHANGED <<setup, arrived, pending, issued, homeOf, nextHome, done, attnQ, queue, total, woken,
                     joined, satAt, stopped>>
  BY DEF AttentionDone, manager, gpuWork, driver
<1>6. /\ at \in [Gpus -> Stands] /\ work \in [Gpus -> Works] /\ Idle \in Works /\ "top" \in Stands
      /\ work[g].layer \in Layers /\ Len(work[g].batch) = 1 /\ Len(Idle.batch) <= MaxBatch
  BY <1>1, <1>5, GpuTypes, IdleWorks DEF Stands, Shape
<1>7. /\ work' \in [Gpus -> Works] /\ at' \in [Gpus -> Stands]
      /\ at'[g] = "top" /\ work'[g] = Idle /\ Elsewhere(g, at, at') /\ Elsewhere(g, work, work')
  BY <1>5, <1>6 DEF Elsewhere
<1>8. /\ t \in Tokens /\ \A d \in routing : d.token # t
      /\ AllPlaced(attnQ, queue, at', work', routing', joined, fanout', issued)
  <2>1. \A u \in Tokens : u # t => fanout'[u] = fanout[u]
    BY <1>1, <1>4 DEF AsyncTypeOK
  <2>2. work' \in WorksOfAll
    BY <1>7 DEF WorksOfAll
  <2>3. /\ PlaceState(attnQ, queue, work, routing, joined)
        /\ AllPlaced(attnQ, queue, at, work, routing, joined, fanout, issued)
    BY <1>1, StateIs
  <2>4. PICK a2, w2, rt2, fo2 : a2 = at' /\ w2 = work' /\ rt2 = routing' /\ fo2 = fanout'
    OBVIOUS
  <2>5. /\ at[g] = "attention" /\ Len(work[g].batch) = 1 /\ t = work[g].batch[1]
        /\ Elsewhere(g, at, a2) /\ a2[g] = "top" /\ w2 \in WorksOfAll /\ Elsewhere(g, work, w2)
        /\ rt2 = routing \cup {OnRoute(t, l, E)} /\ \A u \in Tokens : u # t => fo2[u] = fanout[u]
    BY <1>2, <1>4, <1>5, <1>6, <1>7, <2>1, <2>2, <2>4
  <2>6. /\ t \in Tokens /\ \A d \in routing : d.token # t
        /\ AllPlaced(attnQ, queue, a2, w2, rt2, joined, fo2, issued)
    <3>1. Routed(g, at, work, routing, fanout, t, l, E, a2, w2, rt2, fo2)
      BY <2>5 DEF Routed
    <3> QED  BY <2>3, <3>1, PlaceRouted
  <2> QED  BY <2>4, <2>6
<1>9. TokenInOnePlace'
  BY <1>5, <1>8, TokenPlacedIs
<1>10. /\ Cardinality(E) \in 0 .. TopK /\ l \in Layers
       /\ fanout' \in [Tokens -> [Layers -> 0 .. TopK]] /\ fanout'[t][l] = Cardinality(E)
  <2>1. Cardinality(E) \in 0 .. TopK /\ l \in Layers
    BY <1>3, <1>6, RouteIs, AsyncSets
  <2> QED  BY <1>1, <1>4, <1>8, <2>1 DEF AsyncTypeOK
<1>11. AsyncTypeOK'
  <2>1. \A h \in Gpus : work'[h].layer \in Layers /\ work'[h].batch \in Seq(Tokens) /\ Len(work'[h].batch) <= MaxBatch
    <3>1. \A h \in Gpus : work'[h] \in Works
      BY <1>7
    <3>2. \A h \in Gpus : Len(work'[h].batch) <= MaxBatch
      BY <1>1, <1>6, <1>7 DEF AsyncTypeOK, Elsewhere
    <3> QED  BY <3>1, <3>2 DEF Works, Batches
  <2> QED  BY <1>1, <1>5, <1>7, <1>10, <2>1 DEF AsyncTypeOK, Stands
<1>12. Shape'
  <2>1. routing' \subseteq [token : Tokens, layer : Layers, experts : Routes] /\ IsFiniteSet(routing')
    <3>1. OnRoute(t, l, E) \in [token : Tokens, layer : Layers, experts : Routes]
      BY <1>8, <1>10 DEF OnRoute
    <3> QED  BY <1>1, <1>4, <3>1, FS_AddElement DEF Shape
  <2>2. \A d \in routing' : fanout'[d.token][d.layer] = Cardinality(d.experts)
    <3>1. ASSUME NEW d \in routing PROVE fanout'[d.token][d.layer] = Cardinality(d.experts)
      <4>1. d.token \in Tokens /\ d.layer \in Layers /\ d.token # t
        BY <1>1, <1>8 DEF Shape
      <4>2. fanout'[d.token] = fanout[d.token]
        BY <1>1, <1>4, <4>1 DEF AsyncTypeOK
      <4> QED  BY <1>1, <4>2 DEF Shape
    <3>2. LET d == OnRoute(t, l, E) IN fanout'[d.token][d.layer] = Cardinality(d.experts)
      BY <1>10 DEF OnRoute
    <3> QED  BY <1>4, <3>1, <3>2
  <2>3. work' \in [Gpus -> [layer : Layers, batch : Seq(Tokens)]]
    BY <1>7 DEF Works, Batches
  <2>4. \A h \in Gpus : at'[h] = "attention" => Len(work'[h].batch) = 1
    BY <1>1, <1>7 DEF Shape, Elsewhere
  <2>5. \A h, k \in Gpus : at'[h] = "deliver" /\ at'[k] = "deliver" => h = k
    BY <1>1, <1>7 DEF Shape, Elsewhere
  <2> QED  BY <1>1, <1>5, <2>1, <2>2, <2>3, <2>4, <2>5 DEF Shape
<1>13. Admissions'
  BY <1>1, <1>5, AdmissionsSame
<1>14. Loads'
  <2>1. \A h \in Gpus : LoadRight(total[h], queue[h], at[h], woken[h], attnQ[h])
    BY <1>1, LoadsIs
  <2>2. \A h \in Gpus : at'[h] = "asleep" => at[h] = "asleep"
    BY <1>7 DEF Elsewhere
  <2>3. \A h \in Gpus : LoadRight(total'[h], queue'[h], at'[h], woken'[h], attnQ'[h])
    BY <1>5, <2>1, <2>2 DEF LoadRight
  <2> QED  BY <2>3, LoadsIs
<1>15. InTime'
  <2>1. \A h \in Gpus : at'[h] = "deliver" => at[h] = "deliver" /\ work'[h] = work[h]
    BY <1>7 DEF Elsewhere
  <2> QED  BY <1>1, <1>5, <2>1, InTimeSame
<1> QED  BY <1>9, <1>11, <1>12, <1>13, <1>14, <1>15 DEF AsyncIInv

-----------------------------------------------------------------------------
(* A routed token reaches its experts.                                     *)
LEMMA DispatchedKeeps ==
  ASSUME AsyncIInv, NEW d, Dispatched(d)
  PROVE  AsyncIInv'
<1>1. AsyncTypeOK /\ Shape /\ Admissions /\ TokenInOnePlace /\ Loads /\ InTime
  BY DEF AsyncIInv
<1>2. PICK u : u = d.token
  OBVIOUS
<1>3. PICK k : k = d.layer
  OBVIOUS
<1>4. PICK E : E = d.experts
  OBVIOUS
<1>5. /\ d \in routing /\ routing' = routing \ {d}
      /\ u \in Tokens /\ k \in Layers /\ E \in Routes /\ fanout[u][k] = Cardinality(E)
  BY <1>1, <1>2, <1>3, <1>4 DEF Dispatched, Shape
<1>6. /\ queue' = [g \in Gpus |-> [q \in Queues |->
                     IF q[1] = k /\ \E e \in On(E, g) : QueueOf(e) = q[2]
                     THEN Append(queue[g][q], u) ELSE queue[g][q]]]
      /\ total' = [g \in Gpus |-> total[g] + Cardinality(On(E, g))]
      /\ woken' = [g \in Gpus |-> woken[g] \/ (On(E, g) # {} /\ NoWork(g))]
  BY <1>2, <1>3, <1>4 DEF Dispatched, On
<1>7. UNCHANGED <<setup, arrived, pending, issued, homeOf, nextHome, done, attnQ, at, work, fanout, joined, satAt, stopped>>
  BY DEF Dispatched, manager, driver
<1>8. Spreads(queue, queue', k, E, u)
  <2>1. ASSUME NEW g \in Gpus
        PROVE  [q \in Queues |-> IF q[1] = k /\ \E e \in On(E, g) : QueueOf(e) = q[2]
                                 THEN Append(queue[g][q], u) ELSE queue[g][q]]
                 = PutCopies(queue[g], k, Slots(E, g), u)
    <3>1. \A q : (\E e \in On(E, g) : QueueOf(e) = q[2]) <=> q[2] \in Slots(E, g)
      BY DEF Slots
    <3> QED  BY <3>1 DEF PutCopies
  <2> QED  BY <1>6, <2>1 DEF Spreads
<1>9. /\ queue \in StoresOfAll /\ queue' \in StoresOfAll
      /\ \A g \in Gpus : LoadOf(queue'[g]) = LoadOf(queue[g]) + Cardinality(On(E, g))
  BY <1>1, <1>5, <1>8, StateTypes, SpreadIs
<1>10. TokenInOnePlace'
  <2>1. /\ PlaceState(attnQ, queue, work, routing, joined)
        /\ AllPlaced(attnQ, queue, at, work, routing, joined, fanout, issued)
    BY <1>1, StateIs
  <2>2. AllPlaced(attnQ, queue', at, work, routing', joined, fanout, issued)
    BY <1>2, <1>5, <1>8, <2>1, PlaceSpread
  <2> QED  BY <1>7, <2>2, TokenPlacedIs
<1>11. \A g \in Gpus : Cardinality(On(E, g)) \in Nat /\ (Cardinality(On(E, g)) = 0 <=> On(E, g) = {})
  <2>1. IsFiniteSet(E)
    BY <1>5, RouteIs
  <2>2. \A g : On(E, g) \in SUBSET E
    BY DEF On
  <2> QED  BY <2>1, <2>2, FS_Subset, FS_CardinalityType, FS_EmptySet
<1>12. AsyncTypeOK'
  <2>1. total' \in [Gpus -> Nat] /\ woken' \in [Gpus -> BOOLEAN]
    <3>1. \A g \in Gpus : total[g] + Cardinality(On(E, g)) \in Nat
      BY <1>1, <1>11 DEF AsyncTypeOK
    <3>2. \A g \in Gpus : (woken[g] \/ (On(E, g) # {} /\ NoWork(g))) \in BOOLEAN
      BY DEF NoWork
    <3> QED  BY <1>6, <3>1, <3>2
  <2>2. queue' \in [Gpus -> [Queues -> Seq(Tokens)]]
    BY <1>9 DEF StoresOfAll, Batches
  <2> QED  BY <1>1, <1>7, <2>1, <2>2 DEF AsyncTypeOK
<1>13. Shape'
  BY <1>1, <1>5, <1>7, FS_RemoveElement DEF Shape
<1>14. Admissions'
  BY <1>1, <1>7, AdmissionsSame
<1>15. Loads'
  <2>1. ASSUME NEW g \in Gpus PROVE LoadRight(total'[g], queue'[g], at'[g], woken'[g], attnQ'[g])
    <3>1. LoadRight(total[g], queue[g], at[g], woken[g], attnQ[g])
      BY <1>1, LoadsIs
    <3>2. /\ total'[g] = total[g] + Cardinality(On(E, g))
          /\ woken'[g] = (woken[g] \/ (On(E, g) # {} /\ NoWork(g)))
          /\ total[g] \in Nat
      BY <1>1, <1>6 DEF AsyncTypeOK
    <3>3. total'[g] = LoadOf(queue'[g])
      BY <1>9, <3>1, <3>2 DEF LoadRight
    <3>4. ASSUME at[g] = "asleep", ~woken'[g] PROVE total'[g] = 0 /\ attnQ[g] = <<>>
      <4>1. total[g] = 0 /\ attnQ[g] = <<>>
        BY <3>1, <3>2, <3>4 DEF LoadRight
      <4>2. On(E, g) = {}
        BY <3>2, <3>4, <4>1 DEF NoWork
      <4>3. Cardinality(On(E, g)) = 0
        BY <1>11, <4>2
      <4>4. total[g] + Cardinality(On(E, g)) = 0
        BY <4>1, <4>3
      <4> QED  BY <3>2, <4>1, <4>4
    <3> QED  BY <1>7, <3>3, <3>4 DEF LoadRight
  <2> QED  BY <2>1, LoadsIs
<1>16. InTime'
  BY <1>1, <1>7, InTimeSame
<1> QED  BY <1>10, <1>12, <1>13, <1>14, <1>15, <1>16 DEF AsyncIInv

-----------------------------------------------------------------------------
(* The requests before f were admitted in turn, those from f on wait.      *)
ActiveOf(is) == {r \in Requests : is[r] # None}

InOrder(f, is, hm, dn) ==
  /\ \A r \in Requests : is[r] # None <=> r < f /\ dn[r] < TokensPerRequest
  /\ \A r \in Requests : is[r] # None => is[r] = dn[r] + 1 /\ hm[r] \in Gpus
  /\ \A r \in Requests : r >= f => dn[r] = 0

Line(pd, f) == \A i \in 1 .. Len(pd) : pd[i] = f + i - 1

AdmissionsOf(n, pd, is, hm, dn) ==
  /\ Len(pd) <= n /\ Line(pd, n - Len(pd)) /\ InOrder(n - Len(pd), is, hm, dn)
  /\ Cardinality(ActiveOf(is)) <= MaxActive
  /\ pd # <<>> => Cardinality(ActiveOf(is)) = MaxActive

LEMMA AdmissionsAre ==
  /\ Admissions <=> AdmissionsOf(arrived, pending, issued, homeOf, done)
  /\ Admissions' <=> AdmissionsOf(arrived', pending', issued', homeOf', done')
BY DEF Admissions, AdmissionsOf, FirstWaiting, Active, ActiveOf, InOrder, Line

RequestTypes(is, dn) ==
  /\ is \in [Requests -> None .. TokensPerRequest] /\ dn \in [Requests -> 0 .. TokensPerRequest]

LEMMA RequestsAre == /\ \A r \in Requests : r \in Nat /\ r \in Int
                     /\ \A n \in Nat : n < NumRequests => n \in Requests
                     /\ None \notin Nat /\ \A n \in Nat : n # None
                     /\ None \in None .. TokensPerRequest
BY AsyncSets DEF Requests, None

LEMMA ActiveFinite == ASSUME NEW is PROVE IsFiniteSet(ActiveOf(is)) /\ Cardinality(ActiveOf(is)) \in Nat
<1>1. ActiveOf(is) \in SUBSET Requests
  BY DEF ActiveOf
<1> QED  BY <1>1, AsyncSets, FS_Subset, FS_CardinalityType

(* The first waiting request is admitted.                                  *)
AdmitsFirst(f, is, is2, hm, hm2) ==
  /\ f \in Requests /\ is2 = [is EXCEPT ![f] = 1] /\ hm2[f] \in Gpus
  /\ \A q \in Requests : q # f /\ is[q] # None => hm2[q] = hm[q]

(* Admitting the first that waits keeps the order.                         *)
LEMMA AdmitOne ==
  ASSUME NEW f, NEW is, NEW is2, NEW hm, NEW hm2, NEW dn, RequestTypes(is, dn), InOrder(f, is, hm, dn),
         AdmitsFirst(f, is, is2, hm, hm2)
  PROVE  /\ is[f] = None /\ RequestTypes(is2, dn) /\ InOrder(f + 1, is2, hm2, dn)
         /\ Cardinality(ActiveOf(is2)) = Cardinality(ActiveOf(is)) + 1
<1>1. /\ f \in Requests /\ is2 = [is EXCEPT ![f] = 1] /\ hm2[f] \in Gpus
      /\ \A q \in Requests : q # f /\ is[q] # None => hm2[q] = hm[q]
      /\ is \in [Requests -> None .. TokensPerRequest] /\ dn \in [Requests -> 0 .. TokensPerRequest]
      /\ f \in Nat /\ TokensPerRequest \in Nat \ {0}
  BY RequestsAre, AsyncSets DEF AdmitsFirst, RequestTypes
<1>2. is[f] = None /\ dn[f] = 0
  BY <1>1 DEF InOrder
<1>3. 1 \in None .. TokensPerRequest /\ 1 # None
  BY <1>1 DEF None
<1>4. is2[f] = 1 /\ is2 \in [Requests -> None .. TokensPerRequest] /\ \A q \in Requests : q # f => is2[q] = is[q]
  BY <1>1, <1>3
<1>5. ASSUME NEW r \in Requests
      PROVE  /\ is2[r] # None <=> r < f + 1 /\ dn[r] < TokensPerRequest
             /\ is2[r] # None => is2[r] = dn[r] + 1 /\ hm2[r] \in Gpus
             /\ r >= f + 1 => dn[r] = 0
  <2>1. CASE r = f
    BY <1>1, <1>2, <1>3, <1>4, <2>1
  <2>2. CASE r # f
    <3>1. r \in Nat /\ (r < f + 1 <=> r < f) /\ (r >= f + 1 => r >= f)
      <4>1. r \in Nat /\ f \in Nat /\ r # f
        BY <1>1, <2>2, RequestsAre
      <4> QED  BY <4>1
    <3>2. is2[r] = is[r]
      BY <1>4, <2>2
    <3> QED  BY <1>1, <2>2, <3>1, <3>2 DEF InOrder
  <2> QED  BY <2>1, <2>2
<1>6. InOrder(f + 1, is2, hm2, dn)
  BY <1>5 DEF InOrder
<1>7. ActiveOf(is2) = ActiveOf(is) \cup {f} /\ f \notin ActiveOf(is)
  BY <1>1, <1>2, <1>3, <1>4 DEF ActiveOf
<1>8. Cardinality(ActiveOf(is2)) = Cardinality(ActiveOf(is)) + 1
  BY <1>7, ActiveFinite, FS_AddElement
<1> QED  BY <1>1, <1>2, <1>4, <1>6, <1>8 DEF RequestTypes

(* A token completes: the request goes on to the next, or is done.         *)
OneDone(is, is2, dn, dn2, r, v) ==
  is2 = [is EXCEPT ![r] = v] /\ dn2 = [dn EXCEPT ![r] = dn[r] + 1]

LEMMA NextToken ==
  ASSUME NEW f \in Int, NEW is, NEW hm, NEW dn, RequestTypes(is, dn), InOrder(f, is, hm, dn),
         NEW r \in Requests, is[r] # None, dn[r] + 1 < TokensPerRequest, NEW is2, NEW dn2,
         NEW v, v = is[r] + 1, OneDone(is, is2, dn, dn2, r, v)
  PROVE  /\ RequestTypes(is2, dn2) /\ InOrder(f, is2, hm, dn2) /\ ActiveOf(is2) = ActiveOf(is)
<1>1. /\ is \in [Requests -> None .. TokensPerRequest] /\ dn \in [Requests -> 0 .. TokensPerRequest]
      /\ TokensPerRequest \in Nat \ {0}
  BY AsyncSets DEF RequestTypes
<1>2. r < f /\ is[r] = dn[r] + 1 /\ hm[r] \in Gpus /\ dn[r] \in Nat
  BY <1>1 DEF InOrder
<1>3. /\ is[r] + 1 \in None .. TokensPerRequest /\ is[r] + 1 # None /\ is[r] + 1 = dn[r] + 1 + 1
      /\ dn[r] + 1 \in 0 .. TokensPerRequest /\ dn[r] + 1 # 0
  BY <1>1, <1>2 DEF None
<1>4. /\ is2 \in [Requests -> None .. TokensPerRequest] /\ dn2 \in [Requests -> 0 .. TokensPerRequest]
      /\ is2[r] = is[r] + 1 /\ dn2[r] = dn[r] + 1
      /\ \A q \in Requests : q # r => is2[q] = is[q] /\ dn2[q] = dn[q]
  BY <1>1, <1>3 DEF OneDone
<1>5. ~(r >= f)
  <2>1. r \in Int
    BY RequestsAre
  <2> QED  BY <1>2, <2>1
<1>6. ASSUME NEW q \in Requests
      PROVE  /\ is2[q] # None <=> q < f /\ dn2[q] < TokensPerRequest
             /\ is2[q] # None => is2[q] = dn2[q] + 1 /\ hm[q] \in Gpus
             /\ q >= f => dn2[q] = 0
  <2>1. CASE q = r
    BY <1>2, <1>3, <1>4, <1>5, <2>1
  <2>2. CASE q # r
    <3>1. is2[q] = is[q] /\ dn2[q] = dn[q]
      BY <1>4, <2>2
    <3> QED  BY <3>1 DEF InOrder
  <2> QED  BY <2>1, <2>2
<1>7. ActiveOf(is2) = ActiveOf(is)
  BY <1>3, <1>4 DEF ActiveOf
<1> QED  BY <1>4, <1>6, <1>7 DEF RequestTypes, InOrder

LEMMA RequestDone ==
  ASSUME NEW f \in Int, NEW is, NEW hm, NEW dn, RequestTypes(is, dn), InOrder(f, is, hm, dn),
         NEW r \in Requests, is[r] # None, dn[r] + 1 >= TokensPerRequest, NEW is2, NEW dn2,
         OneDone(is, is2, dn, dn2, r, None)
  PROVE  /\ RequestTypes(is2, dn2) /\ InOrder(f, is2, hm, dn2) /\ r < f
         /\ Cardinality(ActiveOf(is2)) = Cardinality(ActiveOf(is)) - 1
         /\ ActiveOf(is2) = ActiveOf(is) \ {r}
<1>1. /\ is \in [Requests -> None .. TokensPerRequest] /\ dn \in [Requests -> 0 .. TokensPerRequest]
      /\ TokensPerRequest \in Nat \ {0}
  BY AsyncSets DEF RequestTypes
<1>2. r < f /\ is[r] = dn[r] + 1 /\ dn[r] \in Nat /\ dn[r] < TokensPerRequest
  BY <1>1 DEF InOrder
<1>3. dn[r] + 1 \in 0 .. TokensPerRequest /\ ~(dn[r] + 1 < TokensPerRequest) /\ None \in None .. TokensPerRequest
  BY <1>1, <1>2, RequestsAre
<1>4. /\ is2 \in [Requests -> None .. TokensPerRequest] /\ dn2 \in [Requests -> 0 .. TokensPerRequest]
      /\ is2[r] = None /\ dn2[r] = dn[r] + 1
      /\ \A q \in Requests : q # r => is2[q] = is[q] /\ dn2[q] = dn[q]
  BY <1>1, <1>3 DEF OneDone
<1>5. ~(r >= f)
  <2>1. r \in Int
    BY RequestsAre
  <2> QED  BY <1>2, <2>1
<1>6. ASSUME NEW q \in Requests
      PROVE  /\ is2[q] # None <=> q < f /\ dn2[q] < TokensPerRequest
             /\ is2[q] # None => is2[q] = dn2[q] + 1 /\ hm[q] \in Gpus
             /\ q >= f => dn2[q] = 0
  <2>1. CASE q = r
    BY <1>2, <1>3, <1>4, <1>5, <2>1
  <2>2. CASE q # r
    <3>1. is2[q] = is[q] /\ dn2[q] = dn[q]
      BY <1>4, <2>2
    <3> QED  BY <3>1 DEF InOrder
  <2> QED  BY <2>1, <2>2
<1>7. ActiveOf(is2) = ActiveOf(is) \ {r} /\ r \in ActiveOf(is)
  BY <1>4 DEF ActiveOf
<1>8. Cardinality(ActiveOf(is2)) = Cardinality(ActiveOf(is)) - 1
  BY <1>7, ActiveFinite, FS_RemoveElement
<1> QED  BY <1>2, <1>4, <1>6, <1>7, <1>8 DEF RequestTypes, InOrder

-----------------------------------------------------------------------------
(* Attention work wakes the GPU that had none.                             *)
LEMMA JoinLoads ==
  ASSUME AsyncTypeOK, Shape, Loads, NEW l \in Layers, NEW t \in Tokens, NEW g \in Gpus,
         JoinAttention(l, t, g), UNCHANGED at
  PROVE  /\ Joins(attnQ, attnQ', l, t, g) /\ attnQ' \in QueuesOfAll /\ woken' \in [Gpus -> BOOLEAN]
         /\ Loads'
<1>1. Joins(attnQ, attnQ', l, t, g)
  BY DEF JoinAttention, Joins
<1>2. attnQ' \in QueuesOfAll
  <2>1. attnQ \in QueuesOfAll /\ work \in WorksOfAll
    BY StateTypes
  <2> QED  BY <1>1, <2>1, InAttnJoin
<1>3. woken' = [h \in Gpus |-> woken[h] \/ (h = g /\ NoWork(h))] /\ UNCHANGED <<queue, total>>
  BY DEF JoinAttention
<1>4. woken' \in [Gpus -> BOOLEAN]
  <2>1. \A h \in Gpus : (woken[h] \/ (h = g /\ NoWork(h))) \in BOOLEAN
    BY DEF AsyncTypeOK, NoWork
  <2> QED  BY <1>3, <2>1
<1>5. Loads'
  <2>1. ASSUME NEW h \in Gpus PROVE LoadRight(total'[h], queue'[h], at'[h], woken'[h], attnQ'[h])
    <3>1. LoadRight(total[h], queue[h], at[h], woken[h], attnQ[h])
      BY LoadsIs
    <3>2. woken'[h] = (woken[h] \/ (h = g /\ NoWork(h)))
      BY <1>3
    <3>3. h # g => attnQ'[h] = attnQ[h]
      BY DEF JoinAttention, AsyncTypeOK
    <3>4. ASSUME at[h] = "asleep", ~woken'[h] PROVE total[h] = 0 /\ attnQ'[h] = <<>>
      <4>1. total[h] = 0 /\ attnQ[h] = <<>>
        BY <3>1, <3>2, <3>4 DEF LoadRight
      <4>2. h # g
        BY <3>2, <3>4, <4>1 DEF NoWork
      <4> QED  BY <3>3, <4>1, <4>2
    <3> QED  BY <1>3, <3>1, <3>4 DEF LoadRight
  <2> QED  BY <2>1, LoadsIs
<1> QED  BY <1>1, <1>2, <1>4, <1>5

(* A request starts, in terms of what holds requests and places.           *)
LEMMA StartsAre ==
  ASSUME AsyncTypeOK, NEW f, NEW r \in Requests, f = r, NEW left \in [Requests -> None .. TokensPerRequest],
         StartsOne(r, left)
  PROVE  /\ AdmitsFirst(f, left, issued', homeOf, homeOf')
         /\ homeOf' \in [Requests -> Gpus \cup {None}] /\ nextHome' \in Nat
         /\ \E h \in Gpus : JoinAttention(0, <<r, 0>>, h)
<1>1. /\ issued' = [q \in Requests |-> IF q = r THEN 1 ELSE left[q]]
      /\ homeOf' = [q \in Requests |-> IF q = r THEN nextHome % NumGpus
                                       ELSE IF left[q] = None THEN None ELSE homeOf[q]]
      /\ nextHome % NumGpus \in Gpus /\ nextHome' = nextHome + 1
      /\ JoinAttention(0, <<r, 0>>, nextHome % NumGpus)
  BY DEF StartsOne
<1>2. issued' = [left EXCEPT ![r] = 1]
  BY <1>1
<1>3. homeOf'[r] \in Gpus /\ \A q \in Requests : q # r /\ left[q] # None => homeOf'[q] = homeOf[q]
  BY <1>1
<1>4. homeOf' \in [Requests -> Gpus \cup {None}]
  BY <1>1 DEF AsyncTypeOK
<1>5. nextHome' \in Nat
  BY <1>1 DEF AsyncTypeOK
<1> QED  BY <1>1, <1>2, <1>3, <1>4, <1>5 DEF AdmitsFirst

(* Nothing waits while a place is free.                                    *)
LEMMA PlaceFreeIs ==
  ASSUME AsyncTypeOK, Admissions
  PROVE  /\ PlaceFree => pending = <<>>
         /\ ~PlaceFree => Cardinality(ActiveOf(issued)) = MaxActive
         /\ Active = ActiveOf(issued)
         /\ arrived \in Nat /\ Len(pending) \in Nat /\ arrived - Len(pending) \in Nat
<1>1. Active = ActiveOf(issued)
  BY DEF Active, ActiveOf
<1>2. Cardinality(ActiveOf(issued)) \in Nat /\ MaxActive \in Nat
  BY ActiveFinite, AsyncSets
<1>3. /\ Cardinality(ActiveOf(issued)) <= MaxActive /\ Len(pending) <= arrived
      /\ pending # <<>> => Cardinality(ActiveOf(issued)) = MaxActive
  BY AdmissionsAre DEF AdmissionsOf
<1>4. arrived \in Nat /\ Len(pending) \in Nat
  BY AsyncSets, LenProperties DEF AsyncTypeOK
<1> QED  BY <1>1, <1>2, <1>3, <1>4 DEF PlaceFree

(* The next request takes a free place.                                    *)
LEMMA ArriveAdmitted ==
  ASSUME AsyncIInv, arrived < NumRequests, arrived' = arrived + 1, PlaceFree, Start(<<arrived>>, issued),
         UNCHANGED <<pending, setup, done, at, work, routing, fanout, joined, driver>>
  PROVE  AsyncIInv'
<1>1. AsyncTypeOK /\ Shape /\ Admissions /\ TokenInOnePlace /\ Loads /\ InTime
  BY DEF AsyncIInv
<1>2. pending = <<>> /\ arrived \in Nat /\ arrived \in Requests /\ Len(pending) = 0
  BY <1>1, PlaceFreeIs, RequestsAre DEF AsyncIInv
<1>3. StartsOne(arrived, issued)
  BY <1>1, <1>2, StartOne
<1>4. /\ issued \in [Requests -> None .. TokensPerRequest] /\ done \in [Requests -> 0 .. TokensPerRequest]
      /\ RequestTypes(issued, done)
  BY <1>1 DEF AsyncTypeOK, RequestTypes
<1>5. PICK f : f = arrived
  OBVIOUS
<1>6. PICK h \in Gpus : JoinAttention(0, <<arrived, 0>>, h)
  BY <1>1, <1>2, <1>3, <1>4, StartsAre
<1>7. AdmitsFirst(f, issued, issued', homeOf, homeOf') /\ homeOf' \in [Requests -> Gpus \cup {None}] /\ nextHome' \in Nat
  BY <1>1, <1>2, <1>3, <1>4, <1>5, StartsAre
<1>8. arrived - Len(pending) = f /\ arrived' - Len(pending') = f + 1 /\ f \in Requests
  BY <1>2, <1>5
<1>9. InOrder(f, issued, homeOf, done) /\ Cardinality(ActiveOf(issued)) < MaxActive
  BY <1>1, <1>8, AdmissionsAre, PlaceFreeIs DEF AdmissionsOf, PlaceFree
<1>10. /\ issued[f] = None /\ RequestTypes(issued', done) /\ InOrder(f + 1, issued', homeOf', done)
       /\ Cardinality(ActiveOf(issued')) = Cardinality(ActiveOf(issued)) + 1
  BY <1>4, <1>7, <1>9, AdmitOne
<1>11. Admissions'
  <2>1. Cardinality(ActiveOf(issued')) <= MaxActive
    BY <1>9, <1>10, ActiveFinite, AsyncSets
  <2>2. Len(pending') <= arrived' /\ Line(pending', f + 1) /\ pending' = <<>> /\ done' = done
    BY <1>2 DEF Line
  <2>3. AdmissionsOf(arrived', pending', issued', homeOf', done')
    BY <1>8, <1>10, <2>1, <2>2 DEF AdmissionsOf
  <2> QED  BY <2>3, AdmissionsAre
<1>12. 0 \in Layers /\ <<arrived, 0>> \in Tokens
  BY <1>2, AsyncSets DEF Layers, Tokens
<1>13. Joins(attnQ, attnQ', 0, <<arrived, 0>>, h) /\ attnQ' \in QueuesOfAll /\ woken' \in [Gpus -> BOOLEAN] /\ Loads'
  BY <1>1, <1>6, <1>12, JoinLoads
<1>14. UNCHANGED <<queue, total, setup, done, at, work, routing, fanout, joined, satAt, stopped>>
  BY <1>6 DEF JoinAttention, driver
<1>15. TokenInOnePlace'
  <2>1. issued' = [issued EXCEPT ![f] = 1] /\ issued \in [Requests -> Int] /\ 1 \in 1 .. TokensPerRequest
    <3>1. \A i \in None .. TokensPerRequest : i \in Int
      OBVIOUS
    <3> QED  BY <1>4, <1>7, <3>1, AsyncSets DEF AdmitsFirst
  <2>2. Joins(attnQ, attnQ', 0, <<f, 1 - 1>>, h)
    BY <1>5, <1>13
  <2>3. AllPlaced(attnQ', queue, at, work, routing, joined, fanout, issued')
    BY <1>1, <1>8, <1>10, <1>12, <2>1, <2>2, StateIs, PlaceJoin
  <2> QED  BY <1>14, <2>3, TokenPlacedIs
<1>16. AsyncTypeOK'
  <2>1. arrived' \in 0 .. NumRequests
    BY <1>2, AsyncSets DEF AsyncIInv
  <2> QED  BY <1>1, <1>2, <1>7, <1>10, <1>13, <1>14, <2>1 DEF AsyncTypeOK, RequestTypes, QueuesOfAll, AttnQueues
<1>17. Shape'
  BY <1>1, <1>14 DEF Shape
<1>18. InTime'
  BY <1>1, <1>14, InTimeSame
<1> QED  BY <1>11, <1>13, <1>15, <1>16, <1>17, <1>18 DEF AsyncIInv

(* It waits behind the others when none is free.                           *)
LEMMA ArriveWaits ==
  ASSUME AsyncIInv, arrived < NumRequests, arrived' = arrived + 1, ~PlaceFree, pending' = Append(pending, arrived),
         UNCHANGED <<issued, homeOf, nextHome, gpuWork, setup, done, at, work, routing, fanout, joined, driver>>
  PROVE  AsyncIInv'
<1>1. AsyncTypeOK /\ Shape /\ Admissions /\ TokenInOnePlace /\ Loads /\ InTime
  BY DEF AsyncIInv
<1>2. /\ arrived \in Nat /\ Len(pending) \in Nat /\ arrived - Len(pending) \in Nat /\ arrived \in Requests
      /\ Cardinality(ActiveOf(issued)) = MaxActive /\ pending \in Seq(Requests)
  BY <1>1, PlaceFreeIs, RequestsAre DEF AsyncTypeOK
<1>3. /\ pending' \in Seq(Requests) /\ Len(pending') = Len(pending) + 1
      /\ \A i \in 1 .. Len(pending) : pending'[i] = pending[i]
      /\ pending'[Len(pending) + 1] = arrived
  BY <1>2, AppendProperties
<1>4. UNCHANGED <<attnQ, queue, total, woken, satAt, stopped>>
  BY DEF gpuWork, driver
<1>5. PICK f : f = arrived - Len(pending)
  OBVIOUS
<1>6. f = arrived' - Len(pending') /\ f \in Nat
  BY <1>2, <1>3, <1>5
<1>7. Len(pending) <= arrived /\ Line(pending, f) /\ InOrder(f, issued, homeOf, done)
  BY <1>1, <1>5, AdmissionsAre DEF AdmissionsOf
<1>8. Line(pending', f)
  <2>1. ASSUME NEW i \in 1 .. Len(pending') PROVE pending'[i] = f + i - 1
    <3>1. CASE i = Len(pending) + 1
      <4>1. f + (Len(pending) + 1) - 1 = arrived
        BY <1>2, <1>5
      <4> QED  BY <1>3, <3>1, <4>1
    <3>2. CASE i # Len(pending) + 1
      <4>1. i \in 1 .. Len(pending)
        BY <1>2, <1>3, <3>2
      <4> QED  BY <1>3, <1>7, <4>1 DEF Line
    <3> QED  BY <3>1, <3>2
  <2> QED  BY <2>1 DEF Line
<1>9. Admissions'
  <2>1. AdmissionsOf(arrived', pending', issued', homeOf', done')
    <3>1. Len(pending') <= arrived' /\ MaxActive <= MaxActive
      BY <1>2, <1>3, <1>7, AsyncSets
    <3> QED  BY <1>2, <1>6, <1>7, <1>8, <3>1 DEF AdmissionsOf
  <2> QED  BY <2>1, AdmissionsAre
<1>10. AsyncTypeOK'
  <2>1. arrived' \in 0 .. NumRequests
    BY <1>2, AsyncSets
  <2> QED  BY <1>1, <1>3, <1>4, <2>1 DEF AsyncTypeOK
<1>11. Shape'
  BY <1>1 DEF Shape
<1>12. TokenInOnePlace'
  BY <1>1, <1>4, TokenPlacedIs
<1>13. Loads'
  BY <1>1, <1>4, LoadsIs
<1>14. InTime'
  BY <1>1, <1>4, InTimeSame
<1> QED  BY <1>9, <1>10, <1>11, <1>12, <1>13, <1>14 DEF AsyncIInv

(* The invariant holds after each action, one lemma for each.              *)
LEMMA ArriveKeeps == ASSUME AsyncIInv, Arrive PROVE AsyncIInv'
<1>1. CASE PlaceFree
  BY <1>1, ArriveAdmitted DEF Arrive
<1>2. CASE ~PlaceFree
  BY <1>2, ArriveWaits DEF Arrive
<1> QED  BY <1>1, <1>2

-----------------------------------------------------------------------------
(* A worker delivers the first token of its batch.                         *)
Delivers(g, t, l) ==
  /\ g \in Gpus /\ at[g] = "deliver" /\ work[g].batch # <<>>
  /\ t = Head(work[g].batch) /\ l = work[g].layer
  /\ work' = [work EXCEPT ![g].batch = Tail(@)]
  /\ UNCHANGED <<setup, arrived, at, routing, satAt, stopped>>

LEMMA DeliversIs ==
  ASSUME AsyncTypeOK, Shape, NEW g, NEW t, NEW l, Delivers(g, t, l)
  PROVE  /\ t \in Tokens /\ l \in Layers /\ g \in Gpus /\ Replies(g, at, work, work', t, l)
         /\ work' \in WorksOfAll /\ Elsewhere(g, work, work')
         /\ work'[g].batch \in Batches /\ Len(work[g].batch) \in Nat /\ Len(work[g].batch) >= 1
         /\ Len(work'[g].batch) = Len(work[g].batch) - 1
<1>1. /\ g \in Gpus /\ at[g] = "deliver" /\ work[g].batch # <<>>
      /\ t = Head(work[g].batch) /\ l = work[g].layer
      /\ work' = [work EXCEPT ![g].batch = Tail(@)]
      /\ work \in WorksOfAll /\ work[g] \in Works /\ work[g].layer \in Layers /\ work[g].batch \in Seq(Tokens)
  BY GpuTypes DEF Delivers, WorksOfAll, Batches
<1>2. PICK b \in Seq(Tokens) : b = work[g].batch /\ b # <<>>
  BY <1>1
<1>3. /\ Head(b) \in Tokens /\ Tail(b) \in Seq(Tokens) /\ Len(Tail(b)) = Len(b) - 1 /\ Len(b) \in Nat /\ Len(b) >= 1
  BY <1>2, HeadTailProperties, EmptySeq, LenProperties
<1>4. PICK v : v = [layer |-> l, batch |-> Tail(b)]
  OBVIOUS
<1>5. v \in Works /\ v.batch = Tail(b)
  BY <1>1, <1>3, <1>4 DEF Works, Batches
<1>6. work' = [work EXCEPT ![g] = v]
  <2>1. \A x \in [layer : Layers, batch : Seq(Tokens)] : \A c :
           [x EXCEPT !.batch = c] = [layer |-> x.layer, batch |-> c]
    OBVIOUS
  <2>2. [work[g] EXCEPT !.batch = Tail(b)] = v
    BY <1>1, <1>2, <1>4, <2>1 DEF Works, Batches
  <2>3. work' = [work EXCEPT ![g] = [work[g] EXCEPT !.batch = Tail(work[g].batch)]]
    BY <1>1
  <2> QED  BY <1>2, <2>2, <2>3
<1>7. work' \in WorksOfAll /\ Elsewhere(g, work, work') /\ work'[g] = v
  BY <1>1, <1>5, <1>6 DEF WorksOfAll, Elsewhere
<1>8. Replies(g, at, work, work', t, l)
  BY <1>1 DEF Replies
<1> QED  BY <1>1, <1>2, <1>3, <1>5, <1>7, <1>8 DEF Batches

(* What a delivery leaves to show.                                         *)
DeliveredTypes ==
  /\ pending' \in Seq(Requests) /\ RequestTypes(issued', done')
  /\ homeOf' \in [Requests -> Gpus \cup {None}] /\ nextHome' \in Nat
  /\ attnQ' \in QueuesOfAll /\ UNCHANGED <<queue, total>> /\ woken' \in [Gpus -> BOOLEAN]
  /\ fanout' \in [Tokens -> [Layers -> 0 .. TopK]] /\ joined' \in [Tokens -> [Layers -> 0 .. TopK]]
  /\ CompletedTokens' = CompletedTokens \/ CompletedTokens' = CompletedTokens + 1
  /\ \A d \in routing : fanout'[d.token] = fanout[d.token]

LEMMA DeliveryKeeps ==
  ASSUME AsyncIInv, NEW g, NEW t, NEW l, Delivers(g, t, l), DeliveredTypes,
         Admissions', TokenInOnePlace', Loads'
  PROVE  AsyncIInv'
<1>1. AsyncTypeOK /\ Shape /\ Admissions /\ TokenInOnePlace /\ Loads /\ InTime
  BY DEF AsyncIInv
<1>2. /\ g \in Gpus /\ at[g] = "deliver" /\ UNCHANGED <<setup, arrived, at, routing, satAt, stopped>>
  BY DEF Delivers
<1>3. /\ work' \in WorksOfAll /\ Elsewhere(g, work, work') /\ Len(work[g].batch) \in Nat /\ Len(work[g].batch) >= 1
      /\ Len(work'[g].batch) = Len(work[g].batch) - 1
  BY <1>1, DeliversIs
<1>4. AsyncTypeOK'
  <2>1. \A h \in Gpus : work'[h].layer \in Layers /\ work'[h].batch \in Seq(Tokens)
    <3>1. \A h \in Gpus : work'[h] \in Works
      BY <1>3 DEF WorksOfAll
    <3> QED  BY <3>1 DEF Works, Batches
  <2>2. ASSUME NEW h \in Gpus PROVE Len(work'[h].batch) <= MaxBatch
    <3>1. Len(work[g].batch) <= MaxBatch /\ MaxBatch \in Nat
      BY <1>1, <1>2, AsyncSets DEF AsyncTypeOK
    <3>2. CASE h = g
      BY <1>3, <3>1, <3>2
    <3>3. CASE h # g
      <4>1. work'[h] = work[h]
        BY <1>3, <3>3 DEF Elsewhere
      <4> QED  BY <1>1, <4>1 DEF AsyncTypeOK
    <3> QED  BY <3>2, <3>3
  <2> QED  BY <1>1, <1>2, <2>1, <2>2 DEF AsyncTypeOK, DeliveredTypes, RequestTypes, QueuesOfAll, AttnQueues
<1>5. Shape'
  <2>1. work' \in [Gpus -> [layer : Layers, batch : Seq(Tokens)]]
    BY <1>3 DEF WorksOfAll, Works, Batches
  <2>2. \A h \in Gpus : at'[h] = "attention" => Len(work'[h].batch) = 1
    BY <1>1, <1>2, <1>3 DEF Shape, Elsewhere
  <2>3. \A d \in routing' : fanout'[d.token][d.layer] = Cardinality(d.experts)
    BY <1>1, <1>2 DEF Shape, DeliveredTypes
  <2> QED  BY <1>1, <1>2, <2>1, <2>2, <2>3 DEF Shape
<1>6. InTime'
  <2>1. CompletedTokens \in Nat /\ MaxBatch \in Nat
    BY <1>1, CompletedType, AsyncSets
  <2>2. CompletedTokens' = CompletedTokens \/ CompletedTokens' = CompletedTokens + 1
    BY DEF DeliveredTypes
  <2>3. ASSUME satAt # None
        PROVE  /\ satAt \in Nat /\ setup.stopAfter \in Nat
               /\ CompletedTokens' - satAt < setup.stopAfter + MaxBatch
               /\ \A h \in Gpus : at[h] = "deliver" =>
                    CompletedTokens' + Len(work'[h].batch) - satAt < setup.stopAfter + MaxBatch
    <3>1. /\ satAt \in Nat /\ setup.stopAfter \in Nat
          /\ CompletedTokens + Len(work[g].batch) - satAt < setup.stopAfter + MaxBatch
      BY <1>1, <1>2, <2>3 DEF InTime
    <3>2. /\ CompletedTokens' - satAt < setup.stopAfter + MaxBatch
          /\ CompletedTokens' + (Len(work[g].batch) - 1) - satAt < setup.stopAfter + MaxBatch
      <4> DEFINE C == CompletedTokens
                 n == Len(work[g].batch)
                 m == setup.stopAfter + MaxBatch
      <4>1. C \in Nat /\ n \in Nat /\ n >= 1 /\ satAt \in Nat /\ m \in Nat /\ C + n - satAt < m
        BY <1>3, <2>1, <3>1
      <4>2. PICK C2 : C2 = CompletedTokens'
        OBVIOUS
      <4>3. C2 = C \/ C2 = C + 1
        BY <2>2, <4>2
      <4> HIDE DEF C, n, m
      <4>4. C2 - satAt < m /\ C2 + (n - 1) - satAt < m
        BY <4>1, <4>3
      <4> QED  BY <4>2, <4>4 DEF n, m
    <3>3. \A h \in Gpus : at[h] = "deliver" => h = g
      BY <1>1, <1>2 DEF Shape
    <3> QED  BY <1>3, <3>1, <3>2, <3>3
  <2>4. stopped => satAt # None /\ CompletedTokens' - satAt >= setup.stopAfter
    <3>1. stopped => satAt # None /\ CompletedTokens - satAt >= setup.stopAfter
      BY <1>1 DEF InTime
    <3>2. satAt \in Int /\ (satAt # None => setup.stopAfter \in Nat)
      BY <1>1 DEF InTime, AsyncTypeOK
    <3> QED  BY <2>1, <2>2, <3>1, <3>2
  <2> QED  BY <1>2, <2>3, <2>4 DEF InTime
<1> QED  BY <1>4, <1>5, <1>6 DEF AsyncIInv

-----------------------------------------------------------------------------
(* Not the last reply: it is counted.                                      *)
LEMMA ReplyKeeps ==
  ASSUME AsyncIInv, NEW g, NEW t, NEW l, Delivers(g, t, l), ~LastReply(t, l),
         joined' = [joined EXCEPT ![t][l] = @ + 1],
         UNCHANGED <<manager, done, gpuWork, fanout>>
  PROVE  AsyncIInv'
<1>1. AsyncTypeOK /\ Shape /\ Admissions /\ TokenInOnePlace /\ Loads /\ InTime
  BY DEF AsyncIInv
<1>2. /\ t \in Tokens /\ l \in Layers /\ g \in Gpus /\ Replies(g, at, work, work', t, l)
      /\ UNCHANGED <<pending, issued, homeOf, nextHome, done, attnQ, queue, total, woken, fanout, arrived, at, routing>>
  BY <1>1, DeliversIs DEF manager, gpuWork, Delivers
<1>3. /\ joined \in [Tokens -> [Layers -> 0 .. TopK]] /\ joined[t] \in [Layers -> 0 .. TopK]
      /\ fanout[t][l] \in 0 .. TopK /\ joined[t][l] \in 0 .. TopK /\ TopK \in Nat
  BY <1>1, <1>2, AsyncSets DEF AsyncTypeOK
<1>4. joined'[t] = [joined[t] EXCEPT ![l] = @ + 1] /\ \A u \in Tokens : u # t => joined'[u] = joined[u]
  BY <1>2, <1>3
<1>5. CountsReply(joined, joined', fanout, t, l)
  BY <1>4 DEF CountsReply, LastReply
<1>6. /\ joined[t][l] + 1 <= fanout[t][l]
      /\ AllPlaced(attnQ, queue, at, work', routing, joined', fanout, issued)
  <2>1. /\ PlaceState(attnQ, queue, work, routing, joined)
        /\ AllPlaced(attnQ, queue, at, work, routing, joined, fanout, issued)
    BY <1>1, StateIs
  <2> QED  BY <1>2, <1>5, <2>1, PlaceReply
<1>7. TokenInOnePlace'
  BY <1>2, <1>6, TokenPlacedIs
<1>8. joined' \in [Tokens -> [Layers -> 0 .. TopK]]
  <2>1. joined[t][l] + 1 \in 0 .. TopK
    BY <1>3, <1>6
  <2>2. [joined[t] EXCEPT ![l] = @ + 1] \in [Layers -> 0 .. TopK]
    BY <1>3, <2>1
  <2> QED  BY <1>2, <1>3, <2>2
<1>9. Admissions'
  BY <1>1, <1>2, AdmissionsSame
<1>10. Loads'
  BY <1>1, <1>2, LoadsIs
<1>11. DeliveredTypes
  <2>1. CompletedTokens' = CompletedTokens
    BY <1>2 DEF CompletedTokens
  <2> QED  BY <1>1, <1>2, <1>8, <2>1 DEF DeliveredTypes, AsyncTypeOK, RequestTypes, QueuesOfAll, AttnQueues
<1> QED  BY <1>7, <1>9, <1>10, <1>11, DeliveryKeeps

-----------------------------------------------------------------------------
(* The last reply: the token leaves its layer.                             *)
Leaves(t, is) ==
  /\ t \in Tokens /\ t[1] \in Requests /\ t = <<t[1], t[2]>> /\ t[2] \in Nat
  /\ issued[t[1]] = t[2] + 1 /\ issued[t[1]] # None /\ issued[t[1]] \in 1 .. TokensPerRequest
  /\ done[t[1]] = t[2] /\ homeOf[t[1]] \in Gpus
  /\ \A d \in routing : d.token # t
  /\ is = [issued EXCEPT ![t[1]] = None] /\ is \in [Requests -> None .. TokensPerRequest] /\ is \in [Requests -> Int]
  /\ is[t[1]] = None
  /\ joined' \in [Tokens -> [Layers -> 0 .. TopK]]
  /\ PlaceState(attnQ, queue, work', routing, joined')
  /\ AllPlaced(attnQ, queue, at, work', routing, joined', fanout', is)

(* After the last reply of a layer the token is nowhere.                   *)
LEMMA TokenLeaves ==
  ASSUME AsyncIInv, NEW g, NEW t, NEW l, Delivers(g, t, l), LastReply(t, l),
         joined' = [joined EXCEPT ![t][l] = 0],
         \A u \in Tokens : u # t => fanout'[u] = fanout[u]
  PROVE  \E is : Leaves(t, is)
<1>1. AsyncTypeOK /\ Shape /\ Admissions /\ TokenInOnePlace /\ Loads /\ InTime
  BY DEF AsyncIInv
<1>2. /\ t \in Tokens /\ l \in Layers /\ g \in Gpus /\ Replies(g, at, work, work', t, l)
  BY <1>1, DeliversIs
<1>3. /\ joined \in [Tokens -> [Layers -> 0 .. TopK]] /\ joined[t] \in [Layers -> 0 .. TopK] /\ TopK \in Nat
      /\ issued \in [Requests -> None .. TokensPerRequest] /\ TokensPerRequest \in Nat
  BY <1>1, <1>2, AsyncSets DEF AsyncTypeOK
<1>4. joined'[t] = [joined[t] EXCEPT ![l] = 0] /\ \A u \in Tokens : u # t => joined'[u] = joined[u]
  BY <1>2, <1>3
<1>5. CountsLeave(joined, joined', fanout, fanout', t, l)
  BY <1>4 DEF CountsLeave, LastReply
<1>6. issued \in [Requests -> Int]
  <2>1. \A i \in None .. TokensPerRequest : i \in Int
    OBVIOUS
  <2> QED  BY <1>3, <2>1
<1>12. PICK is : is = [issued EXCEPT ![t[1]] = None]
  OBVIOUS
<1>7. /\ t[2] + 1 = issued[t[1]] /\ \A d \in routing : d.token # t
      /\ PlaceState(attnQ, queue, work', routing, joined')
      /\ AllPlaced(attnQ, queue, at, work', routing, joined', fanout', is)
  <2>1. /\ PlaceState(attnQ, queue, work, routing, joined)
        /\ AllPlaced(attnQ, queue, at, work, routing, joined, fanout, issued)
    BY <1>1, StateIs
  <2>2. Ends(issued, is, t)
    BY <1>12 DEF Ends
  <2>3. PICK w2, jn2, fo2 : w2 = work' /\ jn2 = joined' /\ fo2 = fanout'
    OBVIOUS
  <2>4. /\ Replies(g, at, work, w2, t, l) /\ CountsLeave(joined, jn2, fanout, fo2, t, l)
        /\ issued \in [Requests -> Int]
    BY <1>2, <1>5, <1>6, <2>3
  <2>5. LeftBehind(attnQ, queue, at, w2, routing, jn2, fo2, issued, is, t)
    BY <2>1, <2>2, <2>4, PlaceLeaves
  <2> QED  BY <2>3, <2>5 DEF LeftBehind
<1>8. t = <<t[1], t[2]>> /\ t[1] \in Requests /\ t[2] \in 0 .. TokensPerRequest - 1 /\ t[2] \in Nat
  BY <1>2, TokenIs
<1>9. issued[t[1]] \in 1 .. TokensPerRequest /\ issued[t[1]] # None
  BY <1>3, <1>7, <1>8, RequestsAre
<1>10. done[t[1]] = t[2] /\ homeOf[t[1]] \in Gpus
  <2>1. issued[t[1]] = done[t[1]] + 1 /\ homeOf[t[1]] \in Gpus /\ done[t[1]] \in 0 .. TokensPerRequest
    BY <1>1, <1>8, <1>9 DEF Admissions, Active, AsyncTypeOK
  <2>2. \A a \in 0 .. TokensPerRequest : \A b \in Nat : a + 1 = b + 1 => a = b
    OBVIOUS
  <2> QED  BY <1>7, <1>8, <2>1, <2>2
<1>11. joined' \in [Tokens -> [Layers -> 0 .. TopK]]
  <2>1. [joined[t] EXCEPT ![l] = 0] \in [Layers -> 0 .. TopK]
    <3>1. 0 \in 0 .. TopK
      BY <1>3
    <3> QED  BY <1>3, <3>1
  <2> QED  BY <1>2, <1>3, <2>1
<1>13. is \in [Requests -> None .. TokensPerRequest] /\ is \in [Requests -> Int] /\ is[t[1]] = None
  BY <1>3, <1>6, <1>8, <1>12, RequestsAre DEF None
<1>14. Leaves(t, is)
  BY <1>2, <1>7, <1>8, <1>9, <1>10, <1>11, <1>12, <1>13 DEF Leaves
<1> QED  BY <1>14

-----------------------------------------------------------------------------
(* A token that left a layer joins attention again.                        *)
JoinsAgain(is, r, n, l, h) ==
  /\ r \in Requests /\ n \in 1 .. TokensPerRequest /\ is[r] = None /\ is \in [Requests -> Int]
  /\ l \in Layers /\ h \in Gpus /\ JoinAttention(l, <<r, n - 1>>, h)
  /\ issued' = [is EXCEPT ![r] = n]

(* It is in one place again once it has joined attention.                  *)
LEMMA PlacesAgain ==
  ASSUME AsyncTypeOK, Shape, Loads, NEW is, NEW r, NEW n, NEW l, NEW h, JoinsAgain(is, r, n, l, h),
         PlaceState(attnQ, queue, work', routing, joined'),
         AllPlaced(attnQ, queue, at, work', routing, joined', fanout', is),
         UNCHANGED <<at, routing>>
  PROVE  /\ TokenInOnePlace' /\ Loads'
         /\ attnQ' \in QueuesOfAll /\ woken' \in [Gpus -> BOOLEAN] /\ UNCHANGED <<queue, total>>
<1>1. /\ r \in Requests /\ n \in 1 .. TokensPerRequest /\ is[r] = None /\ is \in [Requests -> Int]
      /\ l \in Layers /\ h \in Gpus /\ JoinAttention(l, <<r, n - 1>>, h)
      /\ issued' = [is EXCEPT ![r] = n] /\ <<r, n - 1>> \in Tokens
  BY TokenIs DEF JoinsAgain
<1>2. /\ Joins(attnQ, attnQ', l, <<r, n - 1>>, h) /\ attnQ' \in QueuesOfAll /\ woken' \in [Gpus -> BOOLEAN]
      /\ Loads' /\ UNCHANGED <<queue, total>>
  <2>1. PICK u \in Tokens : u = <<r, n - 1>>
    BY <1>1
  <2>2. JoinAttention(l, u, h)
    BY <1>1, <2>1
  <2>3. /\ Joins(attnQ, attnQ', l, u, h) /\ attnQ' \in QueuesOfAll /\ woken' \in [Gpus -> BOOLEAN] /\ Loads'
    BY <1>1, <2>2, JoinLoads
  <2> QED  BY <2>1, <2>2, <2>3 DEF JoinAttention
<1>3. AllPlaced(attnQ', queue, at, work', routing, joined', fanout', [is EXCEPT ![r] = n])
  BY <1>1, <1>2, PlaceJoin
<1>4. TokenInOnePlace'
  BY <1>1, <1>2, <1>3, TokenPlacedIs
<1> QED  BY <1>2, <1>4

(* A function put back as it was.                                          *)
LEMMA PutBackSame ==
  ASSUME NEW S, NEW T, NEW f \in [S -> T], NEW x \in S, NEW y
  PROVE  [[f EXCEPT ![x] = y] EXCEPT ![x] = f[x]] = f
OBVIOUS

LEMMA PutTwice ==
  ASSUME NEW S, NEW T, NEW f \in [S -> T], NEW x \in S, NEW y, NEW z
  PROVE  [[f EXCEPT ![x] = y] EXCEPT ![x] = z] = [f EXCEPT ![x] = z]
OBVIOUS

(* One token more has completed.                                           *)
LEMMA OneTokenMore ==
  ASSUME AsyncTypeOK, NEW r \in Requests, done' = [done EXCEPT ![r] = @ + 1]
  PROVE  CompletedTokens' = CompletedTokens + 1
<1>1. \A q \in Requests : done[q] \in Nat
  BY AsyncSets DEF AsyncTypeOK
<1>2. done'[r] = done[r] + 1 /\ \A q \in Requests : q # r => done'[q] = done[q]
  BY DEF AsyncTypeOK
<1>3. \A q \in Requests : done'[q] \in Nat
  BY <1>1, <1>2
<1>4. Total(done', Requests) + done[r] = Total(done, Requests) + done'[r]
  <2>1. PICK d, d2 : d = done /\ d2 = done'
    OBVIOUS
  <2>2. (\A q \in Requests : d[q] \in Nat /\ d2[q] \in Nat) /\ \A q \in Requests : q # r => d2[q] = d[q]
    BY <1>1, <1>2, <1>3, <2>1
  <2>3. Total(d2, Requests) + d[r] = Total(d, Requests) + d2[r]
    BY <2>2, AsyncSets, TotalPoint
  <2> QED  BY <2>1, <2>3
<1>5. Total(done', Requests) \in Nat /\ Total(done, Requests) \in Nat /\ done[r] \in Nat
  BY <1>1, <1>3, AsyncSets, TotalType
<1>6. Total(done', Requests) = Total(done, Requests) + 1
  BY <1>2, <1>4, <1>5
<1> QED  BY <1>6 DEF CompletedTokens

(* The token goes on to the next layer.                                    *)
LEMMA NextLayerKeeps ==
  ASSUME AsyncIInv, NEW g, NEW t, NEW l, Delivers(g, t, l), LastReply(t, l),
         joined' = [joined EXCEPT ![t][l] = 0],
         l < NumLayers - 1, QueueAttention(l + 1, <<t>>, <<homeOf[t[1]]>>),
         UNCHANGED <<manager, done, fanout>>
  PROVE  AsyncIInv'
<1>1. AsyncTypeOK /\ Shape /\ Admissions /\ TokenInOnePlace /\ Loads /\ InTime
  BY DEF AsyncIInv
<1>2. PICK is : Leaves(t, is)
  BY TokenLeaves
<1>3. /\ t \in Tokens /\ t[1] \in Requests /\ t = <<t[1], t[2]>> /\ t[2] \in Nat
      /\ issued[t[1]] = t[2] + 1 /\ issued[t[1]] \in 1 .. TokensPerRequest
      /\ homeOf[t[1]] \in Gpus
      /\ is = [issued EXCEPT ![t[1]] = None] /\ is \in [Requests -> Int] /\ is[t[1]] = None
      /\ joined' \in [Tokens -> [Layers -> 0 .. TopK]]
      /\ PlaceState(attnQ, queue, work', routing, joined')
      /\ AllPlaced(attnQ, queue, at, work', routing, joined', fanout', is)
  BY <1>2 DEF Leaves
<1>4. UNCHANGED <<pending, issued, homeOf, nextHome, done, fanout, at, routing, arrived>>
  BY DEF manager, Delivers
<1>5. l + 1 \in Layers
  BY <1>1, DeliversIs, AsyncSets DEF Layers
<1>6. PICK r \in Requests, n \in 1 .. TokensPerRequest : r = t[1] /\ n = issued[r]
  BY <1>3
<1>7. t = <<r, n - 1>>
  <2>1. \A b \in Nat : (b + 1) - 1 = b
    OBVIOUS
  <2>2. n - 1 = t[2]
    BY <1>3, <1>6, <2>1
  <2> QED  BY <1>3, <1>6, <2>2
<1>8. JoinsAgain(is, r, n, l + 1, homeOf[r])
  <2>1. JoinAttention(l + 1, t, homeOf[r])
    BY <1>1, <1>3, <1>5, <1>6, QueueOne DEF AsyncTypeOK
  <2>2. issued' = [is EXCEPT ![r] = n]
    <3>1. issued \in [Requests -> None .. TokensPerRequest]
      BY <1>1 DEF AsyncTypeOK
    <3>2. [[issued EXCEPT ![r] = None] EXCEPT ![r] = issued[r]] = issued
      BY <3>1, PutBackSame
    <3> QED  BY <1>3, <1>4, <1>6, <3>2
  <2> QED  BY <1>3, <1>5, <1>6, <1>7, <2>1, <2>2 DEF JoinsAgain
<1>9. /\ TokenInOnePlace' /\ Loads'
      /\ attnQ' \in QueuesOfAll /\ woken' \in [Gpus -> BOOLEAN] /\ UNCHANGED <<queue, total>>
  BY <1>1, <1>3, <1>4, <1>8, PlacesAgain
<1>10. Admissions'
  BY <1>1, <1>4, AdmissionsSame
<1>11. DeliveredTypes
  <2>1. CompletedTokens' = CompletedTokens
    BY <1>4 DEF CompletedTokens
  <2> QED  BY <1>1, <1>3, <1>4, <1>9, <2>1 DEF DeliveredTypes, AsyncTypeOK, RequestTypes
<1> QED  BY <1>9, <1>10, <1>11, DeliveryKeeps

-----------------------------------------------------------------------------
(* After the last layer.                                                   *)
TokenDone(g, t, l, is) ==
  /\ Delivers(g, t, l) /\ Leaves(t, is)
  /\ done' = [done EXCEPT ![t[1]] = @ + 1]
  /\ fanout' = [fanout EXCEPT ![t] = [k \in Layers |-> 0]]

LEMMA TokenDoneIs ==
  ASSUME AsyncIInv, NEW g, NEW t, NEW l, NEW is, TokenDone(g, t, l, is)
  PROVE  /\ fanout' \in [Tokens -> [Layers -> 0 .. TopK]]
         /\ \A d \in routing : fanout'[d.token] = fanout[d.token]
         /\ CompletedTokens' = CompletedTokens + 1
         /\ PlaceState(attnQ, queue, work', routing, joined')
         /\ AllPlaced(attnQ, queue, at, work', routing, joined', fanout', is)
         /\ joined' \in [Tokens -> [Layers -> 0 .. TopK]]
         /\ UNCHANGED <<setup, arrived, at, routing, satAt, stopped>>
         /\ RequestTypes(issued, done) /\ InOrder(arrived - Len(pending), issued, homeOf, done)
         /\ arrived - Len(pending) \in Nat
<1>1. AsyncTypeOK /\ Shape /\ Admissions
  BY DEF AsyncIInv
<1>2. /\ t \in Tokens /\ t[1] \in Requests /\ \A d \in routing : d.token # t
      /\ PlaceState(attnQ, queue, work', routing, joined')
      /\ AllPlaced(attnQ, queue, at, work', routing, joined', fanout', is)
      /\ joined' \in [Tokens -> [Layers -> 0 .. TopK]]
      /\ UNCHANGED <<setup, arrived, at, routing, satAt, stopped>>
  BY DEF TokenDone, Leaves, Delivers
<1>3. /\ fanout' = [fanout EXCEPT ![t] = [k \in Layers |-> 0]]
      /\ fanout \in [Tokens -> [Layers -> 0 .. TopK]] /\ TopK \in Nat
  BY <1>1, AsyncSets DEF AsyncTypeOK, TokenDone
<1>4. fanout' \in [Tokens -> [Layers -> 0 .. TopK]] /\ \A u \in Tokens : u # t => fanout'[u] = fanout[u]
  <2>1. [k \in Layers |-> 0] \in [Layers -> 0 .. TopK]
    BY <1>3
  <2> QED  BY <1>3, <2>1
<1>5. \A d \in routing : d.token \in Tokens
  BY <1>1 DEF Shape
<1>6. CompletedTokens' = CompletedTokens + 1
  BY <1>1, <1>2, OneTokenMore DEF TokenDone
<1>7. RequestTypes(issued, done) /\ InOrder(arrived - Len(pending), issued, homeOf, done)
  BY <1>1, AdmissionsAre DEF AsyncTypeOK, RequestTypes, AdmissionsOf
<1>8. arrived - Len(pending) \in Nat
  BY <1>1, PlaceFreeIs
<1> QED  BY <1>2, <1>4, <1>5, <1>6, <1>7, <1>8

(* The request goes on to its next token.                                  *)
LEMMA NextTokenKeeps ==
  ASSUME AsyncIInv, NEW g, NEW t, NEW l, NEW is, TokenDone(g, t, l, is),
         t[2] + 1 < TokensPerRequest,
         issued' = [issued EXCEPT ![t[1]] = @ + 1],
         QueueAttention(0, <<<<t[1], issued[t[1]]>>>>, <<homeOf[t[1]]>>),
         UNCHANGED <<pending, homeOf, nextHome>>
  PROVE  AsyncIInv'
<1>1. AsyncTypeOK /\ Shape /\ Admissions /\ TokenInOnePlace /\ Loads /\ InTime
  BY DEF AsyncIInv
<1>2. /\ fanout' \in [Tokens -> [Layers -> 0 .. TopK]]
      /\ \A d \in routing : fanout'[d.token] = fanout[d.token]
      /\ CompletedTokens' = CompletedTokens + 1
      /\ PlaceState(attnQ, queue, work', routing, joined')
      /\ AllPlaced(attnQ, queue, at, work', routing, joined', fanout', is)
      /\ joined' \in [Tokens -> [Layers -> 0 .. TopK]]
      /\ UNCHANGED <<setup, arrived, at, routing, satAt, stopped>>
      /\ RequestTypes(issued, done) /\ InOrder(arrived - Len(pending), issued, homeOf, done)
      /\ arrived - Len(pending) \in Nat
  BY TokenDoneIs
<1>3. /\ Delivers(g, t, l) /\ t[1] \in Requests /\ t[2] \in Nat
      /\ issued[t[1]] = t[2] + 1 /\ issued[t[1]] # None
      /\ homeOf[t[1]] \in Gpus /\ done[t[1]] = t[2] /\ TokensPerRequest \in Nat
      /\ is = [issued EXCEPT ![t[1]] = None] /\ is \in [Requests -> Int] /\ is[t[1]] = None
      /\ done' = [done EXCEPT ![t[1]] = @ + 1]
  BY AsyncSets DEF TokenDone, Leaves
<1>4. PICK r \in Requests, n \in 1 .. TokensPerRequest : r = t[1] /\ n = issued[r] + 1 /\ n - 1 = issued[r]
  <2>1. issued[t[1]] + 1 \in 1 .. TokensPerRequest /\ (issued[t[1]] + 1) - 1 = issued[t[1]]
    BY <1>3
  <2> QED  BY <1>3, <2>1
<1>5. 0 \in Layers /\ <<r, n - 1>> \in Tokens
  BY AsyncSets, TokenIs DEF Layers
<1>6. JoinsAgain(is, r, n, 0, homeOf[r])
  <2>1. JoinAttention(0, <<r, n - 1>>, homeOf[r])
    <3>1. PICK u \in Tokens : u = <<r, n - 1>>
      BY <1>5
    <3>2. QueueAttention(0, <<u>>, <<homeOf[r]>>)
      BY <1>4, <3>1
    <3> QED  BY <1>1, <1>3, <1>4, <1>5, <3>1, <3>2, QueueOne DEF AsyncTypeOK
  <2>2. issued' = [is EXCEPT ![r] = n]
    <3>1. issued \in [Requests -> None .. TokensPerRequest]
      BY <1>1 DEF AsyncTypeOK
    <3>2. [[issued EXCEPT ![r] = None] EXCEPT ![r] = n] = [issued EXCEPT ![r] = n]
      BY <3>1, PutTwice
    <3> QED  BY <1>3, <1>4, <3>2
  <2> QED  BY <1>3, <1>4, <1>5, <2>1, <2>2 DEF JoinsAgain
<1>7. /\ TokenInOnePlace' /\ Loads'
      /\ attnQ' \in QueuesOfAll /\ woken' \in [Gpus -> BOOLEAN] /\ UNCHANGED <<queue, total>>
  BY <1>1, <1>2, <1>6, PlacesAgain
<1>8. /\ RequestTypes(issued', done') /\ InOrder(arrived - Len(pending), issued', homeOf, done')
      /\ ActiveOf(issued') = ActiveOf(issued)
  <2>1. PICK f \in Int : f = arrived - Len(pending)
    BY <1>2
  <2>2. /\ issued[r] # None /\ done[r] + 1 < TokensPerRequest /\ n = issued[r] + 1
        /\ OneDone(issued, issued', done, done', r, n)
    BY <1>3, <1>4 DEF OneDone
  <2>3. RequestTypes(issued', done') /\ InOrder(f, issued', homeOf, done') /\ ActiveOf(issued') = ActiveOf(issued)
    BY <1>2, <2>1, <2>2, NextToken
  <2> QED  BY <2>1, <2>3
<1>9. Admissions'
  <2>1. AdmissionsOf(arrived, pending, issued, homeOf, done)
    BY <1>1, AdmissionsAre
  <2>2. AdmissionsOf(arrived', pending', issued', homeOf', done')
    BY <1>2, <1>8, <2>1 DEF AdmissionsOf
  <2> QED  BY <2>2, AdmissionsAre
<1>10. DeliveredTypes
  BY <1>1, <1>2, <1>7, <1>8 DEF DeliveredTypes, AsyncTypeOK
<1> QED  BY <1>3, <1>7, <1>9, <1>10, DeliveryKeeps

-----------------------------------------------------------------------------
(* A request ends: one of those that wait takes its place, if any does.    *)
LEMMA RoomIs ==
  ASSUME AsyncTypeOK, Admissions, NEW r \in Requests, issued[r] # None
  PROVE  /\ pending = <<>> => Room(Active \ {r}) = 0
         /\ pending # <<>> => Room(Active \ {r}) = 1
<1>1. /\ Active = ActiveOf(issued) /\ Cardinality(ActiveOf(issued)) <= MaxActive
      /\ pending # <<>> => Cardinality(ActiveOf(issued)) = MaxActive
      /\ Len(pending) \in Nat /\ MaxActive \in Nat
  BY PlaceFreeIs, AdmissionsAre, AsyncSets DEF AdmissionsOf
<1>2. r \in ActiveOf(issued)
  BY DEF ActiveOf
<1>3. Cardinality(Active \ {r}) = Cardinality(ActiveOf(issued)) - 1 /\ Cardinality(ActiveOf(issued)) \in Nat
  BY <1>1, <1>2, ActiveFinite, FS_RemoveElement
<1> DEFINE a == Len(pending)
           b == MaxActive - Cardinality(Active \ {r})
<1>4. Room(Active \ {r}) = Min({a, b})
  BY DEF Room
<1>5. a \in Int /\ b \in Int /\ b >= 1 /\ (pending # <<>> => b = 1)
  BY <1>1, <1>3
<1>6. (pending = <<>> => a = 0) /\ (pending # <<>> => a >= 1)
  <2>1. pending \in Seq(Requests)
    BY DEF AsyncTypeOK
  <2> QED  BY <1>1, <2>1, EmptySeq
<1> HIDE DEF a, b
<1>7. Min({a, b}) = IF a <= b THEN a ELSE b
  BY <1>5, MinOfTwo
<1> QED  BY <1>4, <1>5, <1>6, <1>7

LEMMA InOrderHome ==
  ASSUME NEW f, NEW is, NEW hm, NEW hm2, NEW dn, InOrder(f, is, hm, dn),
         \A r \in Requests : is[r] # None => hm2[r] = hm[r]
  PROVE  InOrder(f, is, hm2, dn)
BY DEF InOrder

(* The state of the requests once the one that ended is out.               *)
RequestOut(f, is) ==
  /\ f = arrived - Len(pending) /\ f \in Nat /\ Len(pending) <= arrived /\ Line(pending, f)
  /\ RequestTypes(is, done') /\ InOrder(f, is, homeOf, done')
  /\ Cardinality(ActiveOf(is)) \in Nat /\ Cardinality(ActiveOf(is)) + 1 <= MaxActive
  /\ pending # <<>> => Cardinality(ActiveOf(is)) + 1 = MaxActive

LEMMA RequestIsOut ==
  ASSUME AsyncIInv, NEW g, NEW t, NEW l, NEW is, TokenDone(g, t, l, is), t[2] + 1 >= TokensPerRequest
  PROVE  RequestOut(arrived - Len(pending), is)
<1>1. AsyncTypeOK /\ Admissions
  BY DEF AsyncIInv
<1>2. /\ t[1] \in Requests /\ issued[t[1]] # None /\ done[t[1]] = t[2]
      /\ is = [issued EXCEPT ![t[1]] = None]
      /\ done' = [done EXCEPT ![t[1]] = @ + 1]
  BY DEF TokenDone, Leaves
<1>3. PICK f \in Int : f = arrived - Len(pending) /\ f \in Nat
  BY <1>1, PlaceFreeIs
<1>4. /\ RequestTypes(issued, done) /\ InOrder(f, issued, homeOf, done)
      /\ Len(pending) <= arrived /\ Line(pending, f)
      /\ Cardinality(ActiveOf(issued)) <= MaxActive
      /\ pending # <<>> => Cardinality(ActiveOf(issued)) = MaxActive
  BY <1>1, <1>3, AdmissionsAre DEF AsyncTypeOK, RequestTypes, AdmissionsOf
<1>5. PICK r \in Requests : r = t[1]
  BY <1>2
<1>6. OneDone(issued, is, done, done', r, None) /\ issued[r] # None /\ done[r] + 1 >= TokensPerRequest
  BY <1>2, <1>5 DEF OneDone
<1>7. /\ RequestTypes(is, done') /\ InOrder(f, is, homeOf, done')
      /\ Cardinality(ActiveOf(is)) = Cardinality(ActiveOf(issued)) - 1
  BY <1>4, <1>6, RequestDone
<1>8. Cardinality(ActiveOf(is)) \in Nat /\ Cardinality(ActiveOf(issued)) \in Nat /\ MaxActive \in Nat
  BY ActiveFinite, AsyncSets
<1> QED  BY <1>3, <1>4, <1>7, <1>8 DEF RequestOut

(* The place of the request that ended stays free.                         *)
LEMMA NoneWaits ==
  ASSUME AsyncIInv, NEW g, NEW t, NEW l, NEW is, TokenDone(g, t, l, is), t[2] + 1 >= TokensPerRequest,
         pending = <<>>, pending' = SubSeq(pending, 1, Len(pending)), Start(SubSeq(pending, 1, 0), is)
  PROVE  AsyncIInv'
<1>1. AsyncTypeOK /\ Shape /\ Admissions /\ TokenInOnePlace /\ Loads /\ InTime
  BY DEF AsyncIInv
<1>2. /\ fanout' \in [Tokens -> [Layers -> 0 .. TopK]]
      /\ \A d \in routing : fanout'[d.token] = fanout[d.token]
      /\ CompletedTokens' = CompletedTokens + 1
      /\ AllPlaced(attnQ, queue, at, work', routing, joined', fanout', is)
      /\ joined' \in [Tokens -> [Layers -> 0 .. TopK]]
      /\ UNCHANGED <<setup, arrived, at, routing, satAt, stopped>>
  BY TokenDoneIs
<1>3. SubSeq(<<>>, 1, 0) = <<>> /\ Len(<<>>) = 0
  BY EmptySeq
<1>4. pending' = <<>> /\ Start(<<>>, is)
  BY <1>3
<1>5. /\ issued' = [q \in Requests |-> is[q]]
      /\ homeOf' = [q \in Requests |-> IF is[q] = None THEN None ELSE homeOf[q]]
      /\ nextHome' = nextHome
      /\ UNCHANGED <<attnQ, woken, queue, total>>
  BY <1>1, <1>4, StartNone
<1>6. issued' = is
  <2>1. is \in [Requests -> Int]
    BY DEF TokenDone, Leaves
  <2> QED  BY <1>5, <2>1
<1>7. PICK f : f = arrived - Len(pending)
  OBVIOUS
<1>8. RequestOut(f, is)
  BY <1>7, RequestIsOut
<1>9. InOrder(f, issued', homeOf', done')
  <2>1. \A r \in Requests : is[r] # None => homeOf'[r] = homeOf[r]
    BY <1>5
  <2> QED  BY <1>6, <1>8, <2>1, InOrderHome DEF RequestOut
<1>10. Admissions'
  <2>1. /\ Len(pending') <= arrived' /\ arrived' - Len(pending') = f /\ Line(pending', f)
        /\ Cardinality(ActiveOf(issued')) <= MaxActive
    <3>1. Len(pending') = 0 /\ Len(pending) = 0 /\ arrived' = arrived
      BY <1>2, <1>3, <1>4
    <3>2. arrived \in Nat
      BY <1>1, PlaceFreeIs
    <3>3. Len(pending') <= arrived' /\ arrived' - Len(pending') = f /\ Line(pending', f)
      BY <1>7, <3>1, <3>2 DEF Line
    <3>4. Cardinality(ActiveOf(is)) \in Nat /\ Cardinality(ActiveOf(is)) + 1 <= MaxActive /\ MaxActive \in Nat
      BY <1>8, AsyncSets DEF RequestOut
    <3> QED  BY <1>6, <3>3, <3>4
  <2>2. AdmissionsOf(arrived', pending', issued', homeOf', done')
    BY <1>4, <1>9, <2>1 DEF AdmissionsOf
  <2> QED  BY <2>2, AdmissionsAre
<1>11. TokenInOnePlace'
  BY <1>2, <1>5, <1>6, TokenPlacedIs
<1>12. Loads'
  BY <1>1, <1>2, <1>5, LoadsIs
<1>13. DeliveredTypes
  <2>1. homeOf' \in [Requests -> Gpus \cup {None}]
    BY <1>1, <1>5 DEF AsyncTypeOK
  <2>2. attnQ' \in QueuesOfAll
    BY <1>1, <1>5, StateTypes
  <2>3. pending' \in Seq(Requests)
    BY <1>4, EmptySeq
  <2>4. nextHome' \in Nat /\ woken' \in [Gpus -> BOOLEAN] /\ UNCHANGED <<queue, total>>
    BY <1>1, <1>5 DEF AsyncTypeOK
  <2>5. RequestTypes(issued', done')
    BY <1>6, <1>8 DEF RequestOut
  <2> QED  BY <1>2, <2>1, <2>2, <2>3, <2>4, <2>5 DEF DeliveredTypes
<1>14. Delivers(g, t, l)
  BY DEF TokenDone
<1> QED  BY <1>10, <1>11, <1>12, <1>13, <1>14, DeliveryKeeps

(* The first request that waits takes it.                                  *)
LEMMA OneWaits ==
  ASSUME AsyncIInv, NEW g, NEW t, NEW l, NEW is, TokenDone(g, t, l, is), t[2] + 1 >= TokensPerRequest,
         pending # <<>>, pending' = SubSeq(pending, 2, Len(pending)), Start(SubSeq(pending, 1, 1), is)
  PROVE  AsyncIInv'
<1>1. AsyncTypeOK /\ Shape /\ Admissions /\ TokenInOnePlace /\ Loads /\ InTime
  BY DEF AsyncIInv
<1>2. /\ fanout' \in [Tokens -> [Layers -> 0 .. TopK]]
      /\ \A d \in routing : fanout'[d.token] = fanout[d.token]
      /\ CompletedTokens' = CompletedTokens + 1
      /\ PlaceState(attnQ, queue, work', routing, joined')
      /\ AllPlaced(attnQ, queue, at, work', routing, joined', fanout', is)
      /\ joined' \in [Tokens -> [Layers -> 0 .. TopK]]
      /\ UNCHANGED <<setup, arrived, at, routing, satAt, stopped>>
  BY TokenDoneIs
<1>3. /\ pending \in Seq(Requests) /\ Len(pending) \in Nat /\ Len(pending) >= 1 /\ arrived \in Nat
  <2>1. pending \in Seq(Requests) /\ arrived \in Nat
    BY <1>1, AsyncSets DEF AsyncTypeOK
  <2> QED  BY <2>1, EmptySeq, LenProperties
<1>4. PICK f : f = arrived - Len(pending)
  OBVIOUS
<1>5. RequestOut(f, is)
  BY <1>4, RequestIsOut
<1>6. /\ f \in Nat /\ Len(pending) <= arrived /\ Line(pending, f)
      /\ RequestTypes(is, done') /\ InOrder(f, is, homeOf, done')
      /\ Cardinality(ActiveOf(is)) \in Nat /\ Cardinality(ActiveOf(is)) + 1 = MaxActive
  BY <1>5 DEF RequestOut
<1>7. pending[1] = f /\ f \in Requests
  <2>1. 1 \in 1 .. Len(pending)
    BY <1>3
  <2>2. pending[1] = f + 1 - 1 /\ pending[1] \in Requests
    BY <1>3, <1>6, <2>1 DEF Line
  <2> QED  BY <1>6, <2>2
<1>8. SubSeq(pending, 1, 1) = <<f>>
  <2>1. 1 \in 0 .. Len(pending)
    BY <1>3
  <2>2. SubSeq(pending, 1, 1) \in Seq(Requests) /\ Len(SubSeq(pending, 1, 1)) = 1
    BY <1>3, <2>1, SplitAt
  <2>3. SubSeq(pending, 1, 1)[1] = pending[1]
    BY <1>3
  <2>4. \A s \in Seq(Requests) : Len(s) = 1 => s = <<s[1]>>
    OBVIOUS
  <2>5. SubSeq(pending, 1, 1) = <<SubSeq(pending, 1, 1)[1]>>
    BY <2>2, <2>4
  <2> QED  BY <1>7, <2>3, <2>5
<1>9. StartsOne(f, is)
  BY <1>1, <1>7, <1>8, StartOne
<1>10. is \in [Requests -> None .. TokensPerRequest] /\ is \in [Requests -> Int]
  BY DEF TokenDone, Leaves
<1>11. /\ AdmitsFirst(f, is, issued', homeOf, homeOf')
       /\ homeOf' \in [Requests -> Gpus \cup {None}] /\ nextHome' \in Nat
  BY <1>1, <1>7, <1>9, <1>10, StartsAre
<1>12. PICK h \in Gpus : JoinAttention(0, <<f, 0>>, h)
  BY <1>1, <1>7, <1>9, <1>10, StartsAre
<1>13. /\ is[f] = None /\ RequestTypes(issued', done') /\ InOrder(f + 1, issued', homeOf', done')
       /\ Cardinality(ActiveOf(issued')) = Cardinality(ActiveOf(is)) + 1
  BY <1>6, <1>11, AdmitOne
<1>14. /\ pending' \in Seq(Requests) /\ Len(pending') = Len(pending) - 1
       /\ \A i \in 1 .. Len(pending) - 1 : pending'[i] = pending[i + 1]
  <2>1. 1 \in 0 .. Len(pending) /\ 1 + 1 = 2
    BY <1>3
  <2>2. pending' \in Seq(Requests) /\ Len(pending') = Len(pending) - 1
    BY <1>3, <2>1, SplitAt
  <2>3. \A i \in 1 .. Len(pending) - 1 : pending'[i] = pending[2 + i - 1] /\ 2 + i - 1 = i + 1
    BY <1>3
  <2> QED  BY <2>2, <2>3
<1>15. Line(pending', f + 1)
  <2>1. ASSUME NEW i \in 1 .. Len(pending') PROVE pending'[i] = (f + 1) + i - 1
    <3>1. i \in 1 .. Len(pending) - 1 /\ i + 1 \in 1 .. Len(pending)
      BY <1>3, <1>14
    <3>2. pending[i + 1] = f + (i + 1) - 1
      BY <1>6, <3>1 DEF Line
    <3>3. f + (i + 1) - 1 = (f + 1) + i - 1
      BY <1>6, <3>1
    <3> QED  BY <1>14, <3>1, <3>2, <3>3
  <2> QED  BY <2>1 DEF Line
<1>16. Admissions'
  <2>1. Len(pending') <= arrived' /\ arrived' - Len(pending') = f + 1
    <3>1. \A a, b \in Nat : b <= a => b - 1 <= a /\ a - (b - 1) = (a - b) + 1
      OBVIOUS
    <3>2. Len(pending) - 1 <= arrived /\ arrived - (Len(pending) - 1) = f + 1
      BY <1>3, <1>4, <1>6, <3>1
    <3>3. arrived' = arrived /\ Len(pending') = Len(pending) - 1
      BY <1>2, <1>14
    <3> QED  BY <3>2, <3>3
  <2>2. Cardinality(ActiveOf(issued')) = MaxActive /\ MaxActive <= MaxActive
    BY <1>6, <1>13, AsyncSets
  <2>3. AdmissionsOf(arrived', pending', issued', homeOf', done')
    BY <1>13, <1>15, <2>1, <2>2 DEF AdmissionsOf
  <2> QED  BY <2>3, AdmissionsAre
<1>17. JoinsAgain(is, f, 1, 0, h)
  <2>1. 0 \in Layers /\ 1 \in 1 .. TokensPerRequest /\ 1 - 1 = 0
    BY AsyncSets DEF Layers
  <2>2. issued' = [is EXCEPT ![f] = 1]
    BY <1>11 DEF AdmitsFirst
  <2> QED  BY <1>7, <1>10, <1>12, <1>13, <2>1, <2>2 DEF JoinsAgain
<1>18. /\ TokenInOnePlace' /\ Loads'
       /\ attnQ' \in QueuesOfAll /\ woken' \in [Gpus -> BOOLEAN] /\ UNCHANGED <<queue, total>>
  BY <1>1, <1>2, <1>17, PlacesAgain
<1>19. DeliveredTypes
  BY <1>2, <1>11, <1>13, <1>14, <1>18 DEF DeliveredTypes
<1>20. Delivers(g, t, l)
  BY DEF TokenDone
<1> QED  BY <1>16, <1>18, <1>19, <1>20, DeliveryKeeps

(* Delivering the first token of a batch, in all its cases.                *)
LEMMA DeliverKeeps ==
  ASSUME AsyncIInv, NEW g \in Gpus, Deliver(g)
  PROVE  AsyncIInv'
<1>0. AsyncTypeOK /\ Shape /\ Admissions
  BY DEF AsyncIInv
<1>1. PICK t, l : t = Head(work[g].batch) /\ l = work[g].layer
  OBVIOUS
<1>2. Delivers(g, t, l)
  BY <1>1 DEF Deliver, Delivers, driver
<1>3. CASE ~LastReply(t, l)
  <2>1. joined' = [joined EXCEPT ![t][l] = @ + 1] /\ UNCHANGED <<manager, done, gpuWork, fanout>>
    BY <1>1, <1>3 DEF Deliver
  <2> QED  BY <1>2, <1>3, <2>1, ReplyKeeps
<1>4. CASE LastReply(t, l)
  <2>1. joined' = [joined EXCEPT ![t][l] = 0]
    BY <1>1, <1>4 DEF Deliver
  <2>2. CASE l < NumLayers - 1 /\ QueueAttention(l + 1, <<t>>, <<homeOf[t[1]]>>) /\ UNCHANGED <<manager, done, fanout>>
    BY <1>2, <1>4, <2>1, <2>2, NextLayerKeeps
  <2>3. CASE TokenCompletes(t) /\ fanout' = [fanout EXCEPT ![t] = [k \in Layers |-> 0]]
    <3>1. \A u \in Tokens : u # t => fanout'[u] = fanout[u]
      BY <1>0, <2>3 DEF AsyncTypeOK
    <3>2. PICK is : Leaves(t, is)
      BY <1>2, <1>4, <2>1, <3>1, TokenLeaves
    <3>3. TokenDone(g, t, l, is)
      BY <1>2, <2>3, <3>2 DEF TokenDone, TokenCompletes
    <3>4. is = [issued EXCEPT ![t[1]] = None] /\ t[1] \in Requests /\ issued[t[1]] # None
      BY <3>2 DEF Leaves
    <3>5. CASE /\ t[2] + 1 < TokensPerRequest
               /\ issued' = [issued EXCEPT ![t[1]] = @ + 1]
               /\ QueueAttention(0, <<<<t[1], issued[t[1]]>>>>, <<homeOf[t[1]]>>)
               /\ UNCHANGED <<pending, homeOf, nextHome>>
      BY <3>3, <3>5, NextTokenKeeps
    <3>6. CASE /\ t[2] + 1 >= TokensPerRequest
               /\ LET n == Room(Active \ {t[1]})
                  IN  /\ pending' = SubSeq(pending, n + 1, Len(pending))
                      /\ Start(SubSeq(pending, 1, n), [issued EXCEPT ![t[1]] = None])
      <4>1. CASE pending = <<>>
        <5>1. Room(Active \ {t[1]}) = 0 /\ 0 + 1 = 1
          <6>1. PICK r \in Requests : r = t[1] /\ issued[r] # None
            BY <3>4
          <6>2. Room(Active \ {r}) = 0
            BY <1>0, <4>1, <6>1, RoomIs
          <6> QED  BY <6>1, <6>2
        <5>2. pending' = SubSeq(pending, 1, Len(pending)) /\ Start(SubSeq(pending, 1, 0), is)
          BY <3>4, <3>6, <5>1
        <5> QED  BY <3>3, <3>6, <4>1, <5>2, NoneWaits
      <4>2. CASE pending # <<>>
        <5>1. Room(Active \ {t[1]}) = 1 /\ 1 + 1 = 2
          <6>1. PICK r \in Requests : r = t[1] /\ issued[r] # None
            BY <3>4
          <6>2. Room(Active \ {r}) = 1
            BY <1>0, <4>2, <6>1, RoomIs
          <6> QED  BY <6>1, <6>2
        <5>2. pending' = SubSeq(pending, 2, Len(pending)) /\ Start(SubSeq(pending, 1, 1), is)
          BY <3>4, <3>6, <5>1
        <5> QED  BY <3>3, <3>6, <4>2, <5>2, OneWaits
      <4> QED  BY <4>1, <4>2
    <3> QED  BY <2>3, <3>5, <3>6 DEF TokenCompletes
  <2> QED  BY <1>1, <1>4, <2>2, <2>3 DEF Deliver
<1> QED  BY <1>3, <1>4

-----------------------------------------------------------------------------
(* Empty queues hold nothing, and only empty queues weigh nothing.         *)
LEMMA EmptyLoad ==
  /\ [q \in Queues |-> <<>>] \in [Queues -> Batches]
  /\ LoadOf([q \in Queues |-> <<>>]) = 0
<1> DEFINE qs == [q \in Queues |-> <<>>]
<1>1. qs \in [Queues -> Batches] /\ \A q \in Queues : qs[q] = <<>>
  BY EmptySeq DEF Batches
<1>2. \A l \in Layers : \A x \in LocalExperts : Len(qs[<<l, x>>]) = 0
  BY <1>1, EmptySeq DEF Queues
<1> HIDE DEF qs
<1>3. ASSUME NEW l \in Layers PROVE LayerLoad(qs, l) = 0
  <2> DEFINE f == [x \in LocalExperts |-> Len(qs[<<l, x>>])]
  <2>1. \A x \in LocalExperts : f[x] = 0
    BY <1>2
  <2>2. LayerLoad(qs, l) = Total(f, LocalExperts)
    BY DEF LayerLoad
  <2> HIDE DEF f
  <2> QED  BY <2>1, <2>2, TotalZero
<1>4. LoadOf(qs) = 0
  <2> DEFINE f == [l \in Layers |-> LayerLoad(qs, l)]
  <2>1. \A l \in Layers : f[l] = 0
    BY <1>3
  <2>2. LoadOf(qs) = Total(f, Layers)
    BY DEF LoadOf
  <2> HIDE DEF f
  <2> QED  BY <2>1, <2>2, TotalZero
<1> QED  BY <1>1, <1>4 DEF qs

(* Queues that weigh nothing are empty.                                    *)
LEMMA NoLoad ==
  ASSUME NEW qs \in [Queues -> Batches], LoadOf(qs) = 0
  PROVE  \A q \in Queues : qs[q] = <<>>
<1>1. ASSUME NEW l \in Layers PROVE LayerLoad(qs, l) = 0
  <2> DEFINE f == [k \in Layers |-> LayerLoad(qs, k)]
  <2>1. \A k \in Layers : f[k] = LayerLoad(qs, k)
    OBVIOUS
  <2>2. \A k \in Layers : f[k] \in Nat
    BY <2>1, LoadType
  <2>3. LoadOf(qs) = Total(f, Layers)
    BY DEF LoadOf
  <2> HIDE DEF f
  <2>4. f[l] <= Total(f, Layers)
    BY <2>2, AsyncSets, TotalAtLeast
  <2> QED  BY <2>1, <2>2, <2>3, <2>4
<1>2. ASSUME NEW l \in Layers, NEW x \in LocalExperts PROVE qs[<<l, x>>] = <<>>
  <2> DEFINE f == [y \in LocalExperts |-> Len(qs[<<l, y>>])]
  <2>1. \A y \in LocalExperts : f[y] = Len(qs[<<l, y>>])
    OBVIOUS
  <2>2. \A y \in LocalExperts : f[y] \in Nat /\ qs[<<l, y>>] \in Batches
    BY <2>1, LoadType
  <2>3. LayerLoad(qs, l) = Total(f, LocalExperts)
    BY DEF LayerLoad
  <2> HIDE DEF f
  <2>4. f[x] <= Total(f, LocalExperts)
    BY <2>2, AsyncSets, TotalAtLeast
  <2>5. f[x] = 0
    <3>1. Total(f, LocalExperts) = 0
      BY <1>1, <2>3
    <3>2. f[x] \in Nat /\ f[x] <= 0
      BY <2>2, <2>4, <3>1
    <3> QED  BY <3>2
  <2>6. qs[<<l, x>>] \in Seq(Tokens) /\ Len(qs[<<l, x>>]) = 0
    BY <2>1, <2>2, <2>5 DEF Batches
  <2> QED  BY <2>6, EmptySeq
<1> QED  BY <1>2 DEF Queues

(* Workers that hold nothing have no token.                                *)
LEMMA NothingHeld ==
  ASSUME AsyncTypeOK, Shape, NEW t,
         \A g \in Gpus : attnQ[g] = <<>> /\ queue[g] = [q \in Queues |-> <<>>] /\ at[g] \in {"top", "asleep"}
  PROVE  InAttn(attnQ, at, work, t) = 0 /\ \A l \in Layers : CopiesOf(queue, at, work, t, l) = 0
<1>1. ASSUME NEW g \in Gpus PROVE AttnCount(attnQ[g], at[g], work[g].batch, t) = 0
  <2>1. attnQ[g] = <<>> /\ at[g] # "attention"
    OBVIOUS
  <2>2. {i \in DOMAIN <<>> : <<>>[i][2] = t} = {}
    OBVIOUS
  <2>3. Cardinality({}) = 0
    BY FS_EmptySet
  <2> QED  BY <2>1, <2>2, <2>3 DEF AttnCount
<1>2. ASSUME NEW g \in Gpus, NEW l \in Layers PROVE CopyCount(queue[g], at[g], work[g], t, l) = 0
  <2>1. queue[g] = [q \in Queues |-> <<>>] /\ at[g] \notin Computing
    BY DEF Computing
  <2> DEFINE f == [x \in LocalExperts |-> Occurrences(t, queue[g][<<l, x>>])]
  <2>2. \A x \in LocalExperts : f[x] = 0
    <3>1. \A x \in LocalExperts : queue[g][<<l, x>>] = <<>>
      BY <2>1 DEF Queues
    <3>2. Occurrences(t, <<>>) = 0
      BY OccurrencesAre, HitsEmpty
    <3> QED  BY <3>1, <3>2
  <2>3. CopyCount(queue[g], at[g], work[g], t, l) = Total(f, LocalExperts) + 0
    BY <2>1 DEF CopyCount
  <2> HIDE DEF f
  <2> QED  BY <2>2, <2>3, TotalZero
<1>3. InAttn(attnQ, at, work, t) = 0
  <2> DEFINE f == [g \in Gpus |-> AttnCount(attnQ[g], at[g], work[g].batch, t)]
  <2>1. \A g \in Gpus : f[g] = 0
    BY <1>1
  <2>2. InAttn(attnQ, at, work, t) = Total(f, Gpus)
    BY DEF InAttn
  <2> HIDE DEF f
  <2> QED  BY <2>1, <2>2, TotalZero
<1>4. ASSUME NEW l \in Layers PROVE CopiesOf(queue, at, work, t, l) = 0
  <2> DEFINE f == [g \in Gpus |-> CopyCount(queue[g], at[g], work[g], t, l)]
  <2>1. \A g \in Gpus : f[g] = 0
    BY <1>2
  <2>2. CopiesOf(queue, at, work, t, l) = Total(f, Gpus)
    BY DEF CopiesOf
  <2> HIDE DEF f
  <2> QED  BY <2>1, <2>2, TotalZero
<1> QED  BY <1>3, <1>4

(* The simulator starts in the invariant.                                  *)
LEMMA AsyncInitHolds == AsyncInit => AsyncIInv
<1> SUFFICES ASSUME AsyncInit PROVE AsyncIInv
  OBVIOUS
<1>1. /\ setup \in AsyncConfigs /\ arrived = 0 /\ pending = <<>> /\ nextHome = 0
      /\ issued = [r \in Requests |-> None] /\ homeOf = [r \in Requests |-> None]
      /\ done   = [r \in Requests |-> 0]
      /\ attnQ  = [g \in Gpus |-> <<>>] /\ queue  = [g \in Gpus |-> [q \in Queues |-> <<>>]]
      /\ total  = [g \in Gpus |-> 0] /\ woken  = [g \in Gpus |-> FALSE]
      /\ at     = [g \in Gpus |-> "top"] /\ work   = [g \in Gpus |-> Idle]
      /\ routing = {}
      /\ fanout  = [t \in Tokens |-> [l \in Layers |-> 0]] /\ joined  = [t \in Tokens |-> [l \in Layers |-> 0]]
      /\ satAt = None /\ stopped = FALSE
  BY DEF AsyncInit
<1>2. /\ NumRequests \in Nat /\ TokensPerRequest \in Nat \ {0} /\ MaxActive \in Nat \ {0} /\ TopK \in Nat
      /\ None \in None .. TokensPerRequest /\ None \in Int
  BY AsyncSets DEF None
<1>3. <<>> \in Seq(Requests) /\ <<>> \in Seq(Layers \X Tokens) /\ <<>> \in Seq(Tokens) /\ Len(<<>>) = 0
  BY EmptySeq
<1>4. Idle \in Works /\ Len(Idle.batch) <= MaxBatch
  BY IdleWorks
<1>5. AsyncTypeOK
  <2>1. \A g \in Gpus : work[g].layer \in Layers /\ work[g].batch \in Seq(Tokens) /\ Len(work[g].batch) <= MaxBatch
    BY <1>1, <1>4 DEF Works, Batches
  <2>2. arrived \in 0 .. NumRequests /\ nextHome \in Nat /\ satAt \in Int /\ stopped \in BOOLEAN /\ pending \in Seq(Requests)
    <3>1. arrived \in 0 .. NumRequests /\ nextHome \in Nat
      BY <1>1, <1>2
    <3>2. satAt \in Int
      BY <1>1, <1>2
    <3>3. stopped \in BOOLEAN
      BY <1>1
    <3>4. pending \in Seq(Requests)
      BY <1>1, <1>3
    <3> QED  BY <3>1, <3>2, <3>3, <3>4
  <2>3. /\ issued \in [Requests -> None .. TokensPerRequest] /\ homeOf \in [Requests -> Gpus \cup {None}]
        /\ done \in [Requests -> 0 .. TokensPerRequest]
    BY <1>1, <1>2
  <2>4. /\ attnQ \in [Gpus -> Seq(Layers \X Tokens)] /\ queue \in [Gpus -> [Queues -> Seq(Tokens)]]
        /\ total \in [Gpus -> Nat] /\ woken \in [Gpus -> BOOLEAN]
        /\ at \in [Gpus -> {"asleep", "top", "attention", "expert", "return", "deliver"}]
    BY <1>1, <1>3
  <2>5. 0 \in 0 .. TopK
    BY <1>2
  <2>6. fanout \in [Tokens -> [Layers -> 0 .. TopK]] /\ joined \in [Tokens -> [Layers -> 0 .. TopK]]
    BY <1>1, <2>5
  <2> QED  BY <2>1, <2>2, <2>3, <2>4, <2>6 DEF AsyncTypeOK
<1>6. Shape
  <2>1. work \in [Gpus -> [layer : Layers, batch : Seq(Tokens)]]
    BY <1>1, <1>4 DEF Works, Batches
  <2>2. IsFiniteSet(routing)
    BY <1>1, FS_EmptySet
  <2> QED  BY <1>1, <2>1, <2>2 DEF Shape
<1>7. Admissions
  <2>1. ActiveOf(issued) = {}
    BY <1>1 DEF ActiveOf
  <2>2. Cardinality(ActiveOf(issued)) <= MaxActive
    BY <1>2, <2>1, FS_EmptySet
  <2>3. InOrder(0, issued, homeOf, done)
    <3>1. \A r \in Requests : ~(r < 0)
      BY RequestsAre
    <3> QED  BY <1>1, <1>2, <3>1 DEF InOrder
  <2>4. Len(pending) = 0 /\ arrived - Len(pending) = 0 /\ Line(pending, 0)
    <3>1. pending = <<>> /\ arrived = 0
      BY <1>1
    <3>2. Len(pending) = 0
      BY <1>3, <3>1
    <3>3. arrived - Len(pending) = 0
      <4>1. arrived - Len(pending) = 0 - 0
        BY <3>1, <3>2, Zenon
      <4>2. 0 - 0 = 0
        OBVIOUS
      <4> QED  BY <4>1, <4>2, Zenon
    <3>4. Line(pending, 0)
      <4>1. DOMAIN pending = {}
        BY <3>1
      <4>2. 1 .. Len(pending) = {}
        BY <3>2
      <4> QED  BY <3>1, <4>1, <4>2 DEF Line
    <3> QED  BY <3>2, <3>3, <3>4
  <2>5. AdmissionsOf(arrived, pending, issued, homeOf, done)
    BY <1>1, <2>2, <2>3, <2>4 DEF AdmissionsOf
  <2> QED  BY <2>5, AdmissionsAre
<1>8. \A g \in Gpus : attnQ[g] = <<>> /\ queue[g] = [q \in Queues |-> <<>>] /\ at[g] = "top"
  BY <1>1
<1>9. TokenInOnePlace
  <2>1. ASSUME NEW t \in Tokens
        PROVE  TokenPlaced(attnQ, queue, at, work, routing, joined, fanout, issued, t)
    <3>1. InAttn(attnQ, at, work, t) = 0 /\ \A l \in Layers : CopiesOf(queue, at, work, t, l) = 0
      BY <1>5, <1>6, <1>8, NothingHeld
    <3>2. OnTheWay(routing, t) = 0
      BY <1>1, FS_EmptySet DEF OnTheWay
    <3>3. IsDue(issued, t) = 0
      <4>1. t[1] \in Requests /\ t[2] \in Nat
        BY TokenIs
      <4> QED  BY <1>1, <4>1 DEF IsDue, None
    <3>4. /\ CopiesAll(queue, at, work, t) \in Counts /\ joined[t] \in Counts
          /\ Nowhere(CopiesAll(queue, at, work, t), joined[t])
      <4>1. \A l \in Layers : CopiesAll(queue, at, work, t)[l] = 0
        BY <3>1 DEF CopiesAll
      <4>2. CopiesAll(queue, at, work, t) = [l \in Layers |-> CopiesAll(queue, at, work, t)[l]]
        BY DEF CopiesAll
      <4>3. joined[t] = [l \in Layers |-> 0]
        BY <1>1
      <4> DEFINE cs == CopiesAll(queue, at, work, t)
      <4> HIDE DEF cs
      <4>4. cs \in Counts
        <5>1. \A l \in Layers : cs[l] \in Nat
          BY <4>1 DEF cs
        <5>2. cs = [l \in Layers |-> cs[l]]
          BY <4>2 DEF cs
        <5> QED  BY <5>1, <5>2 DEF Counts
      <4>5. joined[t] \in Counts /\ \A l \in Layers : joined[t][l] = 0
        BY <4>3 DEF Counts
      <4>6. Nowhere(cs, joined[t])
        <5>1. \A l \in Layers : cs[l] = 0
          BY <4>1 DEF cs
        <5> QED  BY <4>5, <5>1 DEF Nowhere
      <4> QED  BY <4>4, <4>5, <4>6 DEF cs
    <3> QED  BY <3>1, <3>2, <3>3, <3>4, PlaceNone DEF TokenPlaced
  <2> QED  BY <2>1, TokenPlacedIs DEF AllPlaced
<1>10. Loads
  <2>1. \A g \in Gpus : LoadOf(queue[g]) = 0
    BY <1>8, EmptyLoad
  <2>2. \A g \in Gpus : LoadRight(total[g], queue[g], at[g], woken[g], attnQ[g])
    BY <1>1, <2>1 DEF LoadRight
  <2> QED  BY <2>2, LoadsIs
<1>11. InTime
  BY <1>1 DEF InTime
<1> QED  BY <1>5, <1>6, <1>7, <1>9, <1>10, <1>11 DEF AsyncIInv

-----------------------------------------------------------------------------

(* Every step keeps it.                                                    *)
LEMMA AsyncStep == AsyncIInv /\ [AsyncNext]_asyncVars => AsyncIInv'
<1> SUFFICES ASSUME AsyncIInv, [AsyncNext]_asyncVars PROVE AsyncIInv'
  OBVIOUS
<1>1. CASE Arrive
  BY <1>1, ArriveKeeps
<1>2. CASE \E c \in DOMAIN channel : TransferDone(c)
  BY <1>2, TransferDoneKeeps
<1>3. CASE \E d \in routing : Dispatched(d)
  BY <1>3, DispatchedKeeps
<1>4. CASE \E g \in Gpus : Worker(g)
  BY <1>4, LoopTopKeeps, WakeKeeps, AttentionDoneKeeps, ExpertDoneKeeps, ReturnedKeeps, DeliverKeeps, DeliveredKeeps
     DEF Worker
<1>5. CASE MarkSaturation \/ StopEarly
  BY <1>5, DriverKeeps
<1>6. CASE UNCHANGED asyncVars
  <2>1. UNCHANGED <<setup, arrived, manager, done, gpuWork, at, work, routing, fanout, joined, driver>>
    BY <1>6 DEF asyncVars
  <2>2. AsyncTypeOK' /\ Shape' /\ Admissions' /\ InTime'
    BY <2>1 DEF AsyncIInv, AsyncTypeOK, Shape, Admissions, FirstWaiting, Active, InTime, CompletedTokens,
                manager, gpuWork, driver
  <2>3. TokenInOnePlace'
    BY <2>1, TokenPlacedIs DEF AsyncIInv, manager, gpuWork
  <2>4. Loads'
    BY <2>1, LoadsIs DEF AsyncIInv, gpuWork
  <2> QED  BY <2>2, <2>3, <2>4 DEF AsyncIInv
<1> QED  BY <1>1, <1>2, <1>3, <1>4, <1>5, <1>6 DEF AsyncNext

(* The inductive invariant of the asynchronous simulator (run_simulation   *)
(* and the processes it starts) holds in every reachable state.            *)
THEOREM AsyncInvariance == AsyncSpec => []AsyncIInv
BY AsyncInitHolds, AsyncStep, PTL DEF AsyncSpec

(* A token of an active request is in exactly one place, whatever the      *)
(* timings (enqueue_attention, route_and_dispatch,                         *)
(* notify_expert_completion, record_completion).                           *)
THEOREM OnePlaceAlways == AsyncSpec => []TokenInOnePlace
<1>1. AsyncIInv => TokenInOnePlace
  BY DEF AsyncIInv
<1> QED  BY <1>1, AsyncInvariance, PTL

(* Variables keep their types, batches stay within max_batch_size, and no  *)
(* worker sleeps through work: the wake-ups of enqueue and                 *)
(* enqueue_attention, which only fire on an empty worker, are enough.      *)
THEOREM WakesUp == AsyncSpec => []NoLostWakeup
<1>1. AsyncIInv => NoLostWakeup
  BY DEF AsyncIInv, Loads, NoLostWakeup
<1> QED  BY <1>1, AsyncInvariance, PTL

-----------------------------------------------------------------------------

(* With no event left nothing is held anywhere, so no token is due, no     *)
(* request active and none waiting: all are complete.                      *)
LEMMA AllIsDone ==
  ASSUME AsyncIInv, EventListEmpty
  PROVE  \A r \in Requests : done[r] = TokensPerRequest
<1>1. AsyncTypeOK /\ Shape /\ Admissions /\ TokenInOnePlace /\ Loads
  BY DEF AsyncIInv
<1>2. arrived = NumRequests /\ routing = {} /\ \A g \in Gpus : at[g] = "asleep" /\ ~woken[g]
  BY DEF EventListEmpty
<1>3. ASSUME NEW g \in Gpus
      PROVE  attnQ[g] = <<>> /\ \A q \in Queues : queue[g][q] = <<>>
  <2>1. LoadRight(total[g], queue[g], at[g], woken[g], attnQ[g])
    BY <1>1, LoadsIs
  <2>2. LoadOf(queue[g]) = 0 /\ attnQ[g] = <<>>
    BY <1>2, <2>1 DEF LoadRight
  <2>3. queue[g] \in [Queues -> Batches]
    BY <1>1, GpuTypes
  <2> QED  BY <2>2, <2>3, NoLoad
<1>4. ASSUME NEW t \in Tokens PROVE IsDue(issued, t) = 0
  <2>1. InAttn(attnQ, at, work, t) = 0 /\ \A l \in Layers : CopiesOf(queue, at, work, t, l) = 0
    <3>1. \A g \in Gpus : queue[g] = [q \in Queues |-> <<>>]
      <4>1. \A g \in Gpus : queue[g] \in [Queues -> Batches]
        BY <1>1, GpuTypes
      <4> QED  BY <1>3, <4>1
    <3> QED  BY <1>1, <1>2, <1>3, <3>1, NothingHeld
  <2>2. OnTheWay(routing, t) = 0
    BY <1>2, FS_EmptySet DEF OnTheWay
  <2>3. TokenPlaced(attnQ, queue, at, work, routing, joined, fanout, issued, t)
    BY <1>1, TokenPlacedIs DEF AllPlaced
  <2>4. OnePlace(0, CopiesAll(queue, at, work, t), joined[t], fanout[t], IsDue(issued, t))
    BY <2>1, <2>2, <2>3 DEF TokenPlaced
  <2>5. CopiesAll(queue, at, work, t) \in Counts /\ joined[t] \in Counts /\ IsDue(issued, t) \in {0, 1}
    BY <1>1, StateTypes, PlaceTypes
  <2>6. \A l \in Layers : ~(CopiesAll(queue, at, work, t)[l] > 0)
    BY <2>1 DEF CopiesAll
  <2> QED  BY <2>4, <2>5, <2>6, PlaceFound
<1>5. \A r \in Requests : issued[r] = None
  <2> SUFFICES ASSUME NEW r \in Requests, issued[r] # None PROVE FALSE
    OBVIOUS
  <2>1. issued[r] = done[r] + 1 /\ done[r] \in Nat /\ issued[r] \in None .. TokensPerRequest
    BY <1>1, AsyncSets DEF Admissions, Active, AsyncTypeOK
  <2>2. issued[r] \in 1 .. TokensPerRequest
    BY <2>1, AsyncSets
  <2>3. <<r, issued[r] - 1>> \in Tokens
    BY <2>2, TokenIs
  <2>4. IsDue(issued, <<r, issued[r] - 1>>) = 1
    BY <2>2 DEF IsDue
  <2> QED  BY <1>4, <2>3, <2>4
<1>6. pending = <<>>
  <2>1. ActiveOf(issued) = {}
    BY <1>5 DEF ActiveOf
  <2>2. Cardinality(ActiveOf(issued)) = 0 /\ MaxActive # 0
    BY <2>1, FS_EmptySet, AsyncSets
  <2> QED  BY <1>1, <2>2, AdmissionsAre DEF AdmissionsOf
<1>7. ASSUME NEW r \in Requests PROVE done[r] = TokensPerRequest
  <2>1. NumRequests \in Nat /\ TokensPerRequest \in Nat /\ arrived - Len(pending) = NumRequests
    BY <1>2, <1>6, EmptySeq, AsyncSets
  <2>2. InOrder(NumRequests, issued, homeOf, done)
    BY <1>1, <2>1, AdmissionsAre DEF AdmissionsOf
  <2>3. r < NumRequests
    BY <2>1 DEF Requests
  <2>4. ~(done[r] < TokensPerRequest)
    BY <1>5, <2>2, <2>3 DEF InOrder
  <2>5. done[r] \in 0 .. TokensPerRequest
    BY <1>1 DEF AsyncTypeOK
  <2> QED  BY <2>1, <2>4, <2>5
<1> QED  BY <1>7

(* When env.run() finds its event list empty every token has completed,    *)
(* and an early stop comes after the tokens it was told to wait for and    *)
(* within a batch of them.                                                 *)
THEOREM EndsRight == AsyncSpec => []EndsAsTold
<1>1. AsyncIInv => EndsAsTold
  <2>1. AsyncIInv => StopsOnTime
    BY DEF AsyncIInv, InTime, StopsOnTime
  <2> QED  BY <2>1, AllIsDone DEF EndsAsTold
<1> QED  BY <1>1, AsyncInvariance, PTL

-----------------------------------------------------------------------------

(* Active requests are among the first unfinished ones.                    *)
LEMMA ActiveAreFirst ==
  ASSUME AsyncIInv, NEW r \in Requests, issued[r] # None
  PROVE  r \in Promise!Admitted
<1>1. AsyncTypeOK /\ Admissions
  BY DEF AsyncIInv
<1>2. PICK f \in Nat : f = arrived - Len(pending) /\ f <= arrived
  BY <1>1, PlaceFreeIs
<1>3. /\ InOrder(f, issued, homeOf, done) /\ Cardinality(ActiveOf(issued)) <= MaxActive
      /\ arrived \in Nat /\ MaxActive \in Nat
  BY <1>1, <1>2, AdmissionsAre, PlaceFreeIs, AsyncSets DEF AdmissionsOf
<1>4. r \in Nat /\ r < f /\ done[r] < TokensPerRequest
  BY <1>3, RequestsAre DEF InOrder
<1>5. r \in Promise!Unfinished
  BY <1>2, <1>3, <1>4 DEF Promise!Unfinished
<1> DEFINE before == {q \in Promise!Unfinished : q < r}
<1>6. before \subseteq ActiveOf(issued) \ {r}
  <2>1. ASSUME NEW q \in before PROVE q \in ActiveOf(issued) \ {r}
    <3>1. q \in 0 .. arrived - 1 /\ q < r /\ done[q] < TokensPerRequest
      BY DEF Promise!Unfinished
    <3>2. q \in Requests /\ q < f /\ q # r
      BY <1>2, <1>3, <1>4, <3>1, AsyncSets DEF Requests
    <3>3. issued[q] # None
      BY <1>3, <3>1, <3>2 DEF InOrder
    <3> QED  BY <3>2, <3>3 DEF ActiveOf
  <2> QED  BY <2>1
<1>7. r \in ActiveOf(issued)
  BY DEF ActiveOf
<1>8. /\ IsFiniteSet(ActiveOf(issued) \ {r})
      /\ Cardinality(ActiveOf(issued) \ {r}) = Cardinality(ActiveOf(issued)) - 1
      /\ Cardinality(ActiveOf(issued)) \in Nat
  BY <1>7, ActiveFinite, FS_RemoveElement
<1> HIDE DEF before
<1>9. Cardinality(before) <= Cardinality(ActiveOf(issued) \ {r}) /\ Cardinality(before) \in Nat
  BY <1>6, <1>8, FS_Subset, FS_CardinalityType
<1>10. Cardinality(before) < MaxActive
  BY <1>3, <1>8, <1>9
<1>11. Promise!Admitted = {p \in Promise!Unfinished :
                             Cardinality({q \in Promise!Unfinished : q < p}) < MaxActive}
  <2>1. \A S : Promise!Cardinality(S) = Cardinality(S)
    BY DEF Promise!Cardinality, Cardinality
  <2> QED  BY <2>1, Zenon DEF Promise!Admitted
<1>12. Cardinality({q \in Promise!Unfinished : q < r}) < MaxActive
  BY <1>10 DEF before
<1> QED  BY <1>5, <1>11, <1>12, Zenon

(* A delivery completes a token of an active request, or none.             *)
LEMMA DeliversOne ==
  ASSUME AsyncIInv, NEW g \in Gpus, Deliver(g)
  PROVE  /\ UNCHANGED arrived
         /\ \/ UNCHANGED done
            \/ \E r \in Requests : issued[r] # None /\ done' = [done EXCEPT ![r] = @ + 1]
<1>0. AsyncTypeOK /\ Shape
  BY DEF AsyncIInv
<1>1. PICK t, l : t = Head(work[g].batch) /\ l = work[g].layer
  OBVIOUS
<1>2. Delivers(g, t, l)
  BY <1>1 DEF Deliver, Delivers, driver
<1>3. CASE UNCHANGED done
  BY <1>3 DEF Deliver
<1>4. CASE /\ LastReply(t, l) /\ TokenCompletes(t)
           /\ fanout' = [fanout EXCEPT ![t] = [k \in Layers |-> 0]]
  <2>1. joined' = [joined EXCEPT ![t][l] = 0]
    BY <1>1, <1>4 DEF Deliver
  <2>2. \A u \in Tokens : u # t => fanout'[u] = fanout[u]
    BY <1>0, <1>4 DEF AsyncTypeOK
  <2>3. PICK is : Leaves(t, is)
    BY <1>2, <1>4, <2>1, <2>2, TokenLeaves
  <2>4. t[1] \in Requests /\ issued[t[1]] # None
    BY <2>3 DEF Leaves
  <2>5. done' = [done EXCEPT ![t[1]] = @ + 1]
    BY <1>4 DEF TokenCompletes
  <2>6. \E r \in Requests : issued[r] # None /\ done' = [done EXCEPT ![r] = @ + 1]
    BY <2>4, <2>5
  <2> QED  BY <2>6 DEF Deliver
<1> QED  BY <1>1, <1>3, <1>4 DEF Deliver

(* Every step arrives, completes, or does nothing the promise sees.        *)
LEMMA AsyncSimulates ==
  ASSUME AsyncIInv, [AsyncNext]_asyncVars
  PROVE  [Promise!Next]_<<arrived, done>>
<1>1. CASE UNCHANGED <<arrived, done>>
  BY <1>1
<1>2. CASE Arrive
  <2>1. arrived < NumRequests /\ arrived' = arrived + 1 /\ UNCHANGED done /\ arrived \in Nat /\ NumRequests \in Nat
    BY <1>2, AsyncSets DEF Arrive, AsyncIInv, AsyncTypeOK
  <2>2. arrived' \in arrived + 1 .. NumRequests
    BY <2>1
  <2> QED  BY <2>1, <2>2 DEF Promise!Next, Promise!Arrive
<1>3. CASE \E g \in Gpus : Deliver(g)
  <2>1. CASE \E r \in Requests : issued[r] # None /\ done' = [done EXCEPT ![r] = @ + 1]
    <3>1. PICK r \in Requests : issued[r] # None /\ done' = [done EXCEPT ![r] = @ + 1]
      BY <2>1
    <3>2. r \in Promise!Admitted
      BY <3>1, ActiveAreFirst
    <3>3. done' = [q \in Requests |-> IF q \in {r} THEN done[q] + 1 ELSE done[q]]
      BY <3>1 DEF AsyncIInv, AsyncTypeOK
    <3>4. Promise!Requests = Requests
      BY DEF Promise!Requests, Requests
    <3>5. {r} \in SUBSET Promise!Admitted /\ UNCHANGED arrived
      BY <1>3, <3>2, DeliversOne
    <3>6. Promise!Complete
      BY <3>3, <3>4, <3>5 DEF Promise!Complete
    <3> QED  BY <3>6 DEF Promise!Next
  <2> QED  BY <1>1, <1>3, <2>1, DeliversOne
<1>4. CASE \/ \E c \in DOMAIN channel : TransferDone(c)
           \/ \E d \in routing : Dispatched(d)
           \/ \E g \in Gpus : LoopTop(g) \/ Wake(g) \/ AttentionDone(g) \/ ExpertDone(g) \/ Returned(g) \/ Delivered(g)
           \/ MarkSaturation \/ StopEarly \/ UNCHANGED asyncVars
  BY <1>1, <1>4 DEF TransferDone, Dispatched, LoopTop, Wake, AttentionDone, ExpertDone, Returned, Delivered,
                    MarkSaturation, StopEarly, asyncVars
<1> QED  BY <1>2, <1>3, <1>4 DEF AsyncNext, Worker

(* RequestManager admits and completes as Autoregressive says.             *)
THEOREM AsyncRefines == AsyncSpec => AsyncImplementsAutoregressive
<1>1. AsyncInit => Promise!Init
  BY DEF AsyncInit, Promise!Init, Promise!Requests, Requests
<1>2. AsyncIInv /\ [AsyncNext]_asyncVars => [Promise!Next]_Promise!vars
  BY AsyncSimulates DEF Promise!vars
<1> QED  BY <1>1, <1>2, AsyncInvariance, PTL DEF AsyncSpec, AsyncImplementsAutoregressive, Promise!Spec
=============================================================================
