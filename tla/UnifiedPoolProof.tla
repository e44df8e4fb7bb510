--------------------------- MODULE UnifiedPoolProof ---------------------------
(***************************************************************************)
(* The unified pool is right for every set of requests, every batches that *)
(* arrive, every number of layers, TopK and thresholds: its token counts   *)
(* are exact, no copy of a token is lost or made twice, a take never comes *)
(* back empty, and each layer is a FIFO of tokens.                         *)
(*                                                                         *)
(* The first three make one inductive invariant with the fact that joins   *)
(* the two critical sections of Scheduler::schedule: the layer the engine  *)
(* chose has a token until the engine takes from it, because the pool      *)
(* thread, which may run in between, only adds.                            *)
(***************************************************************************)
EXTENDS UnifiedPool, CollectionFacts

ChosenHasTokens == chosen \in LayerIds => numTokens[chosen] > 0

IInv == /\ TypeOK
        /\ NumTokensExact
        /\ ChosenHasTokens
        /\ NeverAborts
        /\ NothingLostOrDuplicated

-----------------------------------------------------------------------------
(* Copies of a request.                                                    *)

LEMMA CopiesAppend ==
  ASSUME NEW S, NEW s \in Seq(S), NEW x \in S, NEW r
  PROVE  /\ CopiesOf(r, s) \in Nat
         /\ CopiesOf(r, Append(s, x)) = CopiesOf(r, s) + (IF x = r THEN 1 ELSE 0)
<1> DEFINE at(t) == {j \in DOMAIN t : t[j] = r}
<1>1. /\ Len(s) \in Nat /\ DOMAIN s = 1 .. Len(s) /\ DOMAIN Append(s, x) = 1 .. Len(s) + 1
      /\ \A i \in 1 .. Len(s) : Append(s, x)[i] = s[i]
      /\ Append(s, x)[Len(s) + 1] = x
  BY AppendProperties, LenProperties
<1>2. IsFiniteSet(at(s))
  <2>1. IsFiniteSet(1 .. Len(s)) /\ at(s) \subseteq 1 .. Len(s)
    BY <1>1, FS_Interval
  <2> QED  BY <2>1, FS_Subset
<1>3. at(Append(s, x)) = IF x = r THEN at(s) \cup {Len(s) + 1} ELSE at(s)
  BY <1>1
<1>4. Len(s) + 1 \notin at(s)
  BY <1>1
<1>5. CopiesOf(r, s) = Cardinality(at(s)) /\ CopiesOf(r, Append(s, x)) = Cardinality(at(Append(s, x)))
  BY DEF CopiesOf
<1> HIDE DEF at
<1>6. Cardinality(at(s)) \in Nat
  BY <1>2, FS_CardinalityType
<1>7. Cardinality(at(s) \cup {Len(s) + 1}) = Cardinality(at(s)) + 1
  BY <1>2, <1>4, FS_AddElement
<1> QED  BY <1>3, <1>5, <1>6, <1>7

LEMMA CopiesNone == ASSUME NEW r PROVE CopiesOf(r, <<>>) = 0
<1>1. {j \in DOMAIN <<>> : <<>>[j] = r} = {}
  OBVIOUS
<1> QED  BY <1>1, FS_EmptySet DEF CopiesOf

LEMMA CopiesConcat ==
  ASSUME NEW S, NEW s \in Seq(S), NEW t \in Seq(S), NEW r
  PROVE  /\ CopiesOf(r, s \o t) = CopiesOf(r, s) + CopiesOf(r, t)
         /\ CopiesOf(r, s) \in Nat /\ CopiesOf(r, t) \in Nat
<1>1. \A u \in Seq(S) : CopiesOf(r, u) \in Nat
  <2> SUFFICES ASSUME NEW u \in Seq(S) PROVE CopiesOf(r, u) \in Nat
    OBVIOUS
  <2>1. CASE u = <<>>
    BY <2>1, CopiesNone
  <2>2. CASE u # <<>>
    <3>1. PICK v \in Seq(S), x \in S : u = Append(v, x)
      BY <2>2, SequenceEmptyOrAppend
    <3> QED  BY <3>1, CopiesAppend
  <2> QED  BY <2>1, <2>2
<1> DEFINE P == {u \in Seq(S) : CopiesOf(r, s \o u) = CopiesOf(r, s) + CopiesOf(r, u)}
<1>2. <<>> \in P
  <2>1. s \o <<>> = s /\ <<>> \in Seq(S)
    BY ConcatEmptySeq, EmptySeq
  <2> QED  BY <1>1, <2>1, CopiesNone
<1>3. ASSUME NEW u \in P, NEW x \in S PROVE Append(u, x) \in P
  <2>1. u \in Seq(S) /\ CopiesOf(r, s \o u) = CopiesOf(r, s) + CopiesOf(r, u)
    OBVIOUS
  <2>2. Append(u, x) \in Seq(S) /\ Append(u, x) = u \o <<x>> /\ <<x>> \in Seq(S)
    BY <2>1, AppendProperties, AppendIsConcat
  <2>3. s \o u \in Seq(S) /\ Append(s \o u, x) = (s \o u) \o <<x>>
    BY <2>1, ConcatProperties, AppendIsConcat
  <2>4. s \o Append(u, x) = Append(s \o u, x)
    BY <2>1, <2>2, <2>3, ConcatAssociative
  <2>5. CopiesOf(r, Append(s \o u, x)) = CopiesOf(r, s \o u) + (IF x = r THEN 1 ELSE 0)
    BY <2>3, CopiesAppend
  <2>6. CopiesOf(r, Append(u, x)) = CopiesOf(r, u) + (IF x = r THEN 1 ELSE 0)
    BY <2>1, CopiesAppend
  <2>7. CopiesOf(r, s) \in Nat /\ CopiesOf(r, u) \in Nat
    BY <1>1, <2>1
  <2>8. CopiesOf(r, s \o Append(u, x)) = CopiesOf(r, s) + CopiesOf(r, Append(u, x))
    <3>1. PICK a, b \in Nat : a = CopiesOf(r, s) /\ b = CopiesOf(r, u)
      BY <2>7
    <3>2. CopiesOf(r, Append(s \o u, x)) = (a + b) + (IF x = r THEN 1 ELSE 0)
      BY <2>1, <2>5, <3>1
    <3>3. CopiesOf(r, Append(u, x)) = b + (IF x = r THEN 1 ELSE 0)
      BY <2>6, <3>1
    <3>4. (a + b) + (IF x = r THEN 1 ELSE 0) = a + (b + (IF x = r THEN 1 ELSE 0))
      OBVIOUS
    <3> QED  BY <2>4, <3>1, <3>2, <3>3, <3>4
  <2> QED  BY <2>2, <2>8
<1>4. P = Seq(S)
  <2>1. P \in SUBSET Seq(S)
    OBVIOUS
  <2> HIDE DEF P
  <2> QED  BY <1>2, <1>3, <2>1, SequenceInduction
<1> QED  BY <1>1, <1>4

-----------------------------------------------------------------------------
(* fetch_ready_tokens.                                                     *)

LEMMA ReadyOnce ==
  ASSUME NEW S, NEW count, NEW reqs \in Seq(S), NEW r
  PROVE  /\ ReadyTokens(count, reqs) \in Seq(Seq(S))
         /\ CopiesOf(r, FlattenSeq(ReadyTokens(count, reqs)))
              = Cardinality({i \in DOMAIN reqs : Completes(count, reqs, i) /\ reqs[i] = r})
<1> DEFINE ready == {i \in DOMAIN reqs : Completes(count, reqs, i)}
           place(k) == CHOOSE i \in ready : Cardinality({j \in ready : j <= i}) = k
           m == Cardinality(ready)
           rank == [i \in ready |-> Cardinality({j \in ready : j <= i})]
           flat == [k \in 1 .. m |-> reqs[place(k)]]
<1>1. Len(reqs) \in Nat /\ DOMAIN reqs = 1 .. Len(reqs) /\ \A i \in 1 .. Len(reqs) : reqs[i] \in S
  BY LenProperties
<1>2. IsFiniteSet(ready) /\ m \in Nat /\ rank \in Bijection(ready, 1 .. m)
  <2>1. ready \in SUBSET (1 .. Len(reqs))
    BY <1>1
  <2> HIDE DEF ready
  <2> QED  BY <1>1, <2>1, Ranked
<1>3. ASSUME NEW k \in 1 .. m
      PROVE  place(k) \in ready /\ rank[place(k)] = k
  <2>1. PICK i \in ready : rank[i] = k
    BY <1>2 DEF Bijection, Surjection
  <2>2. Cardinality({j \in ready : j <= i}) = k
    BY <2>1
  <2> HIDE DEF ready
  <2> QED  BY <2>2
<1>4. ReadyTokens(count, reqs) = [k \in 1 .. m |-> <<reqs[place(k)]>>]
  BY DEF ReadyTokens
<1>5. \A i \in ready : i \in 1 .. Len(reqs)
  BY <1>1
<1> HIDE DEF ready, place, rank, m
<1>6. \A k \in 1 .. m : reqs[place(k)] \in S
  BY <1>1, <1>3, <1>5
<1>7. flat \in Seq(S) /\ Len(flat) = m /\ DOMAIN flat = 1 .. m
      /\ \A k \in 1 .. m : flat[k] = reqs[place(k)]
  BY <1>2, <1>6
<1>8. ReadyTokens(count, reqs) = [k \in 1 .. Len(flat) |-> <<flat[k]>>]
  BY <1>4, <1>7
<1> HIDE DEF flat
<1>9. ReadyTokens(count, reqs) \in Seq(Seq(S)) /\ FlattenSeq(ReadyTokens(count, reqs)) = flat
  BY <1>7, <1>8, FlattenSingles
<1> DEFINE A == {k \in 1 .. m : flat[k] = r}
           B == {i \in ready : reqs[i] = r}
           to == [i \in B |-> rank[i]]
<1>10. to \in Bijection(B, A)
  <2>1. /\ rank \in [ready -> 1 .. m] /\ \A i, j \in ready : rank[i] = rank[j] => i = j
    BY <1>2 DEF Bijection, Injection, IsInjective
  <2>2. \A i \in ready : place(rank[i]) = i
    BY <1>3, <2>1
  <2>3. \A i \in ready : flat[rank[i]] = reqs[i]
    BY <1>7, <2>1, <2>2
  <2>4. to \in [B -> A]
    BY <2>1, <2>3
  <2>5. to \in Injection(B, A)
    BY <2>1, <2>4 DEF Injection, IsInjective
  <2>6. ASSUME NEW k \in A PROVE \E i \in B : to[i] = k
    <3>1. place(k) \in ready /\ rank[place(k)] = k /\ reqs[place(k)] = r
      BY <1>3, <1>7
    <3> QED  BY <3>1
  <2>7. to \in Surjection(B, A)
    BY <2>4, <2>6 DEF Surjection
  <2> QED  BY <2>5, <2>7 DEF Bijection
<1>11. Cardinality(A) = Cardinality(B)
  <2>1. IsFiniteSet(B)
    BY <1>2, FS_Subset
  <2> HIDE DEF A, B, to
  <2>2. ExistsBijection(B, A)
    BY <1>10 DEF ExistsBijection
  <2> QED  BY <2>1, <2>2, FS_Bijection
<1>12. B = {i \in DOMAIN reqs : Completes(count, reqs, i) /\ reqs[i] = r}
  BY DEF ready
<1>13. CopiesOf(r, flat) = Cardinality(A)
  BY <1>7 DEF CopiesOf
<1> QED  BY <1>9, <1>11, <1>12, <1>13

-----------------------------------------------------------------------------
(* TokenTopKPool.put_batch.                                                *)

LEMMA NextMultiple ==
  ASSUME NEW n \in Nat, NEW K \in Nat \ {0}
  PROVE  /\ n % K \in 0 .. K - 1
         /\ (n + 1) % K = IF n % K = K - 1 THEN 0 ELSE (n % K) + 1
<1>1. n % K \in 0 .. K - 1
  OBVIOUS
<1>2. PICK x \in Nat, y \in 0 .. K - 1 : n = K * x + y /\ n % K = y
  <2>1. n \div K \in Nat /\ n = K * (n \div K) + (n % K)
    OBVIOUS
  <2> QED  BY <1>1, <2>1
<1>3. \A a \in Nat, b \in 0 .. K - 1 : (K * a + b) % K = b
  OBVIOUS
<1>4. CASE y = K - 1
  <2>1. n + 1 = K * (x + 1) + 0 /\ x + 1 \in Nat /\ 0 \in 0 .. K - 1
    BY <1>2, <1>4
  <2>2. (n + 1) % K = 0
    BY <1>3, <2>1, Zenon
  <2> QED  BY <1>2, <1>4, <2>2
<1>5. CASE y # K - 1
  <2>1. n + 1 = K * x + (y + 1) /\ y + 1 \in 0 .. K - 1
    BY <1>2, <1>5
  <2>2. (n + 1) % K = y + 1
    BY <1>2, <1>3, <2>1, Zenon
  <2> QED  BY <1>2, <1>5, <2>2
<1> QED  BY <1>1, <1>4, <1>5

(* The TopK copies of a token leave the pool as one, and the rest stays.   *)
LEMMA JoinConserves ==
  ASSUME NEW S, NEW reqs \in Seq(S), NEW r, NEW count, count[r] \in 0 .. TopK - 1
  PROVE  LET ready == {i \in DOMAIN reqs : Completes(count, reqs, i) /\ reqs[i] = r}
             now == count[r] + CopiesOf(r, reqs)
         IN  /\ Cardinality(ready) \in Nat /\ CopiesOf(r, reqs) \in Nat
             /\ now % TopK \in 0 .. TopK - 1
             /\ now = TopK * Cardinality(ready) + (now % TopK)
<1> DEFINE ready(t) == {i \in DOMAIN t : Completes(count, t, i) /\ t[i] = r}
           now(t) == count[r] + CopiesOf(r, t)
           P == {t \in Seq(S) : /\ IsFiniteSet(ready(t))
                                /\ now(t) = TopK * Cardinality(ready(t)) + (now(t) % TopK)}
<1>1. TopK \in Nat \ {0} /\ count[r] \in Nat
  BY PoolOpsAssumption
<1>2. \A t \in Seq(S) : CopiesOf(r, t) \in Nat
  BY CopiesConcat
<1>3. <<>> \in P
  <2>1. ready(<<>>) = {}
    OBVIOUS
  <2>2. now(<<>>) = count[r] /\ count[r] % TopK = count[r]
    <3>1. \A n \in 0 .. TopK - 1 : n + 0 = n /\ n % TopK = n
      BY <1>1
    <3> QED  BY <3>1, CopiesNone
  <2>3. TopK * 0 + count[r] = count[r]
    BY <1>1
  <2> HIDE DEF ready, now
  <2> QED  BY <2>1, <2>2, <2>3, FS_EmptySet, EmptySeq
<1>4. ASSUME NEW t \in P, NEW x \in S PROVE Append(t, x) \in P
  <2> DEFINE u == Append(t, x)
             n == Len(t) + 1
  <2>1. t \in Seq(S) /\ IsFiniteSet(ready(t)) /\ now(t) = TopK * Cardinality(ready(t)) + (now(t) % TopK)
    OBVIOUS
  <2>2. /\ u \in Seq(S) /\ Len(t) \in Nat /\ DOMAIN t = 1 .. Len(t) /\ DOMAIN u = 1 .. n
        /\ u[n] = x /\ \A i \in 1 .. Len(t) : u[i] = t[i]
    BY <2>1, AppendProperties, LenProperties
  <2> HIDE DEF u
  <2>3. \A i \in 1 .. Len(t) : Completes(count, u, i) <=> Completes(count, t, i)
    <3> SUFFICES ASSUME NEW i \in 1 .. Len(t) PROVE Completes(count, u, i) <=> Completes(count, t, i)
      OBVIOUS
    <3>1. {j \in 1 .. i : u[j] = u[i]} = {j \in 1 .. i : t[j] = t[i]}
      BY <2>2
    <3> QED  BY <2>2, <3>1 DEF Completes, CopiesUpTo
  <2>4. x = r => (Completes(count, u, n) <=> now(u) % TopK = 0)
    <3>1. x = r => {j \in 1 .. n : u[j] = u[n]} = {j \in DOMAIN u : u[j] = r}
      BY <2>2
    <3> QED  BY <2>2, <3>1 DEF Completes, CopiesUpTo, CopiesOf
  <2>5. now(u) = now(t) + (IF x = r THEN 1 ELSE 0)
    <3>1. CopiesOf(r, u) = CopiesOf(r, t) + (IF x = r THEN 1 ELSE 0) /\ CopiesOf(r, t) \in Nat
      BY <2>1, CopiesAppend DEF u
    <3>2. PICK a, b \in Nat : a = count[r] /\ b = CopiesOf(r, t)
      BY <1>1, <3>1
    <3>3. now(t) = a + b /\ now(u) = a + (b + (IF x = r THEN 1 ELSE 0))
      BY <3>1, <3>2
    <3> QED  BY <3>3
  <2>6. n \notin ready(t)
    BY <2>2
  <2>7. ready(u) = IF x = r /\ now(u) % TopK = 0 THEN ready(t) \cup {n} ELSE ready(t)
    BY <2>2, <2>3, <2>4
  <2>8. now(t) \in Nat
    BY <1>1, <1>2, <2>1
  <2> HIDE DEF ready, now
  <2>9. /\ IsFiniteSet(ready(u))
        /\ Cardinality(ready(u))
             = IF x = r /\ now(u) % TopK = 0 THEN Cardinality(ready(t)) + 1 ELSE Cardinality(ready(t))
    BY <2>1, <2>6, <2>7, FS_AddElement
  <2>10. now(u) = TopK * Cardinality(ready(u)) + (now(u) % TopK)
    <3>1. PICK a, c \in Nat : a = now(t) /\ c = Cardinality(ready(t))
      BY <2>1, <2>8, FS_CardinalityType
    <3>2. a = TopK * c + (a % TopK)
      BY <2>1, <3>1
    <3>3. CASE x # r
      BY <2>5, <2>9, <3>1, <3>2, <3>3
    <3>4. CASE x = r
      <4>1. now(u) = a + 1
        BY <2>5, <3>1, <3>4
      <4>2. a % TopK \in 0 .. TopK - 1 /\ (a + 1) % TopK = IF a % TopK = TopK - 1 THEN 0 ELSE (a % TopK) + 1
        BY <1>1, NextMultiple
      <4>3. CASE a % TopK = TopK - 1
        <5>1. Cardinality(ready(u)) = c + 1 /\ now(u) % TopK = 0
          BY <2>9, <3>1, <3>4, <4>1, <4>2, <4>3
        <5>2. a + 1 = TopK * (c + 1) + 0
          BY <1>1, <3>2, <4>3
        <5> QED  BY <4>1, <5>1, <5>2
      <4>4. CASE a % TopK # TopK - 1
        <5>1. Cardinality(ready(u)) = c /\ (a + 1) % TopK = (a % TopK) + 1
          BY <2>9, <3>1, <3>4, <4>1, <4>2, <4>4
        <5>2. a + 1 = TopK * c + ((a % TopK) + 1)
          BY <1>1, <3>2, <4>2
        <5> QED  BY <4>1, <5>1, <5>2
      <4> QED  BY <4>3, <4>4
    <3> QED  BY <3>3, <3>4
  <2> QED  BY <2>2, <2>9, <2>10 DEF u
<1>5. P = Seq(S)
  <2>1. P \in SUBSET Seq(S)
    OBVIOUS
  <2> HIDE DEF P
  <2> QED  BY <1>3, <1>4, <2>1, SequenceInduction
<1>6. IsFiniteSet(ready(reqs)) /\ now(reqs) = TopK * Cardinality(ready(reqs)) + (now(reqs) % TopK)
  BY <1>5
<1>7. now(reqs) % TopK \in 0 .. TopK - 1
  <2>1. now(reqs) \in Nat
    BY <1>1, <1>2
  <2> HIDE DEF now
  <2> QED  BY <1>1, <2>1, NextMultiple
<1>8. Cardinality(ready(reqs)) \in Nat
  <2> HIDE DEF ready
  <2> QED  BY <1>6, FS_CardinalityType
<1> QED  BY <1>2, <1>6, <1>7, <1>8

-----------------------------------------------------------------------------
(* The layers and their thresholds.                                        *)
LEMMA LayerFacts ==
  /\ AttnLayers \subseteq LayerIds
  /\ \A id \in LayerIds : id \in Nat /\ Threshold(id) \in Nat \ {0} /\ FlfsRank(id) \in Nat
  /\ NoLayer \notin LayerIds /\ Unchosen \notin LayerIds /\ NoLayer # Unchosen
<1>1. NumLayers \in Nat \ {0} /\ AttnThreshold \in Nat \ {0} /\ ExpertThreshold \in Nat \ {0}
  BY PoolOpsAssumption, UnifiedPoolAssumption
<1>2. AttnLayers \subseteq LayerIds
  BY <1>1 DEF AttnLayers, LayerIds
<1>3. \A id \in LayerIds : id \in Nat /\ Threshold(id) \in Nat \ {0}
  BY <1>1 DEF LayerIds, Threshold
<1>4. ASSUME NEW id \in LayerIds PROVE FlfsRank(id) \in Nat
  <2>1. CASE id \in AttnLayers
    BY <1>1, <2>1 DEF FlfsRank, AttnLayers
  <2>2. CASE id \notin AttnLayers
    BY <1>1, <2>2 DEF FlfsRank, AttnLayers, LayerIds, ExpertId
  <2> QED  BY <2>1, <2>2
<1>5. NoLayer \notin LayerIds /\ Unchosen \notin LayerIds /\ NoLayer # Unchosen
  BY <1>1 DEF NoLayer, Unchosen, LayerIds
<1> QED  BY <1>2, <1>3, <1>4, <1>5

(* The schedule finds a layer when there is one.                           *)
LEMMA ScheduledLayerWaits ==
  ASSUME NEW num, Waiting(num) # {}
  PROVE  FirstWaiting(num) \in Waiting(num)
<1> DEFINE ranks == {FlfsRank(id) : id \in Waiting(num)}
<1>1. \A id \in Waiting(num) : FlfsRank(id) \in Nat
  BY LayerFacts DEF Waiting
<1>2. ranks \in SUBSET Nat /\ ranks # {}
  BY <1>1
<1> HIDE DEF ranks
<1>3. PICK n \in ranks : \A m \in ranks : n <= m
  BY <1>2, LeastNumber
<1>4. \E id \in Waiting(num) : \A other \in Waiting(num) : FlfsRank(id) <= FlfsRank(other)
  BY <1>3 DEF ranks
<1> QED  BY <1>4 DEF FirstWaiting

-----------------------------------------------------------------------------
(* What has been filed into a layer grows by the copies of the batch that  *)
(* arrives.                                                                *)
CopiesWithin(m, r) == {m} \X {i \in DOMAIN m.reqs : m.reqs[i] = r}
FiledTo(id, msgs) == {m \in msgs : TargetLayer(m.tag, m.layer) = id}

LEMMA CopiesWithinOne ==
  ASSUME NEW m \in Feed, NEW r
  PROVE  IsFiniteSet(CopiesWithin(m, r)) /\ Cardinality(CopiesWithin(m, r)) = CopiesOf(r, m.reqs)
<1> DEFINE at == {i \in DOMAIN m.reqs : m.reqs[i] = r}
<1>1. m.reqs \in Seq(Req)
  BY UnifiedPoolAssumption DEF Message
<1>2. IsFiniteSet(at) /\ Cardinality(at) \in Nat
  <2>1. DOMAIN m.reqs = 1 .. Len(m.reqs) /\ 1 \in Int /\ Len(m.reqs) \in Int
    BY <1>1, LenProperties
  <2>2. IsFiniteSet(1 .. Len(m.reqs)) /\ at \in SUBSET (1 .. Len(m.reqs))
    BY <2>1, FS_Interval
  <2> HIDE DEF at
  <2> QED  BY <2>2, FS_Subset, FS_CardinalityType
<1>3. at = {j \in DOMAIN m.reqs : m.reqs[j] = r} /\ CopiesWithin(m, r) = {m} \X at
  BY DEF CopiesWithin
<1> HIDE DEF at
<1>4. IsFiniteSet({m} \X at) /\ Cardinality({m} \X at) = 1 * Cardinality(at)
  <2>1. IsFiniteSet({m}) /\ Cardinality({m}) = 1
    BY FS_Singleton
  <2> QED  BY <1>2, <2>1, FS_Product
<1>5. 1 * Cardinality(at) = Cardinality(at)
  <2>1. \A n \in Nat : 1 * n = n
    OBVIOUS
  <2> QED  BY <1>2, <2>1, Zenon
<1> QED  BY <1>3, <1>4, <1>5 DEF CopiesOf

LEMMA FiledIntoFinite ==
  ASSUME NEW id, NEW r, NEW msgs \in SUBSET Feed
  PROVE  /\ FiledInto(id, r, msgs) = Cardinality(UNION {CopiesWithin(m, r) : m \in FiledTo(id, msgs)})
         /\ IsFiniteSet(UNION {CopiesWithin(m, r) : m \in FiledTo(id, msgs)})
         /\ FiledInto(id, r, msgs) \in Nat
<1> DEFINE rows == [m \in FiledTo(id, msgs) |-> CopiesWithin(m, r)]
<1>1. FiledInto(id, r, msgs) = Cardinality(UNION {CopiesWithin(m, r) : m \in FiledTo(id, msgs)})
  BY DEF FiledInto, CopiesWithin, FiledTo
<1>2. IsFiniteSet(FiledTo(id, msgs))
  <2>1. FiledTo(id, msgs) \in SUBSET Feed
    BY DEF FiledTo
  <2> QED  BY <2>1, UnifiedPoolAssumption, FS_Subset
<1>3. {CopiesWithin(m, r) : m \in FiledTo(id, msgs)} = Range(rows)
  BY DEF Range
<1>4. rows \in Surjection(FiledTo(id, msgs), Range(rows))
  BY DEF Surjection, Range
<1>5. IsFiniteSet({CopiesWithin(m, r) : m \in FiledTo(id, msgs)})
  BY <1>2, <1>3, <1>4, FS_Surjection
<1>6. \A T \in {CopiesWithin(m, r) : m \in FiledTo(id, msgs)} : IsFiniteSet(T)
  BY CopiesWithinOne DEF FiledTo
<1>7. IsFiniteSet(UNION {CopiesWithin(m, r) : m \in FiledTo(id, msgs)})
  BY <1>5, <1>6, FS_UNION
<1> QED  BY <1>1, <1>7, FS_CardinalityType

LEMMA FiledIntoGrows ==
  ASSUME NEW id, NEW r, NEW msgs \in SUBSET Feed, NEW m \in msgs
  PROVE  FiledInto(id, r, msgs)
           = FiledInto(id, r, msgs \ {m})
             + (IF TargetLayer(m.tag, m.layer) = id THEN CopiesOf(r, m.reqs) ELSE 0)
<1> DEFINE rest == msgs \ {m}
           all(M) == UNION {CopiesWithin(k, r) : k \in FiledTo(id, M)}
<1>1. /\ FiledInto(id, r, msgs) = Cardinality(all(msgs)) /\ FiledInto(id, r, rest) = Cardinality(all(rest))
      /\ IsFiniteSet(all(rest)) /\ FiledInto(id, r, rest) \in Nat
  <2>1. rest \in SUBSET Feed
    OBVIOUS
  <2>2. FiledInto(id, r, msgs) = Cardinality(all(msgs))
    BY FiledIntoFinite
  <2> HIDE DEF rest
  <2>3. /\ FiledInto(id, r, rest) = Cardinality(all(rest))
        /\ IsFiniteSet(all(rest)) /\ FiledInto(id, r, rest) \in Nat
    BY <2>1, FiledIntoFinite
  <2> QED  BY <2>2, <2>3
<1>2. CASE TargetLayer(m.tag, m.layer) # id
  <2>1. FiledTo(id, msgs) = FiledTo(id, rest)
    BY <1>2 DEF FiledTo
  <2> QED  BY <1>1, <1>2, <2>1
<1>3. CASE TargetLayer(m.tag, m.layer) = id
  <2>1. FiledTo(id, msgs) = FiledTo(id, rest) \cup {m} /\ m \notin FiledTo(id, rest)
    BY <1>3 DEF FiledTo
  <2>2. all(msgs) = all(rest) \cup CopiesWithin(m, r)
    BY <2>1
  <2>3. all(rest) \cap CopiesWithin(m, r) = {}
    BY <2>1 DEF CopiesWithin
  <2>4. IsFiniteSet(CopiesWithin(m, r)) /\ Cardinality(CopiesWithin(m, r)) = CopiesOf(r, m.reqs)
    BY CopiesWithinOne
  <2>5. Cardinality(CopiesWithin(m, r)) \in Nat /\ Cardinality({}) = 0
    BY <2>4, FS_CardinalityType, FS_EmptySet
  <2> HIDE DEF all
  <2>6. Cardinality(all(msgs)) = Cardinality(all(rest)) + Cardinality(CopiesWithin(m, r)) - Cardinality({})
    BY <1>1, <2>2, <2>3, <2>4, FS_Union
  <2> QED  BY <1>1, <1>3, <2>4, <2>5, <2>6
<1> QED  BY <1>2, <1>3

-----------------------------------------------------------------------------
(* Filing a batch: what its layer gains, and the account of its copies.    *)
Gains(layer, added, m) ==
  /\ added \in Seq(Seq(Req))
  /\ queue' = [queue EXCEPT ![layer] = @ \o added]
  /\ numTokens' = [numTokens EXCEPT ![layer] = @ + TokensIn(added)]
  /\ join' \in [AttnLayers -> [Req -> 0 .. TopK - 1]]
  /\ \A id \in LayerIds, r \in Req :
       LET copies == IF id = layer THEN CopiesOf(r, m.reqs) ELSE 0
           tokens == IF id = layer THEN CopiesOf(r, FlattenSeq(added)) ELSE 0
       IN  IF UsesTokenQueue(id)
           THEN join[id][r] + copies = TopK * tokens + join'[id][r]
           ELSE copies = tokens

LEMMA MessageFacts ==
  ASSUME NEW m \in Feed
  PROVE  /\ m.reqs \in Seq(Req) /\ m.layer \in AttnLayers
         /\ TargetLayer(m.tag, m.layer) \in LayerIds
         /\ IsJoined(m.tag, m.layer) => TargetLayer(m.tag, m.layer) = m.layer
         /\ ~ IsJoined(m.tag, m.layer) => ~ UsesTokenQueue(TargetLayer(m.tag, m.layer))
<1>1. /\ m.reqs \in Seq(Req) /\ m.layer \in AttnLayers
      /\ m.tag \in {"tokenizer", "attention", "expert"}
      /\ m.tag = "tokenizer" => m.layer = 0
      /\ m.tag = "attention" => m.layer \in ExpertLayers
  BY UnifiedPoolAssumption DEF Message
<1>2. NumLayers \in Nat \ {0}
  BY PoolOpsAssumption
<1>3. CASE m.tag = "attention"
  BY <1>1, <1>2, <1>3
     DEF TargetLayer, IsJoined, UsesTokenQueue, ExpertLayers, ExpertId, LayerIds, AttnLayers
<1>4. CASE m.tag = "tokenizer"
  BY <1>1, <1>2, <1>4
     DEF TargetLayer, IsJoined, UsesTokenQueue, LayerIds, AttnLayers
<1>5. CASE m.tag = "expert"
  BY <1>1, <1>2, <1>5
     DEF TargetLayer, IsJoined, UsesTokenQueue, LayerIds, AttnLayers
<1> QED  BY <1>1, <1>3, <1>4, <1>5

(* Copies that wait, with those that arrive, are TopK for each token made  *)
(* and those that go on waiting.                                           *)
LEMMA RepliesGain ==
  ASSUME TypeOK, NEW m \in Feed, FileReplies(m)
  PROVE  Gains(m.layer, ReadyTokens(join[m.layer], m.reqs), m)
<1> DEFINE added == ReadyTokens(join[m.layer], m.reqs)
<1>1. /\ m.reqs \in Seq(Req) /\ m.layer \in AttnLayers /\ m.layer \in LayerIds
      /\ IsJoined(m.tag, m.layer) /\ UsesTokenQueue(m.layer)
      /\ join \in [AttnLayers -> [Req -> 0 .. TopK - 1]]
  BY MessageFacts, LayerFacts DEF FileReplies, IsJoined, TypeOK
<1>2. PICK count \in [Req -> 0 .. TopK - 1] : count = join[m.layer]
  BY <1>1
<1>3. \A r \in Req : /\ (count[r] + CopiesOf(r, m.reqs)) % TopK \in 0 .. TopK - 1
                     /\ count[r] + CopiesOf(r, m.reqs)
                          = TopK * CopiesOf(r, FlattenSeq(added))
                              + ((count[r] + CopiesOf(r, m.reqs)) % TopK)
                     /\ CopiesOf(r, FlattenSeq(added)) \in Nat
  <2> SUFFICES ASSUME NEW r \in Req
               PROVE  /\ (count[r] + CopiesOf(r, m.reqs)) % TopK \in 0 .. TopK - 1
                      /\ count[r] + CopiesOf(r, m.reqs)
                           = TopK * CopiesOf(r, FlattenSeq(added))
                               + ((count[r] + CopiesOf(r, m.reqs)) % TopK)
                      /\ CopiesOf(r, FlattenSeq(added)) \in Nat
    OBVIOUS
  <2> DEFINE ready == {i \in DOMAIN m.reqs : Completes(count, m.reqs, i) /\ m.reqs[i] = r}
             now == count[r] + CopiesOf(r, m.reqs)
  <2>1. CopiesOf(r, FlattenSeq(added)) = Cardinality(ready)
    BY <1>1, <1>2, ReadyOnce
  <2>2. count[r] \in 0 .. TopK - 1
    OBVIOUS
  <2>3. /\ Cardinality(ready) \in Nat /\ now % TopK \in 0 .. TopK - 1
        /\ now = TopK * Cardinality(ready) + (now % TopK)
    <3> HIDE DEF added
    <3> QED  BY <1>1, <2>2, JoinConserves
  <2> HIDE DEF ready, added
  <2> QED  BY <2>1, <2>3
<1>4. join' = [join EXCEPT ![m.layer] = JoinCount(count, m.reqs)]
  BY <1>2 DEF FileReplies
<1>5. /\ JoinCount(count, m.reqs) \in [Req -> 0 .. TopK - 1]
      /\ \A r \in Req : JoinCount(count, m.reqs)[r] = (count[r] + CopiesOf(r, m.reqs)) % TopK
  BY <1>3 DEF JoinCount
<1>6. join' \in [AttnLayers -> [Req -> 0 .. TopK - 1]]
  BY <1>1, <1>4, <1>5
<1>7. added \in Seq(Seq(Req))
  BY <1>1, ReadyOnce
<1>8. ASSUME NEW id \in LayerIds, NEW r \in Req, id # m.layer
      PROVE  IF UsesTokenQueue(id) THEN join[id][r] + 0 = TopK * 0 + join'[id][r] ELSE 0 = 0
  <2> SUFFICES ASSUME UsesTokenQueue(id) PROVE join[id][r] + 0 = TopK * 0 + join'[id][r]
    OBVIOUS
  <2>1. id \in AttnLayers /\ TopK \in Nat
    BY PoolOpsAssumption DEF UsesTokenQueue, AttnLayers
  <2>2. join'[id][r] = join[id][r]
    BY <1>1, <1>4, <1>8, <2>1
  <2>3. join[id][r] \in Nat
    BY <1>1, <2>1
  <2> QED  BY <2>1, <2>2, <2>3
<1>9. \A r \in Req : join[m.layer][r] + CopiesOf(r, m.reqs)
                       = TopK * CopiesOf(r, FlattenSeq(added)) + join'[m.layer][r]
  BY <1>1, <1>2, <1>3, <1>4, <1>5
<1>10. /\ queue' = [queue EXCEPT ![m.layer] = @ \o added]
       /\ numTokens' = [numTokens EXCEPT ![m.layer] = @ + TokensIn(added)]
  BY DEF FileReplies, Enqueue
<1> HIDE DEF added
<1> QED  BY <1>1, <1>6, <1>7, <1>8, <1>9, <1>10 DEF Gains, added

LEMMA BatchGain ==
  ASSUME TypeOK, NEW m \in Feed, FileBatch(m)
  PROVE  Gains(TargetLayer(m.tag, m.layer), <<m.reqs>>, m)
<1> DEFINE layer == TargetLayer(m.tag, m.layer)
<1>1. /\ m.reqs \in Seq(Req) /\ layer \in LayerIds /\ ~ UsesTokenQueue(layer)
      /\ join \in [AttnLayers -> [Req -> 0 .. TopK - 1]]
  BY MessageFacts DEF FileBatch, TypeOK
<1>2. <<m.reqs>> \in Seq(Seq(Req)) /\ FlattenSeq(<<m.reqs>>) = m.reqs
  BY <1>1, FlattenOne
<1>3. /\ queue' = [queue EXCEPT ![layer] = @ \o <<m.reqs>>]
      /\ numTokens' = [numTokens EXCEPT ![layer] = @ + TokensIn(<<m.reqs>>)]
      /\ join' = join
  BY DEF FileBatch, Enqueue
<1>4. ASSUME NEW id \in LayerIds, NEW r \in Req, UsesTokenQueue(id)
      PROVE  id # layer /\ join[id][r] + 0 = TopK * 0 + join[id][r]
  <2>1. id \in AttnLayers /\ TopK \in Nat
    BY <1>4, PoolOpsAssumption DEF UsesTokenQueue, AttnLayers
  <2>2. join[id][r] \in Nat
    BY <1>1, <2>1
  <2> QED  BY <1>1, <1>4, <2>1, <2>2
<1> HIDE DEF layer
<1>5. Gains(layer, <<m.reqs>>, m)
  BY <1>1, <1>2, <1>3, <1>4 DEF Gains
<1> QED  BY <1>5 DEF layer

-----------------------------------------------------------------------------
(* The account of a layer, and how a filed batch balances it.              *)
Balance(id, r) ==
  LET tokens == CopiesOf(r, FlattenSeq(queue[id])) + CopiesOf(r, served[id])
      filed  == FiledInto(id, r, Feed) - FiledInto(id, r, pending)
  IN  filed = IF UsesTokenQueue(id) THEN TopK * tokens + join[id][r] ELSE tokens

LEMMA BalanceOfAll == NothingLostOrDuplicated <=> \A id \in LayerIds, r \in Req : Balance(id, r)
BY DEF NothingLostOrDuplicated, Balance

LEMMA FilingBalances ==
  ASSUME TypeOK, NEW m \in pending, pending' = pending \ {m}, served' = served,
         NEW added, Gains(TargetLayer(m.tag, m.layer), added, m),
         NEW id \in LayerIds, NEW r \in Req, Balance(id, r)
  PROVE  Balance(id, r)'
<1> DEFINE layer == TargetLayer(m.tag, m.layer)
           copies == IF id = layer THEN CopiesOf(r, m.reqs) ELSE 0
           tokens == IF id = layer THEN CopiesOf(r, FlattenSeq(added)) ELSE 0
<1>1. /\ m \in Feed /\ pending \in SUBSET Feed /\ pending' \in SUBSET Feed /\ m.reqs \in Seq(Req)
      /\ queue \in [LayerIds -> Seq(Seq(Req))] /\ added \in Seq(Seq(Req)) /\ served[id] \in Seq(Req)
      /\ queue[id] \in Seq(Seq(Req)) /\ TopK \in Nat
  BY MessageFacts, PoolOpsAssumption DEF TypeOK, Gains
<1>2. CopiesOf(r, m.reqs) \in Nat /\ copies \in Nat
  BY <1>1, CopiesAppend
<1>3. /\ FiledInto(id, r, pending) = FiledInto(id, r, pending') + copies
      /\ FiledInto(id, r, pending') \in Nat /\ FiledInto(id, r, Feed) \in Nat
  <2>1. FiledInto(id, r, pending) = FiledInto(id, r, pending \ {m}) + copies
    <3>1. FiledInto(id, r, pending)
            = FiledInto(id, r, pending \ {m})
                + (IF TargetLayer(m.tag, m.layer) = id THEN CopiesOf(r, m.reqs) ELSE 0)
      <4>1. pending \in SUBSET Feed
        BY <1>1
      <4> HIDE DEF layer, copies, tokens
      <4> QED  BY <4>1, FiledIntoGrows
    <3>2. (IF TargetLayer(m.tag, m.layer) = id THEN CopiesOf(r, m.reqs) ELSE 0) = copies
      OBVIOUS
    <3> QED  BY <3>1, <3>2
  <2>2. Feed \in SUBSET Feed
    OBVIOUS
  <2>3. FiledInto(id, r, Feed) \in Nat
    BY <2>2, FiledIntoFinite
  <2>4. FiledInto(id, r, pending') \in Nat
    BY <1>1, FiledIntoFinite
  <2> QED  BY <2>1, <2>3, <2>4
<1>4. /\ CopiesOf(r, FlattenSeq(queue'[id])) = CopiesOf(r, FlattenSeq(queue[id])) + tokens
      /\ CopiesOf(r, FlattenSeq(queue[id])) \in Nat /\ tokens \in Nat
  <2>1. FlattenSeq(queue[id]) \in Seq(Req) /\ FlattenSeq(added) \in Seq(Req)
    BY <1>1, FlattenType
  <2>2. /\ CopiesOf(r, FlattenSeq(queue[id])) \in Nat /\ CopiesOf(r, FlattenSeq(added)) \in Nat
        /\ CopiesOf(r, FlattenSeq(queue[id]) \o FlattenSeq(added))
             = CopiesOf(r, FlattenSeq(queue[id])) + CopiesOf(r, FlattenSeq(added))
    BY <2>1, CopiesConcat
  <2>3. FlattenSeq(queue[id] \o added) = FlattenSeq(queue[id]) \o FlattenSeq(added)
    BY <1>1, FlattenConcat
  <2>4. queue'[id] = IF id = layer THEN queue[id] \o added ELSE queue[id]
    BY <1>1 DEF Gains
  <2>5. CASE id = layer
    BY <2>2, <2>3, <2>4, <2>5
  <2>6. CASE id # layer
    <3>1. \A n \in Nat : n = n + 0
      OBVIOUS
    <3>2. tokens = 0 /\ queue'[id] = queue[id]
      BY <2>4, <2>6
    <3> QED  BY <2>2, <3>1, <3>2
  <2> QED  BY <2>5, <2>6
<1>5. CopiesOf(r, served[id]) \in Nat
  BY <1>1, CopiesAppend
<1>6. IF UsesTokenQueue(id) THEN join[id][r] + copies = TopK * tokens + join'[id][r] ELSE copies = tokens
  BY DEF Gains
<1>7. UsesTokenQueue(id) => join[id][r] \in Nat /\ join'[id][r] \in Nat
  <2> SUFFICES ASSUME UsesTokenQueue(id) PROVE join[id][r] \in Nat /\ join'[id][r] \in Nat
    OBVIOUS
  <2>1. id \in AttnLayers
    BY PoolOpsAssumption DEF UsesTokenQueue, AttnLayers
  <2> QED  BY <1>1, <2>1 DEF TypeOK, Gains
<1> HIDE DEF copies, tokens, layer
<1>8. PICK q, t, sv, c, fa, fn \in Nat :
        /\ q = CopiesOf(r, FlattenSeq(queue[id])) /\ t = tokens /\ sv = CopiesOf(r, served[id])
        /\ c = copies /\ fa = FiledInto(id, r, Feed) /\ fn = FiledInto(id, r, pending')
  BY <1>2, <1>3, <1>4, <1>5
<1>9. fa - (fn + c) = IF UsesTokenQueue(id) THEN TopK * (q + sv) + join[id][r] ELSE q + sv
  BY <1>3, <1>8 DEF Balance
<1>10. fa - fn = IF UsesTokenQueue(id) THEN TopK * ((q + t) + sv) + join'[id][r] ELSE (q + t) + sv
  <2>1. CASE UsesTokenQueue(id)
    <3>1. PICK a, b \in Nat : a = join[id][r] /\ b = join'[id][r]
      BY <1>7, <2>1
    <3>2. fa - (fn + c) = TopK * (q + sv) + a /\ a + c = TopK * t + b
      BY <1>6, <1>8, <1>9, <2>1, <3>1
    <3>3. fa - fn = TopK * ((q + t) + sv) + b
      BY <1>1, <3>2
    <3> QED  BY <2>1, <3>1, <3>3
  <2>2. CASE ~ UsesTokenQueue(id)
    BY <1>6, <1>8, <1>9, <2>2
  <2> QED  BY <2>1, <2>2
<1>11. CopiesOf(r, FlattenSeq(queue'[id])) = q + t
  BY <1>4, <1>8
<1> QED  BY <1>8, <1>10, <1>11 DEF Balance

LEMMA FilingStep ==
  ASSUME IInv, NEW m \in pending, pending' = pending \ {m}, UNCHANGED <<chosen, batch, served, aborted>>,
         NEW added, Gains(TargetLayer(m.tag, m.layer), added, m)
  PROVE  IInv'
<1> DEFINE layer == TargetLayer(m.tag, m.layer)
<1>1. TypeOK /\ NumTokensExact /\ ChosenHasTokens /\ NeverAborts /\ NothingLostOrDuplicated
  BY DEF IInv
<1>2. m \in Feed /\ layer \in LayerIds
  BY <1>1, MessageFacts DEF TypeOK
<1>3. /\ added \in Seq(Seq(Req)) /\ queue \in [LayerIds -> Seq(Seq(Req))] /\ numTokens \in [LayerIds -> Nat]
      /\ queue' = [queue EXCEPT ![layer] = @ \o added]
      /\ numTokens' = [numTokens EXCEPT ![layer] = @ + TokensIn(added)]
  BY <1>1 DEF Gains, TypeOK
<1> HIDE DEF layer
<1>4. TokensIn(added) \in Nat
  BY <1>3, TokensInLength
<1>5. TypeOK'
  <2>1. queue' \in [LayerIds -> Seq(Seq(Req))]
    <3>1. \A p, q \in Seq(Seq(Req)) : p \o q \in Seq(Seq(Req))
      BY ConcatProperties
    <3> QED  BY <1>2, <1>3, <3>1
  <2>2. numTokens' \in [LayerIds -> Nat]
    BY <1>2, <1>3, <1>4
  <2>3. join' \in [AttnLayers -> [Req -> 0 .. TopK - 1]]
    BY DEF Gains
  <2> QED  BY <1>1, <2>1, <2>2, <2>3 DEF TypeOK
<1>6. NumTokensExact'
  <2> SUFFICES ASSUME NEW id \in LayerIds PROVE numTokens'[id] = TokensIn(queue'[id])
    BY DEF NumTokensExact
  <2>1. numTokens[id] = TokensIn(queue[id])
    BY <1>1 DEF NumTokensExact
  <2>2. queue[id] \in Seq(Seq(Req))
    BY <1>3
  <2>3. TokensIn(queue[id] \o added) = TokensIn(queue[id]) + TokensIn(added)
    BY <1>3, <2>2, TokensInConcat
  <2> QED  BY <1>3, <2>1, <2>3
<1>7. ChosenHasTokens'
  <2> SUFFICES ASSUME chosen \in LayerIds PROVE numTokens'[chosen] > 0
    BY DEF ChosenHasTokens
  <2>1. numTokens[chosen] > 0 /\ numTokens[chosen] \in Nat
    BY <1>1, <1>3 DEF ChosenHasTokens
  <2>2. numTokens'[chosen] = IF chosen = layer THEN numTokens[chosen] + TokensIn(added) ELSE numTokens[chosen]
    BY <1>3
  <2> QED  BY <1>4, <2>1, <2>2
<1>8. NeverAborts'
  BY <1>1 DEF NeverAborts
<1>9. NothingLostOrDuplicated'
  <2>1. \A id \in LayerIds, r \in Req : Balance(id, r)
    BY <1>1, BalanceOfAll
  <2>2. \A id \in LayerIds, r \in Req : Balance(id, r)'
    BY <1>1, <2>1, FilingBalances
  <2> QED  BY <2>2 DEF NothingLostOrDuplicated, Balance
<1> QED  BY <1>5, <1>6, <1>7, <1>8, <1>9 DEF IInv

-----------------------------------------------------------------------------
(* The initial state, and the other steps.                                 *)
LEMMA InitIInv == Init => IInv
<1> SUFFICES ASSUME Init PROVE IInv
  OBVIOUS
<1> USE DEF Init
<1>1. TopK \in Nat \ {0} /\ 0 \in 0 .. TopK - 1
  BY PoolOpsAssumption
<1>2. TypeOK
  <2>1. join \in [AttnLayers -> [Req -> 0 .. TopK - 1]]
    BY <1>1
  <2>2. queue \in [LayerIds -> Seq(Seq(Req))] /\ batch \in Seq(Seq(Req)) /\ served \in [LayerIds -> Seq(Req)]
    BY EmptySeq
  <2> QED  BY <2>1, <2>2 DEF TypeOK
<1>3. NumTokensExact
  <2>1. TokensIn(<<>>) = 0
    <3>1. <<>> \in Seq(Seq(Req)) /\ Len(<<>>) = 0
      BY EmptySeq
    <3> QED  BY <3>1, FlattenEmpty, TokensInLength
  <2> QED  BY <2>1 DEF NumTokensExact
<1>4. ChosenHasTokens /\ NeverAborts
  BY LayerFacts DEF ChosenHasTokens, NeverAborts
<1>5. NothingLostOrDuplicated
  <2> SUFFICES ASSUME NEW id \in LayerIds, NEW r \in Req PROVE Balance(id, r)
    BY BalanceOfAll
  <2>1. CopiesOf(r, FlattenSeq(queue[id])) = 0 /\ CopiesOf(r, served[id]) = 0
    BY FlattenEmpty, CopiesNone
  <2>2. FiledInto(id, r, Feed) - FiledInto(id, r, pending) = 0
    <3>1. Feed \in SUBSET Feed
      OBVIOUS
    <3>2. FiledInto(id, r, Feed) \in Nat
      BY <3>1, FiledIntoFinite
    <3>3. \A n \in Nat : n - n = 0
      OBVIOUS
    <3> QED  BY <3>2, <3>3
  <2>3. UsesTokenQueue(id) => join[id][r] = 0
    <3>1. UsesTokenQueue(id) => id \in AttnLayers
      BY PoolOpsAssumption DEF UsesTokenQueue, AttnLayers
    <3> QED  BY <3>1
  <2>4. TopK * (0 + 0) + 0 = 0
    BY <1>1
  <2> QED  BY <2>1, <2>2, <2>3, <2>4 DEF Balance
<1> QED  BY <1>2, <1>3, <1>4, <1>5 DEF IInv

LEMMA ProcessBatchGains ==
  ASSUME TypeOK, NEW m, ProcessBatch(m)
  PROVE  /\ m \in pending /\ pending' = pending \ {m} /\ UNCHANGED <<chosen, batch, served, aborted>>
         /\ \E added : Gains(TargetLayer(m.tag, m.layer), added, m)
<1>1. /\ m \in pending /\ pending' = pending \ {m} /\ UNCHANGED <<chosen, batch, served, aborted>>
      /\ FileReplies(m) \/ FileBatch(m)
  BY DEF ProcessBatch
<1>2. m \in Feed
  BY <1>1 DEF TypeOK
<1>3. CASE FileReplies(m)
  <2>1. Gains(m.layer, ReadyTokens(join[m.layer], m.reqs), m)
    BY <1>2, <1>3, RepliesGain
  <2>2. TargetLayer(m.tag, m.layer) = m.layer
    BY <1>2, <1>3, MessageFacts DEF FileReplies
  <2> QED  BY <1>1, <2>1, <2>2
<1>4. CASE FileBatch(m)
  <2>1. Gains(TargetLayer(m.tag, m.layer), <<m.reqs>>, m)
    BY <1>2, <1>4, BatchGain
  <2> QED  BY <1>1, <2>1
<1> QED  BY <1>1, <1>3, <1>4

LEMMA ScheduleStep == ASSUME IInv, Schedule PROVE IInv'
<1>1. /\ chosen' = IF Waiting(numTokens) = {} THEN NoLayer ELSE FirstWaiting(numTokens)
      /\ UNCHANGED <<pending, join, queue, numTokens, batch, served, aborted>>
  BY DEF Schedule
<1>2. TypeOK /\ NumTokensExact /\ NeverAborts /\ NothingLostOrDuplicated
  BY DEF IInv
<1>3. chosen' \in LayerIds \cup {NoLayer} /\ (chosen' \in LayerIds => numTokens[chosen'] > 0)
  <2>1. CASE Waiting(numTokens) = {}
    BY <1>1, <2>1, LayerFacts
  <2>2. CASE Waiting(numTokens) # {}
    <3>1. chosen' \in Waiting(numTokens)
      BY <1>1, <2>2, ScheduledLayerWaits
    <3> QED  BY <3>1 DEF Waiting
  <2> QED  BY <2>1, <2>2
<1>4. TypeOK'
  BY <1>1, <1>2, <1>3 DEF TypeOK
<1>5. ChosenHasTokens'
  BY <1>1, <1>3 DEF ChosenHasTokens
<1>6. NumTokensExact' /\ NeverAborts'
  BY <1>1, <1>2 DEF NumTokensExact, NeverAborts
<1>7. NothingLostOrDuplicated'
  BY <1>1, <1>2 DEF NothingLostOrDuplicated
<1> QED  BY <1>4, <1>5, <1>6, <1>7 DEF IInv

LEMMA GetNothingStep == ASSUME IInv, GetNothing PROVE IInv'
<1>1. /\ chosen' = Unchosen /\ batch' = <<>>
      /\ UNCHANGED <<pending, join, queue, numTokens, served, aborted>>
  BY DEF GetNothing
<1>2. TypeOK /\ NumTokensExact /\ NeverAborts /\ NothingLostOrDuplicated
  BY DEF IInv
<1>3. TypeOK'
  BY <1>1, <1>2, EmptySeq DEF TypeOK
<1>4. ChosenHasTokens'
  BY <1>1, LayerFacts DEF ChosenHasTokens
<1>5. NumTokensExact' /\ NeverAborts'
  BY <1>1, <1>2 DEF NumTokensExact, NeverAborts
<1>6. NothingLostOrDuplicated'
  BY <1>1, <1>2 DEF NothingLostOrDuplicated
<1> QED  BY <1>3, <1>4, <1>5, <1>6 DEF IInv

(* A take moves the oldest tokens of the chosen layer, at least one, from  *)
(* its queue to what it has served, and counts them.                       *)
LEMMA GetBatchMoves ==
  ASSUME IInv, GetBatch
  PROVE  \E n \in Nat, taken, left \in Seq(Seq(Req)) :
           /\ chosen \in LayerIds
           /\ FlattenSeq(queue[chosen]) = FlattenSeq(taken) \o FlattenSeq(left)
           /\ TokensIn(taken) = n /\ n > 0 /\ TokensIn(left) = numTokens[chosen] - n
           /\ n = IF Len(FlattenSeq(queue[chosen])) < Threshold(chosen)
                  THEN Len(FlattenSeq(queue[chosen])) ELSE Threshold(chosen)
           /\ queue' = [queue EXCEPT ![chosen] = left]
           /\ numTokens' = [numTokens EXCEPT ![chosen] = @ - n]
           /\ served' = [served EXCEPT ![chosen] = @ \o FlattenSeq(taken)]
           /\ batch' = taken /\ aborted' = FALSE /\ chosen' = Unchosen
           /\ UNCHANGED <<pending, join>>
<1> DEFINE q == queue[chosen]
           taken == Taken(q, Threshold(chosen))
           left  == Left(q, Threshold(chosen))
           n == TokensIn(taken)
<1>1. /\ chosen \in LayerIds /\ chosen' = Unchosen /\ UNCHANGED <<pending, join>>
      /\ queue' = [queue EXCEPT ![chosen] = left]
      /\ numTokens' = [numTokens EXCEPT ![chosen] = @ - n]
      /\ served' = [served EXCEPT ![chosen] = @ \o FlattenSeq(taken)]
      /\ batch' = taken /\ aborted' = (n = 0)
  BY DEF GetBatch, IInv, TypeOK
<1>2. q \in Seq(Seq(Req)) /\ numTokens[chosen] = TokensIn(q) /\ numTokens[chosen] > 0
  BY <1>1 DEF IInv, TypeOK, NumTokensExact, ChosenHasTokens
<1>3. Threshold(chosen) \in Nat \ {0}
  BY <1>1, LayerFacts
<1> HIDE DEF q
<1>4. /\ taken \in Seq(Seq(Req)) /\ left \in Seq(Seq(Req))
      /\ FlattenSeq(q) = FlattenSeq(taken) \o FlattenSeq(left)
      /\ n = IF TokensIn(q) < Threshold(chosen) THEN TokensIn(q) ELSE Threshold(chosen)
  BY <1>2, <1>3, TakenAndLeft
<1> HIDE DEF taken, left
<1>5. /\ TokensIn(q) = Len(FlattenSeq(q)) /\ TokensIn(q) \in Nat
      /\ n = Len(FlattenSeq(taken)) /\ n \in Nat
      /\ TokensIn(left) = Len(FlattenSeq(left)) /\ TokensIn(left) \in Nat
  BY <1>2, <1>4, TokensInLength
<1>6. Len(FlattenSeq(q)) = Len(FlattenSeq(taken)) + Len(FlattenSeq(left))
  <2>1. FlattenSeq(taken) \in Seq(Req) /\ FlattenSeq(left) \in Seq(Req)
    BY <1>4, FlattenType
  <2> QED  BY <1>4, <2>1, ConcatProperties
<1> HIDE DEF n
<1>7. n > 0 /\ TokensIn(left) = numTokens[chosen] - n
  BY <1>2, <1>3, <1>4, <1>5, <1>6
<1>8. n = IF Len(FlattenSeq(q)) < Threshold(chosen) THEN Len(FlattenSeq(q)) ELSE Threshold(chosen)
  BY <1>4, <1>5
<1>9. aborted' = FALSE
  <2>1. n # 0
    BY <1>5, <1>7
  <2>2. (n = 0) = FALSE
    BY <2>1, Zenon
  <2> QED  BY <1>1, <2>2, Zenon
<1>10. TokensIn(taken) = n
  BY DEF n
<1> QED  BY <1>1, <1>4, <1>5, <1>7, <1>8, <1>9, <1>10 DEF q

LEMMA GetBatchStep == ASSUME IInv, GetBatch PROVE IInv'
<1>1. PICK n \in Nat, taken \in Seq(Seq(Req)), left \in Seq(Seq(Req)) :
           /\ chosen \in LayerIds
           /\ FlattenSeq(queue[chosen]) = FlattenSeq(taken) \o FlattenSeq(left)
           /\ TokensIn(taken) = n /\ n > 0 /\ TokensIn(left) = numTokens[chosen] - n
           /\ queue' = [queue EXCEPT ![chosen] = left]
           /\ numTokens' = [numTokens EXCEPT ![chosen] = @ - n]
           /\ served' = [served EXCEPT ![chosen] = @ \o FlattenSeq(taken)]
           /\ batch' = taken /\ aborted' = FALSE /\ chosen' = Unchosen
           /\ UNCHANGED <<pending, join>>
  BY GetBatchMoves
<1>2. TypeOK /\ NumTokensExact /\ NothingLostOrDuplicated
  BY DEF IInv
<1>3. FlattenSeq(taken) \in Seq(Req) /\ FlattenSeq(left) \in Seq(Req)
  BY FlattenType
<1>4. TypeOK'
  <2>1. queue' \in [LayerIds -> Seq(Seq(Req))]
    BY <1>1, <1>2 DEF TypeOK
  <2>2. numTokens' \in [LayerIds -> Nat]
    <3>1. TokensIn(left) \in Nat
      BY TokensInLength
    <3> QED  BY <1>1, <1>2, <3>1 DEF TypeOK
  <2>3. served' \in [LayerIds -> Seq(Req)]
    <3>1. \A s \in Seq(Req) : s \o FlattenSeq(taken) \in Seq(Req)
      BY <1>3, ConcatProperties
    <3> QED  BY <1>1, <1>2, <3>1 DEF TypeOK
  <2> QED  BY <1>1, <1>2, <2>1, <2>2, <2>3 DEF TypeOK
<1>5. NumTokensExact'
  <2> SUFFICES ASSUME NEW id \in LayerIds PROVE numTokens'[id] = TokensIn(queue'[id])
    BY DEF NumTokensExact
  <2>1. numTokens[id] = TokensIn(queue[id])
    BY <1>2 DEF NumTokensExact
  <2>2. queue \in [LayerIds -> Seq(Seq(Req))] /\ numTokens \in [LayerIds -> Nat]
    BY <1>2 DEF TypeOK
  <2>3. CASE id = chosen
    BY <1>1, <2>2, <2>3
  <2>4. CASE id # chosen
    BY <1>1, <2>1, <2>2, <2>4
  <2> QED  BY <2>3, <2>4
<1>6. ChosenHasTokens' /\ NeverAborts'
  BY <1>1, LayerFacts DEF ChosenHasTokens, NeverAborts
<1>7. NothingLostOrDuplicated'
  <2> SUFFICES ASSUME NEW id \in LayerIds, NEW r \in Req PROVE Balance(id, r)'
    BY DEF NothingLostOrDuplicated, Balance
  <2>1. Balance(id, r)
    BY <1>2, BalanceOfAll
  <2>2. /\ queue \in [LayerIds -> Seq(Seq(Req))] /\ served \in [LayerIds -> Seq(Req)]
        /\ FlattenSeq(queue[id]) \in Seq(Req) /\ served[id] \in Seq(Req)
    BY <1>2, FlattenType DEF TypeOK
  <2>3. CopiesOf(r, FlattenSeq(queue'[id])) + CopiesOf(r, served'[id])
          = CopiesOf(r, FlattenSeq(queue[id])) + CopiesOf(r, served[id])
    <3>1. CASE id # chosen
      BY <1>1, <2>2, <3>1
    <3>2. CASE id = chosen
      <4>1. queue'[id] = left /\ served'[id] = served[id] \o FlattenSeq(taken)
        BY <1>1, <2>2, <3>2
      <4>2. /\ CopiesOf(r, FlattenSeq(queue[id])) = CopiesOf(r, FlattenSeq(taken)) + CopiesOf(r, FlattenSeq(left))
            /\ CopiesOf(r, FlattenSeq(taken)) \in Nat /\ CopiesOf(r, FlattenSeq(left)) \in Nat
        BY <1>1, <1>3, <3>2, CopiesConcat
      <4>3. /\ CopiesOf(r, served'[id]) = CopiesOf(r, served[id]) + CopiesOf(r, FlattenSeq(taken))
            /\ CopiesOf(r, served[id]) \in Nat
        BY <1>3, <2>2, <4>1, CopiesConcat
      <4>4. \A a, b, c \in Nat : b + (c + a) = (a + b) + c
        OBVIOUS
      <4> QED  BY <4>1, <4>2, <4>3, <4>4
    <3> QED  BY <3>1, <3>2
  <2> QED  BY <1>1, <2>1, <2>3 DEF Balance
<1> QED  BY <1>4, <1>5, <1>6, <1>7 DEF IInv

LEMMA StepIInv == IInv /\ [Next]_vars => IInv'
<1> SUFFICES ASSUME IInv, [Next]_vars PROVE IInv'
  OBVIOUS
<1>1. ASSUME NEW m, ProcessBatch(m) PROVE IInv'
  BY <1>1, ProcessBatchGains, FilingStep DEF IInv
<1>2. CASE PoolReceive
  BY <1>1, <1>2 DEF PoolReceive
<1>3. CASE EnginePut
  BY <1>1, <1>3 DEF EnginePut
<1>4. CASE Schedule
  BY <1>4, ScheduleStep
<1>5. CASE GetNothing
  BY <1>5, GetNothingStep
<1>6. CASE GetBatch
  BY <1>6, GetBatchStep
<1>7. CASE UNCHANGED vars
  <2> USE <1>7 DEF vars
  <2>1. TypeOK'
    BY DEF IInv, TypeOK
  <2>2. NumTokensExact' /\ ChosenHasTokens' /\ NeverAborts'
    BY DEF IInv, NumTokensExact, ChosenHasTokens, NeverAborts
  <2>3. NothingLostOrDuplicated'
    BY DEF IInv, NothingLostOrDuplicated
  <2> QED  BY <2>1, <2>2, <2>3 DEF IInv
<1> QED  BY <1>2, <1>3, <1>4, <1>5, <1>6, <1>7 DEF Next

-----------------------------------------------------------------------------
(* The account of the pool and the layer the engine chose are right after  *)
(* every put, receive, schedule and take of the two threads.               *)
THEOREM Invariance == Spec => []IInv
<1> QED  BY InitIInv, StepIInv, PTL DEF Spec

(* The pool's variables, the join counts below TopK and the queues of the  *)
(* scheduler have their types.                                             *)
THEOREM TypeCorrect == Spec => []TypeOK
<1>1. IInv => TypeOK
  BY DEF IInv
<1> QED  BY <1>1, Invariance, PTL

(* num_tokens, all that the scheduler reads, is the number of tokens in    *)
(* each queue, whatever batches are put, split and put back.               *)
THEOREM Exact == Spec => []NumTokensExact
<1>1. IInv => NumTokensExact
  BY DEF IInv
<1> QED  BY <1>1, Invariance, PTL

(* The ASSERT_MSG "Got nothing from layer" of get_batches_restricted never *)
(* fails, though schedule and take are two critical sections.              *)
THEOREM NoAbort == Spec => []NeverAborts
<1>1. IInv => NeverAborts
  BY DEF IInv
<1> QED  BY <1>1, Invariance, PTL

(* Every copy of a token that process_batch files is held by the join pool *)
(* or is, with the TopK - 1 others where copies are joined, one token of a *)
(* queue or of a batch already taken.                                      *)
THEOREM Conserved == Spec => []NothingLostOrDuplicated
<1>1. IInv => NothingLostOrDuplicated
  BY DEF IInv
<1> QED  BY <1>1, Invariance, PTL

-----------------------------------------------------------------------------
(* The pool implements the FIFO of tokens: every step is a Put, a Take or  *)
(* leaves the tokens where they are.                                       *)
backlog == [id \in LayerIds |-> FlattenSeq(queue[id])]

LEMMA FifoInit == Init => Fifo!Init
BY FlattenEmpty DEF Init, Fifo!Init

LEMMA ConcatParts ==
  ASSUME NEW S, NEW s \in Seq(S), NEW t \in Seq(S)
  PROVE  SubSeq(s \o t, 1, Len(s)) = s /\ SubSeq(s \o t, Len(s) + 1, Len(s \o t)) = t
<1>1. /\ Len(s) \in Nat /\ Len(t) \in Nat /\ s \o t \in Seq(S) /\ Len(s \o t) = Len(s) + Len(t)
      /\ s = <<>> <=> Len(s) = 0
      /\ t = <<>> <=> Len(t) = 0
  BY ConcatProperties, EmptySeq
<1>2. SubSeq(s \o t, 1, Len(s)) = s
  <2>1. CASE s = <<>>
    BY <1>1, <2>1, SubSeqEmpty
  <2>2. CASE s # <<>>
    <3>1. 1 \in 1 .. Len(s) /\ Len(s) \in 1 .. Len(s)
      BY <1>1, <2>2
    <3> QED  BY <3>1, SubSeqOfConcat1, SubSeqFull
  <2> QED  BY <2>1, <2>2
<1>3. SubSeq(s \o t, Len(s) + 1, Len(s \o t)) = t
  <2>1. CASE t = <<>>
    BY <1>1, <2>1, SubSeqEmpty
  <2>2. CASE t # <<>>
    <3>1. /\ Len(s) + 1 \in Len(s) + 1 .. Len(s) + Len(t)
          /\ Len(s) + Len(t) \in Len(s) + 1 .. Len(s) + Len(t)
          /\ (Len(s) + 1) - Len(s) = 1 /\ (Len(s) + Len(t)) - Len(s) = Len(t)
      BY <1>1, <2>2
    <3>2. SubSeq(s \o t, Len(s) + 1, Len(s) + Len(t)) = SubSeq(t, (Len(s) + 1) - Len(s), (Len(s) + Len(t)) - Len(s))
      BY <3>1, SubSeqOfConcat2
    <3> QED  BY <1>1, <3>1, <3>2, SubSeqFull
  <2> QED  BY <2>1, <2>2
<1> QED  BY <1>2, <1>3

(* A filed batch makes its layer longer at the back, or adds no token: an  *)
(* empty batch, or replies that complete none.                             *)
LEMMA FilingPuts ==
  ASSUME TypeOK, served' = served, NEW m, NEW layer \in LayerIds, NEW added, Gains(layer, added, m)
  PROVE  Fifo!Put \/ UNCHANGED <<backlog, served>>
<1> DEFINE tail == FlattenSeq(added)
           front == FlattenSeq(queue[layer])
<1>1. /\ queue \in [LayerIds -> Seq(Seq(Req))] /\ added \in Seq(Seq(Req))
      /\ queue' = [queue EXCEPT ![layer] = @ \o added]
  BY DEF TypeOK, Gains
<1>2. tail \in Seq(Req) /\ front \in Seq(Req)
  BY <1>1, FlattenType
<1>3. FlattenSeq(queue[layer] \o added) = front \o tail
  BY <1>1, FlattenConcat
<1> HIDE DEF tail, front
<1>4. /\ \A id \in LayerIds : backlog'[id] = IF id = layer THEN front \o tail ELSE FlattenSeq(queue[id])
      /\ \A id \in LayerIds : backlog[id] = FlattenSeq(queue[id])
      /\ backlog[layer] = front
  BY <1>1, <1>3 DEF backlog, front
<1>5. CASE tail = <<>>
  <2>1. front \o tail = front
    BY <1>2, <1>5, ConcatEmptySeq
  <2>2. \A id \in LayerIds : backlog'[id] = backlog[id]
    BY <1>4, <2>1
  <2>3. backlog' = backlog
    BY <2>2 DEF backlog
  <2> QED  BY <2>3
<1>6. CASE tail # <<>>
  <2>1. Len(tail) \in Nat /\ Len(tail) > 0
    BY <1>2, <1>6, EmptySeq
  <2>2. Len(front \o tail) > Len(front)
    BY <1>2, <2>1, ConcatProperties
  <2>3. SubSeq(front \o tail, 1, Len(front)) = front
    BY <1>2, ConcatParts
  <2>4. backlog' = [backlog EXCEPT ![layer] = backlog'[layer]]
    <3>1. \A id \in LayerIds : backlog'[id] = IF id = layer THEN backlog'[layer] ELSE backlog[id]
      BY <1>4
    <3> QED  BY <3>1 DEF backlog
  <2>5. backlog'[layer] = front \o tail
    BY <1>4
  <2>6. /\ Len(backlog'[layer]) > Len(backlog[layer])
        /\ SubSeq(backlog'[layer], 1, Len(backlog[layer])) = backlog[layer]
    BY <1>4, <2>2, <2>3, <2>5
  <2> QED  BY <2>4, <2>6 DEF Fifo!Put, backlog
<1> QED  BY <1>5, <1>6

(* The oldest tokens, as many as the threshold allows, are served.         *)
LEMMA GetBatchTakes == ASSUME IInv, GetBatch PROVE Fifo!Take
<1>1. PICK n \in Nat, taken \in Seq(Seq(Req)), left \in Seq(Seq(Req)) :
           /\ chosen \in LayerIds
           /\ FlattenSeq(queue[chosen]) = FlattenSeq(taken) \o FlattenSeq(left)
           /\ TokensIn(taken) = n /\ n > 0
           /\ n = IF Len(FlattenSeq(queue[chosen])) < Threshold(chosen)
                  THEN Len(FlattenSeq(queue[chosen])) ELSE Threshold(chosen)
           /\ queue' = [queue EXCEPT ![chosen] = left]
           /\ served' = [served EXCEPT ![chosen] = @ \o FlattenSeq(taken)]
  BY GetBatchMoves
<1>2. PICK front, back \in Seq(Req) : front = FlattenSeq(taken) /\ back = FlattenSeq(left)
  BY FlattenType
<1>3. queue \in [LayerIds -> Seq(Seq(Req))]
  BY DEF IInv, TypeOK
<1>4. backlog[chosen] = front \o back /\ Len(front) = n
  BY <1>1, <1>2, TokensInLength DEF backlog
<1>5. SubSeq(backlog[chosen], 1, n) = front /\ SubSeq(backlog[chosen], n + 1, Len(backlog[chosen])) = back
  BY <1>2, <1>4, ConcatParts
<1>6. served' = [served EXCEPT ![chosen] = @ \o SubSeq(backlog[chosen], 1, n)]
  BY <1>1, <1>2, <1>5
<1>7. backlog' = [backlog EXCEPT ![chosen] = SubSeq(@, n + 1, Len(@))]
  <2>1. \A id \in LayerIds : FlattenSeq(queue'[id]) = IF id = chosen THEN back ELSE FlattenSeq(queue[id])
    BY <1>1, <1>2, <1>3
  <2>2. \A id \in LayerIds : backlog'[id] = IF id = chosen THEN back ELSE backlog[id]
    BY <2>1 DEF backlog
  <2> QED  BY <1>1, <1>5, <2>2 DEF backlog
<1>8. n = IF Len(backlog[chosen]) < Threshold(chosen) THEN Len(backlog[chosen]) ELSE Threshold(chosen)
  BY <1>1 DEF backlog
<1> QED  BY <1>1, <1>6, <1>7, <1>8 DEF Fifo!Take, backlog

LEMMA FifoStep == IInv /\ [Next]_vars => [Fifo!Next]_(Fifo!vars)
<1> SUFFICES ASSUME IInv, [Next]_vars PROVE Fifo!Next \/ UNCHANGED <<backlog, served>>
  BY DEF Fifo!vars, backlog
<1>1. ASSUME NEW m, ProcessBatch(m) PROVE Fifo!Next \/ UNCHANGED <<backlog, served>>
  <2>1. TypeOK
    BY DEF IInv
  <2>2. PICK added : Gains(TargetLayer(m.tag, m.layer), added, m)
    BY <1>1, <2>1, ProcessBatchGains
  <2>3. served' = served /\ m \in Feed
    BY <1>1, <2>1 DEF ProcessBatch, TypeOK
  <2>4. TargetLayer(m.tag, m.layer) \in LayerIds
    BY <2>3, MessageFacts
  <2> QED  BY <2>1, <2>2, <2>3, <2>4, FilingPuts DEF Fifo!Next
<1>2. CASE PoolReceive
  BY <1>1, <1>2 DEF PoolReceive
<1>3. CASE EnginePut
  BY <1>1, <1>3 DEF EnginePut
<1>4. CASE Schedule
  BY <1>4 DEF Schedule, backlog
<1>5. CASE GetNothing
  BY <1>5 DEF GetNothing, backlog
<1>6. CASE GetBatch
  BY <1>6, GetBatchTakes DEF Fifo!Next
<1>7. CASE UNCHANGED vars
  BY <1>7 DEF vars, backlog
<1> QED  BY <1>2, <1>3, <1>4, <1>5, <1>6, <1>7 DEF Next

(* The detailed pool implements one FIFO of tokens per layer: batches,     *)
(* splits and put-backs of a remainder do not show to the engine.          *)
THEOREM Implements == Spec => ImplementsFifo
<1> QED  BY FifoInit, FifoStep, Invariance, PTL DEF Spec, ImplementsFifo, Fifo!Spec
=============================================================================
