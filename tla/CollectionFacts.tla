--------------------------- MODULE CollectionFacts ---------------------------
(***************************************************************************)
(* What the proofs need of collections.  Of Total: its type, how it splits *)
(* over a set and over a sum, and that it is monotone; a total is the      *)
(* cardinality of a set of units, so each lemma is one about that set.  Of *)
(* queues without duplicates: what they hold after Append and Tail.  That  *)
(* a finite set has a best element, and its members have ranks.  Induction *)
(* over numbers and over sequences, for a set of them in place of a        *)
(* predicate.  Of queues of batches: how they are counted and flattened,   *)
(* and that what a restricted take gives out and what it leaves are the    *)
(* tokens of the queue, in order.  And how often the elements of a set are *)
(* in a queue, in a part of it, and in a row of queues joined; the largest *)
(* and the least of a few numbers.                                         *)
(***************************************************************************)
EXTENDS Totals, PoolQueues, SequencesExt, FiniteSetTheorems, SequenceTheorems, TLAPS

LEMMA UnitsMember ==
  ASSUME NEW S, NEW f, NEW u
  PROVE  u \in Units(f, S) <=> \E x \in S : \E i \in 1 .. f[x] : u = <<x, i>>
BY DEF Units

LEMMA UnitsFinite ==
  ASSUME NEW S, IsFiniteSet(S), NEW f, \A x \in S : f[x] \in Nat
  PROVE  IsFiniteSet(Units(f, S))
<1> DEFINE T == UNION {1 .. f[x] : x \in S}
<1> DEFINE rows == [x \in S |-> {x} \X (1 .. f[x])]
<1>1. \A x \in S : IsFiniteSet({x} \X (1 .. f[x]))
  <2> SUFFICES ASSUME NEW x \in S PROVE IsFiniteSet({x} \X (1 .. f[x]))
    OBVIOUS
  <2>1. IsFiniteSet({x})
    BY FS_Singleton
  <2>2. 1 \in Int /\ f[x] \in Int
    OBVIOUS
  <2>3. IsFiniteSet(1 .. f[x])
    BY <2>2, FS_Interval
  <2> QED  BY <2>1, <2>3, FS_Product
<1>2. {{x} \X (1 .. f[x]) : x \in S} = Range(rows)
  BY DEF Range
<1>3. rows \in Surjection(S, Range(rows))
  BY DEF Surjection, Range
<1>4. IsFiniteSet(Range(rows))
  BY <1>3, FS_Surjection
<1> QED
  BY <1>1, <1>2, <1>4, FS_UNION DEF Units

(* The total of natural numbers is a natural number.                       *)
LEMMA TotalType ==
  ASSUME NEW S, IsFiniteSet(S), NEW f, \A x \in S : f[x] \in Nat
  PROVE  Total(f, S) \in Nat
BY UnitsFinite, FS_CardinalityType DEF Total

LEMMA TotalEmpty == ASSUME NEW f PROVE Total(f, {}) = 0
<1>1. Units(f, {}) = {}
  BY DEF Units
<1> QED  BY <1>1, FS_EmptySet DEF Total

(* Only the values on the set count.                                       *)
LEMMA TotalSame ==
  ASSUME NEW S, NEW f, NEW g, \A x \in S : f[x] = g[x]
  PROVE  Total(f, S) = Total(g, S)
<1>1. \A x \in S : {x} \X (1 .. f[x]) = {x} \X (1 .. g[x])
  OBVIOUS
<1>2. Units(f, S) = Units(g, S)
  BY <1>1 DEF Units
<1> QED  BY <1>2 DEF Total

LEMMA TotalOne ==
  ASSUME NEW x, NEW f, f[x] \in Nat
  PROVE  Total(f, {x}) = f[x]
<1>1. Units(f, {x}) = {x} \X (1 .. f[x])
  BY DEF Units
<1>2. IsFiniteSet({x}) /\ Cardinality({x}) = 1
  BY FS_Singleton
<1>3. IsFiniteSet(1 .. f[x]) /\ Cardinality(1 .. f[x]) = f[x]
  BY FS_Interval
<1>4. Cardinality({x} \X (1 .. f[x])) = Cardinality({x}) * Cardinality(1 .. f[x])
  BY <1>2, <1>3, FS_Product
<1>5. \A n \in Nat : 1 * n = n
  OBVIOUS
<1>6. Cardinality({x} \X (1 .. f[x])) = f[x]
  BY <1>2, <1>3, <1>4, <1>5, Zenon
<1> QED  BY <1>1, <1>6 DEF Total

(* A total over two sets that share nothing is the sum of their totals.    *)
LEMMA TotalSplit ==
  ASSUME NEW A, NEW B, IsFiniteSet(A), IsFiniteSet(B), A \cap B = {},
         NEW f, \A x \in A \cup B : f[x] \in Nat
  PROVE  Total(f, A \cup B) = Total(f, A) + Total(f, B)
<1>1. Units(f, A \cup B) = Units(f, A) \cup Units(f, B)
  BY DEF Units
<1>2. Units(f, A) \cap Units(f, B) = {}
  BY DEF Units
<1>3. IsFiniteSet(Units(f, A)) /\ IsFiniteSet(Units(f, B))
  BY UnitsFinite
<1>4. Cardinality(Units(f, A)) \in Nat /\ Cardinality(Units(f, B)) \in Nat
  BY <1>3, FS_CardinalityType
<1>5. Cardinality(Units(f, A) \cup Units(f, B))
        = Cardinality(Units(f, A)) + Cardinality(Units(f, B)) - Cardinality({})
  BY <1>2, <1>3, FS_Union
<1>6. Cardinality({}) = 0
  BY FS_EmptySet
<1>7. \A m, n \in Nat : m + n - 0 = m + n
  OBVIOUS
<1> QED
  BY <1>1, <1>4, <1>5, <1>6, <1>7, Zenon DEF Total

(* One more element adds its value.                                        *)
LEMMA TotalAdd ==
  ASSUME NEW S, IsFiniteSet(S), NEW x, x \notin S, NEW f, \A y \in S \cup {x} : f[y] \in Nat
  PROVE  Total(f, S \cup {x}) = Total(f, S) + f[x]
<1>1. IsFiniteSet({x}) /\ S \cap {x} = {} /\ Total(f, {x}) = f[x]
  BY FS_Singleton, TotalOne
<1>2. Total(f, S \cup {x}) = Total(f, S) + Total(f, {x})
  BY <1>1, TotalSplit
<1> QED  BY <1>1, <1>2

LEMMA TotalZero ==
  ASSUME NEW S, NEW f, \A x \in S : f[x] = 0
  PROVE  Total(f, S) = 0
<1>1. Units(f, S) = {}
  BY DEF Units
<1> QED  BY <1>1, FS_EmptySet DEF Total

(* A total is that of a part and that of the rest.                         *)
LEMMA TotalPart ==
  ASSUME NEW S, IsFiniteSet(S), NEW T, T \subseteq S, NEW f, \A x \in S : f[x] \in Nat
  PROVE  /\ Total(f, S) = Total(f, S \ T) + Total(f, T)
         /\ Total(f, S \ T) \in Nat /\ Total(f, T) \in Nat
<1>1. IsFiniteSet(T) /\ IsFiniteSet(S \ T) /\ S = (S \ T) \cup T /\ (S \ T) \cap T = {}
  BY FS_Subset
<1>2. Total(f, (S \ T) \cup T) = Total(f, S \ T) + Total(f, T)
  BY <1>1, TotalSplit
<1> QED  BY <1>1, <1>2, TotalType

LEMMA TotalMonotone ==
  ASSUME NEW S, IsFiniteSet(S), NEW f, NEW g,
         \A x \in S : f[x] \in Nat /\ g[x] \in Nat /\ f[x] <= g[x]
  PROVE  Total(f, S) <= Total(g, S)
<1>1. \A x \in S : 1 .. f[x] \subseteq 1 .. g[x]
  OBVIOUS
<1>2. Units(f, S) \subseteq Units(g, S)
  BY <1>1 DEF Units
<1> QED
  BY <1>2, UnitsFinite, FS_Subset DEF Total

(* Values add up: the units of g come after those of f.                    *)
LEMMA TotalPlus ==
  ASSUME NEW S, IsFiniteSet(S), NEW f, NEW g, NEW h,
         \A x \in S : f[x] \in Nat /\ g[x] \in Nat /\ h[x] = f[x] + g[x]
  PROVE  Total(h, S) = Total(f, S) + Total(g, S)
<1> DEFINE Upper == Units(h, S) \ Units(f, S)
           after == [u \in Units(g, S) |-> <<u[1], f[u[1]] + u[2]>>]
<1>1. /\ IsFiniteSet(Units(f, S)) /\ IsFiniteSet(Units(g, S)) /\ IsFiniteSet(Units(h, S))
  BY UnitsFinite
<1>2. Units(f, S) \subseteq Units(h, S)
  <2>1. \A x \in S : 1 .. f[x] \subseteq 1 .. h[x]
    OBVIOUS
  <2> QED  BY <2>1 DEF Units
<1>3. Cardinality(Units(h, S)) = Cardinality(Units(f, S)) + Cardinality(Upper)
  <2>1. Units(h, S) \cap Units(f, S) = Units(f, S)
    BY <1>2
  <2>2. Cardinality(Upper) = Cardinality(Units(h, S)) - Cardinality(Units(h, S) \cap Units(f, S))
    BY <1>1, FS_Difference
  <2>3. Cardinality(Units(h, S)) \in Nat /\ Cardinality(Units(f, S)) \in Nat
    BY <1>1, FS_CardinalityType
  <2>4. \A k : \A m, n \in Nat : k = m - n => m = n + k
    OBVIOUS
  <2>5. Cardinality(Upper) = Cardinality(Units(h, S)) - Cardinality(Units(f, S))
    BY <2>1, <2>2
  <2> HIDE DEF Upper
  <2> QED  BY <2>3, <2>4, <2>5
<1>4. \A u \in Units(g, S) : u = <<u[1], u[2]>> /\ u[1] \in S /\ u[2] \in 1 .. g[u[1]]
  BY DEF Units
<1>5. after \in [Units(g, S) -> Upper]
  <2> SUFFICES ASSUME NEW u \in Units(g, S) PROVE <<u[1], f[u[1]] + u[2]>> \in Upper
    OBVIOUS
  <2>1. u[1] \in S /\ u[2] \in 1 .. g[u[1]]
    BY <1>4
  <2>2. f[u[1]] + u[2] \in 1 .. h[u[1]] /\ f[u[1]] + u[2] \notin 1 .. f[u[1]]
    BY <2>1
  <2> QED  BY <2>1, <2>2, UnitsMember
<1>6. \A u, v \in Units(g, S) : after[u] = after[v] => u = v
  <2> SUFFICES ASSUME NEW u \in Units(g, S), NEW v \in Units(g, S), after[u] = after[v]
               PROVE  u = v
    OBVIOUS
  <2>1. u[1] = v[1] /\ f[u[1]] + u[2] = f[v[1]] + v[2]
    OBVIOUS
  <2>2. u[2] \in Nat /\ v[2] \in Nat /\ f[u[1]] \in Nat
    BY <1>4
  <2>3. u[2] = v[2]
    BY <2>1, <2>2
  <2> QED  BY <1>4, <2>1, <2>3
<1>7. \A t \in Upper : \E u \in Units(g, S) : after[u] = t
  <2> SUFFICES ASSUME NEW t \in Upper PROVE \E u \in Units(g, S) : after[u] = t
    OBVIOUS
  <2>1. PICK x \in S : \E i \in 1 .. h[x] : t = <<x, i>>
    BY UnitsMember
  <2>2. PICK i \in 1 .. h[x] : t = <<x, i>>
    BY <2>1
  <2>3. i \notin 1 .. f[x]
    BY <2>2, UnitsMember
  <2>4. i - f[x] \in 1 .. g[x] /\ f[x] + (i - f[x]) = i
    BY <2>3
  <2>5. <<x, i - f[x]>> \in Units(g, S)
    BY <2>4, UnitsMember
  <2> QED  BY <2>2, <2>4, <2>5
<1>8. after \in Bijection(Units(g, S), Upper)
  BY <1>5, <1>6, <1>7 DEF Bijection, Injection, Surjection, IsInjective
<1>9. Cardinality(Upper) = Cardinality(Units(g, S))
  BY <1>1, <1>8, FS_Bijection DEF ExistsBijection
<1> QED
  BY <1>3, <1>9 DEF Total

-----------------------------------------------------------------------------
(* The two operations on queues without duplicates.                        *)

(* The head leaves an injective queue and no other element does.           *)
LEMMA TakeHead ==
  ASSUME NEW S, NEW q \in Seq(S), q # <<>>, IsInjective(q)
  PROVE  /\ Head(q) \in Range(q)
         /\ IsInjective(Tail(q))
         /\ Range(Tail(q)) = Range(q) \ {Head(q)}
<1>1. /\ Len(q) \in Nat \ {0} /\ DOMAIN q = 1 .. Len(q) /\ Head(q) = q[1]
      /\ DOMAIN Tail(q) = 1 .. Len(q) - 1
      /\ \A i \in 1 .. Len(q) - 1 : Tail(q)[i] = q[i + 1]
  OBVIOUS
<1>2. Head(q) \in Range(q) /\ IsInjective(Tail(q))
  BY <1>1 DEF Range, IsInjective
<1>3. ASSUME NEW x \in Range(Tail(q)) PROVE x \in Range(q) \ {Head(q)}
  <2>1. PICK i \in 1 .. Len(q) - 1 : x = q[i + 1]
    BY <1>1 DEF Range
  <2>2. i + 1 \in DOMAIN q /\ 1 \in DOMAIN q /\ i + 1 # 1
    BY <1>1
  <2> QED  BY <1>1, <2>1, <2>2 DEF Range, IsInjective
<1>4. ASSUME NEW x \in Range(q), x # Head(q) PROVE x \in Range(Tail(q))
  <2>1. PICK i \in 1 .. Len(q) : x = q[i] /\ i # 1
    BY <1>1, <1>4 DEF Range
  <2>2. i - 1 \in 1 .. Len(q) - 1 /\ (i - 1) + 1 = i
    BY <1>1, <2>1
  <2> QED  BY <1>1, <2>1, <2>2 DEF Range
<1> QED
  BY <1>2, <1>3, <1>4

(* A new element joins a queue at its back.                                *)
LEMMA PutBack ==
  ASSUME NEW S, NEW q \in Seq(S), NEW x \in S
  PROVE  /\ Range(Append(q, x)) = Range(q) \cup {x}
         /\ IsInjective(q) /\ x \notin Range(q) => IsInjective(Append(q, x))
<1>1. /\ Len(q) \in Nat /\ DOMAIN q = 1 .. Len(q)
      /\ DOMAIN Append(q, x) = 1 .. Len(q) + 1
      /\ \A i \in 1 .. Len(q) : Append(q, x)[i] = q[i]
      /\ Append(q, x)[Len(q) + 1] = x
  OBVIOUS
<1>2. Range(Append(q, x)) = Range(q) \cup {x}
  BY <1>1 DEF Range
<1>3. ASSUME IsInjective(q), x \notin Range(q) PROVE IsInjective(Append(q, x))
  BY <1>1, <1>3 DEF Range, IsInjective
<1> QED
  BY <1>2, <1>3

(* Only the empty queue holds nothing.                                     *)
LEMMA HoldsNothing ==
  ASSUME NEW S, NEW q \in Seq(S), Range(q) = {}
  PROVE  q = <<>>
<1>1. /\ DOMAIN q = 1 .. Len(q) /\ (q # <<>> => Len(q) \in Nat \ {0})
  BY LenProperties, EmptySeq
<1>2. q # <<>> => 1 \in DOMAIN q
  BY <1>1
<1> QED  BY <1>2 DEF Range

-----------------------------------------------------------------------------
(* The best of a finite set: a strict order without cycles has one.        *)
LEMMA MinimalExists ==
  ASSUME NEW S, IsFiniteSet(S), S # {},
         NEW R, \A x, y, z \in S : <<x, y>> \in R /\ <<y, z>> \in R => <<x, z>> \in R,
         \A x \in S : <<x, x>> \notin R
  PROVE  \E x \in S : \A y \in S : <<y, x>> \notin R
<1> DEFINE below(x) == {y \in S : <<y, x>> \in R}
           belows   == {below(x) : x \in S}
<1>1. belows \subseteq FiniteSubsetsOf(S) /\ belows # {}
  <2>1. \A x \in S : below(x) \in SUBSET S /\ IsFiniteSet(below(x))
    BY FS_Subset
  <2> HIDE DEF below
  <2>2. PICK z \in S : TRUE
    OBVIOUS
  <2>3. below(z) \in belows
    BY <2>2, Zenon
  <2>4. \A x \in S : below(x) \in FiniteSubsetsOf(S)
    BY <2>1 DEF FiniteSubsetsOf
  <2>5. belows \subseteq FiniteSubsetsOf(S)
    BY <2>4
  <2> QED  BY <2>3, <2>5
<1>2. PICK B \in belows : \A C \in belows : <<C, B>> \notin StrictSubsetOrdering(S)
  <2> HIDE DEF belows
  <2> QED  BY <1>1, FS_StrictSubsetOrderingWellFounded, WFMin
<1>3. PICK x \in S : B = below(x)
  BY <1>2
<1>4. ASSUME NEW y \in S, <<y, x>> \in R PROVE FALSE
  <2>1. below(y) \subseteq below(x) /\ below(y) # below(x)
    BY <1>4
  <2>2. below(y) \in belows /\ below(x) \in belows
    <3> HIDE DEF below
    <3> QED  BY <1>4, Zenon
  <2>3. <<below(y), below(x)>> \in StrictSubsetOrdering(S)
    BY <2>1 DEF StrictSubsetOrdering
  <2> QED  BY <1>2, <1>3, <2>2, <2>3
<1> QED  BY <1>4

-----------------------------------------------------------------------------
(* Induction, over a set of numbers or of sequences in place of a          *)
(* predicate, so that it can be cited as it stands.                        *)

LEMMA LeastNumber ==
  ASSUME NEW S \in SUBSET Nat, S # {}
  PROVE  \E n \in S : \A m \in S : n <= m
<1>1. PICK z \in S : TRUE
  OBVIOUS
<1> DEFINE T == {m \in S : m <= z}
<1>2. z \in Nat /\ \A m \in S : m \in Nat
  OBVIOUS
<1>3. z \in T /\ T \subseteq 0 .. z /\ T \subseteq S /\ \A m \in S : m \in T \/ z < m
  <2>1. z \in T /\ T \subseteq S
    BY <1>2
  <2>2. \A m \in S : m \in T => m \in 0 .. z
    BY <1>2
  <2>3. \A m \in S : m \in T \/ z < m
    BY <1>2
  <2> QED  BY <2>1, <2>2, <2>3
<1> HIDE DEF T
<1>4. IsFiniteSet(T) /\ T # {}
  <2>1. IsFiniteSet(0 .. z)
    BY <1>2, FS_Interval
  <2> QED  BY <1>3, <2>1, FS_Subset
<1> DEFINE R == {x \in T \X T : x[1] < x[2]}
<1>5. \A x, y \in T : <<x, y>> \in R <=> x < y
  OBVIOUS
<1> HIDE DEF R
<1>6. \A x, y, w \in T : <<x, y>> \in R /\ <<y, w>> \in R => <<x, w>> \in R
  BY <1>2, <1>3, <1>5
<1>7. \A x \in T : <<x, x>> \notin R
  BY <1>2, <1>3, <1>5
<1>8. PICK n \in T : \A m \in T : <<m, n>> \notin R
  BY <1>4, <1>6, <1>7, MinimalExists
<1>9. \A m \in T : n <= m
  <2>1. \A m \in T : m \in Nat
    BY <1>2, <1>3
  <2>2. \A m \in T : ~(m < n)
    BY <1>5, <1>8
  <2> QED  BY <2>1, <2>2
<1>10. n <= z /\ n \in S
  BY <1>3, <1>8, <1>9
<1> QED  BY <1>2, <1>3, <1>9, <1>10

LEMMA NumberInduction ==
  ASSUME NEW P \in SUBSET Nat, 0 \in P, \A n \in P : n + 1 \in P
  PROVE  P = Nat
<1> SUFFICES ASSUME Nat \ P # {} PROVE FALSE
  OBVIOUS
<1>1. PICK n \in Nat \ P : \A m \in Nat \ P : n <= m
  BY LeastNumber
<1>2. n # 0 /\ n - 1 \in Nat
  BY <1>1
<1>3. n - 1 \in P
  BY <1>1, <1>2
<1>4. (n - 1) + 1 \in P
  BY <1>3
<1> QED  BY <1>1, <1>4

LEMMA SequenceInduction ==
  ASSUME NEW S, NEW P \in SUBSET Seq(S), <<>> \in P,
         \A s \in P : \A x \in S : Append(s, x) \in P
  PROVE  P = Seq(S)
<1> DEFINE N == {n \in Nat : \A s \in Seq(S) : Len(s) = n => s \in P}
<1>1. 0 \in N
  BY EmptySeq
<1>2. ASSUME NEW n \in N PROVE n + 1 \in N
  <2> SUFFICES ASSUME NEW s \in Seq(S), Len(s) = n + 1 PROVE s \in P
    OBVIOUS
  <2>1. s # <<>>
    BY EmptySeq
  <2>2. PICK t \in Seq(S), x \in S : s = Append(t, x)
    BY <2>1, SequenceEmptyOrAppend
  <2>3. Len(s) = Len(t) + 1 /\ Len(t) \in Nat
    BY <2>2, AppendProperties, LenProperties
  <2>4. t \in P
    BY <2>3
  <2> QED  BY <2>2, <2>4
<1>3. N = Nat
  <2> HIDE DEF N
  <2>1. N \in SUBSET Nat
    BY DEF N
  <2> QED  BY <1>1, <1>2, <2>1, NumberInduction
<1>4. \A s \in Seq(S) : Len(s) \in N
  BY <1>3, LenProperties
<1> QED  BY <1>4

-----------------------------------------------------------------------------
(* Every number up to the size of a set is the rank of one of its members. *)
LEMMA Ranked ==
  ASSUME NEW n \in Nat, NEW F \in SUBSET (1 .. n)
  PROVE  /\ IsFiniteSet(F) /\ Cardinality(F) \in Nat
         /\ [i \in F |-> Cardinality({j \in F : j <= i})] \in Bijection(F, 1 .. Cardinality(F))
<1> DEFINE upto(i) == {j \in F : j <= i}
           rank == [i \in F |-> Cardinality(upto(i))]
<1>1. IsFiniteSet(F) /\ Cardinality(F) \in Nat /\ \A i \in F : i \in Nat
  <2>1. IsFiniteSet(1 .. n)
    BY FS_Interval
  <2>2. IsFiniteSet(F)
    BY <2>1, FS_Subset
  <2> QED  BY <2>2, FS_CardinalityType
<1>2. ASSUME NEW i \in F
      PROVE  IsFiniteSet(upto(i)) /\ Cardinality(upto(i)) \in 1 .. Cardinality(F)
  <2>1. i \in upto(i) /\ upto(i) \in SUBSET F
    BY <1>1
  <2> HIDE DEF upto
  <2>2. IsFiniteSet(upto(i)) /\ Cardinality(upto(i)) <= Cardinality(F)
    BY <1>1, <2>1, FS_Subset
  <2>3. Cardinality(upto(i)) \in Nat /\ Cardinality(upto(i)) # 0
    BY <2>1, <2>2, FS_CardinalityType, FS_EmptySet
  <2> QED  BY <1>1, <2>2, <2>3
<1>3. ASSUME NEW i \in F, NEW k \in F, i < k PROVE Cardinality(upto(i)) # Cardinality(upto(k))
  <2>1. upto(i) \in SUBSET upto(k) /\ k \in upto(k) /\ k \notin upto(i)
    <3>1. i \in Nat /\ k \in Nat /\ k <= k /\ ~(k <= i) /\ \A j \in F : j <= i => j <= k
      BY <1>1, <1>3
    <3> HIDE DEF rank
    <3> QED  BY <3>1
  <2> HIDE DEF upto
  <2>2. IsFiniteSet(upto(k))
    BY <1>2
  <2> QED  BY <2>1, <2>2, FS_Subset
<1>4. rank \in [F -> 1 .. Cardinality(F)] /\ \A i \in F : rank[i] = Cardinality(upto(i))
  BY <1>2
<1> HIDE DEF upto, rank
<1>5. rank \in Injection(F, 1 .. Cardinality(F))
  <2>1. ASSUME NEW i \in F, NEW k \in F, rank[i] = rank[k] PROVE i = k
    <3>1. ~(i < k) /\ ~(k < i)
      BY <1>3, <1>4, <2>1
    <3> QED  BY <1>1, <3>1
  <2> QED  BY <1>4, <2>1 DEF Injection, IsInjective
<1>6. IsFiniteSet(1 .. Cardinality(F)) /\ Cardinality(1 .. Cardinality(F)) = Cardinality(F)
  BY <1>1, FS_Interval
<1>7. rank \in Surjection(F, 1 .. Cardinality(F))
  BY <1>1, <1>5, <1>6, FS_Injection
<1>8. rank \in Bijection(F, 1 .. Cardinality(F))
  BY <1>5, <1>7 DEF Bijection
<1> QED  BY <1>1, <1>8 DEF rank, upto

-----------------------------------------------------------------------------
(* FlattenSeq is a recursive function: it exists, and each of its values   *)
(* is the one before with one more sequence at the end.                    *)

Flattens(f, q, n) ==
  \A i \in 1 .. n : f[i] = IF i = 1 THEN q[i] ELSE f[i - 1] \o q[i]

LEMMA FlattensOnce ==
  ASSUME NEW q, NEW n \in Nat, NEW f, NEW g, Flattens(f, q, n), Flattens(g, q, n)
  PROVE  \A i \in 1 .. n : g[i] = f[i]
<1> DEFINE N == {k \in Nat : k + 1 <= n => g[k + 1] = f[k + 1]}
<1>1. 0 \in N
  BY DEF Flattens
<1>2. ASSUME NEW k \in N PROVE k + 1 \in N
  <2> SUFFICES ASSUME k + 2 <= n PROVE g[k + 2] = f[k + 2]
    OBVIOUS
  <2>1. k \in Nat /\ g[k + 1] = f[k + 1] /\ k + 2 \in 1 .. n /\ k + 2 # 1 /\ (k + 2) - 1 = k + 1
    OBVIOUS
  <2>2. f[k + 2] = f[k + 1] \o q[k + 2] /\ g[k + 2] = g[k + 1] \o q[k + 2]
    BY <2>1 DEF Flattens
  <2> QED  BY <2>1, <2>2
<1>3. N = Nat
  <2>1. N \in SUBSET Nat
    OBVIOUS
  <2> HIDE DEF N
  <2> QED  BY <1>1, <1>2, <2>1, NumberInduction
<1> SUFFICES ASSUME NEW i \in 1 .. n PROVE g[i] = f[i]
  OBVIOUS
<1>4. i - 1 \in Nat /\ (i - 1) + 1 = i /\ i <= n
  OBVIOUS
<1>5. i - 1 \in N
  BY <1>3, <1>4
<1> QED  BY <1>4, <1>5

LEMMA FlattenFunction ==
  ASSUME NEW S, NEW q \in Seq(Seq(S)), q # <<>>
  PROVE  \E f \in [1 .. Len(q) -> Seq(S)] : Flattens(f, q, Len(q)) /\ FlattenSeq(q) = f[Len(q)]
<1>1. Len(q) \in Nat \ {0} /\ \A i \in 1 .. Len(q) : q[i] \in Seq(S)
  BY EmptySeq, LenProperties
<1> DEFINE N == {n \in Nat : n + 1 <= Len(q) =>
                               \E f \in [1 .. n + 1 -> Seq(S)] : Flattens(f, q, n + 1)}
<1>2. 0 \in N
  <2> DEFINE f == [i \in 1 .. 1 |-> q[1]]
  <2>1. f \in [1 .. 1 -> Seq(S)] /\ Flattens(f, q, 1)
    BY <1>1 DEF Flattens
  <2> QED  BY <2>1
<1>3. ASSUME NEW n \in N PROVE n + 1 \in N
  <2> SUFFICES ASSUME n + 2 <= Len(q)
               PROVE  \E f \in [1 .. n + 2 -> Seq(S)] : Flattens(f, q, n + 2)
    OBVIOUS
  <2>1. PICK g \in [1 .. n + 1 -> Seq(S)] : Flattens(g, q, n + 1)
    BY <1>1
  <2> DEFINE f == [i \in 1 .. n + 2 |-> IF i = n + 2 THEN g[n + 1] \o q[n + 2] ELSE g[i]]
  <2>2. g[n + 1] \o q[n + 2] \in Seq(S)
    BY <1>1, <2>1, ConcatProperties
  <2>3. f \in [1 .. n + 2 -> Seq(S)]
    BY <2>1, <2>2
  <2>4. ASSUME NEW i \in 1 .. n + 2
        PROVE  f[i] = IF i = 1 THEN q[i] ELSE f[i - 1] \o q[i]
    <3>1. CASE i = n + 2
      <4>1. i # 1 /\ i - 1 = n + 1 /\ n + 1 \in 1 .. n + 2 /\ n + 1 # n + 2
        BY <3>1
      <4>2. f[n + 1] = g[n + 1]
        BY <4>1
      <4> QED  BY <3>1, <4>1, <4>2
    <3>2. CASE i # n + 2
      <4>1. i \in 1 .. n + 1 /\ f[i] = g[i]
        BY <3>2
      <4>2. i # 1 => i - 1 \in 1 .. n + 2 /\ i - 1 # n + 2 /\ f[i - 1] = g[i - 1]
        BY <4>1
      <4> QED  BY <2>1, <4>1, <4>2 DEF Flattens
    <3> QED  BY <3>1, <3>2
  <2>5. Flattens(f, q, n + 2)
    BY <2>4 DEF Flattens
  <2> QED  BY <2>3, <2>5
<1>4. N = Nat
  BY <1>2, <1>3, NumberInduction
<1>5. PICK f \in [1 .. Len(q) -> Seq(S)] : Flattens(f, q, Len(q))
  <2>1. Len(q) - 1 \in Nat /\ (Len(q) - 1) + 1 = Len(q)
    BY <1>1
  <2>2. Len(q) - 1 \in N
    BY <1>4, <2>1
  <2> QED  BY <1>1, <2>1, <2>2
<1>6. f = [i \in 1 .. Len(q) |-> IF i = 1 THEN q[i] ELSE f[i - 1] \o q[i]]
  BY <1>5 DEF Flattens
<1>7. ASSUME NEW g, g = [i \in 1 .. Len(q) |-> IF i = 1 THEN q[i] ELSE g[i - 1] \o q[i]]
      PROVE  g = f
  <2>1. \A i \in 1 .. Len(q) : g[i] = IF i = 1 THEN q[i] ELSE g[i - 1] \o q[i]
    BY <1>7, Zenon
  <2>2. \A i \in 1 .. Len(q) : g[i] = f[i]
    <3>1. Flattens(g, q, Len(q)) /\ Len(q) \in Nat
      BY <1>1, <2>1 DEF Flattens
    <3> QED  BY <1>5, <3>1, FlattensOnce
  <2>3. g = [i \in 1 .. Len(q) |-> g[i]]
    BY <1>7, <2>1
  <2>4. f = [i \in 1 .. Len(q) |-> f[i]]
    BY <1>5
  <2> QED  BY <2>2, <2>3, <2>4
<1>8. FlattenSeq(q) = f[Len(q)]
  BY <1>1, <1>6, <1>7 DEF FlattenSeq
<1> QED  BY <1>5, <1>8

LEMMA FlattenAppend ==
  ASSUME NEW S, NEW q \in Seq(Seq(S)), NEW s \in Seq(S)
  PROVE  FlattenSeq(Append(q, s)) = FlattenSeq(q) \o s
<1> DEFINE p == Append(q, s)
           n == Len(q)
<1>1. /\ p \in Seq(Seq(S)) /\ p # <<>> /\ Len(p) = n + 1 /\ n \in Nat
      /\ \A i \in 1 .. n : p[i] = q[i]
      /\ p[n + 1] = s
  BY AppendProperties, LenProperties
<1> HIDE DEF p
<1>2. PICK f \in [1 .. n + 1 -> Seq(S)] : Flattens(f, p, n + 1) /\ FlattenSeq(p) = f[n + 1]
  BY <1>1, FlattenFunction
<1>3. CASE q = <<>>
  <2>1. n = 0 /\ FlattenSeq(q) = <<>>
    BY <1>3, EmptySeq DEF FlattenSeq
  <2>2. FlattenSeq(p) = s
    BY <1>1, <1>2, <2>1 DEF Flattens
  <2>3. <<>> \o s = s
    BY ConcatEmptySeq
  <2> QED  BY <2>1, <2>2, <2>3 DEF p
<1>4. CASE q # <<>>
  <2>1. PICK g \in [1 .. n -> Seq(S)] : Flattens(g, q, n) /\ FlattenSeq(q) = g[n]
    BY <1>4, FlattenFunction
  <2>2. n \in Nat \ {0}
    BY <1>4, EmptySeq
  <2>3. Flattens(f, q, n)
    <3>1. \A i \in 1 .. n : i \in 1 .. n + 1 /\ p[i] = q[i]
      BY <1>1
    <3> QED  BY <1>2, <3>1 DEF Flattens
  <2>4. g[n] = f[n]
    <3>1. \A i \in 1 .. n : g[i] = f[i]
      BY <2>1, <2>2, <2>3, FlattensOnce
    <3> QED  BY <2>2, <3>1
  <2>5. f[n + 1] = f[n] \o s
    <3>1. n + 1 \in 1 .. n + 1 /\ n + 1 # 1 /\ (n + 1) - 1 = n
      BY <2>2
    <3>2. f[n + 1] = f[(n + 1) - 1] \o p[n + 1]
      BY <1>2, <3>1 DEF Flattens
    <3> QED  BY <1>1, <3>1, <3>2
  <2> QED  BY <1>2, <2>1, <2>4, <2>5 DEF p
<1> QED  BY <1>3, <1>4

LEMMA FlattenEmpty == FlattenSeq(<<>>) = <<>>
BY EmptySeq DEF FlattenSeq

LEMMA FlattenType ==
  ASSUME NEW S, NEW q \in Seq(Seq(S))
  PROVE  FlattenSeq(q) \in Seq(S)
<1>1. CASE q = <<>>
  BY <1>1, FlattenEmpty, EmptySeq
<1>2. CASE q # <<>>
  <2>1. PICK f \in [1 .. Len(q) -> Seq(S)] : FlattenSeq(q) = f[Len(q)]
    BY <1>2, FlattenFunction
  <2>2. Len(q) \in 1 .. Len(q)
    BY <1>2, EmptySeq
  <2> QED  BY <2>1, <2>2
<1> QED  BY <1>1, <1>2

LEMMA FlattenOne ==
  ASSUME NEW S, NEW s \in Seq(S)
  PROVE  FlattenSeq(<<s>>) = s
<1>1. <<>> \in Seq(Seq(S)) /\ Append(<<>>, s) = <<>> \o <<s>>
  BY EmptySeq, AppendIsConcat
<1>2. <<s>> \in Seq(Seq(S)) /\ <<>> \o <<s>> = <<s>>
  BY ConcatEmptySeq
<1>3. FlattenSeq(Append(<<>>, s)) = FlattenSeq(<<>>) \o s
  BY <1>1, FlattenAppend
<1> QED  BY <1>1, <1>2, <1>3, FlattenEmpty, ConcatEmptySeq

LEMMA FlattenConcat ==
  ASSUME NEW S, NEW p \in Seq(Seq(S)), NEW q \in Seq(Seq(S))
  PROVE  FlattenSeq(p \o q) = FlattenSeq(p) \o FlattenSeq(q)
<1> DEFINE P == {t \in Seq(Seq(S)) : FlattenSeq(p \o t) = FlattenSeq(p) \o FlattenSeq(t)}
<1>1. <<>> \in P
  <2>1. p \o <<>> = p /\ FlattenSeq(p) \o <<>> = FlattenSeq(p)
    BY ConcatEmptySeq, FlattenType
  <2> QED  BY <2>1, FlattenEmpty, EmptySeq
<1>2. ASSUME NEW t \in P, NEW s \in Seq(S) PROVE Append(t, s) \in P
  <2>1. t \in Seq(Seq(S)) /\ FlattenSeq(p \o t) = FlattenSeq(p) \o FlattenSeq(t)
    OBVIOUS
  <2>2. Append(t, s) \in Seq(Seq(S)) /\ Append(t, s) = t \o <<s>> /\ <<s>> \in Seq(Seq(S))
    BY <2>1, AppendProperties, AppendIsConcat
  <2>3. p \o t \in Seq(Seq(S)) /\ Append(p \o t, s) = (p \o t) \o <<s>>
    BY <2>1, ConcatProperties, AppendIsConcat
  <2>4. p \o Append(t, s) = Append(p \o t, s)
    BY <2>1, <2>2, <2>3, ConcatAssociative
  <2>5. FlattenSeq(Append(p \o t, s)) = (FlattenSeq(p) \o FlattenSeq(t)) \o s
    BY <2>1, <2>3, FlattenAppend
  <2>6. FlattenSeq(Append(t, s)) = FlattenSeq(t) \o s
    BY <2>1, FlattenAppend
  <2>7. (FlattenSeq(p) \o FlattenSeq(t)) \o s = FlattenSeq(p) \o (FlattenSeq(t) \o s)
    BY <2>1, FlattenType, ConcatAssociative, SMTT(30)
  <2> QED  BY <2>2, <2>4, <2>5, <2>6, <2>7
<1>3. P = Seq(Seq(S))
  <2>1. P \in SUBSET Seq(Seq(S))
    OBVIOUS
  <2> HIDE DEF P
  <2> QED  BY <1>1, <1>2, <2>1, SequenceInduction
<1> QED  BY <1>3

-----------------------------------------------------------------------------
(* TokensIn, a count of positions, is the length of the flat queue.        *)
LEMMA TokensInAppend ==
  ASSUME NEW S, NEW q \in Seq(Seq(S)), NEW s \in Seq(S), IsFiniteSet(Positions(q))
  PROVE  /\ IsFiniteSet(Positions(Append(q, s)))
         /\ TokensIn(Append(q, s)) = TokensIn(q) + Len(s)
<1> DEFINE new == {Len(q) + 1} \X (1 .. Len(s))
<1>1. /\ Len(q) \in Nat /\ Len(s) \in Nat /\ DOMAIN q = 1 .. Len(q) /\ DOMAIN s = 1 .. Len(s)
      /\ DOMAIN Append(q, s) = 1 .. Len(q) + 1
      /\ \A i \in 1 .. Len(q) : Append(q, s)[i] = q[i]
      /\ Append(q, s)[Len(q) + 1] = s
  BY AppendProperties, LenProperties
<1>2. Positions(Append(q, s)) = Positions(q) \cup new
  BY <1>1 DEF Positions
<1>3. Positions(q) \cap new = {}
  BY <1>1 DEF Positions
<1>4. IsFiniteSet(new) /\ Cardinality(new) = Len(s)
  <2>1. IsFiniteSet({Len(q) + 1}) /\ Cardinality({Len(q) + 1}) = 1
    BY FS_Singleton
  <2>2. IsFiniteSet(1 .. Len(s)) /\ Cardinality(1 .. Len(s)) = Len(s)
    <3>1. 1 \in Int /\ Len(s) \in Int /\ (Len(s) = 0 <=> 1 > Len(s)) /\ Len(s) - 1 + 1 = Len(s)
      BY <1>1
    <3>2. IsFiniteSet(1 .. Len(s)) /\ Cardinality(1 .. Len(s)) = IF 1 > Len(s) THEN 0 ELSE Len(s) - 1 + 1
      BY <3>1, FS_Interval
    <3> QED  BY <3>1, <3>2
  <2>3. IsFiniteSet(new) /\ Cardinality(new) = 1 * Len(s)
    BY <2>1, <2>2, FS_Product, ZenonT(40)
  <2>4. 1 * Len(s) = Len(s)
    <3>1. \A n \in Nat : 1 * n = n
      OBVIOUS
    <3> QED  BY <1>1, <3>1, Zenon
  <2> QED  BY <2>3, <2>4
<1> HIDE DEF new
<1>5. Cardinality(Positions(q) \cup new) = Cardinality(Positions(q)) + Cardinality(new)
  <2>1. Cardinality(Positions(q) \cap new) = 0
    BY <1>3, FS_EmptySet
  <2>2. Cardinality(Positions(q)) \in Nat
    BY FS_CardinalityType
  <2>3. Cardinality(Positions(q) \cup new)
          = Cardinality(Positions(q)) + Cardinality(new) - Cardinality(Positions(q) \cap new)
    BY <1>4, FS_Union
  <2> QED  BY <1>1, <1>4, <2>1, <2>2, <2>3
<1>6. IsFiniteSet(Positions(q) \cup new)
  BY <1>4, FS_Union
<1> QED  BY <1>2, <1>4, <1>5, <1>6 DEF TokensIn

LEMMA TokensInLength ==
  ASSUME NEW S, NEW q \in Seq(Seq(S))
  PROVE  TokensIn(q) = Len(FlattenSeq(q)) /\ TokensIn(q) \in Nat
<1> DEFINE P == {t \in Seq(Seq(S)) : IsFiniteSet(Positions(t)) /\ TokensIn(t) = Len(FlattenSeq(t))}
<1>1. <<>> \in P
  <2>1. Positions(<<>>) = {}
    BY DEF Positions
  <2>2. Len(<<>>) = 0 /\ <<>> \in Seq(Seq(S))
    BY EmptySeq
  <2> QED  BY <2>1, <2>2, FS_EmptySet, FlattenEmpty DEF TokensIn
<1>2. ASSUME NEW t \in P, NEW s \in Seq(S) PROVE Append(t, s) \in P
  <2>1. t \in Seq(Seq(S)) /\ IsFiniteSet(Positions(t)) /\ TokensIn(t) = Len(FlattenSeq(t))
    OBVIOUS
  <2>2. Append(t, s) \in Seq(Seq(S))
    BY <2>1, AppendProperties
  <2>3. IsFiniteSet(Positions(Append(t, s))) /\ TokensIn(Append(t, s)) = TokensIn(t) + Len(s)
    BY <2>1, TokensInAppend
  <2>4. FlattenSeq(Append(t, s)) = FlattenSeq(t) \o s
    BY <2>1, FlattenAppend
  <2>5. Len(FlattenSeq(t) \o s) = Len(FlattenSeq(t)) + Len(s)
    BY <2>1, FlattenType, ConcatProperties
  <2> QED  BY <2>1, <2>2, <2>3, <2>4, <2>5
<1>3. P = Seq(Seq(S))
  <2>1. P \in SUBSET Seq(Seq(S))
    OBVIOUS
  <2> HIDE DEF P
  <2> QED  BY <1>1, <1>2, <2>1, SequenceInduction
<1>4. FlattenSeq(q) \in Seq(S)
  BY FlattenType
<1> QED  BY <1>3, <1>4, LenProperties

-----------------------------------------------------------------------------
(* What a layer gives up, and what is left of it.                          *)

LEMMA TokensInConcat ==
  ASSUME NEW S, NEW p \in Seq(Seq(S)), NEW q \in Seq(Seq(S))
  PROVE  TokensIn(p \o q) = TokensIn(p) + TokensIn(q)
<1>1. TokensIn(p \o q) = Len(FlattenSeq(p) \o FlattenSeq(q))
  <2>1. p \o q \in Seq(Seq(S))
    BY ConcatProperties
  <2>2. TokensIn(p \o q) = Len(FlattenSeq(p \o q))
    BY <2>1, TokensInLength
  <2> QED  BY <2>2, FlattenConcat
<1>2. Len(FlattenSeq(p) \o FlattenSeq(q)) = Len(FlattenSeq(p)) + Len(FlattenSeq(q))
  BY FlattenType, ConcatProperties
<1> QED  BY <1>1, <1>2, TokensInLength

LEMMA TokensInOne ==
  ASSUME NEW S, NEW s \in Seq(S)
  PROVE  TokensIn(<<s>>) = Len(s)
<1>1. <<s>> \in Seq(Seq(S))
  OBVIOUS
<1> QED  BY <1>1, FlattenOne, TokensInLength

LEMMA BeforeCounts ==
  ASSUME NEW S, NEW q \in Seq(Seq(S))
  PROVE  /\ Before(q, 1) = 0 /\ Before(q, Len(q) + 1) = TokensIn(q)
         /\ \A i \in 1 .. Len(q) + 1 : SubSeq(q, 1, i - 1) \in Seq(Seq(S)) /\ Before(q, i) \in Nat
         /\ \A i \in 1 .. Len(q) : Before(q, i + 1) = Before(q, i) + Len(q[i])
<1>1. Len(q) \in Nat /\ \A i \in 1 .. Len(q) : q[i] \in Seq(S)
  BY LenProperties
<1>2. ASSUME NEW i \in 1 .. Len(q) + 1
      PROVE  SubSeq(q, 1, i - 1) \in Seq(Seq(S)) /\ Before(q, i) \in Nat
  <2>1. 1 \in Int /\ i - 1 \in Int /\ \A j \in 1 .. i - 1 : q[j] \in Seq(S)
    BY <1>1
  <2>2. SubSeq(q, 1, i - 1) \in Seq(Seq(S))
    BY <2>1, SubSeqProperties
  <2> QED  BY <2>2, TokensInLength DEF Before
<1>3. Before(q, 1) = 0
  <2>1. SubSeq(q, 1, 1 - 1) = <<>>
    BY SubSeqEmpty
  <2>2. TokensIn(<<>>) = 0
    <3>1. <<>> \in Seq(Seq(S)) /\ Len(<<>>) = 0
      BY EmptySeq
    <3> QED  BY <3>1, TokensInLength, FlattenEmpty
  <2> QED  BY <2>1, <2>2 DEF Before
<1>4. Before(q, Len(q) + 1) = TokensIn(q)
  <2>1. (Len(q) + 1) - 1 = Len(q) /\ SubSeq(q, 1, Len(q)) = q
    BY <1>1, SubSeqFull
  <2> QED  BY <2>1 DEF Before
<1>5. ASSUME NEW i \in 1 .. Len(q) PROVE Before(q, i + 1) = Before(q, i) + Len(q[i])
  <2>1. i \in 1 .. Len(q) + 1 /\ (i + 1) - 1 = i /\ 1 \in 1 .. Len(q) /\ i \in 1 .. Len(q)
    BY <1>1
  <2>2. SubSeq(q, 1, i) = SubSeq(q, 1, i - 1) \o <<q[i]>>
    BY <2>1, SubSeqRecursiveSecond
  <2>3. SubSeq(q, 1, i - 1) \in Seq(Seq(S)) /\ q[i] \in Seq(S) /\ <<q[i]>> \in Seq(Seq(S))
    BY <1>1, <1>2, <2>1
  <2>4. TokensIn(SubSeq(q, 1, i)) = TokensIn(SubSeq(q, 1, i - 1)) + TokensIn(<<q[i]>>)
    BY <2>2, <2>3, TokensInConcat
  <2>5. TokensIn(<<q[i]>>) = Len(q[i])
    BY <2>3, TokensInOne
  <2> QED  BY <2>1, <2>4, <2>5 DEF Before
<1> QED  BY <1>2, <1>3, <1>4, <1>5

(* A set of numbers that has each one's predecessor is an interval.        *)
LEMMA InitialSegment ==
  ASSUME NEW n \in Nat, NEW F \in SUBSET (1 .. n), \A i \in F : i = 1 \/ i - 1 \in F
  PROVE  F = 1 .. Cardinality(F) /\ Cardinality(F) \in 0 .. n
<1> DEFINE out == (1 .. n + 1) \ F
<1>1. n + 1 \in out /\ out \subseteq Nat
  OBVIOUS
<1> HIDE DEF out
<1>2. PICK k \in out : \A m \in out : k <= m
  BY <1>1, LeastNumber
<1>3. k \in 1 .. n + 1 /\ k \notin F
  BY <1>2 DEF out
<1>4. ASSUME NEW i \in 1 .. k - 1 PROVE i \in F
  <2>1. i \in 1 .. n + 1 /\ ~(k <= i)
    BY <1>3
  <2> QED  BY <1>2, <2>1 DEF out
<1> DEFINE above == {m \in F : m > k}
<1>5. above = {}
  <2> SUFFICES ASSUME above # {} PROVE FALSE
    OBVIOUS
  <2>1. above \in SUBSET Nat
    <3>1. \A m \in F : m \in Nat
      OBVIOUS
    <3> QED  BY <3>1
  <2> HIDE DEF above
  <2>2. PICK m \in above : \A j \in above : m <= j
    BY <2>1, LeastNumber
  <2>3. m \in F /\ m \in Nat /\ m > k
    BY <2>1, <2>2 DEF above
  <2>4. m # 1 /\ m - 1 \in F
    BY <1>3, <2>3
  <2>5. m - 1 # k
    BY <1>3, <2>4
  <2>6. m - 1 \in above
    BY <1>3, <2>3, <2>4, <2>5 DEF above
  <2> QED  BY <2>2, <2>3, <2>6
<1>6. F = 1 .. k - 1
  <2>1. \A m \in F : m \in 1 .. n /\ m # k /\ ~(m > k)
    BY <1>3, <1>5
  <2>2. \A m \in F : m \in 1 .. k - 1
    BY <1>3, <2>1
  <2> QED  BY <1>4, <2>2
<1>7. Cardinality(1 .. k - 1) = k - 1
  <2>1. k - 1 \in Nat
    BY <1>3
  <2>2. \A j \in Nat : Cardinality(1 .. j) = j
    BY FS_Interval
  <2> QED  BY <2>1, <2>2
<1> QED  BY <1>3, <1>6, <1>7

LEMMA WholeBatchesFit ==
  ASSUME NEW S, NEW q \in Seq(Seq(S)), NEW threshold \in Nat \ {0}
  PROVE  /\ WholeBatches(q, threshold) \in 0 .. Len(q)
         /\ Before(q, WholeBatches(q, threshold) + 1) <= threshold
         /\ WholeBatches(q, threshold) < Len(q) =>
              LET w == WholeBatches(q, threshold)
              IN  Before(q, w + 1) < threshold => Before(q, w + 1) + Len(q[w + 1]) > threshold
<1> DEFINE F == {i \in DOMAIN q : /\ Before(q, i) < threshold
                                  /\ Before(q, i) + Len(q[i]) <= threshold}
           w == Cardinality(F)
<1>1. Len(q) \in Nat /\ DOMAIN q = 1 .. Len(q) /\ \A i \in 1 .. Len(q) : Len(q[i]) \in Nat
  BY LenProperties
<1>2. WholeBatches(q, threshold) = w
  BY DEF WholeBatches
<1>3. ASSUME NEW i \in F, i # 1 PROVE i - 1 \in F
  <2>1. i \in 1 .. Len(q) /\ i - 1 \in 1 .. Len(q) /\ (i - 1) + 1 = i /\ i - 1 \in 1 .. Len(q) + 1
        /\ Before(q, i) < threshold
    BY <1>1, <1>3
  <2>2. /\ Before(q, i) = Before(q, i - 1) + Len(q[i - 1])
        /\ Before(q, i - 1) \in Nat /\ Len(q[i - 1]) \in Nat
    BY <1>1, <2>1, BeforeCounts
  <2>3. Before(q, i - 1) < threshold /\ Before(q, i - 1) + Len(q[i - 1]) <= threshold
    BY <2>1, <2>2
  <2> QED  BY <1>1, <2>1, <2>3
<1>4. F = 1 .. w /\ w \in 0 .. Len(q)
  <2>1. F \in SUBSET (1 .. Len(q)) /\ \A i \in F : i = 1 \/ i - 1 \in F
    BY <1>1, <1>3
  <2> HIDE DEF F
  <2> QED  BY <1>1, <2>1, InitialSegment
<1>5. Before(q, w + 1) <= threshold
  <2>1. CASE w = 0
    BY <2>1, BeforeCounts
  <2>2. CASE w # 0
    <3>1. w \in 1 .. w /\ w \in 1 .. Len(q)
      BY <1>4, <2>2
    <3>2. Before(q, w) + Len(q[w]) <= threshold
      <4>1. w \in F
        BY <1>4, <3>1
      <4> QED  BY <4>1
    <3>3. Before(q, w + 1) = Before(q, w) + Len(q[w])
      BY <3>1, BeforeCounts
    <3> QED  BY <3>2, <3>3
  <2> QED  BY <2>1, <2>2
<1>6. ASSUME w < Len(q), Before(q, w + 1) < threshold
      PROVE  Before(q, w + 1) + Len(q[w + 1]) > threshold
  <2>1. w + 1 \in 1 .. Len(q) /\ w + 1 \notin 1 .. w
    BY <1>1, <1>4, <1>6
  <2>2. w + 1 \notin F
    BY <1>4, <2>1
  <2>3. ~(Before(q, w + 1) + Len(q[w + 1]) <= threshold)
    BY <1>1, <1>6, <2>1, <2>2
  <2>4. Before(q, w + 1) \in Nat /\ Len(q[w + 1]) \in Nat
    BY <1>1, <2>1, BeforeCounts
  <2> QED  BY <2>3, <2>4
<1> HIDE DEF w
<1> QED  BY <1>2, <1>4, <1>5, <1>6

(* get_batches_restricted and get_tokens_restricted: what is taken is the  *)
(* beginning of the queue, up to the threshold, and nothing is lost.       *)
LEMMA TakenAndLeft ==
  ASSUME NEW S, NEW q \in Seq(Seq(S)), NEW threshold \in Nat \ {0}
  PROVE  /\ Taken(q, threshold) \in Seq(Seq(S)) /\ Left(q, threshold) \in Seq(Seq(S))
         /\ FlattenSeq(q) = FlattenSeq(Taken(q, threshold)) \o FlattenSeq(Left(q, threshold))
         /\ TokensIn(Taken(q, threshold))
              = IF TokensIn(q) < threshold THEN TokensIn(q) ELSE threshold
<1> DEFINE w == WholeBatches(q, threshold)
           front == SubSeq(q, 1, w)
           back  == SubSeq(q, w + 1, Len(q))
<1>1. Len(q) \in Nat /\ w \in 0 .. Len(q) /\ \A i \in 1 .. Len(q) : q[i] \in Seq(S)
  BY LenProperties, WholeBatchesFit
<1>2. /\ Before(q, w + 1) <= threshold
      /\ w < Len(q) => (Before(q, w + 1) < threshold => Before(q, w + 1) + Len(q[w + 1]) > threshold)
  BY WholeBatchesFit
<1>3. SplitsNext(q, threshold) <=> w < Len(q) /\ Before(q, w + 1) < threshold
  BY DEF SplitsNext
<1>4. /\ Taken(q, threshold) = front \o
             (IF SplitsNext(q, threshold)
              THEN <<SubSeq(q[w + 1], 1, threshold - Before(q, w + 1))>>
              ELSE <<>>)
      /\ Left(q, threshold) =
             IF SplitsNext(q, threshold)
             THEN <<SubSeq(q[w + 1], threshold - Before(q, w + 1) + 1, Len(q[w + 1]))>>
                    \o SubSeq(q, w + 2, Len(q))
             ELSE back
  BY DEF Taken, Left
<1>5. front \in Seq(Seq(S)) /\ Before(q, w + 1) \in Nat /\ TokensIn(front) = Before(q, w + 1)
  <2>1. w + 1 \in 1 .. Len(q) + 1 /\ (w + 1) - 1 = w
    BY <1>1
  <2>2. SubSeq(q, 1, (w + 1) - 1) \in Seq(Seq(S)) /\ Before(q, w + 1) \in Nat
    BY <2>1, BeforeCounts
  <2> QED  BY <2>1, <2>2 DEF Before
<1>6. back \in Seq(Seq(S)) /\ front \o back = q
  <2>1. w + 1 \in Int /\ Len(q) \in Int /\ \A i \in w + 1 .. Len(q) : q[i] \in Seq(S)
    BY <1>1
  <2>2. back \in Seq(Seq(S))
    BY <2>1, SubSeqProperties
  <2>3. 1 \in 1 .. Len(q) + 1 /\ w \in 1 - 1 .. Len(q) /\ Len(q) \in w .. Len(q)
    BY <1>1
  <2>4. front \o back = SubSeq(q, 1, Len(q))
    BY <2>3, ConcatAdjacentSubSeq
  <2>5. SubSeq(q, 1, Len(q)) = q
    BY SubSeqFull
  <2> QED  BY <2>2, <2>4, <2>5
<1>7. /\ FlattenSeq(q) = FlattenSeq(front) \o FlattenSeq(back)
      /\ TokensIn(q) = TokensIn(front) + TokensIn(back)
      /\ TokensIn(back) \in Nat /\ TokensIn(front) \in Nat
  BY <1>5, <1>6, FlattenConcat, TokensInConcat, TokensInLength
<1> HIDE DEF front, back, w
<1>8. CASE ~ SplitsNext(q, threshold)
  <2>1. Taken(q, threshold) = front /\ Left(q, threshold) = back
    BY <1>4, <1>5, <1>8, ConcatEmptySeq
  <2>2. CASE w = Len(q)
    <3>1. back = <<>>
      <4>1. w + 1 \in Int /\ Len(q) \in Int /\ Len(q) < w + 1
        BY <1>1, <2>2
      <4> QED  BY <4>1, SubSeqEmpty DEF back
    <3>2. TokensIn(back) = 0
      <4>1. Before(back, 1) = 0 /\ Before(back, Len(back) + 1) = TokensIn(back)
        BY <1>6, BeforeCounts
      <4>2. Len(back) = 0
        BY <3>1, EmptySeq
      <4> QED  BY <4>1, <4>2
    <3> QED  BY <1>2, <1>5, <1>6, <1>7, <2>1, <3>2
  <2>3. CASE w # Len(q)
    <3>1. Before(q, w + 1) = threshold
      BY <1>1, <1>2, <1>3, <1>5, <1>8, <2>3
    <3> QED  BY <1>5, <1>6, <1>7, <2>1, <3>1
  <2> QED  BY <2>2, <2>3
<1>9. CASE SplitsNext(q, threshold)
  <2> DEFINE b  == q[w + 1]
             k  == threshold - Before(q, w + 1)
             b1 == SubSeq(b, 1, k)
             b2 == SubSeq(b, k + 1, Len(b))
             r  == SubSeq(q, w + 2, Len(q))
  <2>1. w + 1 \in 1 .. Len(q) /\ w < Len(q) /\ Before(q, w + 1) < threshold
    BY <1>1, <1>3, <1>9
  <2>2. b \in Seq(S) /\ Len(b) \in Nat /\ k \in 1 .. Len(b) - 1
    <3>1. b \in Seq(S) /\ Len(b) \in Nat
      BY <1>1, <2>1, LenProperties
    <3> QED  BY <1>2, <1>5, <2>1, <3>1
  <2>3. Taken(q, threshold) = front \o <<b1>> /\ Left(q, threshold) = <<b2>> \o r
    BY <1>4, <1>9
  <2> HIDE DEF k, b
  <2>4. b1 \in Seq(S) /\ b2 \in Seq(S) /\ Len(b1) = k /\ b1 \o b2 = b
    <3>1. \A i \in 1 .. Len(b) : b[i] \in S
      BY <2>2, ElementOfSeq
    <3>2. 1 \in Int /\ k \in Int /\ k + 1 \in Int /\ Len(b) \in Int /\ 1 <= k /\ k - 1 + 1 = k
          /\ (\A i \in 1 .. k : b[i] \in S) /\ \A i \in k + 1 .. Len(b) : b[i] \in S
      BY <2>2, <3>1
    <3>3. b1 \in Seq(S) /\ Len(b1) = IF 1 <= k THEN k - 1 + 1 ELSE 0
      BY <3>2, SubSeqProperties
    <3>4. b2 \in Seq(S)
      BY <3>2, SubSeqProperties
    <3>5. 1 \in 1 .. Len(b) + 1 /\ k \in 1 - 1 .. Len(b) /\ Len(b) \in k .. Len(b)
      BY <2>2
    <3>6. b1 \o b2 = SubSeq(b, 1, Len(b))
      BY <2>2, <3>5, ConcatAdjacentSubSeq
    <3> QED  BY <2>2, <3>2, <3>3, <3>4, <3>6, SubSeqFull
  <2>5. r \in Seq(Seq(S)) /\ back = <<b>> \o r
    <3>1. w + 2 \in Int /\ Len(q) \in Int /\ \A i \in w + 2 .. Len(q) : q[i] \in Seq(S)
      BY <1>1
    <3>2. r \in Seq(Seq(S))
      BY <3>1, SubSeqProperties
    <3>3. w + 1 \in 1 .. Len(q) /\ Len(q) \in w + 1 .. Len(q) /\ (w + 1) + 1 = w + 2
      BY <1>1, <2>1
    <3>4. back = <<b>> \o r
      BY <3>3, SubSeqRecursiveFirst DEF back, b
    <3> QED  BY <3>2, <3>4
  <2> HIDE DEF b1, b2, r
  <2>6. <<b1>> \in Seq(Seq(S)) /\ <<b2>> \in Seq(Seq(S)) /\ <<b>> \in Seq(Seq(S))
    BY <2>2, <2>4
  <2>7. Taken(q, threshold) \in Seq(Seq(S)) /\ Left(q, threshold) \in Seq(Seq(S))
    BY <1>5, <2>3, <2>5, <2>6, ConcatProperties
  <2> DEFINE ff == FlattenSeq(front)
             fr == FlattenSeq(r)
  <2>8. ff \in Seq(S) /\ fr \in Seq(S)
    BY <1>5, <2>5, FlattenType
  <2>9. FlattenSeq(Taken(q, threshold)) = ff \o b1 /\ FlattenSeq(Left(q, threshold)) = b2 \o fr
    <3>1. FlattenSeq(front \o <<b1>>) = ff \o FlattenSeq(<<b1>>)
      BY <1>5, <2>6, FlattenConcat
    <3>2. FlattenSeq(<<b2>> \o r) = FlattenSeq(<<b2>>) \o fr
      BY <2>5, <2>6, FlattenConcat
    <3>3. FlattenSeq(<<b1>>) = b1 /\ FlattenSeq(<<b2>>) = b2
      BY <2>4, FlattenOne
    <3> QED  BY <2>3, <3>1, <3>2, <3>3, Zenon
  <2>10. FlattenSeq(q) = ff \o (b \o fr)
    <3>1. FlattenSeq(<<b>> \o r) = FlattenSeq(<<b>>) \o fr
      BY <2>5, <2>6, FlattenConcat
    <3>2. FlattenSeq(<<b>>) = b
      BY <2>2, FlattenOne
    <3> QED  BY <1>7, <2>5, <3>1, <3>2, Zenon
  <2> HIDE DEF ff, fr
  <2>11. (ff \o b1) \o (b2 \o fr) = ff \o (b \o fr)
    <3>1. b2 \o fr \in Seq(S)
      BY <2>4, <2>8, ConcatProperties
    <3>2. \A x, y, z \in Seq(S) : (x \o y) \o z = x \o (y \o z)
      BY ConcatAssociative
    <3>3. (ff \o b1) \o (b2 \o fr) = ff \o (b1 \o (b2 \o fr))
      BY <2>4, <2>8, <3>1, <3>2, ZenonT(40)
    <3>4. b1 \o (b2 \o fr) = (b1 \o b2) \o fr
      BY <2>4, <2>8, <3>2, Zenon
    <3> QED  BY <2>4, <3>3, <3>4, Zenon
  <2>12. TokensIn(Taken(q, threshold)) = TokensIn(front) + TokensIn(<<b1>>)
    BY <1>5, <2>3, <2>6, TokensInConcat
  <2>13. TokensIn(<<b1>>) = k
    BY <2>4, TokensInOne
  <2>14. TokensIn(Taken(q, threshold)) = threshold
    BY <1>5, <2>1, <2>12, <2>13 DEF k
  <2>15. TokensIn(q) >= threshold
    <3>1. TokensIn(back) = TokensIn(<<b>>) + TokensIn(r) /\ TokensIn(r) \in Nat
      BY <2>5, <2>6, TokensInConcat, TokensInLength
    <3>2. TokensIn(<<b>>) = Len(b)
      BY <2>2, TokensInOne
    <3> QED  BY <1>5, <1>7, <2>2, <3>1, <3>2 DEF k
  <2> QED  BY <1>7, <2>7, <2>9, <2>10, <2>11, <2>14, <2>15
<1> QED  BY <1>8, <1>9

LEMMA FlattenSingles ==
  ASSUME NEW S, NEW s \in Seq(S)
  PROVE  /\ [k \in 1 .. Len(s) |-> <<s[k]>>] \in Seq(Seq(S))
         /\ FlattenSeq([k \in 1 .. Len(s) |-> <<s[k]>>]) = s
<1> DEFINE singles(t) == [k \in 1 .. Len(t) |-> <<t[k]>>]
           P == {t \in Seq(S) : singles(t) \in Seq(Seq(S)) /\ FlattenSeq(singles(t)) = t}
<1>1. <<>> \in P
  <2>1. singles(<<>>) = <<>>
    OBVIOUS
  <2>2. <<>> \in Seq(S) /\ <<>> \in Seq(Seq(S))
    BY EmptySeq
  <2> HIDE DEF singles
  <2> QED  BY <2>1, <2>2, FlattenEmpty
<1>2. ASSUME NEW t \in P, NEW x \in S PROVE Append(t, x) \in P
  <2>1. t \in Seq(S) /\ singles(t) \in Seq(Seq(S)) /\ FlattenSeq(singles(t)) = t
    OBVIOUS
  <2>2. /\ Append(t, x) \in Seq(S) /\ Len(t) \in Nat /\ Len(Append(t, x)) = Len(t) + 1
        /\ Append(t, x)[Len(t) + 1] = x /\ \A k \in 1 .. Len(t) : Append(t, x)[k] = t[k]
        /\ Append(t, x) = t \o <<x>>
    BY <2>1, AppendProperties, LenProperties, AppendIsConcat
  <2>3. <<x>> \in Seq(S)
    OBVIOUS
  <2>4. singles(Append(t, x)) = Append(singles(t), <<x>>)
    <3> DEFINE u == singles(Append(t, x))
               v == Append(singles(t), <<x>>)
    <3>1. /\ v \in Seq(Seq(S)) /\ Len(v) = Len(singles(t)) + 1
          /\ \A k \in 1 .. Len(singles(t)) : v[k] = singles(t)[k]
          /\ v[Len(singles(t)) + 1] = <<x>>
      BY <2>1, <2>3, AppendProperties
    <3>2. Len(singles(t)) = Len(t)
      BY <2>2
    <3>3. \A k \in 1 .. Len(t) + 1 : Append(t, x)[k] \in S
      BY <2>2, ElementOfSeq
    <3>4. u \in Seq(Seq(S)) /\ Len(u) = Len(t) + 1 /\ \A k \in 1 .. Len(t) + 1 : u[k] = <<Append(t, x)[k]>>
      BY <2>2, <3>3
    <3>5. \A k \in 1 .. Len(t) : v[k] = <<t[k]>>
      BY <3>1, <3>2
    <3> HIDE DEF v, u, singles
    <3>6. \A k \in 1 .. Len(u) : u[k] = v[k]
      <4> SUFFICES ASSUME NEW k \in 1 .. Len(u) PROVE u[k] = v[k]
        OBVIOUS
      <4>1. k \in 1 .. Len(t) + 1 /\ u[k] = <<Append(t, x)[k]>> /\ (k \in 1 .. Len(t) \/ k = Len(t) + 1)
        BY <2>2, <3>4
      <4>2. CASE k \in 1 .. Len(t)
        BY <2>2, <3>5, <4>1, <4>2
      <4>3. CASE k = Len(t) + 1
        BY <2>2, <3>1, <3>2, <4>1, <4>3
      <4> QED  BY <4>1, <4>2, <4>3
    <3>7. u = v
      BY <3>1, <3>2, <3>4, <3>6, SeqEqual
    <3> QED  BY <3>7 DEF u, v
  <2> HIDE DEF singles
  <2>5. Append(singles(t), <<x>>) \in Seq(Seq(S))
    BY <2>1, <2>3, AppendProperties
  <2>6. FlattenSeq(Append(singles(t), <<x>>)) = FlattenSeq(singles(t)) \o <<x>>
    BY <2>1, <2>3, FlattenAppend
  <2>7. singles(Append(t, x)) \in Seq(Seq(S)) /\ FlattenSeq(singles(Append(t, x))) = Append(t, x)
    BY <2>1, <2>2, <2>4, <2>5, <2>6
  <2> QED  BY <2>2, <2>7
<1>3. P = Seq(S)
  <2>1. P \in SUBSET Seq(S)
    OBVIOUS
  <2> HIDE DEF P
  <2> QED  BY <1>1, <1>2, <2>1, SequenceInduction
<1> QED  BY <1>3

-----------------------------------------------------------------------------
(* How often the elements of a set occur in a queue.                       *)
Hits(s, T) == Cardinality({i \in DOMAIN s : s[i] \in T})

LEMMA HitsType ==
  ASSUME NEW S, NEW s \in Seq(S), NEW T
  PROVE  /\ Hits(s, T) \in Nat /\ Hits(s, T) <= Len(s)
         /\ Hits(s, T) = 0 <=> \A i \in 1 .. Len(s) : s[i] \notin T
         /\ (\A i \in 1 .. Len(s) : s[i] \in T) => Hits(s, T) = Len(s)
<1>1. Len(s) \in Nat /\ DOMAIN s = 1 .. Len(s)
  BY LenProperties
<1>2. IsFiniteSet(1 .. Len(s)) /\ Cardinality(1 .. Len(s)) = Len(s)
  BY <1>1, FS_Interval
<1> DEFINE H == {i \in 1 .. Len(s) : s[i] \in T}
<1>3. IsFiniteSet(H) /\ Cardinality(H) <= Len(s) /\ Cardinality(H) \in Nat
  <2>1. H \subseteq 1 .. Len(s)
    OBVIOUS
  <2> QED  BY <1>2, <2>1, FS_Subset, FS_CardinalityType
<1>4. Cardinality(H) = 0 <=> H = {}
  BY <1>3, FS_EmptySet
<1>5. (\A i \in 1 .. Len(s) : s[i] \in T) => H = 1 .. Len(s)
  OBVIOUS
<1> QED  BY <1>1, <1>2, <1>3, <1>4, <1>5 DEF Hits

LEMMA HitsEmpty == ASSUME NEW T PROVE Hits(<<>>, T) = 0
<1>1. {i \in DOMAIN <<>> : <<>>[i] \in T} = {}
  OBVIOUS
<1> QED  BY <1>1, FS_EmptySet DEF Hits

LEMMA HitsAppend ==
  ASSUME NEW S, NEW s \in Seq(S), NEW x \in S, NEW T
  PROVE  Hits(Append(s, x), T) = Hits(s, T) + IF x \in T THEN 1 ELSE 0
<1>1. /\ Len(s) \in Nat /\ DOMAIN s = 1 .. Len(s) /\ DOMAIN Append(s, x) = 1 .. Len(s) + 1
      /\ \A i \in 1 .. Len(s) : Append(s, x)[i] = s[i]
      /\ Append(s, x)[Len(s) + 1] = x
  BY LenProperties, AppendProperties
<1> DEFINE H == {i \in 1 .. Len(s) : s[i] \in T}
           G == {i \in 1 .. Len(s) + 1 : Append(s, x)[i] \in T}
<1>2. Hits(s, T) = Cardinality(H) /\ Hits(Append(s, x), T) = Cardinality(G)
  BY <1>1 DEF Hits
<1>3. IsFiniteSet(H) /\ Cardinality(H) \in Nat
  <2>1. H \subseteq 1 .. Len(s) /\ IsFiniteSet(1 .. Len(s))
    BY <1>1, FS_Interval
  <2> QED  BY <2>1, FS_Subset, FS_CardinalityType
<1>4. CASE x \in T
  <2>1. G = H \cup {Len(s) + 1} /\ Len(s) + 1 \notin H
    BY <1>1, <1>4
  <2> HIDE DEF H, G
  <2> QED  BY <1>2, <1>3, <1>4, <2>1, FS_AddElement
<1>5. CASE x \notin T
  <2>1. G = H
    BY <1>1, <1>5
  <2> HIDE DEF H, G
  <2> QED  BY <1>2, <1>3, <1>5, <2>1
<1> QED  BY <1>4, <1>5

LEMMA HitsConcat ==
  ASSUME NEW S, NEW s \in Seq(S), NEW t \in Seq(S), NEW T
  PROVE  Hits(s \o t, T) = Hits(s, T) + Hits(t, T)
<1> DEFINE P == {u \in Seq(S) : Hits(s \o u, T) = Hits(s, T) + Hits(u, T)}
<1>1. <<>> \in P
  BY ConcatEmptySeq, EmptySeq, HitsEmpty, HitsType
<1>2. ASSUME NEW u \in P, NEW x \in S PROVE Append(u, x) \in P
  <2>1. s \o u \in Seq(S) /\ Append(u, x) \in Seq(S) /\ <<x>> \in Seq(S)
    BY ConcatProperties, AppendProperties
  <2>2. s \o Append(u, x) = Append(s \o u, x)
    <3>1. Append(u, x) = u \o <<x>> /\ Append(s \o u, x) = (s \o u) \o <<x>>
      BY <2>1, AppendIsConcat
    <3>2. (s \o u) \o <<x>> = s \o (u \o <<x>>)
      BY <2>1, ConcatAssociative
    <3> QED  BY <3>1, <3>2
  <2>3. Hits(Append(s \o u, x), T) = Hits(s \o u, T) + IF x \in T THEN 1 ELSE 0
    BY <2>1, HitsAppend
  <2>4. Hits(Append(u, x), T) = Hits(u, T) + IF x \in T THEN 1 ELSE 0
    BY HitsAppend
  <2>5. Hits(u, T) \in Nat /\ Hits(s, T) \in Nat
    BY HitsType
  <2>6. Hits(s \o u, T) = Hits(s, T) + Hits(u, T)
    OBVIOUS
  <2>7. Hits(s \o Append(u, x), T) = Hits(s, T) + Hits(Append(u, x), T)
    BY <2>2, <2>3, <2>4, <2>5, <2>6
  <2> QED  BY <2>1, <2>7
<1>3. P = Seq(S)
  <2>1. P \in SUBSET Seq(S)
    OBVIOUS
  <2> HIDE DEF P
  <2> QED  BY <1>1, <1>2, <2>1, SequenceInduction
<1> QED  BY <1>3

LEMMA HitsTail ==
  ASSUME NEW S, NEW s \in Seq(S), s # <<>>, NEW T
  PROVE  Hits(s, T) = Hits(Tail(s), T) + IF Head(s) \in T THEN 1 ELSE 0
<1>1. Len(s) \in Nat \ {0} /\ Head(s) = s[1] /\ Head(s) \in S /\ Tail(s) \in Seq(S)
  BY EmptySeq, HeadTailProperties
<1>2. s = <<s[1]>> \o Tail(s)
  <2>1. SubSeq(s, 1, Len(s)) = <<s[1]>> \o SubSeq(s, 2, Len(s))
    <3>1. 1 \in 1 .. Len(s) /\ Len(s) \in 1 .. Len(s) /\ 1 + 1 = 2
      BY <1>1
    <3> QED  BY <3>1, SubSeqRecursiveFirst
  <2> QED  BY <2>1, SubSeqFull, TailIsSubSeq
<1>3. Append(<<>>, s[1]) = <<s[1]>> /\ <<s[1]>> \in Seq(S) /\ <<>> \in Seq(S)
  BY <1>1
<1>4. Hits(<<s[1]>>, T) = IF s[1] \in T THEN 1 ELSE 0
  <2>1. Hits(Append(<<>>, s[1]), T) = Hits(<<>>, T) + IF s[1] \in T THEN 1 ELSE 0
    <3>1. \A q \in Seq(S) : \A x \in S : Hits(Append(q, x), T) = Hits(q, T) + IF x \in T THEN 1 ELSE 0
      BY HitsAppend
    <3>2. <<>> \in Seq(S) /\ s[1] \in S
      BY <1>1, <1>3
    <3> HIDE DEF Hits
    <3> QED  BY <3>1, <3>2, Zenon
  <2> QED  BY <1>3, <2>1, HitsEmpty
<1>5. Hits(<<s[1]>> \o Tail(s), T) = Hits(<<s[1]>>, T) + Hits(Tail(s), T)
  BY <1>1, <1>3, HitsConcat
<1>6. Hits(s, T) = Hits(<<s[1]>>, T) + Hits(Tail(s), T)
  BY <1>2, <1>5
<1>7. Hits(Tail(s), T) \in Nat
  BY <1>1, HitsType
<1> QED  BY <1>1, <1>4, <1>6, <1>7

LEMMA SplitAt ==
  ASSUME NEW S, NEW s \in Seq(S), NEW n \in 0 .. Len(s)
  PROVE  /\ SubSeq(s, 1, n) \in Seq(S) /\ SubSeq(s, n + 1, Len(s)) \in Seq(S)
         /\ Len(SubSeq(s, 1, n)) = n /\ Len(SubSeq(s, n + 1, Len(s))) = Len(s) - n
         /\ s = SubSeq(s, 1, n) \o SubSeq(s, n + 1, Len(s))
<1>1. Len(s) \in Nat /\ \A i \in 1 .. Len(s) : s[i] \in S
  BY LenProperties
<1>2. SubSeq(s, 1, n) \in Seq(S) /\ Len(SubSeq(s, 1, n)) = n
  BY <1>1, SubSeqProperties
<1>3. SubSeq(s, n + 1, Len(s)) \in Seq(S) /\ Len(SubSeq(s, n + 1, Len(s))) = Len(s) - n
  BY <1>1, SubSeqProperties
<1>4. SubSeq(s, 1, n) \o SubSeq(s, n + 1, Len(s)) = SubSeq(s, 1, Len(s))
  <2>1. 1 \in 1 .. Len(s) + 1 /\ n \in 1 - 1 .. Len(s) /\ Len(s) \in n .. Len(s)
    BY <1>1
  <2> QED  BY <2>1, ConcatAdjacentSubSeq
<1> QED  BY <1>2, <1>3, <1>4, SubSeqFull

LEMMA HitsSplit ==
  ASSUME NEW S, NEW s \in Seq(S), NEW n \in 0 .. Len(s), NEW T
  PROVE  Hits(s, T) = Hits(SubSeq(s, 1, n), T) + Hits(SubSeq(s, n + 1, Len(s)), T)
<1> DEFINE front == SubSeq(s, 1, n)
           back  == SubSeq(s, n + 1, Len(s))
<1>1. front \in Seq(S) /\ back \in Seq(S) /\ s = front \o back
  BY SplitAt
<1> HIDE DEF front, back
<1>2. Hits(front \o back, T) = Hits(front, T) + Hits(back, T)
  BY <1>1, HitsConcat
<1>3. Hits(s, T) = Hits(front, T) + Hits(back, T)
  BY <1>1, <1>2
<1> QED  BY <1>3 DEF front, back

(* Two values differ in one place: so do their totals.                     *)
LEMMA TotalPoint ==
  ASSUME NEW S, IsFiniteSet(S), NEW f, NEW h, \A y \in S : f[y] \in Nat /\ h[y] \in Nat,
         NEW x \in S, \A y \in S : y # x => h[y] = f[y]
  PROVE  Total(h, S) + f[x] = Total(f, S) + h[x]
<1>1. IsFiniteSet(S \ {x}) /\ S = (S \ {x}) \cup {x} /\ x \notin S \ {x}
  BY FS_RemoveElement
<1>2. Total(f, S) = Total(f, S \ {x}) + f[x] /\ Total(h, S) = Total(h, S \ {x}) + h[x]
  BY <1>1, TotalAdd
<1>3. Total(f, S \ {x}) = Total(h, S \ {x})
  <2>1. \A y \in S \ {x} : f[y] = h[y]
    OBVIOUS
  <2> QED  BY <2>1, TotalSame
<1>4. Total(f, S \ {x}) \in Nat
  BY <1>1, TotalType
<1> QED  BY <1>2, <1>3, <1>4

(* A member contributes at most the total.                                 *)
LEMMA TotalAtLeast ==
  ASSUME NEW S, IsFiniteSet(S), NEW f, \A y \in S : f[y] \in Nat, NEW x \in S
  PROVE  f[x] <= Total(f, S)
<1>1. IsFiniteSet(S \ {x}) /\ S = (S \ {x}) \cup {x} /\ x \notin S \ {x}
  BY FS_RemoveElement
<1>2. Total(f, S) = Total(f, S \ {x}) + f[x] /\ Total(f, S \ {x}) \in Nat
  BY <1>1, TotalAdd, TotalType
<1> QED  BY <1>2

(* One for each member of a subset: its cardinality.                       *)
LEMMA TotalCounts ==
  ASSUME NEW S, IsFiniteSet(S), NEW T \in SUBSET S, NEW f,
         \A x \in S : f[x] = IF x \in T THEN 1 ELSE 0
  PROVE  Total(f, S) = Cardinality(T)
<1>1. IsFiniteSet(T) /\ IsFiniteSet(S)
  BY FS_Subset
<1>2. Units(f, S) = T \X {1}
  <2>1. ASSUME NEW u \in Units(f, S) PROVE u \in T \X {1}
    <3>1. PICK x \in S : \E i \in 1 .. f[x] : u = <<x, i>>
      BY <2>1, UnitsMember
    <3>2. PICK i \in 1 .. f[x] : u = <<x, i>>
      BY <3>1
    <3> QED  BY <3>1, <3>2
  <2>2. ASSUME NEW x \in T PROVE <<x, 1>> \in Units(f, S)
    <3>1. 1 \in 1 .. f[x] /\ x \in S
      OBVIOUS
    <3> QED  BY <3>1, UnitsMember
  <2> QED  BY <2>1, <2>2
<1>3. IsFiniteSet({1}) /\ Cardinality({1}) = 1
  BY FS_Singleton
<1>4. Cardinality(T \X {1}) = Cardinality(T) * 1
  BY <1>1, <1>3, FS_Product
<1>5. Cardinality(T) \in Nat /\ \A n \in Nat : n * 1 = n
  BY <1>1, FS_CardinalityType
<1> QED  BY <1>2, <1>4, <1>5 DEF Total

(* The largest of some numbers, the larger and the smaller of two.         *)
LEMMA MaxIs ==
  ASSUME NEW S \in SUBSET Nat, IsFiniteSet(S), S # {}
  PROVE  Max(S) \in S /\ \A y \in S : y <= Max(S)
<1> DEFINE R == {p \in S \X S : p[1] > p[2]}
<1>1. \A x, y \in S : <<x, y>> \in R <=> x > y
  OBVIOUS
<1> HIDE DEF R
<1>2. \A x \in S : x \in Nat
  OBVIOUS
<1>3. PICK x \in S : \A y \in S : <<y, x>> \notin R
  <2>1. \A x, y, z \in S : <<x, y>> \in R /\ <<y, z>> \in R => <<x, z>> \in R
    BY <1>1, <1>2
  <2>2. \A x \in S : <<x, x>> \notin R
    BY <1>1, <1>2
  <2> QED  BY <2>1, <2>2, MinimalExists
<1>4. \A y \in S : x >= y
  <2>1. \A y \in S : ~(y > x)
    BY <1>1, <1>3
  <2> QED  BY <1>2, <2>1
<1>5. Max(S) \in S /\ \A y \in S : Max(S) >= y
  BY <1>4 DEF Max
<1> QED  BY <1>2, <1>5

LEMMA MaxOfTwo ==
  ASSUME NEW a \in Nat, NEW b \in Nat
  PROVE  Max({a, b}) \in Nat /\ a <= Max({a, b}) /\ b <= Max({a, b}) /\ Max({a, b}) \in {a, b}
<1>1. IsFiniteSet({a, b}) /\ {a, b} \in SUBSET Nat /\ {a, b} # {}
  <2>1. {a, b} = {a} \cup {b}
    OBVIOUS
  <2>2. IsFiniteSet({a} \cup {b})
    BY FS_Singleton, FS_AddElement
  <2> QED  BY <2>1, <2>2
<1> QED  BY <1>1, MaxIs

LEMMA MinOfTwo ==
  ASSUME NEW a \in Int, NEW b \in Int
  PROVE  Min({a, b}) = IF a <= b THEN a ELSE b
<1>1. \E x \in {a, b} : \A y \in {a, b} : x =< y
  OBVIOUS
<1> QED  BY <1>1 DEF Min

LEMMA LargerOfTwo ==
  ASSUME NEW a \in Int, NEW b \in Int
  PROVE  Max({a, b}) = IF a <= b THEN b ELSE a
<1>1. \E x \in {a, b} : \A y \in {a, b} : x >= y
  OBVIOUS
<1> QED  BY <1>1 DEF Max

(* An interval with one more number.                                       *)
LEMMA OneMore ==
  ASSUME NEW n \in Nat, NEW k \in Nat, k + 1 <= n
  PROVE  /\ k \in 0 .. n - 1 /\ k <= n /\ k \in 0 .. n
         /\ 0 .. (k + 1) - 1 = 0 .. k - 1 \cup {k} /\ k \notin 0 .. k - 1
         /\ IsFiniteSet(0 .. k - 1) /\ \A y \in 0 .. k - 1 \cup {k} : y \in 0 .. n - 1
<1>1. IsFiniteSet(0 .. k - 1)
  BY FS_Interval
<1>2. \A y \in 0 .. k - 1 \cup {k} : y \in 0 .. n - 1
  OBVIOUS
<1> QED  BY <1>1, <1>2

(* The elements of a row of queues that follow one another.                *)
IsRow(all, F, n, S) ==
  all = FlattenSeq([i \in 1 .. n |-> F[i - 1]]) /\ \A x \in 0 .. n - 1 : F[x] \in Seq(S)

HitsOfRow(hits, F, D, T) == \A x \in D : hits[x] = Hits(F[x], T)
LensOfRow(lens, F, D) == \A x \in D : lens[x] = Len(F[x])

LEMMA FlattenRow ==
  ASSUME NEW S, NEW n \in Nat, NEW D, D = 0 .. n - 1, NEW F, NEW all, IsRow(all, F, n, S),
         NEW T, NEW hits, HitsOfRow(hits, F, D, T), NEW lens, LensOfRow(lens, F, D)
  PROVE  all \in Seq(S) /\ Hits(all, T) = Total(hits, D) /\ Len(all) = Total(lens, D)
<1>0. /\ \A x \in 0 .. n - 1 : F[x] \in Seq(S) /\ hits[x] = Hits(F[x], T) /\ lens[x] = Len(F[x])
      /\ all = FlattenSeq([i \in 1 .. n |-> F[i - 1]])
  BY DEF IsRow, HitsOfRow, LensOfRow
<1> DEFINE row(k) == [i \in 1 .. k |-> F[i - 1]]
           N == {k \in Nat : k <= n =>
                   /\ row(k) \in Seq(Seq(S)) /\ FlattenSeq(row(k)) \in Seq(S)
                   /\ Hits(FlattenSeq(row(k)), T) = Total(hits, 0 .. k - 1)
                   /\ Len(FlattenSeq(row(k))) = Total(lens, 0 .. k - 1)}
<1>1. 0 \in N
  <2>1. row(0) = <<>> /\ 0 .. 0 - 1 = {}
    OBVIOUS
  <2>2. FlattenSeq(<<>>) = <<>> /\ <<>> \in Seq(S) /\ <<>> \in Seq(Seq(S)) /\ Len(<<>>) = 0
    BY FlattenEmpty, EmptySeq
  <2>3. Hits(<<>>, T) = 0 /\ Total(hits, {}) = 0 /\ Total(lens, {}) = 0
    BY HitsEmpty, TotalEmpty
  <2> HIDE DEF row
  <2> QED  BY <2>1, <2>2, <2>3
<1>2. ASSUME NEW k \in N PROVE k + 1 \in N
  <2> SUFFICES ASSUME k + 1 <= n
               PROVE  /\ row(k + 1) \in Seq(Seq(S)) /\ FlattenSeq(row(k + 1)) \in Seq(S)
                      /\ Hits(FlattenSeq(row(k + 1)), T) = Total(hits, 0 .. (k + 1) - 1)
                      /\ Len(FlattenSeq(row(k + 1))) = Total(lens, 0 .. (k + 1) - 1)
    OBVIOUS
  <2>1. /\ k \in Nat /\ k \in 0 .. n - 1 /\ F[k] \in Seq(S) /\ k <= n
        /\ 0 .. (k + 1) - 1 = 0 .. k - 1 \cup {k} /\ k \notin 0 .. k - 1
        /\ IsFiniteSet(0 .. k - 1)
    BY <1>0, OneMore
  <2>2. /\ row(k) \in Seq(Seq(S)) /\ FlattenSeq(row(k)) \in Seq(S)
        /\ Hits(FlattenSeq(row(k)), T) = Total(hits, 0 .. k - 1)
        /\ Len(FlattenSeq(row(k))) = Total(lens, 0 .. k - 1)
    BY <2>1
  <2>3. row(k + 1) = Append(row(k), F[k]) /\ row(k + 1) \in Seq(Seq(S))
    <3>1. Append(row(k), F[k]) \in Seq(Seq(S)) /\ Len(row(k)) = k
      BY <2>1, <2>2, AppendProperties
    <3>2. row(k + 1) \in Seq(Seq(S))
      <4>1. \A i \in 1 .. k + 1 : F[i - 1] \in Seq(S)
        BY <1>0, <2>1
      <4> QED  BY <2>1, <4>1
    <3>3. Len(Append(row(k), F[k])) = k + 1 /\ Len(row(k + 1)) = k + 1
      BY <2>1
    <3>4. \A i \in 1 .. k + 1 : Append(row(k), F[k])[i] = row(k + 1)[i]
      BY <2>1
    <3> HIDE DEF row
    <3> QED  BY <3>1, <3>2, <3>3, <3>4, SeqEqual
  <2> HIDE DEF row
  <2>4. FlattenSeq(row(k + 1)) = FlattenSeq(row(k)) \o F[k]
    BY <2>1, <2>2, <2>3, FlattenAppend
  <2>5. /\ FlattenSeq(row(k + 1)) \in Seq(S)
        /\ Len(FlattenSeq(row(k + 1))) = Len(FlattenSeq(row(k))) + Len(F[k])
        /\ Hits(FlattenSeq(row(k + 1)), T) = Hits(FlattenSeq(row(k)), T) + Hits(F[k], T)
    <3>1. \A s, t \in Seq(S) : /\ s \o t \in Seq(S) /\ Len(s \o t) = Len(s) + Len(t)
                             /\ Hits(s \o t, T) = Hits(s, T) + Hits(t, T)
      BY ConcatProperties, HitsConcat
    <3>2. PICK p \in Seq(S) : p = FlattenSeq(row(k))
      BY <2>2
    <3>3. FlattenSeq(row(k + 1)) = p \o F[k]
      BY <2>4, <3>2
    <3>4. /\ p \o F[k] \in Seq(S) /\ Len(p \o F[k]) = Len(p) + Len(F[k])
          /\ Hits(p \o F[k], T) = Hits(p, T) + Hits(F[k], T)
      BY <2>1, <3>1
    <3> HIDE DEF N
    <3> QED  BY <3>2, <3>3, <3>4
  <2>7. \A y \in 0 .. k - 1 \cup {k} : hits[y] \in Nat /\ lens[y] \in Nat
    <3>1. \A y \in 0 .. k - 1 \cup {k} : y \in 0 .. n - 1
      BY <2>1
    <3>2. \A y \in 0 .. n - 1 : Hits(F[y], T) \in Nat /\ Len(F[y]) \in Nat
      BY <1>0, HitsType, LenProperties
    <3> QED  BY <1>0, <3>1, <3>2
  <2>8. hits[k] = Hits(F[k], T) /\ lens[k] = Len(F[k])
    BY <1>0, <2>1
  <2>9. /\ Total(hits, 0 .. k - 1 \cup {k}) = Total(hits, 0 .. k - 1) + hits[k]
        /\ Total(lens, 0 .. k - 1 \cup {k}) = Total(lens, 0 .. k - 1) + lens[k]
    BY <2>1, <2>7, TotalAdd
  <2> QED  BY <2>1, <2>2, <2>3, <2>5, <2>8, <2>9
<1>3. n \in N
  <2>1. N \in SUBSET Nat
    OBVIOUS
  <2> HIDE DEF N
  <2> QED  BY <1>1, <1>2, <2>1, NumberInduction
<1> QED  BY <1>0, <1>3

(* Shares of a capacity, handed out in order.                              *)
LEMMA SharesWithinCap ==
  ASSUME NEW n \in Nat, NEW cap \in Nat, NEW len, NEW share,
         \A x \in 0 .. n - 1 : len[x] \in Nat,
         \A x \in 0 .. n - 1 : share[x] = Min({len[x], Max({0, cap - Total(len, 0 .. x - 1)})})
  PROVE  /\ \A x \in 0 .. n - 1 : share[x] \in 0 .. len[x]
         /\ Total(share, 0 .. n - 1) <= cap
<1> DEFINE sofar(k) == Total(len, 0 .. k - 1)
<1>1. \A k \in 0 .. n : sofar(k) \in Nat
  <2> SUFFICES ASSUME NEW k \in 0 .. n PROVE Total(len, 0 .. k - 1) \in Nat
    OBVIOUS
  <2>1. IsFiniteSet(0 .. k - 1) /\ \A y \in 0 .. k - 1 : len[y] \in Nat
    <3>1. k - 1 \in Int /\ \A y \in 0 .. k - 1 : y \in 0 .. n - 1
      OBVIOUS
    <3> QED  BY <3>1, FS_Interval
  <2> QED  BY <2>1, TotalType
<1>2. \A x \in 0 .. n - 1 : share[x] = Min({len[x], Max({0, cap - sofar(x)})})
  OBVIOUS
<1> HIDE DEF sofar
<1>3. ASSUME NEW x \in 0 .. n - 1
      PROVE  /\ share[x] \in 0 .. len[x]
             /\ sofar(x) <= cap => share[x] = IF len[x] <= cap - sofar(x) THEN len[x] ELSE cap - sofar(x)
             /\ sofar(x) > cap => share[x] = 0
  <2>1. sofar(x) \in Nat /\ len[x] \in Nat
    <3>1. x \in 0 .. n
      OBVIOUS
    <3> QED  BY <1>1, <3>1
  <2>2. Max({0, cap - sofar(x)}) = IF 0 <= cap - sofar(x) THEN cap - sofar(x) ELSE 0
    BY <2>1, LargerOfTwo
  <2>3. Max({0, cap - sofar(x)}) \in Int
    BY <2>1, <2>2
  <2>4. share[x] = IF len[x] <= Max({0, cap - sofar(x)}) THEN len[x] ELSE Max({0, cap - sofar(x)})
    <3>1. \A a, b \in Int : Min({a, b}) = IF a <= b THEN a ELSE b
      BY MinOfTwo
    <3>2. len[x] \in Int
      BY <2>1
    <3>3. Min({len[x], Max({0, cap - sofar(x)})})
            = IF len[x] <= Max({0, cap - sofar(x)}) THEN len[x] ELSE Max({0, cap - sofar(x)})
      BY <2>3, <3>1, <3>2, Zenon
    <3> QED  BY <1>2, <3>3
  <2> QED  BY <2>1, <2>2, <2>4
<1> DEFINE N == {k \in Nat : k <= n =>
                   Total(share, 0 .. k - 1) = IF sofar(k) <= cap THEN sofar(k) ELSE cap}
<1>4. 0 \in N
  <2>1. 0 .. 0 - 1 = {}
    OBVIOUS
  <2> QED  BY <2>1, TotalEmpty DEF sofar
<1>5. ASSUME NEW k \in N PROVE k + 1 \in N
  <2> SUFFICES ASSUME k + 1 <= n
               PROVE  Total(share, 0 .. (k + 1) - 1) = IF sofar(k + 1) <= cap THEN sofar(k + 1) ELSE cap
    OBVIOUS
  <2>1. /\ k \in Nat /\ k \in 0 .. n - 1 /\ k <= n /\ k \in 0 .. n
        /\ 0 .. (k + 1) - 1 = 0 .. k - 1 \cup {k} /\ k \notin 0 .. k - 1
        /\ IsFiniteSet(0 .. k - 1) /\ \A y \in 0 .. k - 1 \cup {k} : y \in 0 .. n - 1
    BY OneMore
  <2>2. \A y \in 0 .. k - 1 \cup {k} : len[y] \in Nat /\ share[y] \in Nat
    <3>1. \A y \in 0 .. n - 1 : len[y] \in Nat
      OBVIOUS
    <3>2. \A y \in 0 .. n - 1 : share[y] \in 0 .. len[y]
      BY <1>3
    <3>3. \A a \in Nat : \A b \in 0 .. a : b \in Nat
      OBVIOUS
    <3> HIDE DEF N
    <3> QED  BY <2>1, <3>1, <3>2, <3>3
  <2>3. /\ Total(share, 0 .. k - 1 \cup {k}) = Total(share, 0 .. k - 1) + share[k]
        /\ Total(len, 0 .. k - 1 \cup {k}) = Total(len, 0 .. k - 1) + len[k]
    BY <2>1, <2>2, TotalAdd
  <2>4. sofar(k + 1) = sofar(k) + len[k]
    BY <2>1, <2>3 DEF sofar
  <2>5. Total(share, 0 .. k - 1) = IF sofar(k) <= cap THEN sofar(k) ELSE cap
    BY <2>1
  <2>6. Total(share, 0 .. (k + 1) - 1) = Total(share, 0 .. k - 1) + share[k]
    BY <2>1, <2>3
  <2>7. sofar(k) \in Nat /\ len[k] \in Nat
    BY <1>1, <2>1
  <2>8. /\ sofar(k) <= cap => share[k] = IF len[k] <= cap - sofar(k) THEN len[k] ELSE cap - sofar(k)
        /\ sofar(k) > cap => share[k] = 0
    BY <1>3, <2>1
  <2> HIDE DEF N
  <2> QED  BY <2>4, <2>5, <2>6, <2>7, <2>8
<1>6. n \in N
  <2>1. N \in SUBSET Nat
    OBVIOUS
  <2> HIDE DEF N
  <2> QED  BY <1>4, <1>5, <2>1, NumberInduction
<1>7. n \in 0 .. n
  OBVIOUS
<1> QED  BY <1>1, <1>3, <1>6, <1>7

(* The classes of a finite set make up the set.                            *)
LEMMA TotalOfClasses ==
  ASSUME NEW n \in Nat, NEW E, IsFiniteSet(E), NEW m, \A e \in E : m[e] \in 0 .. n - 1
  PROVE  Total([g \in 0 .. n - 1 |-> Cardinality({e \in E : m[e] = g})], 0 .. n - 1) = Cardinality(E)
<1> DEFINE class(g) == {e \in E : m[e] = g}
           upto(k)  == {e \in E : m[e] < k}
           f == [g \in 0 .. n - 1 |-> Cardinality(class(g))]
           N == {k \in Nat : k <= n => Total(f, 0 .. k - 1) = Cardinality(upto(k))}
<1>1. 0 \in N
  <2>1. 0 .. 0 - 1 = {} /\ upto(0) = {}
    OBVIOUS
  <2> HIDE DEF f, upto
  <2> QED  BY <2>1, TotalEmpty, FS_EmptySet
<1>2. ASSUME NEW k \in N PROVE k + 1 \in N
  <2> SUFFICES ASSUME k + 1 <= n PROVE Total(f, 0 .. (k + 1) - 1) = Cardinality(upto(k + 1))
    <3> HIDE DEF f, upto
    <3> QED  OBVIOUS
  <2>1. /\ k \in Nat /\ k \in 0 .. n - 1 /\ k <= n
        /\ 0 .. (k + 1) - 1 = 0 .. k - 1 \cup {k} /\ k \notin 0 .. k - 1
        /\ IsFiniteSet(0 .. k - 1) /\ \A y \in 0 .. k - 1 \cup {k} : y \in 0 .. n - 1
    BY OneMore
  <2>2. \A g : class(g) \subseteq E /\ IsFiniteSet(class(g)) /\ Cardinality(class(g)) \in Nat
    <3> TAKE g
    <3>1. class(g) \in SUBSET E
      OBVIOUS
    <3> HIDE DEF class
    <3> QED  BY <3>1, FS_Subset, FS_CardinalityType
  <2>3. IsFiniteSet(upto(k)) /\ Cardinality(upto(k)) \in Nat
    <3>1. upto(k) \in SUBSET E
      OBVIOUS
    <3> HIDE DEF upto
    <3> QED  BY <3>1, FS_Subset, FS_CardinalityType
  <2>4. upto(k + 1) = upto(k) \cup class(k) /\ upto(k) \cap class(k) = {}
    BY <2>1
  <2>5. Total(f, 0 .. k - 1) = Cardinality(upto(k))
    BY <2>1
  <2>6. f[k] = Cardinality(class(k)) /\ \A y \in 0 .. k - 1 \cup {k} : f[y] \in Nat
    BY <2>1, <2>2
  <2> HIDE DEF f, upto, class
  <2>7. Total(f, 0 .. k - 1 \cup {k}) = Total(f, 0 .. k - 1) + f[k]
    BY <2>1, <2>6, TotalAdd
  <2>8. Cardinality(upto(k) \cup class(k)) = Cardinality(upto(k)) + Cardinality(class(k)) - Cardinality({})
    BY <2>2, <2>3, <2>4, FS_Union
  <2>9. Cardinality({}) = 0
    BY FS_EmptySet
  <2>10. Cardinality(upto(k + 1)) = Cardinality(upto(k)) + Cardinality(class(k))
    <3>1. \A a, b \in Nat : a + b - 0 = a + b
      OBVIOUS
    <3> QED  BY <2>2, <2>3, <2>4, <2>8, <2>9, <3>1, Zenon
  <2> QED  BY <2>1, <2>5, <2>6, <2>7, <2>10
<1>3. n \in N
  <2>1. N \in SUBSET Nat
    OBVIOUS
  <2> HIDE DEF N
  <2> QED  BY <1>1, <1>2, <2>1, NumberInduction
<1>4. upto(n) = E
  OBVIOUS
<1> QED  BY <1>3, <1>4
=============================================================================
