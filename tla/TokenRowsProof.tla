--------------------------- MODULE TokenRowsProof ---------------------------
(***************************************************************************)
(* Proofs about TokenRows: on every worker count, gate choice and split,   *)
(* the replies of a request are neither lost nor invented, no expert a     *)
(* gate chose is gone through twice, and batches come back with their      *)
(* prefills first.                                                         *)
(*                                                                         *)
(* A row has no identity of its own.  What is followed instead is its tag: *)
(* the request it answers, the attention worker it belongs to, the hidden  *)
(* state it holds and the expert that state is for.  The heart of the      *)
(* invariant is that no tag is ever in two places (NoRowTwice), so sets of *)
(* tags count rows; merging, sorting and cutting move tags and never       *)
(* change them.                                                            *)
(***************************************************************************)
EXTENDS TokenRows, CollectionFacts, FunctionTheorems

Sent == [req : Req, dp : Dp, exp : Expert, weight : Req \X Expert, of : Req,
         by : {None}, scaled : {None}]
Replied == [req : Req, dp : Dp, of : Req, by : Expert,
            scaled : (Req \X Expert) \cup {None}]
Row == Sent \cup Replied

Selections(k) == {es \in [1 .. k -> Expert] : IsInjective(es)}

TypeOK ==
  /\ \E k \in 1 .. NumExperts : gate \in [Req -> Selections(k)]
  /\ todo \in [Dp -> Seq(Req)]
  /\ toExpert \subseteq [to : Rank, rows : Seq(Sent)]
  /\ queue \in [Rank -> Seq(Seq(Sent))]
  /\ toAttn \subseteq [to : Dp, rows : Seq(Replied)]
  /\ held \in [Req -> Seq(Replied)]

(* The expert a row is sent to, or went through; what is left of a row when *)
(* its place is forgotten.                                                  *)
Through(row) == IF row.by = None THEN row.exp ELSE row.by

Tag(row) == [req |-> row.req, dp |-> row.dp, of |-> row.of, exp |-> Through(row)]

Tags(rows) == {Tag(rows[i]) : i \in DOMAIN rows}

Distinct(rows) == \A i, j \in DOMAIN rows : Tag(rows[i]) = Tag(rows[j]) => i = j

(* Where rows are.                                                          *)
Lanes == ({"toExpert"} \X toExpert) \cup ({"queue"} \X Rank)
           \cup ({"toAttn"} \X toAttn) \cup ({"held"} \X Req)

RowsIn(l) ==
  IF l[1] \in {"toExpert", "toAttn"} THEN l[2].rows
  ELSE IF l[1] = "queue" THEN FlattenSeq(queue[l[2]])
  ELSE held[l[2]]

LaneRows == [l \in Lanes |-> RowsIn(l)]

(* No tag is at two places, and the tags that are at some place.            *)
Apart(lanes, rows) ==
  /\ \A l \in lanes : Distinct(rows[l])
  /\ \A k, l \in lanes : k # l => Tags(rows[k]) \cap Tags(rows[l]) = {}

TagsAt(lanes, rows) == UNION {Tags(rows[l]) : l \in lanes}

Abroad == TagsAt(Lanes, LaneRows)

CopiesFor(q, tags) == {x \in tags : x.req = q}

WaitsFor(q) == q \in Range(todo[Home[q]])

TodoOnce ==
  \A d \in Dp : /\ IsInjective(todo[d])
                /\ \A i \in DOMAIN todo[d] : Home[todo[d][i]] = d

NoRowTwice == Apart(Lanes, LaneRows)

OncePerExpert(tags) == \A x, y \in tags : x.of = y.of /\ x.exp = y.exp => x = y

TagsRight ==
  /\ OncePerExpert(Abroad)
  /\ \A x \in Abroad : /\ x.dp = Home[x.req]
                       /\ x.exp \in Range(gate[x.of])
                       /\ ~ WaitsFor(x.of)
                       /\ TopK = 1 => x.of = x.req

CopiesCounted ==
  \A q \in Req : /\ IsFiniteSet(CopiesFor(q, Abroad))
                 /\ Cardinality(CopiesFor(q, Abroad)) = IF WaitsFor(q) THEN 0 ELSE TopK

ByExpert(rows) == \A i, j \in DOMAIN rows : i < j => rows[i].exp <= rows[j].exp

SortedForExperts ==
  /\ \A m \in toExpert : ByExpert(m.rows)
  /\ \A r \in Rank : \A k \in DOMAIN queue[r] : ByExpert(queue[r][k])

RepliesHome ==
  /\ \A m \in toAttn : \A i \in DOMAIN m.rows : m.rows[i].dp = m.to
  /\ \A q \in Req : \A i \in DOMAIN held[q] : held[q][i].req = q

IInv == /\ TypeOK
        /\ TodoOnce
        /\ NoRowTwice
        /\ TagsRight
        /\ CopiesCounted
        /\ SortedForExperts
        /\ RepliesHome
        /\ PrefillsComeFirst

-----------------------------------------------------------------------------
(* Tags of sequences: none is lost when rows are put one after the other,  *)
(* flattened, cut or moved to other places.                                *)

LEMMA TagsConcat ==
  ASSUME NEW S, NEW s \in Seq(S), NEW t \in Seq(S)
  PROVE  /\ Tags(s \o t) = Tags(s) \cup Tags(t)
         /\ Distinct(s \o t) <=> Distinct(s) /\ Distinct(t) /\ Tags(s) \cap Tags(t) = {}
<1> DEFINE u == s \o t
           m == Len(s)
           n == Len(t)
<1>1. /\ m \in Nat /\ n \in Nat /\ DOMAIN s = 1 .. m /\ DOMAIN t = 1 .. n /\ DOMAIN u = 1 .. m + n
      /\ \A i \in 1 .. m + n : u[i] = IF i <= m THEN s[i] ELSE t[i - m]
  BY LenProperties, ConcatProperties
<1> HIDE DEF u, m, n
<1>2. /\ \A i \in 1 .. m : i \in 1 .. m + n /\ u[i] = s[i]
      /\ \A i \in 1 .. n : i + m \in 1 .. m + n /\ u[i + m] = t[i]
  BY <1>1
<1>3. \A i \in 1 .. m + n : i \in 1 .. m \/ \E j \in 1 .. n : i = j + m
  <2> SUFFICES ASSUME NEW i \in 1 .. m + n, i \notin 1 .. m PROVE \E j \in 1 .. n : i = j + m
    OBVIOUS
  <2>1. i - m \in 1 .. n /\ i = (i - m) + m
    BY <1>1
  <2> QED  BY <2>1
<1>4. Tags(u) = Tags(s) \cup Tags(t)
  <2>1. ASSUME NEW x \in Tags(u) PROVE x \in Tags(s) \cup Tags(t)
    <3>1. PICK i \in 1 .. m + n : x = Tag(u[i])
      BY <1>1 DEF Tags
    <3> QED  BY <1>1, <1>2, <1>3, <3>1 DEF Tags
  <2>2. ASSUME NEW x \in Tags(s) \cup Tags(t) PROVE x \in Tags(u)
    BY <1>1, <1>2 DEF Tags
  <2> QED  BY <2>1, <2>2
<1>5. ASSUME Distinct(u) PROVE Distinct(s) /\ Distinct(t) /\ Tags(s) \cap Tags(t) = {}
  <2>1. \A i, j \in 1 .. m + n : Tag(u[i]) = Tag(u[j]) => i = j
    BY <1>1, <1>5 DEF Distinct
  <2>2. Distinct(s)
    BY <1>1, <1>2, <2>1 DEF Distinct
  <2>3. Distinct(t)
    <3>1. \A i, j \in 1 .. n : i + m = j + m => i = j
      BY <1>1
    <3> QED  BY <1>1, <1>2, <2>1, <3>1 DEF Distinct
  <2>4. Tags(s) \cap Tags(t) = {}
    <3> SUFFICES ASSUME NEW i \in 1 .. m, NEW j \in 1 .. n, Tag(s[i]) = Tag(t[j]) PROVE FALSE
      BY <1>1 DEF Tags
    <3>1. i = j + m
      BY <1>2, <2>1
    <3> QED  BY <1>1, <3>1
  <2> QED  BY <2>2, <2>3, <2>4
<1>6. ASSUME Distinct(s), Distinct(t), Tags(s) \cap Tags(t) = {} PROVE Distinct(u)
  <2> SUFFICES ASSUME NEW i \in 1 .. m + n, NEW j \in 1 .. m + n, Tag(u[i]) = Tag(u[j]) PROVE i = j
    BY <1>1 DEF Distinct
  <2>1. \A k \in 1 .. m : Tag(s[k]) \in Tags(s)
    BY <1>1 DEF Tags
  <2>2. \A k \in 1 .. n : Tag(t[k]) \in Tags(t)
    BY <1>1 DEF Tags
  <2>3. CASE i \in 1 .. m /\ j \in 1 .. m
    BY <1>1, <1>2, <1>6, <2>3 DEF Distinct
  <2>4. CASE i \in 1 .. m /\ j \notin 1 .. m
    BY <1>2, <1>3, <1>6, <2>1, <2>2, <2>4
  <2>5. CASE i \notin 1 .. m /\ j \in 1 .. m
    BY <1>2, <1>3, <1>6, <2>1, <2>2, <2>5
  <2>6. CASE i \notin 1 .. m /\ j \notin 1 .. m
    <3>1. PICK k \in 1 .. n, l \in 1 .. n : i = k + m /\ j = l + m
      BY <1>3, <2>6
    <3>2. Tag(t[k]) = Tag(t[l])
      BY <1>2, <3>1
    <3>3. k = l
      BY <1>1, <1>6, <3>2 DEF Distinct
    <3> QED  BY <3>1, <3>3
  <2> QED  BY <2>3, <2>4, <2>5, <2>6
<1> QED  BY <1>4, <1>5, <1>6 DEF u

OnceEach(q) == /\ \A k \in DOMAIN q : Distinct(q[k])
               /\ \A k, l \in DOMAIN q : k # l => Tags(q[k]) \cap Tags(q[l]) = {}

TagsOfAll(q) == UNION {Tags(q[k]) : k \in DOMAIN q}

LEMMA TagsFlatten ==
  ASSUME NEW S, NEW q \in Seq(Seq(S))
  PROVE  /\ Tags(FlattenSeq(q)) = TagsOfAll(q)
         /\ Distinct(FlattenSeq(q)) <=> OnceEach(q)
<1> DEFINE P == {t \in Seq(Seq(S)) : /\ Tags(FlattenSeq(t)) = TagsOfAll(t)
                                     /\ Distinct(FlattenSeq(t)) <=> OnceEach(t)}
<1>1. <<>> \in P
  BY FlattenEmpty, EmptySeq DEF Tags, TagsOfAll, Distinct, OnceEach
<1>2. ASSUME NEW t \in P, NEW s \in Seq(S) PROVE Append(t, s) \in P
  <2> DEFINE u == Append(t, s)
             n == Len(t)
  <2>1. t \in Seq(Seq(S)) /\ Tags(FlattenSeq(t)) = TagsOfAll(t) /\ (Distinct(FlattenSeq(t)) <=> OnceEach(t))
    OBVIOUS
  <2>2. /\ u \in Seq(Seq(S)) /\ n \in Nat /\ DOMAIN t = 1 .. n /\ DOMAIN u = 1 .. n + 1
        /\ (\A k \in 1 .. n : u[k] = t[k]) /\ u[n + 1] = s
    BY <2>1, AppendProperties, LenProperties
  <2>3. FlattenSeq(u) = FlattenSeq(t) \o s /\ FlattenSeq(t) \in Seq(S)
    BY <2>1, FlattenAppend, FlattenType
  <2> HIDE DEF u, n, P
  <2>4. /\ Tags(FlattenSeq(u)) = TagsOfAll(t) \cup Tags(s)
        /\ Distinct(FlattenSeq(u)) <=> OnceEach(t) /\ Distinct(s) /\ TagsOfAll(t) \cap Tags(s) = {}
    BY <2>1, <2>3, TagsConcat
  <2>5. \A k : k \in 1 .. n + 1 <=> k \in 1 .. n \/ k = n + 1
    BY <2>2
  <2>6. n + 1 \notin 1 .. n
    BY <2>2
  <2>7. TagsOfAll(u) = TagsOfAll(t) \cup Tags(s)
    BY <2>2, <2>5 DEF TagsOfAll
  <2>8. ASSUME OnceEach(u) PROVE OnceEach(t) /\ Distinct(s) /\ TagsOfAll(t) \cap Tags(s) = {}
    <3>1. (\A k \in 1 .. n + 1 : Distinct(u[k]))
          /\ \A k, l \in 1 .. n + 1 : k # l => Tags(u[k]) \cap Tags(u[l]) = {}
      BY <2>2, <2>8 DEF OnceEach
    <3>2. OnceEach(t)
      BY <2>2, <2>5, <3>1 DEF OnceEach
    <3>3. \A k \in 1 .. n : Tags(t[k]) \cap Tags(s) = {}
      BY <2>2, <2>5, <2>6, <3>1
    <3>4. TagsOfAll(t) \cap Tags(s) = {}
      BY <2>2, <3>3 DEF TagsOfAll
    <3> QED  BY <2>2, <2>5, <3>1, <3>2, <3>4
  <2>9. ASSUME OnceEach(t), Distinct(s), TagsOfAll(t) \cap Tags(s) = {} PROVE OnceEach(u)
    <3>1. \A k \in 1 .. n : Tags(t[k]) \cap Tags(s) = {}
      BY <2>2, <2>9 DEF TagsOfAll
    <3>2. (\A k \in 1 .. n : Distinct(t[k])) /\ \A k, l \in 1 .. n : k # l => Tags(t[k]) \cap Tags(t[l]) = {}
      BY <2>2, <2>9 DEF OnceEach
    <3>3. \A k \in 1 .. n + 1 : Distinct(u[k])
      BY <2>2, <2>5, <2>9, <3>2
    <3>4. ASSUME NEW k \in 1 .. n + 1, NEW l \in 1 .. n + 1, k # l
          PROVE  Tags(u[k]) \cap Tags(u[l]) = {}
      <4>1. CASE k \in 1 .. n /\ l \in 1 .. n
        BY <2>2, <3>2, <3>4, <4>1
      <4>2. CASE k \in 1 .. n /\ l = n + 1
        BY <2>2, <3>1, <4>2
      <4>3. CASE k = n + 1 /\ l \in 1 .. n
        BY <2>2, <3>1, <4>3
      <4> QED  BY <2>5, <3>4, <4>1, <4>2, <4>3
    <3> QED  BY <2>2, <3>3, <3>4 DEF OnceEach
  <2> QED  BY <2>2, <2>4, <2>7, <2>8, <2>9 DEF P, u
<1>3. P = Seq(Seq(S))
  <2>1. P \in SUBSET Seq(Seq(S))
    OBVIOUS
  <2> HIDE DEF P
  <2> QED  BY <1>1, <1>2, <2>1, SequenceInduction
<1> QED  BY <1>3

(* A part of a sequence of rows.                                           *)
LEMMA TagsPart ==
  ASSUME NEW S, NEW rows \in Seq(S), NEW a \in Nat \ {0}, NEW b \in Nat, b <= Len(rows)
  PROVE  LET part == SubSeq(rows, a, b)
         IN  /\ part \in Seq(S)
             /\ Len(part) = IF a <= b THEN b - a + 1 ELSE 0
             /\ \A i \in DOMAIN part : /\ a + i - 1 \in a .. b /\ a + i - 1 \in DOMAIN rows
                                       /\ part[i] = rows[a + i - 1]
             /\ Tags(part) = {Tag(rows[k]) : k \in a .. b}
             /\ Distinct(rows) => Distinct(part)
<1> DEFINE part == SubSeq(rows, a, b)
<1>1. Len(rows) \in Nat /\ DOMAIN rows = 1 .. Len(rows) /\ \A i \in 1 .. Len(rows) : rows[i] \in S
  BY LenProperties
<1>2. a \in Int /\ b \in Int /\ \A i \in a .. b : rows[i] \in S
  BY <1>1
<1>3. /\ part \in Seq(S) /\ Len(part) = IF a <= b THEN b - a + 1 ELSE 0
      /\ \A i \in 1 .. b - a + 1 : part[i] = rows[a + i - 1]
  BY <1>2, SubSeqProperties
<1>4. DOMAIN part = 1 .. Len(part)
  BY <1>3, LenProperties
<1> HIDE DEF part
<1>5. DOMAIN part = 1 .. b - a + 1
  BY <1>3, <1>4
<1>6. \A i \in DOMAIN part : /\ a + i - 1 \in a .. b /\ a + i - 1 \in DOMAIN rows
                             /\ part[i] = rows[a + i - 1]
  BY <1>1, <1>3, <1>5
<1>7. \A k \in a .. b : k - a + 1 \in DOMAIN part /\ part[k - a + 1] = rows[k]
  <2> SUFFICES ASSUME NEW k \in a .. b PROVE k - a + 1 \in DOMAIN part /\ part[k - a + 1] = rows[k]
    OBVIOUS
  <2>1. k - a + 1 \in 1 .. b - a + 1 /\ a + (k - a + 1) - 1 = k
    OBVIOUS
  <2> QED  BY <1>5, <1>6, <2>1
<1>8. Tags(part) = {Tag(rows[k]) : k \in a .. b}
  BY <1>6, <1>7 DEF Tags
<1>9. ASSUME Distinct(rows) PROVE Distinct(part)
  <2> SUFFICES ASSUME NEW i \in DOMAIN part, NEW j \in DOMAIN part, Tag(part[i]) = Tag(part[j])
               PROVE  i = j
    BY DEF Distinct
  <2>1. a + i - 1 = a + j - 1
    BY <1>6, <1>9 DEF Distinct
  <2> QED  BY <1>5, <2>1
<1> QED  BY <1>3, <1>6, <1>8, <1>9 DEF part

-----------------------------------------------------------------------------
(* The dispatcher's cuts: segments with one destination each, that cover   *)
(* the batch and do not overlap.                                           *)

Ends(rows, dest, i) == {j \in i .. Len(rows) : \A k \in i .. j : dest[k] = dest[i]}

Starts(rows, dest) == {i \in DOMAIN rows : i = 1 \/ dest[i - 1] # dest[i]}

LastOf(rows, dest, i) == Max(Ends(rows, dest, i))

LEMMA Segments ==
  ASSUME NEW S, NEW rows \in Seq(S), NEW dest
  PROVE  /\ \A a \in Starts(rows, dest) :
              /\ a \in Nat \ {0} /\ LastOf(rows, dest, a) \in a .. Len(rows)
              /\ \A k \in a .. LastOf(rows, dest, a) : dest[k] = dest[a]
         /\ \A k \in DOMAIN rows : \E a \in Starts(rows, dest) : k \in a .. LastOf(rows, dest, a)
         /\ \A a, b \in Starts(rows, dest) : a < b => LastOf(rows, dest, a) < b
<1> DEFINE n == Len(rows)
           last(a) == LastOf(rows, dest, a)
<1>1. n \in Nat /\ DOMAIN rows = 1 .. n
  BY LenProperties
<1>2. ASSUME NEW a \in 1 .. n
      PROVE  /\ last(a) \in a .. n /\ (\A k \in a .. last(a) : dest[k] = dest[a])
             /\ \A j \in Ends(rows, dest, a) : j <= last(a)
  <2> DEFINE E == Ends(rows, dest, a)
             gaps == {n - j : j \in E}
  <2>1. a \in E /\ E \in SUBSET (a .. n)
    BY <1>1 DEF Ends
  <2>2. gaps \in SUBSET Nat /\ n - a \in gaps
    BY <1>1, <2>1
  <2> HIDE DEF E, gaps
  <2>3. PICK g \in gaps : \A h \in gaps : g <= h
    BY <2>2, LeastNumber
  <2>4. PICK top \in E : g = n - top
    BY <2>3 DEF gaps
  <2>5. \A j \in E : n - top <= n - j
    BY <2>3, <2>4 DEF gaps
  <2>6. \A j \in E : j \in Int
    BY <2>1
  <2>7. \A j \in E : top >= j
    BY <1>1, <2>4, <2>5, <2>6
  <2>8. last(a) \in E /\ \A j \in E : last(a) >= j
    BY <2>4, <2>7 DEF LastOf, Max, E
  <2>9. \A j \in E : j <= last(a)
    BY <2>6, <2>8
  <2> QED  BY <1>1, <2>1, <2>8, <2>9 DEF E, Ends
<1>3. Starts(rows, dest) \in SUBSET (1 .. n)
  BY <1>1 DEF Starts
<1> HIDE DEF last, n
<1>4. ASSUME NEW k \in 1 .. n PROVE \E a \in Starts(rows, dest) : k \in a .. last(a)
  <2> DEFINE T == {j \in 1 .. k : \A i \in j .. k : dest[i] = dest[k]}
  <2>1. T \in SUBSET Nat /\ k \in T
    BY <1>1
  <2> HIDE DEF T
  <2>2. PICK a \in T : \A j \in T : a <= j
    BY <2>1, LeastNumber
  <2>3. a \in 1 .. k /\ a \in 1 .. n /\ \A i \in a .. k : dest[i] = dest[k]
    BY <1>1, <2>2 DEF T
  <2>4. a \in Starts(rows, dest)
    <3> SUFFICES ASSUME a # 1, dest[a - 1] = dest[a] PROVE FALSE
      BY <1>1, <2>3 DEF Starts
    <3>1. a - 1 \in 1 .. k /\ ~(a <= a - 1)
      BY <2>3
    <3>2. \A i \in (a - 1) .. k : i = a - 1 \/ i \in a .. k
      BY <2>3
    <3>3. dest[a] = dest[k]
      BY <2>3
    <3>4. a - 1 \in T
      BY <2>3, <3>1, <3>2, <3>3 DEF T
    <3> QED  BY <2>2, <3>1, <3>4
  <2>5. k \in Ends(rows, dest, a)
    <3>1. dest[a] = dest[k] /\ k \in a .. n
      BY <1>1, <2>3
    <3> QED  BY <2>3, <3>1 DEF Ends, n
  <2>6. k <= last(a) /\ last(a) \in a .. n
    BY <1>2, <2>3, <2>5
  <2>7. k \in a .. last(a)
    BY <2>3, <2>6
  <2> QED  BY <2>4, <2>7
<1>5. ASSUME NEW a \in Starts(rows, dest), NEW b \in Starts(rows, dest), a < b
      PROVE  last(a) < b
  <2> SUFFICES ASSUME b <= last(a) PROVE FALSE
    BY <1>1, <1>2, <1>3, <1>5
  <2>1. a \in 1 .. n /\ b \in 1 .. n /\ last(a) \in a .. n
    BY <1>2, <1>3
  <2>2. b \in a .. last(a) /\ b - 1 \in a .. last(a) /\ b # 1
    BY <1>1, <1>5, <2>1
  <2>3. dest[b - 1] = dest[b]
    BY <1>2, <2>1, <2>2
  <2> QED  BY <2>2, <2>3 DEF Starts
<1>6. \A a \in Starts(rows, dest) : a \in Nat \ {0} /\ last(a) \in a .. n
  <2>1. \A a \in 1 .. n : a \in Nat \ {0}
    BY <1>1
  <2> QED  BY <1>2, <1>3, <2>1
<1> QED  BY <1>1, <1>2, <1>3, <1>4, <1>5, <1>6 DEF last, n

LEMMA CutsParts ==
  ASSUME NEW S, NEW rows \in Seq(S), NEW dest
  PROVE  /\ \A c \in Cuts(rows, dest) :
              \E a \in Nat \ {0}, b \in Nat :
                /\ a <= b /\ b <= Len(rows)
                /\ c = [to |-> dest[a], rows |-> SubSeq(rows, a, b)]
                /\ \A k \in a .. b : dest[k] = dest[a]
         /\ UNION {Tags(c.rows) : c \in Cuts(rows, dest)} = Tags(rows)
         /\ Distinct(rows) =>
              /\ \A c \in Cuts(rows, dest) : Distinct(c.rows)
              /\ \A c, d \in Cuts(rows, dest) : c # d => Tags(c.rows) \cap Tags(d.rows) = {}
<1> DEFINE last(a) == LastOf(rows, dest, a)
           cut(a) == [to |-> dest[a], rows |-> SubSeq(rows, a, last(a))]
           starts == Starts(rows, dest)
<1>1. Cuts(rows, dest) = {cut(a) : a \in starts}
  BY DEF Cuts, Starts, LastOf, Ends
<1>2. Len(rows) \in Nat /\ DOMAIN rows = 1 .. Len(rows)
  BY LenProperties
<1>3. \A a \in starts : /\ a \in Nat \ {0} /\ last(a) \in a .. Len(rows)
                        /\ \A k \in a .. last(a) : dest[k] = dest[a]
  BY Segments
<1>4. \A k \in DOMAIN rows : \E a \in starts : k \in a .. last(a)
  BY Segments
<1>5. \A a, b \in starts : a < b => last(a) < b
  BY Segments
<1>6. \A a \in starts : a \in Int /\ last(a) \in Nat /\ a <= last(a) /\ last(a) <= Len(rows)
  BY <1>2, <1>3
<1>7. \A a \in starts : cut(a).to = dest[a] /\ cut(a).rows = SubSeq(rows, a, last(a))
  OBVIOUS
<1> HIDE DEF last, starts
<1>8. ASSUME NEW a \in starts
      PROVE  /\ Tags(cut(a).rows) = {Tag(rows[k]) : k \in a .. last(a)}
             /\ Distinct(rows) => Distinct(cut(a).rows)
  <2>1. a \in Nat \ {0} /\ last(a) \in Nat /\ last(a) <= Len(rows)
    BY <1>3, <1>6
  <2> DEFINE part == SubSeq(rows, a, last(a))
  <2>2. Tags(part) = {Tag(rows[k]) : k \in a .. last(a)} /\ (Distinct(rows) => Distinct(part))
    BY <2>1, TagsPart
  <2>3. cut(a).rows = part
    BY <1>7
  <2> HIDE DEF part, cut
  <2> QED  BY <2>2, <2>3
<1> HIDE DEF cut
<1>9. ASSUME NEW c \in Cuts(rows, dest)
      PROVE  \E a \in Nat \ {0}, b \in Nat :
               /\ a <= b /\ b <= Len(rows)
               /\ c = [to |-> dest[a], rows |-> SubSeq(rows, a, b)]
               /\ \A k \in a .. b : dest[k] = dest[a]
  <2>1. PICK a \in starts : c = cut(a)
    BY <1>1
  <2> QED  BY <1>3, <1>6, <2>1 DEF cut
<1>10. UNION {Tags(c.rows) : c \in Cuts(rows, dest)} = Tags(rows)
  <2>1. ASSUME NEW x \in Tags(rows) PROVE \E c \in Cuts(rows, dest) : x \in Tags(c.rows)
    <3>1. PICK k \in DOMAIN rows : x = Tag(rows[k])
      BY <2>1 DEF Tags
    <3>2. PICK a \in starts : k \in a .. last(a)
      BY <1>4
    <3>3. x \in Tags(cut(a).rows)
      BY <1>8, <3>1, <3>2
    <3> QED  BY <1>1, <3>3
  <2>2. ASSUME NEW c \in Cuts(rows, dest), NEW x \in Tags(c.rows) PROVE x \in Tags(rows)
    <3>1. PICK a \in starts : c = cut(a)
      BY <1>1
    <3>2. PICK k \in a .. last(a) : x = Tag(rows[k])
      BY <1>8, <2>2, <3>1
    <3>3. k \in DOMAIN rows
      BY <1>2, <1>3, <1>6
    <3> QED  BY <3>2, <3>3 DEF Tags
  <2> QED  BY <2>1, <2>2
<1>11. ASSUME Distinct(rows), NEW c \in Cuts(rows, dest), NEW d \in Cuts(rows, dest), c # d
       PROVE  Tags(c.rows) \cap Tags(d.rows) = {}
  <2>1. PICK a \in starts, b \in starts : c = cut(a) /\ d = cut(b)
    BY <1>1
  <2>2. a # b
    BY <1>11, <2>1
  <2> SUFFICES ASSUME NEW x \in Tags(c.rows), x \in Tags(d.rows) PROVE FALSE
    OBVIOUS
  <2>3. PICK k \in a .. last(a), l \in b .. last(b) : x = Tag(rows[k]) /\ x = Tag(rows[l])
    BY <1>8, <2>1
  <2>4. k \in DOMAIN rows /\ l \in DOMAIN rows
    BY <1>2, <1>3, <1>6
  <2>5. k = l
    BY <1>11, <2>3, <2>4 DEF Distinct
  <2>6. a < b \/ b < a
    BY <1>6, <2>2
  <2> QED  BY <1>5, <1>6, <2>3, <2>5, <2>6
<1>12. Distinct(rows) => \A c \in Cuts(rows, dest) : Distinct(c.rows)
  BY <1>1, <1>8
<1> QED  BY <1>9, <1>10, <1>11, <1>12

-----------------------------------------------------------------------------
(* Permutations.                                                           *)

LEMMA PlacedBack ==
  ASSUME NEW S, NEW rows \in Seq(S), NEW places \in Bijection(DOMAIN rows, DOMAIN rows)
  PROVE  \E at \in [DOMAIN rows -> DOMAIN rows] :
           /\ \A p \in DOMAIN rows : places[at[p]] = p
           /\ \A i \in DOMAIN rows : places[i] \in DOMAIN rows /\ at[places[i]] = i
           /\ Placed(rows, places) = [p \in DOMAIN rows |-> rows[at[p]]]
<1> DEFINE D == DOMAIN rows
           at == [p \in D |-> CHOOSE i \in D : places[i] = p]
<1>1. /\ places \in [D -> D] /\ \A i, j \in D : places[i] = places[j] => i = j
      /\ \A p \in D : \E i \in D : places[i] = p
  BY DEF Bijection, Injection, Surjection, IsInjective
<1>2. \A p \in D : at[p] \in D /\ places[at[p]] = p
  BY <1>1
<1>3. at \in [D -> D]
  BY <1>2
<1>4. Placed(rows, places) = [p \in D |-> rows[at[p]]]
  BY DEF Placed
<1> HIDE DEF at, D
<1>5. \A i \in D : places[i] \in D /\ at[places[i]] = i
  BY <1>1, <1>2
<1> QED  BY <1>2, <1>3, <1>4, <1>5 DEF D

LEMMA TagsPlaced ==
  ASSUME NEW S, NEW rows \in Seq(S), NEW places \in Bijection(DOMAIN rows, DOMAIN rows)
  PROVE  /\ Placed(rows, places) \in Seq(S)
         /\ Len(Placed(rows, places)) = Len(rows)
         /\ Tags(Placed(rows, places)) = Tags(rows)
         /\ Distinct(rows) => Distinct(Placed(rows, places))
<1> DEFINE D == DOMAIN rows
           new == Placed(rows, places)
<1>1. PICK at \in [D -> D] :
        /\ \A p \in D : places[at[p]] = p
        /\ \A i \in D : places[i] \in D /\ at[places[i]] = i
        /\ new = [p \in D |-> rows[at[p]]]
  BY PlacedBack
<1>2. Len(rows) \in Nat /\ D = 1 .. Len(rows) /\ \A i \in D : rows[i] \in S
  BY LenProperties
<1> HIDE DEF D, new
<1>3. new \in Seq(S) /\ Len(new) = Len(rows) /\ DOMAIN new = D /\ \A p \in D : new[p] = rows[at[p]]
  BY <1>1, <1>2
<1>4. Tags(new) = Tags(rows)
  <2>1. Tags(rows) = {Tag(rows[i]) : i \in D}
    BY DEF Tags, D
  <2>2. Tags(new) = {Tag(new[p]) : p \in D}
    BY <1>3 DEF Tags
  <2>3. \A p \in D : at[p] \in D /\ new[p] = rows[at[p]]
    BY <1>1, <1>3
  <2>4. \A i \in D : places[i] \in D /\ new[places[i]] = rows[i]
    BY <1>1, <1>3
  <2>5. ASSUME NEW x \in Tags(new) PROVE x \in Tags(rows)
    BY <2>1, <2>2, <2>3, <2>5
  <2>6. ASSUME NEW x \in Tags(rows) PROVE x \in Tags(new)
    BY <2>1, <2>2, <2>4, <2>6
  <2> QED  BY <2>5, <2>6
<1>5. ASSUME Distinct(rows) PROVE Distinct(new)
  <2> SUFFICES ASSUME NEW p \in D, NEW r \in D, Tag(new[p]) = Tag(new[r]) PROVE p = r
    BY <1>3 DEF Distinct
  <2>1. at[p] \in D /\ at[r] \in D /\ at[p] = at[r]
    BY <1>1, <1>3, <1>5 DEF Distinct, D
  <2> QED  BY <1>1, <2>1
<1> QED  BY <1>3, <1>4, <1>5 DEF new

LEMMA ExpertSort ==
  ASSUME NEW S, NEW rows \in Seq(S), \A row \in S : row.exp \in Nat
  PROVE  /\ ExpertPlaces(rows) \in Bijection(DOMAIN rows, DOMAIN rows)
         /\ ByExpert(Placed(rows, ExpertPlaces(rows)))
<1> DEFINE D == DOMAIN rows
           n == Len(rows)
           prec(j, i) == \/ rows[j].exp < rows[i].exp
                         \/ rows[j].exp = rows[i].exp /\ j < i
           before(i) == {j \in D : prec(j, i)}
           places == ExpertPlaces(rows)
<1>1. n \in Nat /\ D = 1 .. n /\ \A i \in D : rows[i].exp \in Nat /\ i \in Nat
  BY LenProperties
<1>2. places = [i \in D |-> 1 + Cardinality(before(i))]
  BY DEF ExpertPlaces
<1>3. IsFiniteSet(D) /\ Cardinality(D) = n
  <2>1. 1 \in Int /\ n \in Int /\ (IF 1 > n THEN 0 ELSE n - 1 + 1) = n
    BY <1>1
  <2>2. IsFiniteSet(1 .. n) /\ Cardinality(1 .. n) = IF 1 > n THEN 0 ELSE n - 1 + 1
    BY <2>1, FS_Interval
  <2> HIDE DEF n, D
  <2> QED  BY <1>1, <2>1, <2>2
<1>4. ASSUME NEW i \in D PROVE ~ prec(i, i)
  BY <1>1
<1>5. ASSUME NEW i \in D, NEW j \in D, i # j PROVE prec(i, j) \/ prec(j, i)
  BY <1>1, <1>5
<1>6. ASSUME NEW i \in D, NEW j \in D, NEW k \in D, prec(i, j), prec(j, k) PROVE prec(i, k)
  BY <1>1, <1>6
<1>7. ASSUME NEW i \in D
      PROVE  IsFiniteSet(before(i)) /\ Cardinality(before(i)) \in 0 .. n - 1
  <2>1. before(i) \in SUBSET D /\ before(i) # D
    BY <1>4
  <2> HIDE DEF before
  <2>2. /\ IsFiniteSet(before(i)) /\ Cardinality(before(i)) <= n /\ Cardinality(before(i)) # n
    BY <1>3, <2>1, FS_Subset
  <2>3. Cardinality(before(i)) \in Nat
    BY <2>2, FS_CardinalityType
  <2> QED  BY <1>1, <2>2, <2>3
<1>8. ASSUME NEW i \in D, NEW j \in D, prec(i, j)
      PROVE  Cardinality(before(i)) < Cardinality(before(j))
  <2>1. before(i) \in SUBSET before(j) /\ before(i) # before(j)
    <3>1. i \in before(j) /\ i \notin before(i)
      BY <1>4, <1>8
    <3>2. \A k \in D : prec(k, i) => prec(k, j)
      BY <1>6, <1>8
    <3> QED  BY <3>1, <3>2
  <2> HIDE DEF before, D, prec
  <2>2. /\ IsFiniteSet(before(j)) /\ Cardinality(before(i)) \in Nat /\ Cardinality(before(j)) \in Nat
    BY <1>1, <1>7
  <2>3. Cardinality(before(i)) <= Cardinality(before(j)) /\ Cardinality(before(i)) # Cardinality(before(j))
    BY <2>1, <2>2, FS_Subset
  <2> QED  BY <2>2, <2>3
<1> HIDE DEF prec, before, places, D
<1>9. /\ places \in [D -> D]
      /\ \A i, j \in D : prec(i, j) => places[i] < places[j]
  <2>1. \A i \in D : Cardinality(before(i)) \in Nat /\ 1 + Cardinality(before(i)) \in 1 .. n
    BY <1>1, <1>7
  <2>2. places \in [D -> D]
    BY <1>1, <1>2, <2>1
  <2>3. \A i, j \in D : Cardinality(before(i)) < Cardinality(before(j)) => places[i] < places[j]
    BY <1>2, <2>1
  <2> QED  BY <1>8, <2>2, <2>3
<1>10. places \in Bijection(D, D)
  <2>1. ASSUME NEW i \in D, NEW j \in D, places[i] = places[j] PROVE i = j
    <3>1. ~(places[i] < places[j]) /\ ~(places[j] < places[i])
      BY <1>1, <1>9, <2>1
    <3> QED  BY <1>5, <1>9, <3>1
  <2>2. places \in Injection(D, D)
    BY <1>9, <2>1 DEF Injection, IsInjective
  <2>3. places \in Surjection(D, D)
    BY <1>3, <2>2, FS_Injection
  <2> QED  BY <2>2, <2>3 DEF Bijection
<1>11. ByExpert(Placed(rows, places))
  <2>1. PICK at \in [D -> D] :
          /\ \A p \in D : places[at[p]] = p
          /\ Placed(rows, places) = [p \in D |-> rows[at[p]]]
    <3>1. places \in Bijection(DOMAIN rows, DOMAIN rows)
      BY <1>10 DEF D
    <3>2. \E at \in [DOMAIN rows -> DOMAIN rows] :
            /\ \A p \in DOMAIN rows : places[at[p]] = p
            /\ \A i \in DOMAIN rows : places[i] \in DOMAIN rows /\ at[places[i]] = i
            /\ Placed(rows, places) = [p \in DOMAIN rows |-> rows[at[p]]]
      BY <3>1, PlacedBack
    <3> QED  BY <3>2 DEF D
  <2> SUFFICES ASSUME NEW p \in D, NEW r \in D, p < r PROVE rows[at[p]].exp <= rows[at[r]].exp
    BY <2>1 DEF ByExpert
  <2>2. at[p] \in D /\ at[r] \in D /\ at[p] # at[r] /\ ~(places[at[r]] < places[at[p]])
    BY <1>1, <2>1
  <2>3. prec(at[p], at[r])
    BY <1>5, <1>9, <2>2
  <2> QED  BY <1>1, <2>2, <2>3 DEF prec
<1> QED  BY <1>10, <1>11 DEF places, D

-----------------------------------------------------------------------------
(* Experts: the group sizes tell which rows are whose when, and only when, *)
(* the rows are in the order of their experts.                             *)

LEMMA ExpertFacts == NumExperts \in Nat /\ \A e \in Expert : e \in Nat /\ e < NumExperts
BY RowsAssumption DEF Expert

LEMMA RanByItsExpert ==
  ASSUME NEW S, NEW rows \in Seq(S), \A row \in S : row.exp \in Expert, ByExpert(rows),
         NEW i \in DOMAIN rows
  PROVE  RanBy(rows, i) = rows[i].exp
<1> DEFINE n == Len(rows)
           below(e) == {j \in DOMAIN rows : rows[j].exp <= e}
           upTo(e) == Cardinality(below(e))
           mine == rows[i].exp
<1>1. n \in Nat /\ DOMAIN rows = 1 .. n /\ i \in 1 .. n /\ \A j \in 1 .. n : rows[j].exp \in Expert
  BY LenProperties
<1>2. \A e \in Expert : e \in Nat /\ \A f \in 0 .. e - 1 : f \in Expert
  BY RowsAssumption DEF Expert
<1>3. \A j, k \in 1 .. n : j <= k => rows[j].exp <= rows[k].exp
  <2> SUFFICES ASSUME NEW j \in 1 .. n, NEW k \in 1 .. n, j <= k PROVE rows[j].exp <= rows[k].exp
    OBVIOUS
  <2>1. CASE j = k
    <3>1. rows[j].exp \in Nat
      BY <1>1, <1>2
    <3> QED  BY <2>1, <3>1
  <2>2. CASE j < k
    BY <1>1, <2>2 DEF ByExpert
  <2> QED  BY <2>1, <2>2
<1>4. ASSUME NEW e \in Expert PROVE IsFiniteSet(below(e)) /\ upTo(e) \in Nat
  <2>1. below(e) \in SUBSET (1 .. n)
    BY <1>1
  <2>2. IsFiniteSet(1 .. n)
    BY <1>1, FS_Interval
  <2> HIDE DEF below
  <2> QED  BY <2>1, <2>2, FS_Subset, FS_CardinalityType
<1>5. mine \in Expert
  BY <1>1
<1>6. i <= upTo(mine)
  <2>1. 1 .. i \in SUBSET below(mine)
    <3> SUFFICES ASSUME NEW j \in 1 .. i PROVE j \in below(mine)
      OBVIOUS
    <3>1. j \in 1 .. n /\ j <= i
      BY <1>1
    <3> QED  BY <1>1, <1>3, <3>1
  <2>2. Cardinality(1 .. i) = i
    <3>1. 1 \in Int /\ i \in Int /\ (IF 1 > i THEN 0 ELSE i - 1 + 1) = i
      BY <1>1
    <3>2. Cardinality(1 .. i) = IF 1 > i THEN 0 ELSE i - 1 + 1
      BY <3>1, FS_Interval
    <3> QED  BY <3>1, <3>2
  <2>3. IsFiniteSet(below(mine))
    BY <1>4, <1>5
  <2> HIDE DEF below
  <2>4. Cardinality(1 .. i) <= Cardinality(below(mine))
    BY <2>1, <2>3, FS_Subset
  <2> QED  BY <2>2, <2>4
<1>7. ASSUME NEW f \in Expert, f < mine PROVE upTo(f) < i
  <2>1. below(f) \in SUBSET (1 .. i - 1)
    <3> SUFFICES ASSUME NEW j \in below(f), i <= j PROVE FALSE
      BY <1>1
    <3>1. j \in 1 .. n /\ rows[j].exp <= f
      BY <1>1
    <3>2. mine <= rows[j].exp
      BY <1>1, <1>3, <3>1
    <3>3. f \in Nat /\ mine \in Nat /\ rows[j].exp \in Nat
      BY <1>1, <1>2, <1>5, <3>1
    <3> QED  BY <1>7, <3>1, <3>2, <3>3
  <2>2. IsFiniteSet(1 .. i - 1) /\ Cardinality(1 .. i - 1) = i - 1
    <3>1. 1 \in Int /\ i - 1 \in Int /\ (IF 1 > i - 1 THEN 0 ELSE (i - 1) - 1 + 1) = i - 1
      BY <1>1
    <3>2. /\ IsFiniteSet(1 .. i - 1)
          /\ Cardinality(1 .. i - 1) = IF 1 > i - 1 THEN 0 ELSE (i - 1) - 1 + 1
      BY <3>1, FS_Interval
    <3> QED  BY <3>1, <3>2
  <2> HIDE DEF below
  <2>3. Cardinality(below(f)) <= i - 1
    BY <2>1, <2>2, FS_Subset
  <2> QED  BY <1>1, <1>4, <2>3
<1>8. RanBy(rows, i) = CHOOSE e \in Expert : i <= upTo(e) /\ \A f \in 0 .. e - 1 : upTo(f) < i
  BY DEF RanBy
<1> HIDE DEF upTo, below, mine, n
<1>9. i <= upTo(mine) /\ \A f \in 0 .. mine - 1 : upTo(f) < i
  <2>1. \A f \in 0 .. mine - 1 : f \in Expert /\ f < mine
    BY <1>2, <1>5
  <2> QED  BY <1>6, <1>7, <2>1
<1>10. ASSUME NEW e \in Expert, i <= upTo(e), \A f \in 0 .. e - 1 : upTo(f) < i
       PROVE  e = mine
  <2>1. e \in Nat /\ mine \in Nat /\ upTo(e) \in Nat /\ upTo(mine) \in Nat /\ i \in Nat
    BY <1>1, <1>2, <1>4, <1>5
  <2>2. ~(e < mine)
    BY <1>7, <1>10, <2>1
  <2>3. ~(mine < e)
    <3>1. mine < e => mine \in 0 .. e - 1
      BY <2>1
    <3> QED  BY <1>6, <1>10, <2>1, <3>1
  <2> QED  BY <2>1, <2>2, <2>3
<1>11. RanBy(rows, i) = mine
  BY <1>5, <1>8, <1>9, <1>10
<1> QED  BY <1>11 DEF mine

LEMMA PartByExpert ==
  ASSUME NEW S, NEW rows \in Seq(S), NEW a \in Nat \ {0}, NEW b \in Nat, b <= Len(rows),
         ByExpert(rows)
  PROVE  ByExpert(SubSeq(rows, a, b))
<1> DEFINE part == SubSeq(rows, a, b)
<1>1. /\ \A i \in DOMAIN part : a + i - 1 \in DOMAIN rows /\ part[i] = rows[a + i - 1]
      /\ part \in Seq(S)
  BY TagsPart
<1>2. \A i \in DOMAIN part : i \in Nat
  BY <1>1, LenProperties
<1> HIDE DEF part
<1> SUFFICES ASSUME NEW i \in DOMAIN part, NEW j \in DOMAIN part, i < j
             PROVE  part[i].exp <= part[j].exp
  BY DEF ByExpert, part
<1>3. a + i - 1 < a + j - 1
  BY <1>2
<1> QED  BY <1>1, <1>3 DEF ByExpert

(* TokenBatch::merge.                                                      *)
LEMMA MergedRows ==
  ASSUME NEW S, NEW batches \in Seq(Seq(S)), \A row \in S : row.exp \in Nat,
         \A k \in DOMAIN batches : ByExpert(batches[k])
  PROVE  /\ Merged(batches) \in Seq(S)
         /\ ByExpert(Merged(batches))
         /\ Tags(Merged(batches)) = Tags(FlattenSeq(batches))
         /\ Distinct(FlattenSeq(batches)) => Distinct(Merged(batches))
<1>1. CASE Len(batches) = 1
  <2>1. 1 \in DOMAIN batches /\ batches[1] \in Seq(S) /\ batches = <<batches[1]>>
    <3>1. DOMAIN batches = 1 .. 1 /\ batches \in [1 .. 1 -> Seq(S)]
      BY <1>1, LenProperties
    <3>2. batches[1] \in Seq(S) /\ <<batches[1]>> \in Seq(Seq(S)) /\ Len(<<batches[1]>>) = 1
      BY <3>1
    <3>3. \A i \in 1 .. 1 : batches[i] = <<batches[1]>>[i]
      OBVIOUS
    <3>4. batches = <<batches[1]>>
      BY <1>1, <3>2, <3>3, SeqEqual
    <3> QED  BY <3>1, <3>2, <3>4
  <2>2. FlattenSeq(<<batches[1]>>) = batches[1]
    BY <2>1, FlattenOne
  <2>3. FlattenSeq(batches) = batches[1]
    BY <2>1, <2>2
  <2>4. Merged(batches) = batches[1]
    BY <1>1 DEF Merged
  <2> QED  BY <2>1, <2>3, <2>4
<1>2. CASE Len(batches) # 1
  <2> DEFINE rows == FlattenSeq(batches)
  <2>1. rows \in Seq(S)
    BY FlattenType
  <2>2. Merged(batches) = Placed(rows, ExpertPlaces(rows))
    BY <1>2 DEF Merged
  <2> HIDE DEF rows
  <2>3. /\ ExpertPlaces(rows) \in Bijection(DOMAIN rows, DOMAIN rows)
        /\ ByExpert(Placed(rows, ExpertPlaces(rows)))
    BY <2>1, ExpertSort
  <2> DEFINE places == ExpertPlaces(rows)
  <2> HIDE DEF places
  <2>4. /\ Placed(rows, places) \in Seq(S)
        /\ Tags(Placed(rows, places)) = Tags(rows)
        /\ Distinct(rows) => Distinct(Placed(rows, places))
    <3>1. places \in Bijection(DOMAIN rows, DOMAIN rows)
      BY <2>3 DEF places
    <3> QED  BY <2>1, <3>1, TagsPlaced
  <2> QED  BY <2>2, <2>3, <2>4 DEF rows, places
<1> QED  BY <1>1, <1>2

(* A batch that is taken whole, or split, stays in order.                  *)
LEMMA TakenByExpert ==
  ASSUME NEW S, NEW q \in Seq(Seq(S)), NEW threshold \in Nat \ {0},
         \A k \in DOMAIN q : ByExpert(q[k])
  PROVE  /\ \A k \in DOMAIN Taken(q, threshold) : ByExpert(Taken(q, threshold)[k])
         /\ \A k \in DOMAIN Left(q, threshold) : ByExpert(Left(q, threshold)[k])
<1> DEFINE Good == {s \in Seq(S) : ByExpert(s)}
           w == WholeBatches(q, threshold)
           k == threshold - Before(q, w + 1)
           split == SplitsNext(q, threshold)
<1>1. Len(q) \in Nat /\ DOMAIN q = 1 .. Len(q) /\ w \in 0 .. Len(q) /\ \A i \in 1 .. Len(q) : q[i] \in Good
  BY LenProperties, WholeBatchesFit
<1> HIDE DEF Good
<1>2. \A a \in Nat \ {0}, b \in Nat : b <= Len(q) => SubSeq(q, a, b) \in Seq(Good)
  <2> SUFFICES ASSUME NEW a \in Nat \ {0}, NEW b \in Nat, b <= Len(q) PROVE SubSeq(q, a, b) \in Seq(Good)
    OBVIOUS
  <2>1. a \in Int /\ b \in Int /\ \A i \in a .. b : q[i] \in Good
    BY <1>1
  <2> QED  BY <2>1, SubSeqProperties
<1>3. split => /\ w + 1 \in 1 .. Len(q) /\ q[w + 1] \in Seq(S) /\ ByExpert(q[w + 1])
               /\ k \in Nat /\ k <= Len(q[w + 1]) /\ Len(q[w + 1]) \in Nat
  <2> SUFFICES ASSUME split
               PROVE  /\ w + 1 \in 1 .. Len(q) /\ q[w + 1] \in Seq(S) /\ ByExpert(q[w + 1])
                      /\ k \in Nat /\ k <= Len(q[w + 1]) /\ Len(q[w + 1]) \in Nat
    OBVIOUS
  <2>1. w < Len(q) /\ Before(q, w + 1) < threshold
    BY DEF SplitsNext
  <2>2. Before(q, w + 1) + Len(q[w + 1]) > threshold
    BY <2>1, WholeBatchesFit
  <2>3. w + 1 \in 1 .. Len(q) /\ w + 1 \in 1 .. Len(q) + 1
    BY <1>1, <2>1
  <2>4. q[w + 1] \in Seq(S) /\ ByExpert(q[w + 1])
    BY <1>1, <2>3 DEF Good
  <2>5. Len(q[w + 1]) \in Nat /\ Before(q, w + 1) \in Nat
    BY <2>3, <2>4, BeforeCounts, LenProperties
  <2> QED  BY <2>1, <2>2, <2>3, <2>4, <2>5
<1> HIDE DEF w, k
<1>4. split => SubSeq(q[w + 1], 1, k) \in Good /\ SubSeq(q[w + 1], k + 1, Len(q[w + 1])) \in Good
  <2> SUFFICES ASSUME split
               PROVE  SubSeq(q[w + 1], 1, k) \in Good /\ SubSeq(q[w + 1], k + 1, Len(q[w + 1])) \in Good
    OBVIOUS
  <2> DEFINE b == q[w + 1]
  <2>1. b \in Seq(S) /\ ByExpert(b) /\ k \in Nat /\ k <= Len(b) /\ Len(b) \in Nat
        /\ 1 \in Nat \ {0} /\ k + 1 \in Nat \ {0} /\ Len(b) <= Len(b)
    BY <1>3
  <2> HIDE DEF b
  <2>2. SubSeq(b, 1, k) \in Seq(S) /\ SubSeq(b, k + 1, Len(b)) \in Seq(S)
    BY <2>1, TagsPart
  <2>3. ByExpert(SubSeq(b, 1, k)) /\ ByExpert(SubSeq(b, k + 1, Len(b)))
    BY <2>1, PartByExpert
  <2> QED  BY <2>2, <2>3 DEF Good, b
<1>5. Taken(q, threshold) \in Seq(Good)
  <2>1. Taken(q, threshold) = SubSeq(q, 1, w) \o (IF split THEN <<SubSeq(q[w + 1], 1, k)>> ELSE <<>>)
    BY DEF Taken, w, k
  <2>2. SubSeq(q, 1, w) \in Seq(Good)
    BY <1>1, <1>2
  <2>3. (IF split THEN <<SubSeq(q[w + 1], 1, k)>> ELSE <<>>) \in Seq(Good)
    <3>1. split => <<SubSeq(q[w + 1], 1, k)>> \in Seq(Good)
      BY <1>4
    <3> QED  BY <3>1, EmptySeq
  <2> QED  BY <2>1, <2>2, <2>3, ConcatProperties
<1>6. Left(q, threshold) \in Seq(Good)
  <2>1. /\ split => Left(q, threshold) =
             <<SubSeq(q[w + 1], k + 1, Len(q[w + 1]))>> \o SubSeq(q, w + 2, Len(q))
        /\ ~ split => Left(q, threshold) = SubSeq(q, w + 1, Len(q))
    BY DEF Left, w, k
  <2>2. SubSeq(q, w + 1, Len(q)) \in Seq(Good) /\ SubSeq(q, w + 2, Len(q)) \in Seq(Good)
    <3>1. w + 1 \in Nat \ {0} /\ w + 2 \in Nat \ {0} /\ Len(q) <= Len(q)
      BY <1>1
    <3> QED  BY <1>1, <1>2, <3>1
  <2>3. CASE split
    <3>1. <<SubSeq(q[w + 1], k + 1, Len(q[w + 1]))>> \in Seq(Good)
      BY <1>4, <2>3
    <3> QED  BY <2>1, <2>2, <2>3, <3>1, ConcatProperties
  <2>4. CASE ~ split
    BY <2>1, <2>2, <2>4
  <2> QED  BY <2>3, <2>4
<1>7. ASSUME NEW s \in Seq(Good), NEW i \in DOMAIN s PROVE ByExpert(s[i])
  <2>1. s[i] \in Good
    BY LenProperties
  <2> QED  BY <2>1 DEF Good
<1> QED  BY <1>5, <1>6, <1>7

-----------------------------------------------------------------------------
(* TokenTopKPool::put_batch files the rows of a batch by request.          *)
LEMMA RowsForRequest ==
  ASSUME NEW S, NEW rows \in Seq(S), NEW q
  PROVE  /\ RowsFor(q, rows) \in Seq(S)
         /\ \A i \in DOMAIN RowsFor(q, rows) : RowsFor(q, rows)[i].req = q
         /\ Tags(RowsFor(q, rows)) = {Tag(rows[i]) : i \in {j \in DOMAIN rows : rows[j].req = q}}
         /\ Distinct(rows) => Distinct(RowsFor(q, rows))
<1> DEFINE D == DOMAIN rows
           own == {row \in S : row.req = q}
           pick(i) == IF rows[i].req = q THEN <<rows[i]>> ELSE <<>>
           picks == [i \in D |-> pick(i)]
<1>1. Len(rows) \in Nat /\ D = 1 .. Len(rows) /\ \A i \in D : rows[i] \in S
  BY LenProperties
<1>2. \A i \in D : pick(i) \in Seq(own)
  <2> SUFFICES ASSUME NEW i \in D PROVE pick(i) \in Seq(own)
    OBVIOUS
  <2>1. CASE rows[i].req = q
    <3>1. rows[i] \in own
      BY <1>1, <2>1
    <3> HIDE DEF own
    <3> QED  BY <2>1, <3>1
  <2>2. CASE rows[i].req # q
    BY <2>2, EmptySeq
  <2> QED  BY <2>1, <2>2
<1>3. \A i \in D : /\ Distinct(pick(i))
                   /\ Tags(pick(i)) = IF rows[i].req = q THEN {Tag(rows[i])} ELSE {}
  <2> SUFFICES ASSUME NEW i \in D
               PROVE  /\ Distinct(pick(i))
                      /\ Tags(pick(i)) = IF rows[i].req = q THEN {Tag(rows[i])} ELSE {}
    OBVIOUS
  <2>1. CASE rows[i].req = q
    <3>1. pick(i) = <<rows[i]>> /\ DOMAIN <<rows[i]>> = {1} /\ <<rows[i]>>[1] = rows[i]
      BY <2>1
    <3> HIDE DEF pick
    <3> QED  BY <2>1, <3>1 DEF Distinct, Tags
  <2>2. CASE rows[i].req # q
    <3>1. pick(i) = <<>> /\ DOMAIN <<>> = {}
      BY <2>2
    <3> HIDE DEF pick
    <3> QED  BY <2>2, <3>1 DEF Distinct, Tags
  <2> QED  BY <2>1, <2>2
<1> HIDE DEF pick, D, own
<1>4. picks \in Seq(Seq(own)) /\ DOMAIN picks = D /\ \A i \in D : picks[i] = pick(i)
  BY <1>1, <1>2
<1>5. RowsFor(q, rows) = FlattenSeq(picks)
  BY DEF RowsFor, pick, D
<1> HIDE DEF picks
<1>6. RowsFor(q, rows) \in Seq(own)
  BY <1>4, <1>5, FlattenType
<1>7. RowsFor(q, rows) \in Seq(S)
  <2>1. own \subseteq S
    BY DEF own
  <2> QED  BY <1>6, <2>1, SeqMonotonic
<1>8. \A i \in DOMAIN RowsFor(q, rows) : RowsFor(q, rows)[i].req = q
  <2>1. \A i \in DOMAIN RowsFor(q, rows) : RowsFor(q, rows)[i] \in own
    BY <1>6, LenProperties
  <2> QED  BY <2>1 DEF own
<1>9. Tags(FlattenSeq(picks)) = TagsOfAll(picks) /\ (Distinct(FlattenSeq(picks)) <=> OnceEach(picks))
  BY <1>4, TagsFlatten
<1>10. TagsOfAll(picks) = {Tag(rows[i]) : i \in {j \in D : rows[j].req = q}}
  <2>1. TagsOfAll(picks) = UNION {Tags(pick(i)) : i \in D}
    BY <1>4 DEF TagsOfAll
  <2>2. ASSUME NEW x \in TagsOfAll(picks) PROVE \E i \in D : rows[i].req = q /\ x = Tag(rows[i])
    <3>1. PICK i \in D : x \in Tags(pick(i))
      BY <2>1
    <3> QED  BY <1>3, <3>1
  <2>3. ASSUME NEW i \in D, rows[i].req = q PROVE Tag(rows[i]) \in TagsOfAll(picks)
    BY <1>3, <2>1, <2>3
  <2> QED  BY <2>2, <2>3
<1>11. ASSUME Distinct(rows) PROVE OnceEach(picks)
  <2>1. \A i \in D : Distinct(picks[i])
    BY <1>3, <1>4
  <2>2. ASSUME NEW i \in D, NEW j \in D, i # j PROVE Tags(picks[i]) \cap Tags(picks[j]) = {}
    <3>1. Tag(rows[i]) # Tag(rows[j])
      BY <1>11, <2>2 DEF Distinct, D
    <3>2. Tags(picks[i]) \subseteq {Tag(rows[i])} /\ Tags(picks[j]) \subseteq {Tag(rows[j])}
      BY <1>3, <1>4
    <3> QED  BY <3>1, <3>2
  <2> QED  BY <1>4, <2>1, <2>2 DEF OnceEach
<1> QED  BY <1>5, <1>7, <1>8, <1>9, <1>10, <1>11 DEF D

-----------------------------------------------------------------------------
(* The gate, and what an attention worker makes of a batch.                *)

LEMMA GateFacts ==
  ASSUME TypeOK, NEW q \in Req
  PROVE  /\ TopK \in Nat \ {0}
         /\ \A p \in Req : gate[p] \in [1 .. TopK -> Expert] /\ IsInjective(gate[p])
<1>1. PICK k \in 1 .. NumExperts : gate \in [Req -> Selections(k)]
  BY DEF TypeOK
<1>2. k \in Nat \ {0}
  BY ExpertFacts
<1>3. \A p \in Req : gate[p] \in [1 .. k -> Expert] /\ IsInjective(gate[p])
  BY <1>1 DEF Selections
<1>4. (CHOOSE p \in Req : TRUE) \in Req
  OBVIOUS
<1>5. TopK = k
  <2>1. PICK p \in Req : p = CHOOSE r \in Req : TRUE
    BY <1>4
  <2>2. gate[p] \in [1 .. k -> Expert]
    BY <1>3
  <2>3. Len(gate[p]) = k
    BY <1>2, <2>2
  <2> QED  BY <2>1, <2>3 DEF TopK
<1> QED  BY <1>2, <1>3, <1>5

(* Position t of K * n, counted in blocks of K and in blocks of n.         *)
LEMMA Blocks ==
  ASSUME NEW K \in Nat \ {0}, NEW n \in Nat \ {0}
  PROVE  /\ \A t \in 1 .. K * n :
              /\ (t - 1) \div K \in 0 .. n - 1 /\ (t - 1) % K \in 0 .. K - 1
              /\ t - 1 = K * ((t - 1) \div K) + ((t - 1) % K)
              /\ (t - 1) \div n \in 0 .. K - 1 /\ (t - 1) % n \in 0 .. n - 1
              /\ t - 1 = n * ((t - 1) \div n) + ((t - 1) % n)
         /\ \A a \in 0 .. K - 1, b \in 0 .. n - 1 :
              /\ n * a + b + 1 \in 1 .. K * n
              /\ (n * a + b) % n = b
<1>1. \A k, m \in Nat \ {0} : \A t \in 1 .. k * m :
        /\ (t - 1) \div k \in 0 .. m - 1 /\ (t - 1) % k \in 0 .. k - 1
        /\ t - 1 = k * ((t - 1) \div k) + ((t - 1) % k)
  <2> SUFFICES ASSUME NEW k \in Nat \ {0}, NEW m \in Nat \ {0}, NEW t \in 1 .. k * m
               PROVE  /\ (t - 1) \div k \in 0 .. m - 1 /\ (t - 1) % k \in 0 .. k - 1
                      /\ t - 1 = k * ((t - 1) \div k) + ((t - 1) % k)
    OBVIOUS
  <2>1. k * m \in Nat
    OBVIOUS
  <2>2. t - 1 \in Nat /\ t - 1 < k * m
    BY <2>1
  <2>3. PICK s \in Nat : s = t - 1
    BY <2>2
  <2>4. s \div k \in Nat /\ s % k \in 0 .. k - 1 /\ s = k * (s \div k) + (s % k)
    OBVIOUS
  <2>5. PICK x \in Nat : x = s \div k
    BY <2>4
  <2>6. PICK y \in Nat : y = s % k
    BY <2>4
  <2>7. s = k * x + y /\ s < k * m
    BY <2>2, <2>3, <2>4, <2>5, <2>6
  <2>8. x < m
    <3> SUFFICES ASSUME m <= x PROVE FALSE
      OBVIOUS
    <3>1. PICK z \in Nat : x = m + z
      <4>1. x - m \in Nat /\ x = m + (x - m)
        OBVIOUS
      <4> QED  BY <4>1
    <3>2. k * x = k * m + k * z /\ k * z \in Nat
      BY <3>1
    <3> QED  BY <2>1, <2>7, <3>2
  <2> QED  BY <2>3, <2>4, <2>5, <2>8
<1>2. K * n = n * K
  OBVIOUS
<1>3. ASSUME NEW a \in 0 .. K - 1, NEW b \in 0 .. n - 1
      PROVE  n * a + b + 1 \in 1 .. K * n /\ (n * a + b) % n = b
  <2>1. a \in Nat /\ b \in Nat /\ n * a \in Nat
    OBVIOUS
  <2>2. PICK z \in Nat : K = a + 1 + z
    <3>1. K - a - 1 \in Nat /\ K = a + 1 + (K - a - 1)
      OBVIOUS
    <3> QED  BY <3>1
  <2>3. n * K = n * a + n + n * z /\ n * z \in Nat
    BY <2>1, <2>2
  <2>4. n * a + b + 1 \in 1 .. n * K
    BY <2>1, <2>3
  <2> QED  BY <1>2, <2>1, <2>4
<1> QED  BY <1>1, <1>2, <1>3

(* A row of the batch reqs of worker d, and all the rows of request q.      *)
FromBatch(x, d, reqs) ==
  /\ x.req \in Range(reqs) /\ x.of \in Range(reqs) /\ x.dp = d
  /\ x.exp \in Range(gate[x.of])
  /\ TopK = 1 => x.of = x.req

AllCopies(q, tags) ==
  IsFiniteSet(CopiesFor(q, tags)) /\ Cardinality(CopiesFor(q, tags)) = TopK

LEMMA Expansion ==
  ASSUME TypeOK, NEW d \in Dp, NEW reqs \in Seq(Req), reqs # <<>>, IsInjective(reqs)
  PROVE  /\ Expanded(d, reqs) \in Seq(Sent)
         /\ ByExpert(Expanded(d, reqs))
         /\ Distinct(Expanded(d, reqs))
         /\ OncePerExpert(Tags(Expanded(d, reqs)))
         /\ \A x \in Tags(Expanded(d, reqs)) : FromBatch(x, d, reqs)
         /\ \A q \in Range(reqs) : AllCopies(q, Tags(Expanded(d, reqs)))
<1> DEFINE n == Len(reqs)
           K == TopK
           row(t) == ExpandedRow(d, reqs, t)
           all == [t \in 1 .. K * n |-> row(t)]
           hid(t) == (t - 1) \div K
           col(t) == (t - 1) % K
           pos(t) == (t - 1) % n
<1>1. n \in Nat \ {0} /\ DOMAIN reqs = 1 .. n /\ \A i \in 1 .. n : reqs[i] \in Req
  BY EmptySeq, LenProperties
<1>2. /\ K \in Nat \ {0}
      /\ \A p \in Req : gate[p] \in [1 .. K -> Expert] /\ IsInjective(gate[p])
  <2>1. reqs[1] \in Req
    BY <1>1
  <2> QED  BY <2>1, GateFacts
<1> HIDE DEF K, n
<1>3. K * n \in Nat
  BY <1>1, <1>2
<1>4. ASSUME NEW t \in 1 .. K * n
      PROVE  /\ hid(t) \in 0 .. n - 1 /\ col(t) \in 0 .. K - 1 /\ t - 1 = K * hid(t) + col(t)
             /\ pos(t) \in 0 .. n - 1
  BY <1>1, <1>2, Blocks
<1>5. ASSUME NEW t \in 1 .. K * n
      PROVE  /\ HiddenOf(reqs, t) = reqs[hid(t) + 1] /\ hid(t) + 1 \in 1 .. n
             /\ CopyReq(reqs, t) = reqs[pos(t) + 1] /\ pos(t) + 1 \in 1 .. n
             /\ Chosen(reqs, t) = gate[reqs[hid(t) + 1]][col(t) + 1] /\ col(t) + 1 \in 1 .. K
             /\ reqs[hid(t) + 1] \in Req /\ reqs[pos(t) + 1] \in Req
             /\ Chosen(reqs, t) \in Expert
  <2> HIDE DEF hid, col, pos
  <2>1. hid(t) + 1 \in 1 .. n /\ col(t) + 1 \in 1 .. K /\ pos(t) + 1 \in 1 .. n
    <3>1. \A m \in Nat \ {0} : \A a \in 0 .. m - 1 : a + 1 \in 1 .. m
      OBVIOUS
    <3> QED  BY <1>1, <1>2, <1>4, <3>1, Zenon
  <2>2. /\ HiddenOf(reqs, t) = reqs[hid(t) + 1] /\ CopyReq(reqs, t) = reqs[pos(t) + 1]
        /\ Chosen(reqs, t) = gate[reqs[hid(t) + 1]][col(t) + 1]
    BY DEF HiddenOf, CopyReq, Chosen, hid, col, pos, K, n
  <2>3. gate[reqs[hid(t) + 1]][col(t) + 1] \in Expert
    BY <1>1, <1>2, <2>1
  <2> QED  BY <1>1, <2>1, <2>2, <2>3
<1>6. ASSUME NEW t \in 1 .. K * n
      PROVE  /\ row(t) \in Sent
             /\ Tag(row(t)) = [req |-> CopyReq(reqs, t), dp |-> d,
                               of |-> HiddenOf(reqs, t), exp |-> Chosen(reqs, t)]
  <2>1. CopyReq(reqs, t) \in Req /\ HiddenOf(reqs, t) \in Req /\ Chosen(reqs, t) \in Expert
    BY <1>5
  <2>2. row(t) \in Sent
    BY <2>1 DEF ExpandedRow, Sent
  <2>3. Tag(row(t)) = [req |-> CopyReq(reqs, t), dp |-> d,
                       of |-> HiddenOf(reqs, t), exp |-> Chosen(reqs, t)]
    BY DEF ExpandedRow, Tag, Through
  <2> QED  BY <2>2, <2>3
<1> DEFINE tag(t) == Tag(row(t))
<1>7. ASSUME NEW t \in 1 .. K * n
      PROVE  /\ tag(t).req = reqs[pos(t) + 1] /\ tag(t).of = reqs[hid(t) + 1] /\ tag(t).dp = d
             /\ tag(t).exp = gate[reqs[hid(t) + 1]][col(t) + 1]
  BY <1>5, <1>6
<1>8. ASSUME NEW t \in 1 .. K * n, NEW u \in 1 .. K * n,
             tag(t).of = tag(u).of, tag(t).exp = tag(u).exp
      PROVE  t = u
  <2>1. hid(t) = hid(u)
    <3>1. reqs[hid(t) + 1] = reqs[hid(u) + 1]
      BY <1>7, <1>8
    <3>2. hid(t) + 1 = hid(u) + 1
      BY <1>1, <1>5, <3>1 DEF IsInjective
    <3> QED  BY <1>1, <1>4, <3>2
  <2>2. col(t) = col(u)
    <3>1. gate[reqs[hid(t) + 1]][col(t) + 1] = gate[reqs[hid(t) + 1]][col(u) + 1]
      BY <1>7, <1>8, <2>1
    <3>2. reqs[hid(t) + 1] \in Req /\ col(t) + 1 \in 1 .. K /\ col(u) + 1 \in 1 .. K
      BY <1>5
    <3>3. col(t) + 1 = col(u) + 1
      <4>1. PICK es \in [1 .. K -> Expert] : es = gate[reqs[hid(t) + 1]] /\ IsInjective(es)
        BY <1>2, <3>2
      <4>2. es[col(t) + 1] = es[col(u) + 1] /\ DOMAIN es = 1 .. K
        BY <3>1, <4>1
      <4> HIDE DEF col, hid
      <4> QED  BY <3>2, <4>1, <4>2 DEF IsInjective
    <3> QED  BY <1>2, <1>4, <3>3
  <2>3. t - 1 = u - 1
    BY <1>4, <2>1, <2>2
  <2> QED  BY <1>3, <2>3
<1> HIDE DEF tag, hid, col, pos, row
<1>9. /\ all \in Seq(Sent) /\ DOMAIN all = 1 .. K * n
      /\ \A t \in 1 .. K * n : all[t] = row(t)
  BY <1>3, <1>6
<1> HIDE DEF all
<1>10. \A t \in 1 .. K * n : Tag(all[t]) = tag(t)
  BY <1>9 DEF tag
<1>11. Distinct(all)
  <2> SUFFICES ASSUME NEW t \in 1 .. K * n, NEW u \in 1 .. K * n, tag(t) = tag(u) PROVE t = u
    BY <1>9, <1>10 DEF Distinct
  <2> QED  BY <1>8
<1>12. Tags(all) = {tag(t) : t \in 1 .. K * n}
  <2>1. Tags(all) = {Tag(all[t]) : t \in 1 .. K * n}
    BY <1>9 DEF Tags
  <2> QED  BY <1>10, <2>1
<1>13. ExpertPlaces(all) \in Bijection(DOMAIN all, DOMAIN all) /\ ByExpert(Placed(all, ExpertPlaces(all)))
  <2>1. \A r \in Sent : r.exp \in Nat
    BY ExpertFacts DEF Sent
  <2> QED  BY <1>9, <2>1, ExpertSort
<1>14. /\ Placed(all, ExpertPlaces(all)) \in Seq(Sent)
       /\ Tags(Placed(all, ExpertPlaces(all))) = Tags(all)
       /\ Distinct(Placed(all, ExpertPlaces(all)))
  BY <1>9, <1>11, <1>13, TagsPlaced
<1>15. Expanded(d, reqs) = Placed(all, ExpertPlaces(all))
  BY DEF Expanded, all, row, K, n
<1>16. /\ Expanded(d, reqs) \in Seq(Sent) /\ ByExpert(Expanded(d, reqs)) /\ Distinct(Expanded(d, reqs))
       /\ Tags(Expanded(d, reqs)) = {tag(t) : t \in 1 .. K * n}
  BY <1>12, <1>13, <1>14, <1>15
<1>17. ASSUME NEW t \in 1 .. K * n
       PROVE  /\ tag(t).req \in Range(reqs) /\ tag(t).of \in Range(reqs) /\ tag(t).dp = d
              /\ tag(t).exp \in Range(gate[tag(t).of])
              /\ K = 1 => tag(t).of = tag(t).req
  <2>1. tag(t).req \in Range(reqs) /\ tag(t).of \in Range(reqs) /\ tag(t).dp = d
    BY <1>1, <1>5, <1>7 DEF Range
  <2>2. tag(t).exp \in Range(gate[tag(t).of])
    <3>1. /\ tag(t).of = reqs[hid(t) + 1] /\ tag(t).exp = gate[reqs[hid(t) + 1]][col(t) + 1]
          /\ reqs[hid(t) + 1] \in Req /\ col(t) + 1 \in 1 .. K
      BY <1>5, <1>7
    <3>2. DOMAIN gate[reqs[hid(t) + 1]] = 1 .. K
      BY <1>2, <3>1
    <3> QED  BY <3>1, <3>2 DEF Range
  <2>3. ASSUME K = 1 PROVE hid(t) = pos(t)
    <3>1. t \in 1 .. n /\ n \in Nat \ {0}
      <4>1. 1 * n = n
        BY <1>1
      <4> QED  BY <1>1, <2>3, <4>1
    <3>2. (t - 1) \div 1 = t - 1 /\ (t - 1) % n = t - 1
      BY <3>1
    <3> QED  BY <2>3, <3>2 DEF hid, pos
  <2> QED  BY <1>7, <2>1, <2>2, <2>3
<1>18. ASSUME NEW q \in Range(reqs)
       PROVE  LET copies == CopiesFor(q, {tag(t) : t \in 1 .. K * n})
              IN  IsFiniteSet(copies) /\ Cardinality(copies) = K
  <2> DEFINE copies == CopiesFor(q, {tag(t) : t \in 1 .. K * n})
  <2>1. PICK j \in 1 .. n : q = reqs[j]
    BY <1>1 DEF Range
  <2> DEFINE at(k) == n * (k - 1) + (j - 1) + 1
             f == [k \in 1 .. K |-> tag(at(k))]
  <2>2. ASSUME NEW k \in 1 .. K PROVE at(k) \in 1 .. K * n /\ pos(at(k)) = j - 1
    <3>1. k - 1 \in 0 .. K - 1 /\ j - 1 \in 0 .. n - 1
      BY <1>1, <1>2
    <3>2. \A a \in 0 .. K - 1, b \in 0 .. n - 1 : n * a + b + 1 \in 1 .. K * n /\ (n * a + b) % n = b
      BY <1>1, <1>2, Blocks
    <3>3. n * (k - 1) + (j - 1) + 1 \in 1 .. K * n /\ (n * (k - 1) + (j - 1)) % n = j - 1
      BY <3>1, <3>2, Zenon
    <3>4. n * (k - 1) \in Nat
      BY <1>1, <3>1
    <3>5. (at(k) - 1) = n * (k - 1) + (j - 1)
      BY <3>1, <3>4
    <3> QED  BY <3>3, <3>5 DEF pos
  <2>3. ASSUME NEW k \in 1 .. K PROVE tag(at(k)) \in copies
    <3>1. reqs[(j - 1) + 1] = q
      BY <1>1, <2>1
    <3>2. tag(at(k)).req = q
      BY <1>7, <2>2, <3>1
    <3> QED  BY <2>2, <3>2 DEF CopiesFor
  <2>4. ASSUME NEW x \in copies PROVE \E k \in 1 .. K : x = tag(at(k))
    <3>1. PICK t \in 1 .. K * n : x = tag(t) /\ tag(t).req = q
      BY DEF CopiesFor
    <3>2. pos(t) + 1 = j
      <4>1. reqs[pos(t) + 1] = reqs[j] /\ pos(t) + 1 \in 1 .. n
        BY <1>5, <1>7, <2>1, <3>1
      <4> QED  BY <1>1, <4>1 DEF IsInjective
    <3>3. /\ (t - 1) \div n \in 0 .. K - 1 /\ t - 1 = n * ((t - 1) \div n) + ((t - 1) % n)
          /\ (t - 1) % n \in 0 .. n - 1
      BY <1>1, <1>2, Blocks
    <3>4. PICK a \in 0 .. K - 1 : a = (t - 1) \div n
      BY <3>3
    <3>5. (t - 1) % n = j - 1
      <4>1. PICK c \in 0 .. n - 1 : c = (t - 1) % n
        BY <3>3
      <4>2. c + 1 = j
        BY <3>2, <4>1 DEF pos
      <4> QED  BY <1>1, <4>1, <4>2
    <3>6. t - 1 = n * a + (j - 1) /\ n * a \in Nat
      BY <1>1, <1>2, <3>3, <3>4, <3>5
    <3>7. a + 1 \in 1 .. K /\ (a + 1) - 1 = a
      BY <1>2
    <3>8. t = at(a + 1)
      <4>1. t = n * a + (j - 1) + 1
        BY <1>1, <1>3, <3>6
      <4> QED  BY <3>7, <4>1
    <3> QED  BY <3>1, <3>7, <3>8
  <2>5. ASSUME NEW k \in 1 .. K, NEW l \in 1 .. K, tag(at(k)) = tag(at(l)) PROVE k = l
    <3>1. at(k) = at(l)
      BY <1>8, <2>2, <2>5
    <3>2. PICK a, b \in 0 .. K - 1 : a = k - 1 /\ b = l - 1
      BY <1>2
    <3>3. n * a = n * b
      <4>1. n * a \in Nat /\ n * b \in Nat
        BY <1>1, <3>2
      <4>2. n * a + (j - 1) + 1 = n * b + (j - 1) + 1
        BY <3>1, <3>2
      <4> QED  BY <1>1, <4>1, <4>2
    <3>4. a = b
      <4>1. (n * a) \div n = a /\ (n * b) \div n = b
        BY <1>1, <3>2
      <4> QED  BY <3>3, <4>1
    <3> QED  BY <1>2, <3>2, <3>4
  <2> HIDE DEF copies, at
  <2>6. f \in Bijection(1 .. K, copies)
    <3>1. f \in [1 .. K -> copies] /\ \A k \in 1 .. K : f[k] = tag(at(k))
      BY <2>3
    <3> HIDE DEF f
    <3>2. f \in Injection(1 .. K, copies)
      BY <2>5, <3>1 DEF Injection, IsInjective
    <3>3. f \in Surjection(1 .. K, copies)
      BY <2>4, <3>1 DEF Surjection
    <3> QED  BY <3>2, <3>3 DEF Bijection
  <2>7. IsFiniteSet(1 .. K) /\ Cardinality(1 .. K) = K
    <3>1. 1 \in Int /\ K \in Int /\ (IF 1 > K THEN 0 ELSE K - 1 + 1) = K
      BY <1>2
    <3>2. IsFiniteSet(1 .. K) /\ Cardinality(1 .. K) = IF 1 > K THEN 0 ELSE K - 1 + 1
      BY <3>1, FS_Interval
    <3> QED  BY <3>1, <3>2
  <2>8. ExistsBijection(1 .. K, copies)
    BY <2>6 DEF ExistsBijection
  <2>9. IsFiniteSet(copies) /\ Cardinality(copies) = K
    BY <2>7, <2>8, FS_Bijection
  <2> QED  BY <2>9 DEF copies
<1>19. OncePerExpert(Tags(Expanded(d, reqs)))
  BY <1>8, <1>16 DEF OncePerExpert
<1>20. K = TopK
  BY DEF K
<1>21. ASSUME NEW q \in Range(reqs) PROVE AllCopies(q, Tags(Expanded(d, reqs)))
  BY <1>16, <1>18, <1>20 DEF AllCopies
<1>22. ASSUME NEW x \in Tags(Expanded(d, reqs)) PROVE FromBatch(x, d, reqs)
  <2>1. PICK t \in 1 .. K * n : x = tag(t)
    BY <1>16
  <2> QED  BY <1>17, <1>20, <2>1 DEF FromBatch
<1> QED  BY <1>16, <1>19, <1>21, <1>22

-----------------------------------------------------------------------------
(* Rows on the move.  A step empties some lanes into others, and may add   *)
(* rows whose tags are nowhere yet.                                        *)
LEMMA MovedRows ==
  ASSUME NoRowTwice, NEW Old \in SUBSET Lanes, NEW New \in SUBSET Lanes', NEW Extra,
         Lanes \ Old = Lanes' \ New,
         \A l \in Lanes \ Old : LaneRows'[l] = LaneRows[l],
         Apart(New, LaneRows'),
         TagsAt(New, LaneRows') = TagsAt(Old, LaneRows) \cup Extra,
         Extra \cap Abroad = {}
  PROVE  NoRowTwice' /\ Abroad' = Abroad \cup Extra
<1>1. ASSUME NEW l \in Lanes', l \notin New
      PROVE  l \in Lanes /\ l \notin Old /\ LaneRows'[l] = LaneRows[l] /\ Tags(LaneRows'[l]) = Tags(LaneRows[l])
  BY <1>1
<1>2. ASSUME NEW k \in Lanes' \ New, NEW l \in New PROVE Tags(LaneRows'[k]) \cap Tags(LaneRows'[l]) = {}
  <2> SUFFICES ASSUME NEW x, x \in Tags(LaneRows'[k]), x \in Tags(LaneRows'[l]) PROVE FALSE
    OBVIOUS
  <2>1. k \in Lanes /\ k \notin Old /\ x \in Tags(LaneRows[k])
    BY <1>1
  <2>2. x \in TagsAt(Old, LaneRows) \cup Extra
    BY DEF TagsAt, Abroad
  <2>3. x \notin Extra
    BY <2>1 DEF TagsAt, Abroad
  <2>4. PICK o \in Old : x \in Tags(LaneRows[o])
    BY <2>2, <2>3 DEF TagsAt, Abroad
  <2> QED  BY <2>1, <2>4 DEF Apart, NoRowTwice
<1>3. NoRowTwice'
  <2>1. ASSUME NEW l \in Lanes' PROVE Distinct(LaneRows'[l])
    BY <1>1 DEF Apart, NoRowTwice
  <2>2. ASSUME NEW k \in Lanes', NEW l \in Lanes', k # l PROVE Tags(LaneRows'[k]) \cap Tags(LaneRows'[l]) = {}
    <3>1. CASE k \in New /\ l \in New
      BY <2>2, <3>1 DEF Apart, NoRowTwice
    <3>2. CASE k \notin New /\ l \in New
      BY <1>2, <3>2
    <3>3. CASE k \in New /\ l \notin New
      BY <1>2, <3>3
    <3>4. CASE k \notin New /\ l \notin New
      BY <1>1, <2>2, <3>4 DEF Apart, NoRowTwice
    <3> QED  BY <3>1, <3>2, <3>3, <3>4
  <2> QED  BY <2>1, <2>2 DEF Apart, NoRowTwice
<1>4. Abroad' \subseteq Abroad \cup Extra
  <2> SUFFICES ASSUME NEW x \in Abroad', x \notin Extra PROVE x \in Abroad
    OBVIOUS
  <2>1. PICK l \in Lanes' : x \in Tags(LaneRows'[l])
    BY DEF TagsAt, Abroad
  <2>2. CASE l \in New
    <3>1. x \in TagsAt(Old, LaneRows)
      BY <2>1, <2>2 DEF TagsAt, Abroad
    <3> QED  BY <3>1 DEF TagsAt, Abroad
  <2>3. CASE l \notin New
    BY <1>1, <2>1, <2>3 DEF TagsAt, Abroad
  <2> QED  BY <2>2, <2>3
<1>5. Abroad \cup Extra \subseteq Abroad'
  <2> SUFFICES ASSUME NEW x \in Abroad \cup Extra PROVE x \in Abroad'
    OBVIOUS
  <2>1. CASE x \in TagsAt(Old, LaneRows) \cup Extra
    <3>1. x \in TagsAt(New, LaneRows')
      BY <2>1
    <3> QED  BY <3>1 DEF TagsAt, Abroad
  <2>2. CASE x \notin TagsAt(Old, LaneRows) \cup Extra
    <3>1. PICK l \in Lanes : x \in Tags(LaneRows[l])
      BY <2>2 DEF TagsAt, Abroad
    <3>2. l \notin Old
      BY <2>2, <3>1 DEF TagsAt, Abroad
    <3>3. l \in Lanes' /\ LaneRows'[l] = LaneRows[l]
      BY <3>2
    <3> QED  BY <3>1, <3>3 DEF TagsAt, Abroad
  <2> QED  BY <2>1, <2>2
<1> QED  BY <1>3, <1>4, <1>5

LEMMA LaneContents ==
  /\ \A m \in toExpert : <<"toExpert", m>> \in Lanes /\ LaneRows[<<"toExpert", m>>] = m.rows
  /\ \A r \in Rank : <<"queue", r>> \in Lanes /\ LaneRows[<<"queue", r>>] = FlattenSeq(queue[r])
  /\ \A m \in toAttn : <<"toAttn", m>> \in Lanes /\ LaneRows[<<"toAttn", m>>] = m.rows
  /\ \A q \in Req : <<"held", q>> \in Lanes /\ LaneRows[<<"held", q>>] = held[q]
BY DEF Lanes, LaneRows, RowsIn

LEMMA LaneContentsNext ==
  /\ \A m \in toExpert' : <<"toExpert", m>> \in Lanes' /\ LaneRows'[<<"toExpert", m>>] = m.rows
  /\ \A r \in Rank : <<"queue", r>> \in Lanes' /\ LaneRows'[<<"queue", r>>] = FlattenSeq(queue'[r])
  /\ \A m \in toAttn' : <<"toAttn", m>> \in Lanes' /\ LaneRows'[<<"toAttn", m>>] = m.rows
  /\ \A q \in Req : <<"held", q>> \in Lanes' /\ LaneRows'[<<"held", q>>] = held'[q]
BY DEF Lanes, LaneRows, RowsIn

(* Where tags are kept as they are, so is what is said of them.            *)
LEMMA SameTags ==
  ASSUME TagsRight, CopiesCounted, TodoOnce, Abroad' = Abroad, gate' = gate, todo' = todo
  PROVE  TagsRight' /\ CopiesCounted' /\ TodoOnce'
<1>1. TopK' = TopK /\ \A q : WaitsFor(q)' = WaitsFor(q)
  BY DEF TopK, WaitsFor
<1>2. TagsRight'
  BY <1>1 DEF TagsRight
<1>3. CopiesCounted'
  BY <1>1 DEF CopiesCounted
<1>4. TodoOnce'
  BY DEF TodoOnce
<1> QED  BY <1>2, <1>3, <1>4

-----------------------------------------------------------------------------
(* Batches that arrive.                                                    *)
LEMMA ExpertReceivesMoves ==
  ASSUME TypeOK, NoRowTwice, NEW m \in toExpert, ExpertReceives(m)
  PROVE  NoRowTwice' /\ Abroad' = Abroad
<1> DEFINE from == <<"toExpert", m>>
           at   == <<"queue", m.to>>
<1>1. /\ m.to \in Rank /\ m.rows \in Seq(Sent)
      /\ queue \in [Rank -> Seq(Seq(Sent))] /\ queue[m.to] \in Seq(Seq(Sent))
  BY DEF TypeOK
<1>2. /\ toExpert' = toExpert \ {m} /\ toAttn' = toAttn /\ held' = held
      /\ queue' = [queue EXCEPT ![m.to] = Append(@, m.rows)]
  BY DEF ExpertReceives
<1>3. /\ LaneRows[from] = m.rows /\ LaneRows[at] = FlattenSeq(queue[m.to])
      /\ LaneRows'[at] = FlattenSeq(queue[m.to]) \o m.rows
      /\ {from, at} \subseteq Lanes /\ at \in Lanes'
  <2>1. queue'[m.to] = Append(queue[m.to], m.rows)
    BY <1>1, <1>2
  <2>2. FlattenSeq(queue'[m.to]) = FlattenSeq(queue[m.to]) \o m.rows
    BY <1>1, <2>1, FlattenAppend
  <2> QED  BY <1>1, <2>2, LaneContents, LaneContentsNext
<1>4. Lanes \ {from, at} = Lanes' \ {at}
  BY <1>2 DEF Lanes
<1>5. ASSUME NEW l \in Lanes \ {from, at} PROVE LaneRows'[l] = LaneRows[l]
  BY <1>1, <1>2, <1>5 DEF Lanes, LaneRows, RowsIn
<1>6. FlattenSeq(queue[m.to]) \in Seq(Sent)
  BY <1>1, FlattenType
<1>7. from # at
  OBVIOUS
<1> HIDE DEF from, at
<1>8. Apart({at}, LaneRows')
  <2>1. Distinct(LaneRows[from]) /\ Distinct(LaneRows[at]) /\ Tags(LaneRows[at]) \cap Tags(LaneRows[from]) = {}
    BY <1>3, <1>7 DEF NoRowTwice, Apart
  <2>2. Distinct(LaneRows'[at])
    BY <1>1, <1>3, <1>6, <2>1, TagsConcat
  <2> QED  BY <2>2 DEF Apart
<1>9. TagsAt({at}, LaneRows') = TagsAt({from, at}, LaneRows) \cup {}
  <2>1. Tags(LaneRows'[at]) = Tags(LaneRows[at]) \cup Tags(LaneRows[from])
    BY <1>1, <1>3, <1>6, TagsConcat
  <2> QED  BY <2>1 DEF TagsAt
<1> QED
  <2>1. {at} \in SUBSET Lanes' /\ {from, at} \in SUBSET Lanes /\ {} \cap Abroad = {}
    BY <1>3
  <2> HIDE DEF NoRowTwice, Abroad
  <2>2. NoRowTwice' /\ Abroad' = Abroad \cup {}
    BY <1>4, <1>5, <1>8, <1>9, <2>1, MovedRows
  <2> QED  BY <2>2

LEMMA AttnReceivesMoves ==
  ASSUME TypeOK, NoRowTwice, RepliesHome, NEW m \in toAttn, AttnReceives(m)
  PROVE  NoRowTwice' /\ Abroad' = Abroad
<1> DEFINE from == <<"toAttn", m>>
           at   == [q \in Req |-> <<"held", q>>]
           mine == [q \in Req |-> RowsFor(q, m.rows)]
           New  == Range(at)
           Old  == {from} \cup New
<1>0. /\ \A q \in Req : at[q] = <<"held", q>> /\ at[q] \in New
      /\ \A l \in New : \E q \in Req : l = at[q]
      /\ \A l : l \in Old <=> l = from \/ l \in New
  BY DEF Range
<1> HIDE DEF at, New, Old
<1>1. m.rows \in Seq(Replied) /\ held \in [Req -> Seq(Replied)]
  BY DEF TypeOK
<1>2. /\ toExpert' = toExpert /\ toAttn' = toAttn \ {m} /\ queue' = queue
  BY DEF AttnReceives
<1>3. /\ LaneRows[from] = m.rows
      /\ \A q \in Req : LaneRows[at[q]] = held[q] /\ LaneRows'[at[q]] = held'[q]
      /\ Old \subseteq Lanes /\ New \subseteq Lanes'
  <2>1. \A q \in Req : at[q] \in Lanes /\ at[q] \in Lanes' /\ LaneRows[at[q]] = held[q]
                       /\ LaneRows'[at[q]] = held'[q]
    BY <1>0, <1>2, LaneContents, LaneContentsNext
  <2>2. from \in Lanes /\ LaneRows[from] = m.rows
    BY LaneContents
  <2> QED  BY <1>0, <2>1, <2>2
<1>4. Lanes \ Old = Lanes' \ New
  BY <1>0, <1>2 DEF Lanes
<1>5. ASSUME NEW l \in Lanes \ Old PROVE LaneRows'[l] = LaneRows[l]
  <2>1. \A q \in Req : l # <<"held", q>>
    BY <1>0
  <2>2. l \in Lanes /\ l # from
    BY <1>0
  <2>3. CASE \E c \in toExpert : l = <<"toExpert", c>>
    BY <1>2, <2>3, LaneContents, LaneContentsNext
  <2>4. CASE \E r \in Rank : l = <<"queue", r>>
    BY <1>2, <2>4, LaneContents, LaneContentsNext
  <2>5. CASE \E c \in toAttn : l = <<"toAttn", c>>
    BY <1>2, <2>2, <2>5, LaneContents, LaneContentsNext
  <2> QED  BY <2>1, <2>2, <2>3, <2>4, <2>5 DEF Lanes
<1>6. \A p, q \in Req : from # at[q] /\ (p # q => at[p] # at[q])
  BY <1>0
<1> HIDE DEF from
<1>7. ASSUME NEW q \in Req
      PROVE  /\ Tags(held'[q]) = Tags(held[q]) \cup Tags(mine[q])
             /\ Distinct(held'[q]) <=>
                  /\ Distinct(held[q]) /\ Distinct(mine[q]) /\ Tags(held[q]) \cap Tags(mine[q]) = {}
             /\ Distinct(m.rows) => Distinct(mine[q])
             /\ Tags(mine[q]) \subseteq Tags(m.rows)
             /\ \A x \in Tags(held'[q]) : x.req = q
             /\ \A x \in Tags(m.rows) : x.req = q => x \in Tags(mine[q])
  <2>1. held[q] \in Seq(Replied) /\ RowsFor(q, m.rows) \in Seq(Replied)
    BY <1>1, RowsForRequest
  <2>2. mine[q] = RowsFor(q, m.rows) /\ held'[q] = held[q] \o RowsFor(q, m.rows)
    BY DEF AttnReceives
  <2>3. Tags(mine[q]) = {Tag(m.rows[i]) : i \in {j \in DOMAIN m.rows : m.rows[j].req = q}}
    BY <1>1, <2>2, RowsForRequest
  <2>4. /\ Tags(held'[q]) = Tags(held[q]) \cup Tags(mine[q])
        /\ Distinct(held'[q]) <=> Distinct(held[q]) /\ Distinct(mine[q]) /\ Tags(held[q]) \cap Tags(mine[q]) = {}
        /\ Distinct(m.rows) => Distinct(mine[q])
    <3>1. /\ Tags(held[q] \o RowsFor(q, m.rows)) = Tags(held[q]) \cup Tags(RowsFor(q, m.rows))
          /\ Distinct(held[q] \o RowsFor(q, m.rows)) <=>
               /\ Distinct(held[q]) /\ Distinct(RowsFor(q, m.rows))
               /\ Tags(held[q]) \cap Tags(RowsFor(q, m.rows)) = {}
      BY <2>1, TagsConcat
    <3>2. Distinct(m.rows) => Distinct(RowsFor(q, m.rows))
      BY <1>1, RowsForRequest
    <3> QED  BY <2>2, <3>1, <3>2
  <2> HIDE DEF mine
  <2>5. Tags(mine[q]) \subseteq Tags(m.rows)
    BY <2>3 DEF Tags
  <2>6. \A row : Tag(row).req = row.req
    BY DEF Tag
  <2>7. ASSUME NEW x \in Tags(held'[q]) PROVE x.req = q
    <3>1. CASE x \in Tags(held[q])
      BY <2>6, <3>1 DEF Tags, RepliesHome
    <3>2. CASE x \in Tags(mine[q])
      BY <2>3, <2>6, <3>2
    <3> QED  BY <2>7, <2>4, <3>1, <3>2
  <2>8. ASSUME NEW x \in Tags(m.rows), x.req = q PROVE x \in Tags(mine[q])
    BY <2>3, <2>6, <2>8 DEF Tags
  <2> QED  BY <2>5, <2>7, <2>8, <2>4
<1> HIDE DEF mine
<1>8. Apart(New, LaneRows')
  <2>1. ASSUME NEW q \in Req PROVE Distinct(LaneRows'[at[q]])
    <3>1. Distinct(held[q]) /\ Distinct(m.rows) /\ Tags(held[q]) \cap Tags(m.rows) = {}
      BY <1>0, <1>3, <1>6 DEF NoRowTwice, Apart
    <3> QED  BY <1>3, <1>7, <3>1
  <2>2. ASSUME NEW p \in Req, NEW q \in Req, p # q
        PROVE  Tags(LaneRows'[at[p]]) \cap Tags(LaneRows'[at[q]]) = {}
    BY <1>3, <1>7, <2>2
  <2> QED  BY <1>0, <2>1, <2>2 DEF Apart
<1>9. TagsAt(New, LaneRows') = TagsAt(Old, LaneRows) \cup {}
  <2>1. ASSUME NEW x \in TagsAt(New, LaneRows') PROVE x \in TagsAt(Old, LaneRows)
    <3>1. PICK q \in Req : x \in Tags(LaneRows'[at[q]])
      BY <1>0 DEF TagsAt
    <3>2. x \in Tags(LaneRows[at[q]]) \/ x \in Tags(LaneRows[from])
      BY <1>3, <1>7, <3>1
    <3> QED  BY <1>0, <3>2 DEF TagsAt
  <2>2. ASSUME NEW x \in TagsAt(Old, LaneRows) PROVE x \in TagsAt(New, LaneRows')
    <3>1. CASE x \in Tags(LaneRows[from])
      <4>1. x.req \in Req
        <5>1. PICK i \in DOMAIN m.rows : x = Tag(m.rows[i])
          BY <1>3, <3>1 DEF Tags
        <5>2. m.rows[i] \in Replied
          BY <1>1
        <5>3. m.rows[i].req \in Req
          BY <5>2 DEF Replied
        <5> QED  BY <5>1, <5>3 DEF Tag
      <4>2. x \in Tags(LaneRows'[at[x.req]])
        BY <1>3, <1>7, <3>1, <4>1
      <4> QED  BY <1>0, <4>1, <4>2 DEF TagsAt
    <3>2. CASE \E q \in Req : x \in Tags(LaneRows[at[q]])
      <4>1. PICK q \in Req : x \in Tags(LaneRows[at[q]])
        BY <3>2
      <4>2. x \in Tags(LaneRows'[at[q]])
        BY <1>3, <1>7, <4>1
      <4> QED  BY <1>0, <4>2 DEF TagsAt
    <3> QED  BY <1>0, <3>1, <3>2 DEF TagsAt
  <2> QED  BY <2>1, <2>2
<1> QED
  <2>1. New \in SUBSET Lanes' /\ Old \in SUBSET Lanes /\ {} \cap Abroad = {}
    BY <1>3
  <2>2. NoRowTwice' /\ Abroad' = Abroad \cup {}
    BY <1>4, <1>5, <1>8, <1>9, <2>1, MovedRows
  <2> QED  BY <2>2

LEMMA ExpertReceivesKeeps ==
  ASSUME IInv, NEW m \in toExpert, ExpertReceives(m)
  PROVE  IInv'
<1> USE DEF IInv
<1>1. /\ m.to \in Rank /\ m.rows \in Seq(Sent) /\ ByExpert(m.rows)
      /\ queue \in [Rank -> Seq(Seq(Sent))] /\ queue[m.to] \in Seq(Seq(Sent))
  BY DEF TypeOK, SortedForExperts
<1>2. /\ toExpert' = toExpert \ {m} /\ toAttn' = toAttn /\ held' = held /\ gate' = gate
      /\ todo' = todo /\ queue' = [queue EXCEPT ![m.to] = Append(@, m.rows)]
  BY DEF ExpertReceives
<1>3. NoRowTwice' /\ Abroad' = Abroad
  BY ExpertReceivesMoves
<1>4. TagsRight' /\ CopiesCounted' /\ TodoOnce'
  BY <1>2, <1>3, SameTags
<1>5. /\ Append(queue[m.to], m.rows) \in Seq(Seq(Sent))
      /\ \A k \in DOMAIN Append(queue[m.to], m.rows) :
           \/ k \in DOMAIN queue[m.to] /\ Append(queue[m.to], m.rows)[k] = queue[m.to][k]
           \/ Append(queue[m.to], m.rows)[k] = m.rows
  BY <1>1, AppendProperties, LenProperties
<1>6. TypeOK'
  BY <1>1, <1>2, <1>5 DEF TypeOK
<1>7. SortedForExperts'
  <2>1. ASSUME NEW r \in Rank, NEW k \in DOMAIN queue'[r] PROVE ByExpert(queue'[r][k])
    <3>1. CASE r = m.to
      BY <1>1, <1>2, <1>5, <2>1, <3>1 DEF SortedForExperts
    <3>2. CASE r # m.to
      BY <1>1, <1>2, <2>1, <3>2 DEF SortedForExperts
    <3> QED  BY <3>1, <3>2
  <2>2. \A c \in toExpert' : ByExpert(c.rows)
    BY <1>2 DEF SortedForExperts
  <2> QED  BY <2>1, <2>2 DEF SortedForExperts
<1>8. RepliesHome' /\ PrefillsComeFirst'
  BY <1>2 DEF RepliesHome, PrefillsComeFirst
<1> QED  BY <1>3, <1>4, <1>6, <1>7, <1>8

LEMMA AttnReceivesKeeps ==
  ASSUME IInv, NEW m \in toAttn, AttnReceives(m)
  PROVE  IInv'
<1> USE DEF IInv
<1>1. m.rows \in Seq(Replied) /\ held \in [Req -> Seq(Replied)]
  BY DEF TypeOK
<1>2. /\ toExpert' = toExpert /\ toAttn' = toAttn \ {m} /\ queue' = queue /\ gate' = gate
      /\ todo' = todo /\ held' = [q \in Req |-> held[q] \o RowsFor(q, m.rows)]
  BY DEF AttnReceives
<1>3. NoRowTwice' /\ Abroad' = Abroad
  BY AttnReceivesMoves
<1>4. TagsRight' /\ CopiesCounted' /\ TodoOnce'
  BY <1>2, <1>3, SameTags
<1>5. ASSUME NEW q \in Req
      PROVE  /\ held'[q] \in Seq(Replied)
             /\ \A i \in DOMAIN held'[q] : held'[q][i].req = q
  <2>1. held[q] \in Seq(Replied) /\ RowsFor(q, m.rows) \in Seq(Replied)
    BY <1>1, RowsForRequest
  <2>2. held'[q] = held[q] \o RowsFor(q, m.rows)
    BY <1>2
  <2>3. \A i \in DOMAIN held[q] : held[q][i].req = q
    BY DEF RepliesHome
  <2>4. \A i \in DOMAIN RowsFor(q, m.rows) : RowsFor(q, m.rows)[i].req = q
    BY <1>1, RowsForRequest
  <2>5. PICK s \in Seq(Replied), t \in Seq(Replied) : s = held[q] /\ t = RowsFor(q, m.rows)
    BY <2>1
  <2>6. s \o t \in Seq(Replied) /\ \A i \in DOMAIN (s \o t) : (s \o t)[i].req = q
    <3>1. /\ s \o t \in Seq(Replied) /\ DOMAIN (s \o t) = 1 .. Len(s) + Len(t)
          /\ DOMAIN s = 1 .. Len(s) /\ DOMAIN t = 1 .. Len(t) /\ Len(s) \in Nat /\ Len(t) \in Nat
          /\ \A i \in 1 .. Len(s) + Len(t) :
               (s \o t)[i] = IF i <= Len(s) THEN s[i] ELSE t[i - Len(s)]
      BY ConcatProperties, LenProperties
    <3>2. ASSUME NEW i \in DOMAIN (s \o t) PROVE (s \o t)[i].req = q
      <4>1. CASE i <= Len(s)
        <5>1. i \in DOMAIN s /\ (s \o t)[i] = s[i]
          BY <3>1, <4>1
        <5> QED  BY <2>3, <2>5, <5>1
      <4>2. CASE ~ (i <= Len(s))
        <5>1. i - Len(s) \in DOMAIN t /\ (s \o t)[i] = t[i - Len(s)]
          BY <3>1, <4>2
        <5> QED  BY <2>4, <2>5, <5>1
      <4> QED  BY <4>1, <4>2
    <3> QED  BY <3>1, <3>2
  <2> QED  BY <2>2, <2>5, <2>6
<1>6. TypeOK'
  BY <1>2, <1>5 DEF TypeOK
<1>7. SortedForExperts' /\ PrefillsComeFirst'
  BY <1>2 DEF SortedForExperts, PrefillsComeFirst
<1>8. RepliesHome'
  BY <1>2, <1>5 DEF RepliesHome
<1> QED  BY <1>3, <1>4, <1>6, <1>7, <1>8

-----------------------------------------------------------------------------
(* What an expert worker makes of a batch.                                 *)
RepliesTo(rows, places) == Placed([i \in DOMAIN rows |-> Reply(rows, i)], places)

InAttentionOrder(rows) ==
  \A i, j \in DOMAIN rows : i < j => ~ Precedes(rows[j], rows[i])

LEMMA ReplyTag ==
  ASSUME NEW rows \in Seq(Sent), ByExpert(rows), NEW i \in DOMAIN rows
  PROVE  /\ Reply(rows, i) \in Replied /\ Tag(Reply(rows, i)) = Tag(rows[i])
         /\ Reply(rows, i).dp = rows[i].dp /\ Reply(rows, i).req = rows[i].req
<1>1. rows[i] \in Sent /\ i \in 1 .. Len(rows) /\ Len(rows) \in Nat
  BY LenProperties
<1>2. /\ rows[i].req \in Req /\ rows[i].dp \in Dp /\ rows[i].of \in Req
      /\ rows[i].exp \in Expert /\ rows[i].by = None
  BY <1>1 DEF Sent
<1>3. RanBy(rows, i) = rows[i].exp
  <2>1. \A row \in Sent : row.exp \in Expert
    BY DEF Sent
  <2> QED  BY <2>1, RanByItsExpert
<1>4. WeightRead(rows, i) \in (Req \X Expert) \cup {None}
  <2>1. ASSUME (i - 1) + (i - 1) + 1 <= Len(rows)
        PROVE  rows[(i - 1) + (i - 1) + 1].weight \in Req \X Expert
    <3>1. (i - 1) + (i - 1) + 1 \in 1 .. Len(rows)
      BY <1>1, <2>1
    <3>2. rows[(i - 1) + (i - 1) + 1] \in Sent
      BY <3>1
    <3> QED  BY <3>2 DEF Sent
  <2> QED  BY <2>1 DEF WeightRead
<1>5. None \notin Expert
  BY RowsAssumption
<1>6. Reply(rows, i) \in Replied
  BY <1>2, <1>3, <1>4 DEF Reply, Replied
<1>7. Tag(Reply(rows, i)) = Tag(rows[i])
  BY <1>2, <1>3, <1>5 DEF Reply, Tag, Through
<1> QED  BY <1>6, <1>7 DEF Reply

LEMMA RepliesSorted ==
  ASSUME NEW rows \in Seq(Sent), ByExpert(rows), NEW places \in AttentionPlaces(rows)
  PROVE  /\ RepliesTo(rows, places) \in Seq(Replied)
         /\ Tags(RepliesTo(rows, places)) = Tags(rows)
         /\ Distinct(rows) => Distinct(RepliesTo(rows, places))
         /\ InAttentionOrder(RepliesTo(rows, places))
<1> DEFINE raw == [i \in DOMAIN rows |-> Reply(rows, i)]
<1>1. /\ raw \in Seq(Replied) /\ DOMAIN raw = DOMAIN rows
      /\ \A i \in DOMAIN rows : /\ raw[i] \in Replied /\ Tag(raw[i]) = Tag(rows[i])
                                /\ raw[i].dp = rows[i].dp /\ raw[i].req = rows[i].req
  <2>1. Len(rows) \in Nat /\ DOMAIN rows = 1 .. Len(rows)
    BY LenProperties
  <2>2. \A i \in DOMAIN rows : /\ Reply(rows, i) \in Replied /\ Tag(Reply(rows, i)) = Tag(rows[i])
                               /\ Reply(rows, i).dp = rows[i].dp /\ Reply(rows, i).req = rows[i].req
    BY ReplyTag
  <2>3. raw \in [1 .. Len(rows) -> Replied]
    BY <2>1, <2>2
  <2>4. raw \in Seq(Replied)
    BY <2>1, <2>3
  <2> QED  BY <2>2, <2>4
<1> HIDE DEF raw
<1>2. Tags(raw) = Tags(rows) /\ (Distinct(rows) => Distinct(raw))
  BY <1>1 DEF Tags, Distinct
<1>3. /\ places \in Bijection(DOMAIN raw, DOMAIN raw)
      /\ \A i, j \in DOMAIN rows : Precedes(rows[i], rows[j]) => places[i] < places[j]
  BY <1>1 DEF AttentionPlaces
<1>4. /\ Placed(raw, places) \in Seq(Replied)
      /\ Tags(Placed(raw, places)) = Tags(rows)
      /\ Distinct(rows) => Distinct(Placed(raw, places))
  BY <1>1, <1>2, <1>3, TagsPlaced
<1>5. InAttentionOrder(Placed(raw, places))
  <2>1. PICK at \in [DOMAIN raw -> DOMAIN raw] :
          /\ \A p \in DOMAIN raw : places[at[p]] = p
          /\ \A i \in DOMAIN raw : places[i] \in DOMAIN raw /\ at[places[i]] = i
          /\ Placed(raw, places) = [p \in DOMAIN raw |-> raw[at[p]]]
    <3>1. raw \in Seq(Replied) /\ places \in Bijection(DOMAIN raw, DOMAIN raw)
      BY <1>1, <1>3
    <3> HIDE DEF Replied
    <3> QED  BY ONLY <3>1, PlacedBack, Zenon
  <2> SUFFICES ASSUME NEW i \in DOMAIN raw, NEW j \in DOMAIN raw, i < j,
                      Precedes(raw[at[j]], raw[at[i]])
               PROVE  FALSE
    BY <2>1 DEF InAttentionOrder
  <2>2. at[i] \in DOMAIN rows /\ at[j] \in DOMAIN rows
    BY <1>1, <2>1
  <2>3. Precedes(rows[at[j]], rows[at[i]])
    BY <1>1, <2>2 DEF Precedes
  <2>4. places[at[j]] < places[at[i]]
    BY <1>3, <2>2, <2>3
  <2>5. j < i
    BY <2>1, <2>4
  <2>6. i \in Nat /\ j \in Nat
    BY <1>1, LenProperties
  <2> QED  BY <2>5, <2>6
<1>6. RepliesTo(rows, places) = Placed(raw, places)
  BY DEF RepliesTo, raw
<1> QED  BY <1>4, <1>5, <1>6

(* A batch on its way back is of one worker, its prefills in front.        *)
LEMMA RepliesCut ==
  ASSUME NEW rows \in Seq(Replied), InAttentionOrder(rows), NEW c \in Cuts(rows, DestAttn(rows))
  PROVE  /\ c \in [to : Dp, rows : Seq(Replied)] /\ Tags(c.rows) # {}
         /\ \A i \in DOMAIN c.rows : c.rows[i].dp = c.to
         /\ PrefillsFirst([i \in DOMAIN c.rows |-> c.rows[i].req])
<1>1. PICK a \in Nat \ {0}, b \in Nat :
        /\ a <= b /\ b <= Len(rows)
        /\ c = [to |-> DestAttn(rows)[a], rows |-> SubSeq(rows, a, b)]
        /\ \A k \in a .. b : DestAttn(rows)[k] = DestAttn(rows)[a]
  BY CutsParts
<1>2. DOMAIN rows = 1 .. Len(rows) /\ Len(rows) \in Nat
  BY LenProperties
<1>3. \A k \in a .. b : k \in DOMAIN rows /\ rows[k] \in Replied /\ DestAttn(rows)[k] = rows[k].dp
  BY <1>1, <1>2 DEF DestAttn
<1> DEFINE part == SubSeq(rows, a, b)
<1>4. /\ part \in Seq(Replied)
      /\ \A i \in DOMAIN part : a + i - 1 \in a .. b /\ part[i] = rows[a + i - 1]
      /\ Tags(part) = {Tag(rows[k]) : k \in a .. b}
  BY <1>1, TagsPart
<1> HIDE DEF part
<1>5. c.to = DestAttn(rows)[a] /\ c.rows = part
  BY <1>1 DEF part
<1>6. a \in a .. b
  BY <1>1
<1>7. c.to \in Dp
  <2>1. rows[a].dp \in Dp
    BY <1>3, <1>6 DEF Replied
  <2> QED  BY <1>3, <1>5, <1>6, <2>1
<1>8. c \in [to : Dp, rows : Seq(Replied)]
  BY <1>1, <1>4, <1>5, <1>7
<1>9. Tags(c.rows) # {}
  BY <1>4, <1>5, <1>6
<1>10. \A i \in DOMAIN part : part[i].dp = c.to
  <2> SUFFICES ASSUME NEW i \in DOMAIN part PROVE part[i].dp = c.to
    OBVIOUS
  <2>1. PICK k \in a .. b : part[i] = rows[k]
    BY <1>4
  <2> QED  BY <1>1, <1>3, <1>5, <2>1
<1>11. PrefillsFirst([i \in DOMAIN part |-> part[i].req])
  <2> SUFFICES ASSUME NEW i \in DOMAIN part, NEW j \in DOMAIN part, i < j,
                      part[j].req \in Fresh, part[i].req \notin Fresh
               PROVE  FALSE
    BY DEF PrefillsFirst
  <2>1. i \in Nat /\ j \in Nat
    BY <1>4, LenProperties
  <2>2. PICK k \in a .. b, l \in a .. b : /\ k = a + i - 1 /\ l = a + j - 1
                                          /\ part[i] = rows[k] /\ part[j] = rows[l]
    BY <1>4
  <2>3. k < l
    BY <1>1, <2>1, <2>2
  <2>4. rows[k].dp = rows[l].dp
    BY <1>10, <2>2
  <2>5. Precedes(rows[l], rows[k])
    BY <2>2, <2>4 DEF Precedes
  <2> QED  BY <1>3, <2>3, <2>5 DEF InAttentionOrder
<1> QED  BY <1>5, <1>8, <1>9, <1>10, <1>11

LEMMA RunExpertsSends ==
  ASSUME IInv, NEW r \in Rank, RunExperts(r)
  PROVE  \E rows \in Seq(Replied) :
           /\ InAttentionOrder(rows) /\ Distinct(rows)
           /\ toAttn' = toAttn \cup Cuts(rows, DestAttn(rows))
           /\ queue' = [queue EXCEPT ![r] = Left(@, Threshold)]
           /\ queue'[r] \in Seq(Seq(Sent)) /\ \A k \in DOMAIN queue'[r] : ByExpert(queue'[r][k])
           /\ Distinct(FlattenSeq(queue'[r]))
           /\ Tags(rows) \cap Tags(FlattenSeq(queue'[r])) = {}
           /\ Tags(FlattenSeq(queue[r])) = Tags(rows) \cup Tags(FlattenSeq(queue'[r]))
<1> USE DEF IInv
<1> DEFINE taken == Taken(queue[r], Threshold)
           left  == Left(queue[r], Threshold)
<1>1. /\ queue \in [Rank -> Seq(Seq(Sent))] /\ queue[r] \in Seq(Seq(Sent))
      /\ \A k \in DOMAIN queue[r] : ByExpert(queue[r][k])
      /\ Threshold \in Nat \ {0}
  BY RowsAssumption DEF TypeOK, SortedForExperts
<1>2. /\ taken \in Seq(Seq(Sent)) /\ left \in Seq(Seq(Sent))
      /\ FlattenSeq(queue[r]) = FlattenSeq(taken) \o FlattenSeq(left)
  BY <1>1, TakenAndLeft
<1>3. /\ \A k \in DOMAIN taken : ByExpert(taken[k])
      /\ \A k \in DOMAIN left : ByExpert(left[k])
  BY <1>1, TakenByExpert
<1>4. PICK places \in AttentionPlaces(Merged(taken)) :
        toAttn' = toAttn \cup Cuts(RepliesTo(Merged(taken), places), DestAttn(RepliesTo(Merged(taken), places)))
  BY DEF RunExperts, RepliesTo
<1>5. queue' = [queue EXCEPT ![r] = Left(@, Threshold)] /\ queue'[r] = left
  BY <1>1 DEF RunExperts
<1> HIDE DEF taken, left
<1>6. /\ Merged(taken) \in Seq(Sent) /\ ByExpert(Merged(taken))
      /\ Tags(Merged(taken)) = Tags(FlattenSeq(taken))
      /\ Distinct(FlattenSeq(taken)) => Distinct(Merged(taken))
  <2>1. \A row \in Sent : row.exp \in Nat
    BY ExpertFacts DEF Sent
  <2> QED  BY <1>2, <1>3, <2>1, MergedRows
<1>7. FlattenSeq(taken) \in Seq(Sent) /\ FlattenSeq(left) \in Seq(Sent)
  BY <1>2, FlattenType
<1>8. /\ Tags(FlattenSeq(queue[r])) = Tags(FlattenSeq(taken)) \cup Tags(FlattenSeq(left))
      /\ Distinct(FlattenSeq(taken)) /\ Distinct(FlattenSeq(left))
      /\ Tags(FlattenSeq(taken)) \cap Tags(FlattenSeq(left)) = {}
  <2>1. Distinct(FlattenSeq(queue[r]))
    BY LaneContents DEF NoRowTwice, Apart
  <2> QED  BY <1>2, <1>7, <2>1, TagsConcat
<1> DEFINE rows == RepliesTo(Merged(taken), places)
<1>9. rows \in Seq(Replied) /\ Tags(rows) = Tags(Merged(taken)) /\ Distinct(rows) /\ InAttentionOrder(rows)
  BY <1>4, <1>6, <1>8, RepliesSorted
<1>10. toAttn' = toAttn \cup Cuts(rows, DestAttn(rows))
  BY <1>4
<1> HIDE DEF rows
<1> QED
  <2>1. Tags(rows) = Tags(FlattenSeq(taken))
    BY <1>6, <1>9
  <2> HIDE DEF IInv
  <2> QED  BY <1>2, <1>3, <1>5, <1>8, <1>9, <1>10, <2>1

LEMMA RunExpertsMoves ==
  ASSUME IInv, NEW r \in Rank, RunExperts(r)
  PROVE  NoRowTwice' /\ Abroad' = Abroad
<1>1. PICK rows \in Seq(Replied) :
        /\ InAttentionOrder(rows) /\ Distinct(rows)
        /\ toAttn' = toAttn \cup Cuts(rows, DestAttn(rows))
        /\ queue' = [queue EXCEPT ![r] = Left(@, Threshold)]
        /\ Distinct(FlattenSeq(queue'[r]))
        /\ Tags(rows) \cap Tags(FlattenSeq(queue'[r])) = {}
        /\ Tags(FlattenSeq(queue[r])) = Tags(rows) \cup Tags(FlattenSeq(queue'[r]))
  BY RunExpertsSends
<1> DEFINE C    == Cuts(rows, DestAttn(rows))
           at   == <<"queue", r>>
           to   == [c \in C |-> <<"toAttn", c>>]
           New  == {at} \cup Range(to)
<1>2. toExpert' = toExpert /\ held' = held /\ toAttn' = toAttn \cup C
  BY <1>1 DEF RunExperts
<1>3. /\ \A c \in C : Distinct(c.rows) /\ Tags(c.rows) # {} /\ Tags(c.rows) \subseteq Tags(rows)
      /\ \A c, d \in C : c # d => Tags(c.rows) \cap Tags(d.rows) = {}
      /\ \A x \in Tags(rows) : \E c \in C : x \in Tags(c.rows)
  <2>1. UNION {Tags(c.rows) : c \in C} = Tags(rows)
    BY CutsParts
  <2>2. (\A c \in C : Distinct(c.rows)) /\ \A c, d \in C : c # d => Tags(c.rows) \cap Tags(d.rows) = {}
    BY <1>1, CutsParts
  <2>3. \A c \in C : Tags(c.rows) # {}
    BY <1>1, RepliesCut
  <2> HIDE DEF C
  <2> QED  BY <2>1, <2>2, <2>3
<1> HIDE DEF C
<1>4. /\ \A c \in C : to[c] = <<"toAttn", c>> /\ to[c] \in New
      /\ \A l \in New : l = at \/ \E c \in C : l = to[c]
      /\ at \in New /\ at = <<"queue", r>>
  BY DEF Range
<1> HIDE DEF to, New, at
<1>5. /\ at \in Lanes /\ at \in Lanes' /\ LaneRows[at] = FlattenSeq(queue[r])
      /\ LaneRows'[at] = FlattenSeq(queue'[r])
      /\ \A c \in C : to[c] \in Lanes' /\ LaneRows'[to[c]] = c.rows
  BY <1>2, <1>4, LaneContents, LaneContentsNext
<1>6. ASSUME NEW c \in C PROVE c \notin toAttn
  <2>1. PICK x : x \in Tags(c.rows) /\ x \in Tags(LaneRows[at])
    BY <1>1, <1>3, <1>5
  <2> SUFFICES ASSUME c \in toAttn PROVE FALSE
    OBVIOUS
  <2>2. /\ to[c] \in Lanes /\ LaneRows[to[c]] = c.rows
        /\ to[c] # at
    BY <1>4, LaneContents
  <2> QED  BY <1>5, <2>1, <2>2 DEF IInv, NoRowTwice, Apart
<1>7. ASSUME NEW l \in Lanes' \ New
      PROVE  l \in Lanes \ {at} /\ LaneRows'[l] = LaneRows[l]
  <2>1. l \in Lanes' /\ l # at /\ \A c \in C : l # to[c]
    BY <1>4
  <2>2. CASE \E c \in toExpert : l = <<"toExpert", c>>
    BY <1>2, <2>1, <2>2, LaneContents, LaneContentsNext
  <2>3. CASE \E s \in Rank : l = <<"queue", s>>
    <3>1. PICK s \in Rank : l = <<"queue", s>>
      BY <2>3
    <3>2. s # r
      BY <1>4, <2>1, <3>1
    <3>3. queue'[s] = queue[s]
      BY <1>1, <3>2 DEF IInv, TypeOK
    <3> QED  BY <2>1, <3>1, <3>3, LaneContents, LaneContentsNext
  <2>4. CASE \E c \in toAttn' : l = <<"toAttn", c>>
    <3>1. PICK c \in toAttn' : l = <<"toAttn", c>>
      BY <2>4
    <3>2. c \in toAttn
      BY <1>2, <1>4, <2>1, <3>1
    <3> QED  BY <2>1, <3>1, <3>2, LaneContents, LaneContentsNext
  <2>5. CASE \E q \in Req : l = <<"held", q>>
    BY <1>2, <2>1, <2>5, LaneContents, LaneContentsNext
  <2>6. toExpert' = toExpert
    BY <1>2
  <2> QED  BY <2>1, <2>2, <2>3, <2>4, <2>5, <2>6 DEF Lanes
<1>8. ASSUME NEW l \in Lanes \ {at} PROVE l \in Lanes' \ New
  <2>1. l \in Lanes'
    BY <1>2 DEF Lanes
  <2>2. l # at /\ \A c \in C : l # to[c]
    <3>1. ASSUME NEW c \in C, l = to[c] PROVE FALSE
      <4>1. l = <<"toAttn", c>>
        BY <1>4, <3>1
      <4>2. c \in toAttn
        BY <4>1 DEF Lanes
      <4> QED  BY <1>6, <4>2
    <3> QED  BY <3>1
  <2> QED  BY <1>4, <2>1, <2>2
<1>9. Apart(New, LaneRows')
  <2>1. ASSUME NEW l \in New PROVE Distinct(LaneRows'[l])
    BY <1>1, <1>3, <1>4, <1>5
  <2>2. ASSUME NEW k \in New, NEW l \in New, k # l PROVE Tags(LaneRows'[k]) \cap Tags(LaneRows'[l]) = {}
    <3>1. \A c \in C : Tags(LaneRows'[at]) \cap Tags(LaneRows'[to[c]]) = {}
      BY <1>1, <1>3, <1>5
    <3>2. CASE k = at \/ l = at
      BY <1>4, <2>2, <3>1, <3>2
    <3>3. CASE k # at /\ l # at
      <4>1. PICK c \in C, d \in C : k = to[c] /\ l = to[d]
        BY <1>4, <3>3
      <4> QED  BY <1>3, <1>5, <2>2, <4>1
    <3> QED  BY <3>2, <3>3
  <2> QED  BY <2>1, <2>2 DEF Apart
<1>10. TagsAt(New, LaneRows') = TagsAt({at}, LaneRows) \cup {}
  <2>1. TagsAt({at}, LaneRows) = Tags(rows) \cup Tags(LaneRows'[at])
    BY <1>1, <1>5 DEF TagsAt
  <2>2. ASSUME NEW x \in TagsAt(New, LaneRows') PROVE x \in Tags(rows) \cup Tags(LaneRows'[at])
    <3>1. PICK l \in New : x \in Tags(LaneRows'[l])
      BY DEF TagsAt
    <3> QED  BY <1>3, <1>4, <1>5, <3>1
  <2>3. ASSUME NEW x \in Tags(rows) PROVE x \in TagsAt(New, LaneRows')
    <3>1. PICK c \in C : x \in Tags(c.rows)
      BY <1>3
    <3> QED  BY <1>4, <1>5, <3>1 DEF TagsAt
  <2>4. Tags(LaneRows'[at]) \subseteq TagsAt(New, LaneRows')
    BY <1>4 DEF TagsAt
  <2> QED  BY <2>1, <2>2, <2>3, <2>4
<1> QED
  <2>1. NoRowTwice /\ New \in SUBSET Lanes' /\ {at} \in SUBSET Lanes /\ {} \cap Abroad = {}
    BY <1>4, <1>5 DEF IInv
  <2>2. Lanes \ {at} = Lanes' \ New /\ \A l \in Lanes \ {at} : LaneRows'[l] = LaneRows[l]
    BY <1>7, <1>8
  <2>3. NoRowTwice' /\ Abroad' = Abroad \cup {}
    BY <1>9, <1>10, <2>1, <2>2, MovedRows
  <2> QED  BY <2>3

LEMMA RunExpertsKeeps ==
  ASSUME IInv, NEW r \in Rank, RunExperts(r)
  PROVE  IInv'
<1>1. PICK rows \in Seq(Replied) :
        /\ InAttentionOrder(rows)
        /\ toAttn' = toAttn \cup Cuts(rows, DestAttn(rows))
        /\ queue' = [queue EXCEPT ![r] = Left(@, Threshold)]
        /\ queue'[r] \in Seq(Seq(Sent)) /\ \A k \in DOMAIN queue'[r] : ByExpert(queue'[r][k])
  BY RunExpertsSends
<1>2. gate' = gate /\ todo' = todo /\ toExpert' = toExpert /\ held' = held
  BY DEF RunExperts
<1>3. NoRowTwice' /\ Abroad' = Abroad
  BY RunExpertsMoves
<1>4. TagsRight' /\ CopiesCounted' /\ TodoOnce'
  BY <1>2, <1>3, SameTags DEF IInv
<1>5. \A s \in Rank : s # r => queue'[s] = queue[s]
  BY <1>1 DEF IInv, TypeOK
<1>6. \A c \in Cuts(rows, DestAttn(rows)) :
        /\ c \in [to : Dp, rows : Seq(Replied)]
        /\ \A i \in DOMAIN c.rows : c.rows[i].dp = c.to
        /\ PrefillsFirst([i \in DOMAIN c.rows |-> c.rows[i].req])
  BY <1>1, RepliesCut
<1>7. TypeOK'
  <2>1. queue' \in [Rank -> Seq(Seq(Sent))]
    BY <1>1, <1>5 DEF IInv, TypeOK
  <2>2. toAttn' \subseteq [to : Dp, rows : Seq(Replied)]
    BY <1>1, <1>6 DEF IInv, TypeOK
  <2> QED  BY <1>2, <2>1, <2>2 DEF IInv, TypeOK
<1>8. SortedForExperts'
  <2>1. ASSUME NEW s \in Rank, NEW k \in DOMAIN queue'[s] PROVE ByExpert(queue'[s][k])
    BY <1>1, <1>5, <2>1 DEF IInv, SortedForExperts
  <2> QED  BY <1>2, <2>1 DEF IInv, SortedForExperts
<1>9. RepliesHome'
  BY <1>1, <1>2, <1>6 DEF IInv, RepliesHome
<1>10. PrefillsComeFirst'
  BY <1>1, <1>6 DEF IInv, PrefillsComeFirst
<1> QED  BY <1>3, <1>4, <1>7, <1>8, <1>9, <1>10 DEF IInv

-----------------------------------------------------------------------------
(* An attention batch.                                                     *)
LEMMA TagType ==
  ASSUME TypeOK, NEW x \in Abroad
  PROVE  x.req \in Req /\ x.of \in Req
<1>1. PICK l \in Lanes : x \in Tags(LaneRows[l])
  BY DEF Abroad, TagsAt
<1>2. ASSUME NEW rows, NEW S \in SUBSET Row, rows \in Seq(S), x \in Tags(rows)
      PROVE  x.req \in Req /\ x.of \in Req
  <2>1. PICK i \in DOMAIN rows : x = Tag(rows[i])
    BY <1>2 DEF Tags
  <2>2. rows[i] \in Row
    BY <1>2
  <2>3. rows[i].req \in Req /\ rows[i].of \in Req
    BY <2>2 DEF Row, Sent, Replied
  <2> QED  BY <2>1, <2>3 DEF Tag
<1>3. Sent \in SUBSET Row /\ Replied \in SUBSET Row
  BY DEF Row
<1>4. CASE \E m \in toExpert : l = <<"toExpert", m>>
  <2>1. LaneRows[l] \in Seq(Sent)
    BY <1>4, LaneContents DEF TypeOK
  <2> QED  BY <1>1, <1>2, <1>3, <2>1
<1>5. CASE \E r \in Rank : l = <<"queue", r>>
  <2>1. PICK r \in Rank : LaneRows[l] = FlattenSeq(queue[r])
    BY <1>5, LaneContents
  <2>2. queue[r] \in Seq(Seq(Sent))
    BY DEF TypeOK
  <2>3. LaneRows[l] \in Seq(Sent)
    BY <2>1, <2>2, FlattenType
  <2> QED  BY <1>1, <1>2, <1>3, <2>3
<1>6. CASE \E m \in toAttn : l = <<"toAttn", m>>
  <2>1. LaneRows[l] \in Seq(Replied)
    BY <1>6, LaneContents DEF TypeOK
  <2> QED  BY <1>1, <1>2, <1>3, <2>1
<1>7. CASE \E q \in Req : l = <<"held", q>>
  <2>1. LaneRows[l] \in Seq(Replied)
    BY <1>7, LaneContents DEF TypeOK
  <2> QED  BY <1>1, <1>2, <1>3, <2>1
<1> QED  BY <1>4, <1>5, <1>6, <1>7 DEF Lanes

LEMMA Halves ==
  ASSUME NEW S, NEW s \in Seq(S), IsInjective(s), NEW n \in 1 .. Len(s)
  PROVE  LET first == SubSeq(s, 1, n)
             rest  == SubSeq(s, n + 1, Len(s))
         IN  /\ first \in Seq(S) /\ rest \in Seq(S) /\ first # <<>>
             /\ IsInjective(first) /\ IsInjective(rest)
             /\ Range(s) = Range(first) \cup Range(rest)
             /\ Range(first) \cap Range(rest) = {}
<1> DEFINE first == SubSeq(s, 1, n)
           rest  == SubSeq(s, n + 1, Len(s))
<1>1. Len(s) \in Nat /\ DOMAIN s = 1 .. Len(s) /\ n \in Nat \ {0} /\ n <= Len(s)
  BY LenProperties
<1>2. /\ first \in Seq(S) /\ Len(first) = n /\ DOMAIN first = 1 .. n
      /\ \A i \in 1 .. n : first[i] = s[i]
  <2>1. 1 \in 1 .. Len(s) + 1 /\ n \in 1 - 1 .. Len(s)
    BY <1>1
  <2>2. /\ SubSeq(s, 1, n) \in Seq(S) /\ Len(SubSeq(s, 1, n)) = n
        /\ \A i \in 1 .. n : SubSeq(s, 1, n)[i] = s[i]
    BY <1>1, SubSeqProperties
  <2> QED  BY <2>2, LenProperties
<1>3. /\ rest \in Seq(S) /\ Len(rest) = Len(s) - n /\ DOMAIN rest = 1 .. Len(s) - n
      /\ \A i \in 1 .. Len(s) - n : rest[i] = s[n + i]
  <2>1. /\ SubSeq(s, n + 1, Len(s)) \in Seq(S) /\ Len(SubSeq(s, n + 1, Len(s))) = Len(s) - n
        /\ \A i \in 1 .. Len(s) - n : SubSeq(s, n + 1, Len(s))[i] = s[n + i]
    <3>0. n + 1 \in Int /\ Len(s) \in Int
      BY <1>1
    <3>1. PICK a \in Int, b \in Int : a = n + 1 /\ b = Len(s)
      BY <3>0, Zenon
    <3>2. \A i \in a .. b : s[i] \in S
      BY <1>1, <3>1
    <3>3. /\ SubSeq(s, a, b) \in Seq(S)
          /\ Len(SubSeq(s, a, b)) = IF a <= b THEN b - a + 1 ELSE 0
          /\ \A i \in 1 .. b - a + 1 : SubSeq(s, a, b)[i] = s[a + i - 1]
      BY <3>2, SubSeqProperties
    <3>4. /\ b - a + 1 = Len(s) - n /\ (IF a <= b THEN b - a + 1 ELSE 0) = Len(s) - n
          /\ \A i \in 1 .. Len(s) - n : a + i - 1 = n + i
      <4>1. n \in Nat /\ a = n + 1 /\ b \in Nat /\ n <= b /\ b = Len(s)
        BY <1>1, <3>1
      <4>2. /\ b - a + 1 = b - n /\ (a <= b => b - a + 1 = b - n) /\ (~ (a <= b) => 0 = b - n)
            /\ \A i \in 1 .. b - n : a + i - 1 = n + i
        BY ONLY <4>1
      <4> QED  BY <4>1, <4>2
    <3> QED  BY <3>1, <3>3, <3>4
  <2> QED  BY <2>1, LenProperties
<1> HIDE DEF first, rest
<1>4. first # <<>>
  BY <1>1, <1>2, EmptySeq
<1>5. IsInjective(first) /\ IsInjective(rest)
  <2>1. IsInjective(first)
    BY <1>1, <1>2 DEF IsInjective
  <2>2. ASSUME NEW i \in 1 .. Len(s) - n, NEW j \in 1 .. Len(s) - n, rest[i] = rest[j] PROVE i = j
    <3>1. n + i \in DOMAIN s /\ n + j \in DOMAIN s
      BY <1>1
    <3>2. s[n + i] = s[n + j]
      BY <1>3, <2>2
    <3>3. n + i = n + j
      BY <3>1, <3>2 DEF IsInjective
    <3> QED  BY <1>1, <3>3
  <2> QED  BY <1>3, <2>1, <2>2 DEF IsInjective
<1>6. ASSUME NEW x \in Range(s) PROVE x \in Range(first) \cup Range(rest)
  <2>1. PICK i \in 1 .. Len(s) : x = s[i]
    BY <1>1 DEF Range
  <2>2. CASE i <= n
    <3>1. i \in 1 .. n
      BY <1>1, <2>2
    <3> QED  BY <1>2, <2>1, <3>1 DEF Range
  <2>3. CASE ~ (i <= n)
    <3>1. i - n \in 1 .. Len(s) - n /\ n + (i - n) = i
      BY <1>1, <2>3
    <3>2. rest[i - n] = x
      BY <1>3, <2>1, <3>1
    <3> QED  BY <1>3, <3>1, <3>2 DEF Range
  <2> QED  BY <2>2, <2>3
<1>7. Range(first) \subseteq Range(s) /\ Range(rest) \subseteq Range(s)
  <2>1. \A i \in 1 .. n : i \in DOMAIN s
    BY <1>1
  <2>2. \A i \in 1 .. Len(s) - n : n + i \in DOMAIN s
    BY <1>1
  <2>3. ASSUME NEW x \in Range(first) PROVE x \in Range(s)
    <3>1. PICK i \in 1 .. n : x = s[i]
      BY <1>2 DEF Range
    <3> QED  BY <2>1, <3>1 DEF Range
  <2>4. ASSUME NEW x \in Range(rest) PROVE x \in Range(s)
    <3>1. PICK i \in 1 .. Len(s) - n : x = s[n + i]
      BY <1>3 DEF Range
    <3> QED  BY <2>2, <3>1 DEF Range
  <2> QED  BY <2>3, <2>4
<1>8. ASSUME NEW x \in Range(first), x \in Range(rest) PROVE FALSE
  <2>1. PICK i \in 1 .. n : x = s[i]
    BY <1>2 DEF Range
  <2>2. PICK j \in 1 .. Len(s) - n : x = s[n + j]
    BY <1>3, <1>8 DEF Range
  <2>3. i \in DOMAIN s /\ n + j \in DOMAIN s /\ i # n + j
    BY <1>1
  <2> QED  BY <2>1, <2>2, <2>3 DEF IsInjective
<1>9. Range(s) = Range(first) \cup Range(rest) /\ Range(first) \cap Range(rest) = {}
  BY <1>6, <1>7, <1>8
<1> QED  BY <1>2, <1>3, <1>4, <1>5, <1>9 DEF first, rest

(* A batch on its way to an expert worker.                                 *)
LEMMA ExpandedCut ==
  ASSUME NEW rows \in Seq(Sent), ByExpert(rows), NEW c \in Cuts(rows, DestExpert(rows))
  PROVE  c \in [to : Rank, rows : Seq(Sent)] /\ Tags(c.rows) # {} /\ ByExpert(c.rows)
<1>1. PICK a \in Nat \ {0}, b \in Nat :
        /\ a <= b /\ b <= Len(rows)
        /\ c = [to |-> DestExpert(rows)[a], rows |-> SubSeq(rows, a, b)]
        /\ \A k \in a .. b : DestExpert(rows)[k] = DestExpert(rows)[a]
  BY CutsParts
<1>2. a \in DOMAIN rows /\ a \in a .. b
  BY <1>1, LenProperties
<1>3. DestExpert(rows)[a] \in Rank
  <2>1. rows[a] \in Sent
    BY <1>2
  <2>2. rows[a].exp \in Expert
    BY <2>1 DEF Sent
  <2>3. ExpertRank[rows[a].exp] \in Rank
    BY <2>2, RowsAssumption
  <2> QED  BY <1>2, <2>3 DEF DestExpert
<1>4. SubSeq(rows, a, b) \in Seq(Sent) /\ Tags(SubSeq(rows, a, b)) = {Tag(rows[k]) : k \in a .. b}
  BY <1>1, TagsPart
<1>5. ByExpert(SubSeq(rows, a, b))
  BY <1>1, PartByExpert
<1>6. c.to = DestExpert(rows)[a] /\ c.rows = SubSeq(rows, a, b)
  BY <1>1
<1>7. Tags(c.rows) # {}
  BY <1>2, <1>4, <1>6
<1> QED  BY <1>1, <1>3, <1>4, <1>5, <1>6, <1>7

(* What Attend takes, and what is said of it and of those still waiting.   *)
LEMMA AttendTakes ==
  ASSUME IInv, NEW d \in Dp, NEW n \in 1 .. Len(todo[d]), Attend(d, n)
  PROVE  \E reqs \in Seq(Req) :
           /\ reqs # <<>> /\ IsInjective(reqs)
           /\ toExpert' = toExpert \cup Cuts(Expanded(d, reqs), DestExpert(Expanded(d, reqs)))
           /\ todo' \in [Dp -> Seq(Req)] /\ TodoOnce'
           /\ \A q \in Range(reqs) : q \in Req /\ Home[q] = d /\ WaitsFor(q) /\ ~ WaitsFor(q)'
           /\ \A q \in Req : q \notin Range(reqs) => (WaitsFor(q)' <=> WaitsFor(q))
<1> DEFINE reqs == SubSeq(todo[d], 1, n)
           rest == SubSeq(todo[d], n + 1, Len(todo[d]))
<1>1. /\ todo \in [Dp -> Seq(Req)] /\ todo[d] \in Seq(Req) /\ IsInjective(todo[d])
      /\ \A e \in Dp : IsInjective(todo[e]) /\ \A q \in Range(todo[e]) : Home[q] = e
  BY DEF IInv, TypeOK, TodoOnce, Range
<1>2. /\ reqs \in Seq(Req) /\ rest \in Seq(Req) /\ reqs # <<>>
      /\ IsInjective(reqs) /\ IsInjective(rest)
      /\ Range(todo[d]) = Range(reqs) \cup Range(rest)
      /\ Range(reqs) \cap Range(rest) = {}
  BY <1>1, Halves
<1>3. todo' = [todo EXCEPT ![d] = rest]
  BY DEF Attend
<1>4. toExpert' = toExpert \cup Cuts(Expanded(d, reqs), DestExpert(Expanded(d, reqs)))
  BY DEF Attend
<1> HIDE DEF reqs, rest
<1>5. todo' \in [Dp -> Seq(Req)] /\ todo'[d] = rest /\ \A e \in Dp : e # d => todo'[e] = todo[e]
  BY <1>1, <1>2, <1>3
<1>6. TodoOnce'
  <2>1. ASSUME NEW e \in Dp
        PROVE  IsInjective(todo'[e]) /\ \A i \in DOMAIN todo'[e] : Home[todo'[e][i]] = e
    <3>1. CASE e = d
      <4>1. \A q \in Range(rest) : Home[q] = d
        BY <1>1, <1>2
      <4> QED  BY <1>2, <1>5, <3>1, <4>1 DEF Range
    <3>2. CASE e # d
      BY <1>1, <1>5, <3>2 DEF Range
    <3> QED  BY <3>1, <3>2
  <2> QED  BY <2>1 DEF TodoOnce
<1>7. \A q \in Range(reqs) : q \in Req
  BY <1>2 DEF Range
<1>8. Home \in [Req -> Dp]
  BY RowsAssumption
<1>9. \A q \in Range(reqs) : Home[q] = d /\ WaitsFor(q) /\ ~ WaitsFor(q)'
  BY <1>1, <1>2, <1>5 DEF WaitsFor
<1>10. ASSUME NEW q \in Req, q \notin Range(reqs) PROVE WaitsFor(q)' <=> WaitsFor(q)
  <2>1. CASE Home[q] = d
    BY <1>2, <1>5, <1>10, <2>1 DEF WaitsFor
  <2>2. CASE Home[q] # d
    BY <1>5, <1>8, <2>2 DEF WaitsFor
  <2> QED  BY <2>1, <2>2
<1> QED  BY <1>2, <1>4, <1>5, <1>6, <1>7, <1>9, <1>10

LEMMA AttendMoves ==
  ASSUME IInv, NEW d \in Dp, NEW rows \in Seq(Sent), ByExpert(rows), Distinct(rows),
         Tags(rows) \cap Abroad = {}, toExpert' = toExpert \cup Cuts(rows, DestExpert(rows)),
         UNCHANGED <<queue, toAttn, held>>
  PROVE  NoRowTwice' /\ Abroad' = Abroad \cup Tags(rows)
<1> DEFINE C   == Cuts(rows, DestExpert(rows))
           to  == [c \in C |-> <<"toExpert", c>>]
           New == Range(to)
<1>1. queue' = queue /\ toAttn' = toAttn /\ held' = held /\ toExpert' = toExpert \cup C
  OBVIOUS
<1>2. /\ \A c \in C : Distinct(c.rows) /\ Tags(c.rows) # {} /\ Tags(c.rows) \subseteq Tags(rows)
      /\ \A c, e \in C : c # e => Tags(c.rows) \cap Tags(e.rows) = {}
      /\ \A x \in Tags(rows) : \E c \in C : x \in Tags(c.rows)
  <2>1. UNION {Tags(c.rows) : c \in C} = Tags(rows)
    BY CutsParts
  <2>2. (\A c \in C : Distinct(c.rows)) /\ \A c, e \in C : c # e => Tags(c.rows) \cap Tags(e.rows) = {}
    BY CutsParts
  <2>3. \A c \in C : Tags(c.rows) # {}
    BY ExpandedCut
  <2> HIDE DEF C
  <2> QED  BY <2>1, <2>2, <2>3
<1> HIDE DEF C
<1>3. /\ \A c \in C : to[c] = <<"toExpert", c>> /\ to[c] \in New
      /\ \A l \in New : \E c \in C : l = to[c]
  BY DEF Range
<1> HIDE DEF to, New
<1>4. \A c \in C : to[c] \in Lanes' /\ LaneRows'[to[c]] = c.rows
  BY <1>1, <1>3, LaneContentsNext
<1>5. ASSUME NEW c \in C PROVE c \notin toExpert
  <2>1. PICK x : x \in Tags(c.rows) /\ x \in Tags(rows)
    BY <1>2
  <2> SUFFICES ASSUME c \in toExpert PROVE FALSE
    OBVIOUS
  <2>2. x \in Abroad
    BY <2>1, LaneContents DEF Abroad, TagsAt
  <2> QED  BY <2>1, <2>2
<1>6. ASSUME NEW l \in Lanes' \ New PROVE l \in Lanes /\ LaneRows'[l] = LaneRows[l]
  <2>1. l \in Lanes' /\ \A c \in C : l # to[c]
    BY <1>3
  <2>2. CASE \E c \in toExpert' : l = <<"toExpert", c>>
    <3>1. PICK c \in toExpert' : l = <<"toExpert", c>>
      BY <2>2
    <3>2. c \in toExpert
      BY <1>1, <1>3, <2>1, <3>1
    <3> QED  BY <3>1, <3>2, LaneContents, LaneContentsNext
  <2>3. CASE \E r \in Rank : l = <<"queue", r>>
    BY <1>1, <2>3, LaneContents, LaneContentsNext
  <2>4. CASE \E c \in toAttn : l = <<"toAttn", c>>
    BY <1>1, <2>4, LaneContents, LaneContentsNext
  <2>5. CASE \E q \in Req : l = <<"held", q>>
    BY <1>1, <2>5, LaneContents, LaneContentsNext
  <2>6. toAttn' = toAttn
    BY <1>1
  <2> QED  BY <2>1, <2>2, <2>3, <2>4, <2>5, <2>6 DEF Lanes
<1>7. ASSUME NEW l \in Lanes PROVE l \in Lanes' \ New
  <2>1. l \in Lanes'
    BY <1>1 DEF Lanes
  <2>2. ASSUME NEW c \in C, l = to[c] PROVE FALSE
    <3>1. l = <<"toExpert", c>>
      BY <1>3, <2>2
    <3>2. c \in toExpert
      BY <3>1 DEF Lanes
    <3> QED  BY <1>5, <3>2
  <2> QED  BY <1>3, <2>1, <2>2
<1>8. Apart(New, LaneRows')
  <2>1. ASSUME NEW l \in New PROVE Distinct(LaneRows'[l])
    BY <1>2, <1>3, <1>4
  <2>2. ASSUME NEW k \in New, NEW l \in New, k # l PROVE Tags(LaneRows'[k]) \cap Tags(LaneRows'[l]) = {}
    <3>1. PICK c \in C, e \in C : k = to[c] /\ l = to[e]
      BY <1>3
    <3> QED  BY <1>2, <1>4, <2>2, <3>1
  <2> QED  BY <2>1, <2>2 DEF Apart
<1>9. TagsAt(New, LaneRows') = TagsAt({}, LaneRows) \cup Tags(rows)
  <2>1. ASSUME NEW x \in TagsAt(New, LaneRows') PROVE x \in Tags(rows)
    BY <1>2, <1>3, <1>4 DEF TagsAt
  <2>2. ASSUME NEW x \in Tags(rows) PROVE x \in TagsAt(New, LaneRows')
    <3>1. PICK c \in C : x \in Tags(c.rows)
      BY <1>2
    <3> QED  BY <1>3, <1>4, <3>1 DEF TagsAt
  <2> QED  BY <2>1, <2>2 DEF TagsAt
<1> QED
  <2>1. NoRowTwice /\ New \in SUBSET Lanes' /\ {} \in SUBSET Lanes
    BY <1>3, <1>4 DEF IInv
  <2>2. Lanes \ {} = Lanes' \ New /\ \A l \in Lanes \ {} : LaneRows'[l] = LaneRows[l]
    BY <1>6, <1>7
  <2> QED  BY <1>8, <1>9, <2>1, <2>2, MovedRows

LEMMA AttendKeeps ==
  ASSUME IInv, NEW d \in Dp, NEW n \in 1 .. Len(todo[d]), Attend(d, n)
  PROVE  IInv'
<1>1. PICK reqs \in Seq(Req) :
        /\ reqs # <<>> /\ IsInjective(reqs)
        /\ toExpert' = toExpert \cup Cuts(Expanded(d, reqs), DestExpert(Expanded(d, reqs)))
        /\ todo' \in [Dp -> Seq(Req)] /\ TodoOnce'
        /\ \A q \in Range(reqs) : q \in Req /\ Home[q] = d /\ WaitsFor(q) /\ ~ WaitsFor(q)'
        /\ \A q \in Req : q \notin Range(reqs) => (WaitsFor(q)' <=> WaitsFor(q))
  BY AttendTakes
<1> DEFINE rows == Expanded(d, reqs)
           new  == Tags(rows)
<1>2. gate' = gate /\ queue' = queue /\ toAttn' = toAttn /\ held' = held /\ TopK' = TopK
  BY DEF Attend, TopK
<1>3. /\ rows \in Seq(Sent) /\ ByExpert(rows) /\ Distinct(rows) /\ OncePerExpert(new)
      /\ \A x \in new : FromBatch(x, d, reqs)
      /\ \A q \in Range(reqs) : AllCopies(q, new)
  BY <1>1, Expansion DEF IInv
<1>4. toExpert' = toExpert \cup Cuts(rows, DestExpert(rows))
  BY <1>1
<1> HIDE DEF rows
<1>5. ASSUME NEW x \in new
      PROVE  /\ x.req \in Range(reqs) /\ x.of \in Range(reqs) /\ x.dp = d
             /\ x.exp \in Range(gate[x.of]) /\ (TopK = 1 => x.of = x.req)
  BY <1>3 DEF FromBatch
<1> HIDE DEF new
<1>6. ASSUME NEW x \in Abroad
      PROVE  /\ x.req \in Req /\ x.of \in Req /\ x.of \notin Range(reqs) /\ ~ WaitsFor(x.of)
             /\ x.dp = Home[x.req] /\ x.exp \in Range(gate[x.of]) /\ (TopK = 1 => x.of = x.req)
  <2>1. x.req \in Req /\ x.of \in Req
    BY TagType DEF IInv
  <2> QED  BY <1>1, <2>1 DEF IInv, TagsRight
<1>7. new \cap Abroad = {}
  BY <1>5, <1>6
<1>8. NoRowTwice' /\ Abroad' = Abroad \cup new
  <2>1. Tags(rows) \cap Abroad = {}
    BY <1>7 DEF new
  <2> QED  BY <1>2, <1>3, <1>4, <2>1, AttendMoves DEF new
<1>9. TagsRight'
  <2>1. OncePerExpert(Abroad')
    <3> SUFFICES ASSUME NEW x \in Abroad \cup new, NEW y \in Abroad \cup new,
                        x.of = y.of, x.exp = y.exp
                 PROVE  x = y
      BY <1>8 DEF OncePerExpert
    <3>1. CASE x \in Abroad /\ y \in Abroad
      BY <3>1 DEF IInv, TagsRight, OncePerExpert
    <3>2. CASE x \in new /\ y \in new
      BY <1>3, <3>2 DEF OncePerExpert
    <3>3. CASE x \in new /\ y \in Abroad
      BY <1>5, <1>6, <3>3
    <3>4. CASE x \in Abroad /\ y \in new
      BY <1>5, <1>6, <3>4
    <3> QED  BY <3>1, <3>2, <3>3, <3>4
  <2>2. ASSUME NEW x \in Abroad \cup new
        PROVE  /\ x.dp = Home[x.req] /\ x.exp \in Range(gate[x.of]) /\ ~ WaitsFor(x.of)'
               /\ (TopK = 1 => x.of = x.req)
    <3>1. CASE x \in Abroad
      BY <1>1, <1>6, <3>1
    <3>2. CASE x \in new
      BY <1>1, <1>5, <3>2
    <3> QED  BY <3>1, <3>2
  <2> QED  BY <1>2, <1>8, <2>1, <2>2 DEF TagsRight
<1>10. CopiesCounted'
  <2> SUFFICES ASSUME NEW q \in Req
               PROVE  /\ IsFiniteSet(CopiesFor(q, Abroad'))
                      /\ Cardinality(CopiesFor(q, Abroad')) = IF WaitsFor(q)' THEN 0 ELSE TopK
    BY <1>2 DEF CopiesCounted
  <2>1. /\ IsFiniteSet(CopiesFor(q, Abroad))
        /\ Cardinality(CopiesFor(q, Abroad)) = IF WaitsFor(q) THEN 0 ELSE TopK
    BY DEF IInv, CopiesCounted
  <2>2. CASE q \in Range(reqs)
    <3>1. WaitsFor(q) /\ ~ WaitsFor(q)'
      BY <1>1, <2>2
    <3>2. CopiesFor(q, Abroad) = {}
      <4>1. IsFiniteSet(CopiesFor(q, Abroad)) /\ Cardinality(CopiesFor(q, Abroad)) = 0
        BY <2>1, <3>1
      <4> QED  BY <4>1, FS_EmptySet
    <3>3. CopiesFor(q, Abroad') = CopiesFor(q, new)
      BY <1>8, <3>2 DEF CopiesFor
    <3>4. IsFiniteSet(CopiesFor(q, new)) /\ Cardinality(CopiesFor(q, new)) = TopK
      BY <1>3, <2>2 DEF AllCopies
    <3> QED  BY <3>1, <3>3, <3>4
  <2>3. CASE q \notin Range(reqs)
    <3>1. WaitsFor(q)' <=> WaitsFor(q)
      BY <1>1, <2>3
    <3>2. CopiesFor(q, Abroad') = CopiesFor(q, Abroad)
      BY <1>5, <1>8, <2>3 DEF CopiesFor
    <3> QED  BY <2>1, <3>1, <3>2
  <2> QED  BY <2>2, <2>3
<1>11. \A c \in Cuts(rows, DestExpert(rows)) : c \in [to : Rank, rows : Seq(Sent)] /\ ByExpert(c.rows)
  BY <1>3, ExpandedCut
<1>12. TypeOK'
  BY <1>1, <1>2, <1>4, <1>11 DEF IInv, TypeOK
<1>13. SortedForExperts'
  BY <1>2, <1>4, <1>11 DEF IInv, SortedForExperts
<1>14. RepliesHome' /\ PrefillsComeFirst'
  BY <1>2 DEF IInv, RepliesHome, PrefillsComeFirst
<1> QED  BY <1>1, <1>8, <1>9, <1>10, <1>12, <1>13, <1>14 DEF IInv

-----------------------------------------------------------------------------
(* The invariant.                                                          *)
LEMMA NoTags == Tags(<<>>) = {} /\ Distinct(<<>>)
BY DEF Tags, Distinct

LEMMA InitKeeps ==
  ASSUME Init
  PROVE  IInv
<1>1. \E k \in 1 .. NumExperts : gate \in [Req -> Selections(k)]
  <2>1. PICK out \in GateOuts : gate \in [Req -> out]
    BY DEF Init
  <2>2. PICK k \in 1 .. NumExperts : out \subseteq [1 .. k -> Expert] /\ \A es \in out : IsInjective(es)
    BY RowsAssumption
  <2> QED  BY <2>1, <2>2 DEF Selections
<1>2. ASSUME NEW d \in Dp
      PROVE  /\ todo[d] \in Seq(Req) /\ IsInjective(todo[d])
             /\ Range(todo[d]) = {r \in Req : Home[r] = d}
  <2>1. PICK e \in Dp : todo[d] \in SetToSeqs({r \in Req : Home[r] = e})
    <3> DEFINE lists == {SetToSeqs({r \in Req : Home[r] = c}) : c \in Dp}
    <3>1. todo \in [Dp -> UNION lists]
      BY DEF Init
    <3>2. \A T \in lists : \E e \in Dp : T = SetToSeqs({r \in Req : Home[r] = e})
      OBVIOUS
    <3> HIDE DEF lists
    <3>3. PICK T \in lists : todo[d] \in T
      BY <3>1
    <3> QED  BY <3>2, <3>3
  <2> DEFINE S == {r \in Req : Home[r] = e}
             n == Cardinality(S)
  <2>2. n \in Nat
    <3>1. S \subseteq Req /\ IsFiniteSet(Req)
      BY RowsAssumption
    <3> QED  BY <3>1, FS_Subset, FS_CardinalityType
  <2>3. todo[d] \in [1 .. n -> S] /\ \A i, j \in 1 .. n : i # j => todo[d][i] # todo[d][j]
    BY <2>1 DEF SetToSeqs
  <2> HIDE DEF n
  <2>4. todo[d] \in Seq(Req)
    BY <2>2, <2>3
  <2>5. IsInjective(todo[d])
    BY <2>3 DEF IsInjective
  <2>6. Range(todo[d]) = {r \in Req : Home[r] = d}
    BY DEF Init
  <2> QED  BY <2>4, <2>5, <2>6
<1>3. toExpert = {} /\ toAttn = {} /\ queue = [r \in Rank |-> <<>>] /\ held = [q \in Req |-> <<>>]
  BY DEF Init
<1>4. TypeOK
  <2>1. todo \in [Dp -> Seq(Req)]
    <3>1. DOMAIN todo = Dp /\ todo = [d \in Dp |-> todo[d]]
      BY DEF Init
    <3> QED  BY <1>2, <3>1
  <2>2. <<>> \in Seq(Seq(Sent)) /\ <<>> \in Seq(Replied)
    BY EmptySeq
  <2> QED  BY <1>1, <1>3, <2>1, <2>2 DEF TypeOK
<1>5. TodoOnce
  BY <1>2 DEF TodoOnce, Range
<1>6. \A l \in Lanes : LaneRows[l] = <<>>
  <2> SUFFICES ASSUME NEW l \in Lanes PROVE LaneRows[l] = <<>>
    OBVIOUS
  <2>1. CASE \E r \in Rank : l = <<"queue", r>>
    BY <1>3, <2>1, LaneContents, FlattenEmpty
  <2>2. CASE \E q \in Req : l = <<"held", q>>
    BY <1>3, <2>2, LaneContents
  <2> QED  BY <1>3, <2>1, <2>2 DEF Lanes
<1>7. NoRowTwice
  BY <1>6, NoTags DEF NoRowTwice, Apart
<1>8. Abroad = {}
  BY <1>6, NoTags DEF Abroad, TagsAt
<1>9. TagsRight
  BY <1>8 DEF TagsRight, OncePerExpert
<1>10. CopiesCounted
  <2>1. Home \in [Req -> Dp]
    BY RowsAssumption
  <2>2. \A q \in Req : WaitsFor(q)
    BY <1>2, <2>1 DEF WaitsFor
  <2>3. \A q \in Req : CopiesFor(q, Abroad) = {}
    BY <1>8 DEF CopiesFor
  <2> QED  BY <2>2, <2>3, FS_EmptySet DEF CopiesCounted
<1>11. SortedForExperts /\ RepliesHome /\ PrefillsComeFirst
  BY <1>3 DEF SortedForExperts, RepliesHome, PrefillsComeFirst
<1> QED  BY <1>4, <1>5, <1>7, <1>9, <1>10, <1>11 DEF IInv

LEMMA StutterKeeps ==
  ASSUME IInv, UNCHANGED vars
  PROVE  IInv'
<1>1. /\ gate' = gate /\ todo' = todo /\ toExpert' = toExpert /\ queue' = queue
      /\ toAttn' = toAttn /\ held' = held
  BY DEF vars
<1>2. Lanes' = Lanes /\ LaneRows' = LaneRows
  BY <1>1 DEF Lanes, LaneRows, RowsIn
<1>3. NoRowTwice' /\ Abroad' = Abroad
  BY <1>2 DEF IInv, NoRowTwice, Abroad
<1>4. TagsRight' /\ CopiesCounted' /\ TodoOnce'
  BY <1>1, <1>3, SameTags DEF IInv
<1>5. TypeOK' /\ SortedForExperts' /\ RepliesHome' /\ PrefillsComeFirst'
  BY <1>1 DEF IInv, TypeOK, SortedForExperts, RepliesHome, PrefillsComeFirst
<1> QED  BY <1>3, <1>4, <1>5 DEF IInv

(* No tag is ever in two places, tags say what the gate chose, and each    *)
(* request has all its replies out or none.                                *)
THEOREM Invariance == Spec => []IInv
<1>1. Init => IInv
  BY InitKeeps
<1>2. IInv /\ [Next]_vars => IInv'
  <2> SUFFICES ASSUME IInv, [Next]_vars PROVE IInv'
    OBVIOUS
  <2>1. CASE \E d \in Dp : \E n \in 1 .. Cardinality(Req) : Attend(d, n)
    <3>1. PICK d \in Dp : \E n : Attend(d, n)
      BY <2>1
    <3>2. PICK n : Attend(d, n)
      BY <3>1
    <3>3. n \in 1 .. Len(todo[d])
      BY <3>2 DEF Attend
    <3> QED  BY <3>2, <3>3, AttendKeeps
  <2>2. CASE \E m \in toExpert : ExpertReceives(m)
    BY <2>2, ExpertReceivesKeeps
  <2>3. CASE \E r \in Rank : RunExperts(r)
    BY <2>3, RunExpertsKeeps
  <2>4. CASE \E m \in toAttn : AttnReceives(m)
    BY <2>4, AttnReceivesKeeps
  <2>5. CASE UNCHANGED vars
    BY <2>5, StutterKeeps
  <2> QED  BY <2>1, <2>2, <2>3, <2>4, <2>5 DEF Next
<1> QED  BY <1>1, <1>2, PTL DEF Spec

-----------------------------------------------------------------------------
(* What follows for the rows that came back.                               *)
LEMMA HeldTags ==
  ASSUME IInv, NEW q \in Req, NEW i \in DOMAIN held[q]
  PROVE  /\ Tag(held[q][i]) \in Abroad
         /\ Tag(held[q][i]).of = held[q][i].of /\ Tag(held[q][i]).exp = held[q][i].by
         /\ Tag(held[q][i]).req = q
<1>1. held[q][i] \in Replied
  BY DEF IInv, TypeOK
<1>2. held[q][i].by # None
  BY <1>1, RowsAssumption DEF Replied
<1>3. Tag(held[q][i]) \in Tags(LaneRows[<<"held", q>>])
  BY LaneContents DEF Tags
<1>4. Tag(held[q][i]) \in Abroad
  BY <1>3, LaneContents DEF Abroad, TagsAt
<1>5. held[q][i].req = q
  BY DEF IInv, RepliesHome
<1> QED  BY <1>2, <1>4, <1>5 DEF Tag, Through

(* The rows held went through experts their gate chose, no two through the *)
(* same one for the same hidden state (permute_tokens, the group sizes     *)
(* given to the executor).                                                 *)
THEOREM ExpertsChosen == Spec => []ExpertsAsChosen
<1>1. IInv => ExpertsAsChosen
  <2> SUFFICES ASSUME IInv, NEW q \in Req, NEW p \in Req,
                      NEW i \in DOMAIN held[q], NEW j \in DOMAIN held[p]
               PROVE  /\ held[q][i].by \in Range(gate[held[q][i].of])
                      /\ held[q][i].of = held[p][j].of /\ held[q][i].by = held[p][j].by
                           => <<q, i>> = <<p, j>>
    BY DEF ExpertsAsChosen
  <2> DEFINE x == Tag(held[q][i])
             y == Tag(held[p][j])
  <2>1. /\ x \in Abroad /\ x.of = held[q][i].of /\ x.exp = held[q][i].by /\ x.req = q
        /\ y \in Abroad /\ y.of = held[p][j].of /\ y.exp = held[p][j].by /\ y.req = p
    BY HeldTags
  <2>2. ASSUME x = y PROVE i = j
    <3>1. Distinct(held[q])
      BY LaneContents DEF IInv, NoRowTwice, Apart
    <3>2. p = q
      BY <2>1, <2>2
    <3> QED  BY <2>2, <3>1, <3>2 DEF Distinct
  <2> HIDE DEF x, y
  <2>3. held[q][i].by \in Range(gate[held[q][i].of])
    BY <2>1 DEF IInv, TagsRight
  <2>4. ASSUME held[q][i].of = held[p][j].of, held[q][i].by = held[p][j].by
        PROVE  <<q, i>> = <<p, j>>
    <3>1. x = y
      BY <2>1, <2>4 DEF IInv, TagsRight, OncePerExpert
    <3> QED  BY <2>1, <2>2, <3>1
  <2> QED  BY <2>3, <2>4
<1> QED  BY <1>1, Invariance, PTL

(* Batches come back with their prefills in front, which merge_by_attention*)
(* counts on.                                                              *)
THEOREM PrefillsInFront == Spec => []PrefillsComeFirst
<1>1. IInv => PrefillsComeFirst
  BY DEF IInv
<1> QED  BY <1>1, Invariance, PTL

(* With one expert for each token, a request gets back its own hidden      *)
(* state.                                                                  *)
THEOREM OwnRowsWithOneExpert == Spec => []OneExpertRowsOfItsRequest
<1>1. IInv => OneExpertRowsOfItsRequest
  <2> SUFFICES ASSUME IInv, TopK = 1, NEW q \in Req, NEW i \in DOMAIN held[q]
               PROVE  held[q][i].of = q
    BY DEF OneExpertRowsOfItsRequest, RowsOfItsRequest
  <2> QED  BY HeldTags DEF IInv, TagsRight
<1> QED  BY <1>1, Invariance, PTL

(* The batches of the lanes that are not held.                             *)
BatchOf(b, l) == IF l[1] = "queue" THEN b \in Range(queue[l[2]]) ELSE b = LaneRows[l]

LEMMA BatchLanes ==
  ASSUME IInv
  PROVE  /\ \A b \in Batches : \E l \in Lanes : l[1] # "held" /\ BatchOf(b, l)
         /\ \A l \in Lanes : l[1] # "held" =>
              \A x \in Tags(LaneRows[l]) : \E b \in Batches : x \in Tags(b)
         /\ \A b, l : l \in Lanes /\ BatchOf(b, l) => Distinct(b) /\ Tags(b) \subseteq Tags(LaneRows[l])
         /\ \A b, c, l : l \in Lanes /\ BatchOf(b, l) /\ BatchOf(c, l) /\ b # c => Tags(b) \cap Tags(c) = {}
<1>1. /\ \A m \in toExpert : m.rows \in Batches /\ BatchOf(m.rows, <<"toExpert", m>>)
      /\ \A m \in toAttn : m.rows \in Batches /\ BatchOf(m.rows, <<"toAttn", m>>)
      /\ \A r \in Rank : \A b \in Range(queue[r]) : b \in Batches /\ BatchOf(b, <<"queue", r>>)
  BY LaneContents DEF BatchOf, Batches
<1>2. ASSUME NEW b \in Batches PROVE \E l \in Lanes : l[1] # "held" /\ BatchOf(b, l)
  <2>1. CASE \E m \in toExpert : b = m.rows
    BY <1>1, <2>1, LaneContents
  <2>2. CASE \E m \in toAttn : b = m.rows
    BY <1>1, <2>2, LaneContents
  <2>3. CASE \E r \in Rank : b \in Range(queue[r])
    BY <1>1, <2>3, LaneContents
  <2> QED  BY <2>1, <2>2, <2>3 DEF Batches
<1>3. ASSUME NEW r \in Rank
      PROVE  /\ LaneRows[<<"queue", r>>] = FlattenSeq(queue[r])
             /\ Tags(FlattenSeq(queue[r])) = TagsOfAll(queue[r])
             /\ OnceEach(queue[r])
  <2>1. LaneRows[<<"queue", r>>] = FlattenSeq(queue[r]) /\ Distinct(FlattenSeq(queue[r]))
    BY LaneContents DEF IInv, NoRowTwice, Apart
  <2>2. queue[r] \in Seq(Seq(Sent))
    BY DEF IInv, TypeOK
  <2> QED  BY <2>1, <2>2, TagsFlatten
<1>4. ASSUME NEW l \in Lanes, l[1] # "held", NEW x \in Tags(LaneRows[l])
      PROVE  \E b \in Batches : x \in Tags(b)
  <2>1. CASE \E m \in toExpert : l = <<"toExpert", m>>
    BY <1>1, <2>1, LaneContents
  <2>2. CASE \E m \in toAttn : l = <<"toAttn", m>>
    BY <1>1, <2>2, LaneContents
  <2>3. CASE \E r \in Rank : l = <<"queue", r>>
    <3>1. PICK r \in Rank : l = <<"queue", r>>
      BY <2>3
    <3>2. PICK k \in DOMAIN queue[r] : x \in Tags(queue[r][k])
      BY <1>3, <3>1 DEF TagsOfAll
    <3>3. queue[r][k] \in Range(queue[r])
      BY DEF Range
    <3> QED  BY <1>1, <3>2, <3>3
  <2> QED  BY <1>4, <2>1, <2>2, <2>3 DEF Lanes
<1>5. ASSUME NEW b, NEW l \in Lanes, BatchOf(b, l) PROVE Distinct(b) /\ Tags(b) \subseteq Tags(LaneRows[l])
  <2>1. CASE \E r \in Rank : l = <<"queue", r>>
    <3>1. PICK r \in Rank : l = <<"queue", r>>
      BY <2>1
    <3>2. PICK k \in DOMAIN queue[r] : b = queue[r][k]
      BY <1>5, <3>1 DEF BatchOf, Range
    <3> QED  BY <1>3, <3>1, <3>2 DEF OnceEach, TagsOfAll
  <2>2. CASE l[1] # "queue"
    BY <1>5, <2>2 DEF BatchOf, IInv, NoRowTwice, Apart
  <2> QED  BY <2>1, <2>2 DEF Lanes
<1>6. ASSUME NEW b, NEW c, NEW l \in Lanes, BatchOf(b, l), BatchOf(c, l), b # c
      PROVE  Tags(b) \cap Tags(c) = {}
  <2>1. CASE \E r \in Rank : l = <<"queue", r>>
    <3>1. PICK r \in Rank : l = <<"queue", r>>
      BY <2>1
    <3>2. PICK k \in DOMAIN queue[r], m \in DOMAIN queue[r] : b = queue[r][k] /\ c = queue[r][m]
      BY <1>6, <3>1 DEF BatchOf, Range
    <3>3. k # m
      BY <1>6, <3>2
    <3> QED  BY <1>3, <3>2, <3>3 DEF OnceEach
  <2>2. CASE l[1] # "queue"
    BY <1>6, <2>2 DEF BatchOf
  <2> QED  BY <2>1, <2>2 DEF Lanes
<1> QED  BY <1>2, <1>4, <1>5, <1>6

LEMMA BatchesApart ==
  ASSUME IInv
  PROVE  /\ \A b \in Batches : Distinct(b)
         /\ \A b, c \in Batches : b # c => Tags(b) \cap Tags(c) = {}
         /\ \A b \in Batches : \A q \in Req : Tags(b) \cap Tags(held[q]) = {}
         /\ \A x \in Abroad : \/ \E b \in Batches : x \in Tags(b)
                              \/ \E q \in Req : x \in Tags(held[q])
         /\ \A b \in Batches : Tags(b) \subseteq Abroad
<1>1. ASSUME NEW k \in Lanes, NEW l \in Lanes, k # l
      PROVE  Tags(LaneRows[k]) \cap Tags(LaneRows[l]) = {}
  BY <1>1 DEF IInv, NoRowTwice, Apart
<1>2. ASSUME NEW b \in Batches
      PROVE  \E l \in Lanes : /\ l[1] # "held" /\ BatchOf(b, l) /\ Distinct(b)
                              /\ Tags(b) \subseteq Tags(LaneRows[l])
  BY BatchLanes
<1>3. \A b \in Batches : Distinct(b)
  BY <1>2
<1>4. ASSUME NEW b \in Batches, NEW c \in Batches, b # c PROVE Tags(b) \cap Tags(c) = {}
  <2>1. PICK k \in Lanes : BatchOf(b, k) /\ Tags(b) \subseteq Tags(LaneRows[k])
    BY <1>2
  <2>2. PICK l \in Lanes : BatchOf(c, l) /\ Tags(c) \subseteq Tags(LaneRows[l])
    BY <1>2
  <2>3. CASE k # l
    BY <1>1, <2>1, <2>2, <2>3
  <2>4. CASE k = l
    BY <1>4, <2>1, <2>2, <2>4, BatchLanes
  <2> QED  BY <2>3, <2>4
<1>5. ASSUME NEW b \in Batches, NEW q \in Req PROVE Tags(b) \cap Tags(held[q]) = {}
  <2>1. PICK k \in Lanes : k[1] # "held" /\ Tags(b) \subseteq Tags(LaneRows[k])
    BY <1>2
  <2>2. k # <<"held", q>>
    BY <2>1
  <2> QED  BY <1>1, <2>1, <2>2, LaneContents
<1>6. ASSUME NEW x \in Abroad
      PROVE  \/ \E b \in Batches : x \in Tags(b)
             \/ \E q \in Req : x \in Tags(held[q])
  <2>1. PICK l \in Lanes : x \in Tags(LaneRows[l])
    BY DEF Abroad, TagsAt
  <2>2. CASE l[1] # "held"
    BY <2>1, <2>2, BatchLanes
  <2>3. CASE \E q \in Req : l = <<"held", q>>
    BY <2>1, <2>3, LaneContents
  <2> QED  BY <2>2, <2>3 DEF Lanes
<1>7. ASSUME NEW b \in Batches PROVE Tags(b) \subseteq Abroad
  BY <1>2 DEF Abroad, TagsAt
<1> QED  BY <1>3, <1>4, <1>5, <1>6, <1>7

(* Every reply a request is due is somewhere, once, and goes home (split,  *)
(* merge, permute, put_batch).                                             *)
THEOREM RepliesKept == Spec => []RepliesConserved
<1>1. ASSUME IInv, NEW q \in Req
      PROVE  (IF q \in Range(todo[Home[q]]) THEN TopK ELSE 0)
               + RepliesIn(Batches, q) + Len(held[q]) = TopK
  <2> DEFINE cells == {x \in RowsOf(Batches) : x[1][x[2]].req = q}
             A == {x \in Abroad : x.req = q /\ \E b \in Batches : x \in Tags(b)}
             H == Tags(held[q])
             f == [x \in cells |-> Tag(x[1][x[2]])]
             g == [i \in DOMAIN held[q] |-> Tag(held[q][i])]
  <2>1. TopK \in Nat \ {0}
    BY <1>1, GateFacts DEF IInv
  <2>2. IsFiniteSet(CopiesFor(q, Abroad)) /\ Cardinality(CopiesFor(q, Abroad)) = IF WaitsFor(q) THEN 0 ELSE TopK
    BY <1>1 DEF IInv, CopiesCounted
  <2>3. \A row : Tag(row).req = row.req
    BY DEF Tag
  <2>4. CopiesFor(q, Abroad) = A \cup H
    <3>1. ASSUME NEW x \in Abroad, x.req = q PROVE x \in A \cup H
      <4>1. CASE \E b \in Batches : x \in Tags(b)
        BY <3>1, <4>1
      <4>2. CASE \E p \in Req : x \in Tags(held[p])
        <5>1. PICK p \in Req : x \in Tags(held[p])
          BY <4>2
        <5>2. PICK i \in DOMAIN held[p] : x = Tag(held[p][i])
          BY <5>1 DEF Tags
        <5>3. p = q
          BY <1>1, <3>1, <5>2, HeldTags
        <5> QED  BY <5>1, <5>3
      <4> QED  BY <1>1, <4>1, <4>2, BatchesApart
    <3>2. \A x \in H : x \in Abroad /\ x.req = q
      BY <1>1, HeldTags DEF Tags
    <3> QED  BY <3>1, <3>2 DEF CopiesFor
  <2>5. A \cap H = {}
    BY <1>1, BatchesApart
  <2>6. IsFiniteSet(A) /\ IsFiniteSet(H)
    BY <2>2, <2>4, FS_Subset
  <2>7. Cardinality(CopiesFor(q, Abroad)) = Cardinality(A) + Cardinality(H)
    <3>1. Cardinality(A \cup H) = Cardinality(A) + Cardinality(H) - Cardinality(A \cap H)
      BY <2>6, FS_Union
    <3>2. Cardinality(A \cap H) = 0
      BY <2>5, FS_EmptySet
    <3>3. Cardinality(A) \in Nat /\ Cardinality(H) \in Nat
      BY <2>6, FS_CardinalityType
    <3> HIDE DEF A, H
    <3> QED  BY <2>4, <3>1, <3>2, <3>3
  <2>8. Cardinality(A) = RepliesIn(Batches, q)
    <3>1. ASSUME NEW x \in cells
          PROVE  \E b \in Batches : \E i \in DOMAIN b : x = <<b, i>> /\ Tag(b[i]) \in A /\ Tag(b[i]) \in Tags(b)
      <4>1. PICK b \in Batches : \E i \in DOMAIN b : x = <<b, i>>
        BY DEF RowsOf
      <4>2. PICK i \in DOMAIN b : x = <<b, i>>
        BY <4>1
      <4>3. b[i].req = q
        BY <4>2
      <4>4. Tag(b[i]) \in Tags(b)
        BY DEF Tags
      <4> QED  BY <1>1, <2>3, <4>2, <4>3, <4>4, BatchesApart
    <3>2. ASSUME NEW y \in A PROVE \E x \in cells : y = Tag(x[1][x[2]])
      <4>1. PICK b \in Batches : y \in Tags(b) /\ y.req = q
        OBVIOUS
      <4>2. PICK i \in DOMAIN b : y = Tag(b[i])
        BY <4>1 DEF Tags
      <4>3. <<b, i>> \in cells
        BY <2>3, <4>1, <4>2 DEF RowsOf
      <4> QED  BY <4>2, <4>3
    <3>3. ASSUME NEW x \in cells, NEW y \in cells, Tag(x[1][x[2]]) = Tag(y[1][y[2]]) PROVE x = y
      <4>1. PICK b \in Batches : \E i \in DOMAIN b : x = <<b, i>> /\ Tag(b[i]) \in Tags(b)
        BY <3>1
      <4>2. PICK c \in Batches : \E j \in DOMAIN c : y = <<c, j>> /\ Tag(c[j]) \in Tags(c)
        BY <3>1
      <4>3. PICK i \in DOMAIN b : x = <<b, i>> /\ Tag(b[i]) \in Tags(b)
        BY <4>1
      <4>4. PICK j \in DOMAIN c : y = <<c, j>> /\ Tag(c[j]) \in Tags(c)
        BY <4>2
      <4>5. Tag(b[i]) = Tag(c[j])
        BY <3>3, <4>3, <4>4
      <4>6. b = c
        BY <1>1, <4>3, <4>4, <4>5, BatchesApart
      <4>7. i = j
        BY <1>1, <4>5, <4>6, BatchesApart DEF Distinct
      <4> QED  BY <4>3, <4>4, <4>6, <4>7
    <3>4. \A x \in cells : Tag(x[1][x[2]]) \in A
      BY <3>1
    <3> HIDE DEF cells, A
    <3>5. f \in Bijection(cells, A)
      <4>1. f \in [cells -> A] /\ \A x \in cells : f[x] = Tag(x[1][x[2]])
        BY <3>4
      <4> HIDE DEF f
      <4>2. f \in Injection(cells, A)
        BY <3>3, <4>1 DEF Injection, IsInjective
      <4>3. f \in Surjection(cells, A)
        BY <3>2, <4>1 DEF Surjection
      <4> QED  BY <4>2, <4>3 DEF Bijection
    <3>6. ExistsBijection(A, cells)
      BY <3>5, Fun_ExistsBijSymmetric DEF ExistsBijection
    <3>7. Cardinality(cells) = Cardinality(A)
      BY <2>6, <3>6, FS_Bijection
    <3> QED  BY <3>7 DEF RepliesIn, cells
  <2>9. Cardinality(H) = Len(held[q])
    <3>1. held[q] \in Seq(Replied) /\ Len(held[q]) \in Nat /\ DOMAIN held[q] = 1 .. Len(held[q])
      BY <1>1, LenProperties DEF IInv, TypeOK
    <3>2. Distinct(held[q])
      BY <1>1, LaneContents DEF IInv, NoRowTwice, Apart
    <3>3. g \in Bijection(1 .. Len(held[q]), H)
      <4>1. g \in [1 .. Len(held[q]) -> H] /\ \A i \in 1 .. Len(held[q]) : g[i] = Tag(held[q][i])
        BY <3>1 DEF Tags
      <4>2. H = {Tag(held[q][i]) : i \in 1 .. Len(held[q])}
        BY <3>1 DEF Tags
      <4> HIDE DEF g, H
      <4>3. g \in Injection(1 .. Len(held[q]), H)
        BY <3>1, <3>2, <4>1 DEF Distinct, Injection, IsInjective
      <4>4. g \in Surjection(1 .. Len(held[q]), H)
        BY <4>1, <4>2 DEF Surjection
      <4> QED  BY <4>3, <4>4 DEF Bijection
    <3>4. IsFiniteSet(1 .. Len(held[q])) /\ Cardinality(1 .. Len(held[q])) = Len(held[q])
      <4>1. PICK n \in Nat : n = Len(held[q])
        BY <3>1
      <4>2. IsFiniteSet(1 .. n) /\ Cardinality(1 .. n) = IF 1 > n THEN 0 ELSE n - 1 + 1
        <5>1. 1 \in Int /\ n \in Int
          OBVIOUS
        <5> QED  BY <5>1, FS_Interval
      <4>3. (IF 1 > n THEN 0 ELSE n - 1 + 1) = n
        OBVIOUS
      <4> QED  BY <4>1, <4>2, <4>3
    <3>5. ExistsBijection(1 .. Len(held[q]), H)
      BY <3>3 DEF ExistsBijection
    <3> HIDE DEF H
    <3> QED  BY <3>4, <3>5, FS_Bijection
  <2>10. Cardinality(A) \in Nat /\ Cardinality(H) \in Nat
    BY <2>6, FS_CardinalityType
  <2> HIDE DEF A, H
  <2> QED  BY <2>1, <2>2, <2>7, <2>8, <2>9, <2>10 DEF WaitsFor
<1>2. ASSUME IInv, NEW m \in toAttn, NEW i \in DOMAIN m.rows
      PROVE  Home[m.rows[i].req] = m.to
  <2>1. Tag(m.rows[i]) \in Abroad
    <3>1. Tag(m.rows[i]) \in Tags(LaneRows[<<"toAttn", m>>])
      BY LaneContents DEF Tags
    <3> QED  BY <3>1, LaneContents DEF Abroad, TagsAt
  <2>2. Tag(m.rows[i]).dp = Home[Tag(m.rows[i]).req]
    BY <1>2, <2>1 DEF IInv, TagsRight
  <2>3. m.rows[i].dp = Home[m.rows[i].req]
    BY <2>2 DEF Tag
  <2>4. m.rows[i].dp = m.to
    BY <1>2 DEF IInv, RepliesHome
  <2> QED  BY <2>3, <2>4
<1>3. IInv => RepliesConserved
  BY <1>1, <1>2 DEF RepliesConserved
<1> QED  BY <1>3, Invariance, PTL
=============================================================================
