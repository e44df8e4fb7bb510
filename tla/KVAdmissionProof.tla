--------------------------- MODULE KVAdmissionProof ---------------------------
(***************************************************************************)
(* Admission against the KV cache is right for every set of requests,      *)
(* ranks, lengths, block counts and policies: type correctness, and one    *)
(* inductive invariant that implies ChargesConserved, BlocksConserved and  *)
(* TablesFitContext, NeverOvercommitted for the policies that look at the  *)
(* blocks, and NoAssertFails where no request can fill its charge.         *)
(***************************************************************************)
EXTENDS KVAdmission, CollectionFacts

-----------------------------------------------------------------------------
(* The parts of the inductive invariant.                                   *)

(* Requests the scheduler has not placed yet.                              *)
Unsent == arriving \cup Range(waiting) \cup ({head} \ {NoReq})

(* A request is at one place of the controller and of the sockets.         *)
OncePlaced ==
  /\ IsInjective(waiting)
  /\ arriving \cap Range(waiting) = {}
  /\ head \notin arriving \cup Range(waiting)
  /\ \A w \in Rank : IsInjective(submitted[w])

(* Charges follow the request: none before it is placed, then the one of   *)
(* its rank, until its end has been polled.                                *)
ChargedWhere ==
  /\ \A r \in Unsent : seqRank[r] = NoRank
  /\ \A w \in Rank : \A r \in Range(submitted[w]) :
       seqRank[r] = w /\ stage[r] = "away" /\ r \notin finished
  /\ \A r \in Req : stage[r] # "away" => seqRank[r] \in Rank
  /\ \A r \in finished : seqRank[r] \in Rank /\ stage[r] = "away"

(* How far a request has come says how long its context is.                *)
ContextByStage ==
  \A r \in Req :
    /\ stage[r] \in {"away", "prefill"} => blocks[r] = 0
    /\ stage[r] = "prefill" => output[r] = 0
    /\ stage[r] = "decode"  => context[r] = Prefill[r] + output[r] /\ output[r] < Output[r]
    /\ stage[r] = "layers"  => context[r] = Prefill[r] + output[r] + 1 /\ output[r] < Output[r]

(* Every policy but plain round-robin charges what the rank still has.     *)
Affordable == policy # "RR" => \A w \in Rank : stats[w] >= 0

IInv == /\ OncePlaced
        /\ ChargedWhere
        /\ ContextByStage
        /\ TablesFitContext
        /\ ChargesConserved
        /\ BlocksConserved
        /\ Affordable

-----------------------------------------------------------------------------
(* Arithmetic of blocks.                                                   *)

LEMMA Quotient ==
  ASSUME NEW a \in Nat, NEW b \in Nat \ {0}
  PROVE  /\ a \div b \in Nat
         /\ b * (a \div b) <= a /\ a < b * (a \div b) + b
         /\ a % b = a - b * (a \div b)
<1>1. a \div b \in Nat
  OBVIOUS
<1>2. b * (a \div b) <= a /\ a < b * (a \div b) + b
  OBVIOUS
<1>3. a % b = a - b * (a \div b)
  OBVIOUS
<1> QED  BY <1>1, <1>2, <1>3

LEMMA QuotientUnique ==
  ASSUME NEW a \in Nat, NEW b \in Nat \ {0}, NEW q \in Int, b * q <= a, a < b * q + b
  PROVE  a \div b = q
OBVIOUS

(* BlocksFor(t) is the least number of blocks that hold t tokens.          *)
LEMMA BlocksForBounds ==
  ASSUME NEW t \in Nat
  PROVE  /\ BlocksFor(t) \in Nat
         /\ t <= BlockSize * BlocksFor(t) /\ BlockSize * BlocksFor(t) < t + BlockSize
<1>1. BlockSize \in Nat \ {0} /\ t + BlockSize - 1 \in Nat
  BY KVAssumption
<1> DEFINE q == (t + BlockSize - 1) \div BlockSize
<1>2. /\ q \in Nat
      /\ BlockSize * q <= t + BlockSize - 1 /\ t + BlockSize - 1 < BlockSize * q + BlockSize
  BY <1>1, Quotient
<1>3. BlocksFor(t) = q
  BY DEF BlocksFor
<1> HIDE DEF q
<1>4. BlockSize * q \in Int
  BY <1>1, <1>2
<1>5. t <= BlockSize * q /\ BlockSize * q < t + BlockSize
  BY <1>1, <1>2, <1>4
<1> QED  BY <1>2, <1>3, <1>5

LEMMA BlocksForUnique ==
  ASSUME NEW t \in Nat, NEW q \in Int, t <= BlockSize * q, BlockSize * q < t + BlockSize
  PROVE  BlocksFor(t) = q
<1>1. BlockSize \in Nat \ {0} /\ t + BlockSize - 1 \in Nat
  BY KVAssumption
<1>2. BlockSize * q \in Int
  BY <1>1
<1>3. BlockSize * q <= t + BlockSize - 1 /\ t + BlockSize - 1 < BlockSize * q + BlockSize
  BY <1>1, <1>2
<1> QED  BY <1>1, <1>3, QuotientUnique DEF BlocksFor

LEMMA BlocksForMonotone ==
  ASSUME NEW a \in Nat, NEW b \in Nat, a <= b
  PROVE  BlocksFor(a) <= BlocksFor(b)
<1>1. PICK p \in Nat, q \in Nat : p = BlocksFor(a) /\ q = BlocksFor(b)
  BY BlocksForBounds
<1>2. BlockSize * p < a + BlockSize /\ b <= BlockSize * q
  BY <1>1, BlocksForBounds
<1>3. p <= q
  <2>1. BlockSize \in Nat \ {0}
    BY KVAssumption
  <2>2. ASSUME q < p PROVE FALSE
    <3>1. BlockSize * (q + 1) <= BlockSize * p
      BY <2>1, <2>2
    <3>2. BlockSize * (q + 1) = BlockSize * q + BlockSize
      BY <2>1
    <3> QED  BY <1>2, <2>1, <3>1, <3>2
  <2> QED  BY <2>2
<1> QED  BY <1>1, <1>3

(* Two parts never need fewer blocks than the whole.                       *)
LEMMA BlocksForSum ==
  ASSUME NEW a \in Nat, NEW b \in Nat
  PROVE  BlocksFor(a + b) <= BlocksFor(a) + BlocksFor(b)
<1>1. PICK p \in Nat, q \in Nat, s \in Nat :
        p = BlocksFor(a) /\ q = BlocksFor(b) /\ s = BlocksFor(a + b)
  BY BlocksForBounds
<1>2. a <= BlockSize * p /\ b <= BlockSize * q /\ BlockSize * s < a + b + BlockSize
  BY <1>1, BlocksForBounds
<1>3. s <= p + q
  <2>1. BlockSize \in Nat \ {0}
    BY KVAssumption
  <2>2. ASSUME p + q < s PROVE FALSE
    <3>1. BlockSize * (p + q + 1) <= BlockSize * s
      BY <2>1, <2>2
    <3>2. BlockSize * (p + q + 1) = BlockSize * p + BlockSize * q + BlockSize
      BY <2>1
    <3> QED  BY <1>2, <2>1, <3>1, <3>2
  <2> QED  BY <2>2
<1> QED  BY <1>1, <1>3

(* What allocate takes for a prefill (block_manager.cpp:67).               *)
LEMMA PrefillBlocks ==
  ASSUME NEW p \in Nat \ {0}
  PROVE  (p - 1) \div BlockSize + 1 = BlocksFor(p)
<1>1. BlockSize \in Nat \ {0} /\ p - 1 \in Nat
  BY KVAssumption
<1> DEFINE k == (p - 1) \div BlockSize
<1>2. k \in Nat /\ BlockSize * k <= p - 1 /\ p - 1 < BlockSize * k + BlockSize
  BY <1>1, Quotient
<1> HIDE DEF k
<1>3. BlockSize * (k + 1) = BlockSize * k + BlockSize /\ BlockSize * k \in Int
  BY <1>1, <1>2
<1>4. p <= BlockSize * (k + 1) /\ BlockSize * (k + 1) < p + BlockSize
  BY <1>1, <1>2, <1>3
<1>5. k + 1 \in Int
  BY <1>2
<1>6. BlocksFor(p) = k + 1
  BY <1>4, <1>5, BlocksForUnique
<1> QED  BY <1>6 DEF k

(* What append_tokens takes keeps the table fitting (block_manager.cpp:108)*)
LEMMA AppendedBlocks ==
  ASSUME NEW c \in Nat
  PROVE  /\ Appended(c) \in {0, 1}
         /\ BlocksFor(c) + Appended(c) = BlocksFor(c + 1)
<1>1. BlockSize \in Nat \ {0}
  BY KVAssumption
<1> DEFINE k == c \div BlockSize
           m == c % BlockSize
<1>2. /\ k \in Nat /\ BlockSize * k <= c /\ c < BlockSize * k + BlockSize
      /\ m = c - BlockSize * k
  BY <1>1, Quotient
<1>3. 0 \div BlockSize = 0
  BY <1>1, QuotientUnique
<1>4. BlockSize * (k + 1) = BlockSize * k + BlockSize /\ BlockSize * k \in Int
  <2> HIDE DEF k, m
  <2> QED  BY <1>1, <1>2
<1>5. m \in Int /\ 0 <= m /\ m < BlockSize
  <2> HIDE DEF k, m
  <2> QED  BY <1>1, <1>2, <1>4
<1>6. Appended(c) = IF m = 0 THEN 1 ELSE 0
  <2>1. Appended(c) = LET remainSlots == IF BlockSize - m = BlockSize THEN 0 ELSE BlockSize - m
                      IN  IF 1 > remainSlots THEN (1 - remainSlots - 1) \div BlockSize + 1 ELSE 0
    BY DEF Appended
  <2> HIDE DEF m, k
  <2>2. CASE m = 0
    <3>1. Appended(c) = (1 - 0 - 1) \div BlockSize + 1
      BY <1>1, <2>1, <2>2
    <3>2. 1 - 0 - 1 = 0
      OBVIOUS
    <3> QED  BY <1>3, <2>2, <3>1, <3>2
  <2>3. CASE m # 0
    <3>1. BlockSize - m # BlockSize /\ ~(1 > BlockSize - m)
      BY <1>1, <1>5, <2>3
    <3> QED  BY <2>1, <2>3, <3>1
  <2> QED  BY <2>2, <2>3
<1> HIDE DEF k, m
<1>7. CASE m = 0
  <2>1. c = BlockSize * k
    BY <1>2, <1>4, <1>7
  <2>2. BlocksFor(c) = k
    BY <1>1, <1>2, <2>1, BlocksForUnique
  <2>3. c + 1 \in Nat /\ k + 1 \in Int /\ c + 1 <= BlockSize * (k + 1)
        /\ BlockSize * (k + 1) < c + 1 + BlockSize
    BY <1>1, <1>2, <1>4, <2>1
  <2>4. BlocksFor(c + 1) = k + 1
    BY <2>3, BlocksForUnique
  <2> QED  BY <1>2, <1>6, <1>7, <2>2, <2>4
<1>8. CASE m # 0
  <2>1. /\ c \in Nat /\ c + 1 \in Nat /\ k + 1 \in Int
        /\ c <= BlockSize * (k + 1) /\ BlockSize * (k + 1) < c + BlockSize
        /\ c + 1 <= BlockSize * (k + 1) /\ BlockSize * (k + 1) < c + 1 + BlockSize
    BY <1>1, <1>2, <1>4, <1>5, <1>8
  <2>2. BlocksFor(c) = k + 1
    BY <2>1, BlocksForUnique
  <2>3. BlocksFor(c + 1) = k + 1
    BY <2>1, BlocksForUnique
  <2> QED  BY <1>2, <1>6, <1>8, <2>2, <2>3
<1> QED  BY <1>7, <1>8

-----------------------------------------------------------------------------
(* The policies.                                                           *)

(* The best rank of some ranks is one of them.                             *)
LEMMA BestIsOne ==
  ASSUME NEW ranks, ranks \subseteq Rank, ranks # {},
         NEW score, \A w \in ranks : score[w] \in Int
  PROVE  FirstBest(ranks, score) \in ranks
<1> DEFINE better == {p \in ranks \X ranks :
                       score[p[2]] < score[p[1]] \/ (score[p[2]] = score[p[1]] /\ p[1] < p[2])}
<1>1. /\ IsFiniteSet(ranks) /\ ranks \subseteq Int
  <2>1. 0 \in Int /\ DpSize - 1 \in Int
    BY KVAssumption
  <2>2. IsFiniteSet(0 .. DpSize - 1)
    BY <2>1, FS_Interval
  <2>3. IsFiniteSet(ranks)
    BY <2>2, FS_Subset DEF Rank
  <2>4. 0 .. DpSize - 1 \subseteq Int
    BY <2>1
  <2> QED  BY <2>3, <2>4 DEF Rank
<1>2. /\ \A x, y, z \in ranks : <<x, y>> \in better /\ <<y, z>> \in better => <<x, z>> \in better
      /\ \A x \in ranks : <<x, x>> \notin better
  BY <1>1
<1>3. \E w \in ranks : \A v \in ranks : <<v, w>> \notin better
  <2> HIDE DEF better
  <2> QED  BY <1>1, <1>2, MinimalExists
<1>4. PICK w \in ranks : \A v \in ranks : <<v, w>> \notin better
  BY <1>3
<1>5. \A v \in ranks : score[v] < score[w] \/ (score[v] = score[w] /\ w <= v)
  <2> SUFFICES ASSUME NEW v \in ranks
               PROVE  score[v] < score[w] \/ (score[v] = score[w] /\ w <= v)
    OBVIOUS
  <2>1. ~(score[w] < score[v]) /\ ~(score[w] = score[v] /\ v < w)
    BY <1>4
  <2>2. score[v] \in Int /\ score[w] \in Int /\ v \in Int /\ w \in Int
    BY <1>1
  <2> HIDE DEF better
  <2> QED  BY <2>1, <2>2
<1> DEFINE Best(u) == \A v \in ranks : score[v] < score[u] \/ (score[v] = score[u] /\ u <= v)
<1>6. \E u \in ranks : Best(u)
  BY <1>5
<1>7. FirstBest(ranks, score) = CHOOSE u \in ranks : Best(u)
  BY DEF FirstBest
<1> HIDE DEF Best
<1> QED  BY <1>6, <1>7

LEMMA RequiredType ==
  ASSUME NEW r \in Req
  PROVE  /\ RequiredBlocks(r) \in Nat
         /\ BlocksFor(Prefill[r] + Output[r]) <= RequiredBlocks(r)
         /\ Charge[r] = RequiredBlocks(r)
<1>1. Prefill[r] \in Nat /\ Output[r] \in Nat
  BY KVAssumption
<1>2. BlocksFor(Prefill[r]) \in Nat /\ BlocksFor(Output[r]) \in Nat
  BY <1>1, BlocksForBounds
<1> QED  BY <1>1, <1>2, BlocksForSum DEF RequiredBlocks, Charge

(* schedule returns a rank or none; every policy but plain round-robin one *)
(* that has the blocks (dpscheduler.py:119, :183, :205).                   *)
LEMMA ChoiceFits ==
  ASSUME TypeOK, NEW required \in Nat
  PROVE  /\ Choice(required) \in Rank \cup {NoRank}
         /\ policy # "RR" /\ Choice(required) # NoRank => stats[Choice(required)] >= required
<1> DEFINE able == {w \in Rank : stats[w] >= required}
<1>1. /\ stats \in [Rank -> Int] /\ Rank # {} /\ curRank \in Rank
      /\ policy \in {"max", "RR", "cap_rr", "weighted"}
  BY KVAssumption DEF TypeOK, Rank
<1>2. CASE policy = "max"
  <2>1. FirstBest(Rank, stats) \in Rank
    BY <1>1, BestIsOne
  <2> QED  BY <1>2, <2>1 DEF Choice, ScheduleMax
<1>3. CASE policy = "weighted"
  <2> DEFINE score == [w \in Rank |-> stats[w] * Weight[w]]
  <2>1. \A w \in Rank : score[w] \in Int
    BY <1>1, KVAssumption
  <2>2. able # {} => FirstBest(able, score) \in able
    <3> HIDE DEF score
    <3> QED  BY <2>1, BestIsOne
  <2>3. Choice(required) = IF able = {} THEN NoRank ELSE FirstBest(able, score)
    BY <1>3 DEF Choice, ScheduleWeighted
  <2> QED  BY <2>2, <2>3
<1>4. CASE policy = "cap_rr"
  <2> DEFINE score == [w \in Rank |-> -((w - curRank) % DpSize)]
  <2>1. \A w \in Rank : score[w] \in Int
    BY <1>1, KVAssumption DEF Rank
  <2>2. able # {} => FirstBest(able, score) \in able
    <3> HIDE DEF score
    <3> QED  BY <2>1, BestIsOne
  <2>3. Choice(required) = IF able = {} THEN NoRank ELSE FirstBest(able, score)
    BY <1>4 DEF Choice, ScheduleCapRR
  <2> QED  BY <2>2, <2>3
<1>5. CASE policy = "RR"
  BY <1>1, <1>5 DEF Choice
<1> QED  BY <1>1, <1>2, <1>3, <1>4, <1>5

LEMMA NextRankType ==
  ASSUME TypeOK, NEW w \in Rank \cup {NoRank}
  PROVE  NextRank(w) \in Rank
<1>1. curRank \in Rank /\ DpSize \in Nat \ {0}
  BY KVAssumption DEF TypeOK
<1>2. \A n \in Nat : n % DpSize \in Rank
  BY <1>1 DEF Rank
<1>3. \A v \in Rank : v + 1 \in Nat
  BY DEF Rank
<1> QED  BY <1>1, <1>2, <1>3 DEF NextRank

-----------------------------------------------------------------------------
(* What a pass takes.                                                      *)

ContextLen(batch) == [r \in batch |-> IF stage[r] = "prefill" THEN Prefill[r] ELSE context[r]]
AppendedIn(batch) == [r \in batch |-> Appended(ContextLen(batch)[r])]
Allocs(batch)     == Total(Allocated(batch), batch)
Appends(batch)    == Total(AppendedIn(batch), batch)

(* StartPass in the terms above.                                           *)
LEMMA PassUnfolded ==
  ASSUME NEW w, NEW batch, StartPass(w, batch)
  PROVE  /\ batch # {} /\ batch \subseteq At(w, {"prefill", "decode"})
         /\ \/ /\ free[w] < Allocs(batch)
                  \/ (Appends(batch) > 0 /\ free[w] - Allocs(batch) <= Appends(batch))
               /\ aborted' = aborted \cup {w}
               /\ UNCHANGED <<stage, context, blocks, free>>
            \/ /\ ~(free[w] < Allocs(batch))
               /\ ~(Appends(batch) > 0 /\ free[w] - Allocs(batch) <= Appends(batch))
               /\ free' = [free EXCEPT ![w] = @ - Allocs(batch) - Appends(batch)]
               /\ blocks' = [r \in Req |-> IF r \in batch
                                THEN blocks[r] + Allocated(batch)[r] + AppendedIn(batch)[r]
                                ELSE blocks[r]]
               /\ context' = [r \in Req |-> IF r \in batch THEN ContextLen(batch)[r] + 1
                                                           ELSE context[r]]
               /\ stage' = [r \in Req |-> IF r \in batch THEN "layers" ELSE stage[r]]
               /\ UNCHANGED aborted
         /\ UNCHANGED <<controller, submitted, finished, output>>
BY Zenon DEF StartPass, ContextLen, AppendedIn, Allocs, Appends

LEMMA PassTypes ==
  ASSUME TypeOK, NEW batch, batch \subseteq Req
  PROVE  /\ \A r \in batch : /\ ContextLen(batch)[r] \in Nat
                             /\ Allocated(batch)[r] \in Nat /\ AppendedIn(batch)[r] \in Nat
         /\ Allocs(batch) \in Nat /\ Appends(batch) \in Nat /\ IsFiniteSet(batch)
<1>1. ASSUME NEW r \in batch
      PROVE  ContextLen(batch)[r] \in Nat /\ Allocated(batch)[r] \in Nat /\ AppendedIn(batch)[r] \in Nat
  <2>1. r \in Req /\ Prefill[r] \in Nat \ {0} /\ context[r] \in Nat
    BY KVAssumption DEF TypeOK
  <2>2. ContextLen(batch)[r] \in Nat
    BY <2>1 DEF ContextLen
  <2>3. BlocksFor(Prefill[r]) \in Nat /\ (Prefill[r] - 1) \div BlockSize + 1 \in Nat
    BY <2>1, BlocksForBounds, PrefillBlocks
  <2>4. Allocated(batch)[r] \in Nat
    BY <2>3 DEF Allocated
  <2>5. AppendedIn(batch)[r] \in Nat
    BY <2>2, AppendedBlocks DEF AppendedIn
  <2> QED  BY <2>2, <2>4, <2>5
<1>2. IsFiniteSet(batch)
  BY KVAssumption, FS_Subset
<1>3. Allocs(batch) \in Nat /\ Appends(batch) \in Nat
  BY <1>1, <1>2, TotalType DEF Allocs, Appends
<1> QED  BY <1>1, <1>2, <1>3

-----------------------------------------------------------------------------
(* Type correctness.                                                       *)

LEMMA InitTyped == Init => TypeOK
<1> SUFFICES ASSUME Init PROVE TypeOK
  OBVIOUS
<1>1. stats \in [Rank -> Int] /\ free \in [Rank -> Nat]
  BY KVAssumption DEF Init
<1>2. curRank \in Rank
  BY KVAssumption DEF Init, Rank
<1>3. waiting \in Seq(Req) /\ submitted \in [Rank -> Seq(Req)]
  BY DEF Init
<1> QED  BY <1>1, <1>2, <1>3 DEF Init, TypeOK, Stage

LEMMA ScheduleTyped == TypeOK /\ Schedule => TypeOK'
<1> SUFFICES ASSUME TypeOK, Schedule PROVE TypeOK'
  OBVIOUS
<1> DEFINE required == RequiredBlocks(head)
           w == Choice(required)
<1>1. head \in Req /\ required \in Nat
  BY RequiredType DEF TypeOK, Schedule
<1>2. w \in Rank \cup {NoRank}
  BY <1>1, ChoiceFits
<1>3. curRank' \in Rank
  BY <1>2, NextRankType DEF Schedule
<1>4. parked' \in BOOLEAN /\ schEvent' \in BOOLEAN /\ head' \in Req \cup {NoReq}
  BY DEF Schedule, TypeOK
<1>5. /\ stats' \in [Rank -> Int]
      /\ seqRank' \in [Req -> Rank \cup {NoRank}]
      /\ submitted' \in [Rank -> Seq(Req)]
  <2>1. CASE w = NoRank
    BY <2>1 DEF Schedule, TypeOK
  <2>2. CASE w # NoRank
    <3>1. w \in Rank
      BY <1>2, <2>2
    <3>2. /\ stats' = [stats EXCEPT ![w] = @ - required]
          /\ seqRank' = [seqRank EXCEPT ![head] = w]
          /\ submitted' = [submitted EXCEPT ![w] = Append(@, head)]
      BY <2>2 DEF Schedule
    <3>3. Append(submitted[w], head) \in Seq(Req)
      BY <1>1, <3>1, AppendProperties DEF TypeOK
    <3> HIDE DEF w, required
    <3> QED  BY <1>1, <3>1, <3>2, <3>3 DEF TypeOK
  <2> QED  BY <2>1, <2>2
<1> QED  BY <1>3, <1>4, <1>5 DEF Schedule, TypeOK, workers

LEMMA PollFinishedTyped == TypeOK /\ PollFinished => TypeOK'
<1> SUFFICES ASSUME TypeOK, PollFinished PROVE TypeOK'
  OBVIOUS
<1>1. \A w \in Rank : Total(Charge, Charged(w) \cap finished) \in Nat
  <2> SUFFICES ASSUME NEW w \in Rank PROVE Total(Charge, Charged(w) \cap finished) \in Nat
    OBVIOUS
  <2>1. IsFiniteSet(Charged(w) \cap finished) /\ Charged(w) \cap finished \subseteq Req
    BY KVAssumption, FS_Subset DEF Charged
  <2>2. \A r \in Charged(w) \cap finished : Charge[r] \in Nat
    BY <2>1, RequiredType
  <2> QED  BY <2>1, <2>2, TotalType
<1>2. stats' \in [Rank -> Int]
  <2>1. \A w \in Rank : stats[w] + Total(Charge, Charged(w) \cap finished) \in Int
    <3>1. \A w \in Rank : stats[w] \in Int
      BY DEF TypeOK
    <3>2. \A m \in Int, n \in Nat : m + n \in Int
      OBVIOUS
    <3> QED  BY <1>1, <3>1, <3>2, Zenon
  <2> QED  BY <2>1 DEF PollFinished
<1>3. seqRank' \in [Req -> Rank \cup {NoRank}]
  BY DEF PollFinished, TypeOK
<1> QED  BY <1>2, <1>3 DEF PollFinished, TypeOK, workers

LEMMA RecvRequestTyped ==
  ASSUME TypeOK, NEW w \in Rank, RecvRequest(w)
  PROVE  TypeOK'
<1>1. Head(submitted[w]) \in Req /\ Tail(submitted[w]) \in Seq(Req)
  BY HeadTailProperties DEF TypeOK, RecvRequest
<1>2. submitted' \in [Rank -> Seq(Req)]
  BY <1>1 DEF RecvRequest, TypeOK
<1>3. stage' \in [Req -> Stage] /\ output' \in [Req -> Nat]
  BY <1>1 DEF RecvRequest, TypeOK, Stage
<1> QED  BY <1>2, <1>3 DEF RecvRequest, TypeOK, controller

LEMMA StartPassTyped ==
  ASSUME TypeOK, NEW w \in Rank, NEW batch \in SUBSET Req, StartPass(w, batch)
  PROVE  TypeOK'
<1>1. /\ \A r \in batch : /\ ContextLen(batch)[r] \in Nat
                          /\ Allocated(batch)[r] \in Nat /\ AppendedIn(batch)[r] \in Nat
      /\ Allocs(batch) \in Nat /\ Appends(batch) \in Nat
  BY PassTypes
<1>2. /\ context' \in [Req -> Nat] /\ blocks' \in [Req -> Nat] /\ stage' \in [Req -> Stage]
      /\ aborted' \subseteq Rank
  <2>1. /\ blocks \in [Req -> Nat] /\ context \in [Req -> Nat] /\ stage \in [Req -> Stage]
        /\ \A r \in Req : blocks[r] \in Nat /\ context[r] \in Nat
    BY DEF TypeOK
  <2>2. context' \in [Req -> Nat]
    <3>1. \A r \in batch : ContextLen(batch)[r] + 1 \in Nat
      <4>1. \A n \in Nat : n + 1 \in Nat
        OBVIOUS
      <4> QED  BY <1>1, <4>1, Zenon
    <3>2. context' = context \/
          context' = [r \in Req |-> IF r \in batch THEN ContextLen(batch)[r] + 1 ELSE context[r]]
      BY PassUnfolded
    <3> QED  BY <2>1, <3>1, <3>2
  <2>3. blocks' \in [Req -> Nat]
    <3>1. \A r \in batch : blocks[r] + Allocated(batch)[r] + AppendedIn(batch)[r] \in Nat
      <4>1. \A m, n, k \in Nat : m + n + k \in Nat
        OBVIOUS
      <4> QED  BY <1>1, <2>1, <4>1, Zenon
    <3>2. blocks' = blocks \/
          blocks' = [r \in Req |-> IF r \in batch
                                   THEN blocks[r] + Allocated(batch)[r] + AppendedIn(batch)[r]
                                   ELSE blocks[r]]
      BY PassUnfolded
    <3> QED  BY <2>1, <3>1, <3>2
  <2>4. stage' \in [Req -> Stage]
    <3>1. stage' = stage \/ stage' = [r \in Req |-> IF r \in batch THEN "layers" ELSE stage[r]]
      BY PassUnfolded
    <3> QED  BY <2>1, <3>1 DEF Stage
  <2>5. aborted' \subseteq Rank
    <3>1. aborted' = aborted \/ aborted' = aborted \cup {w}
      BY PassUnfolded
    <3> QED  BY <3>1 DEF TypeOK
  <2> QED  BY <2>2, <2>3, <2>4, <2>5
<1>3. free' \in [Rank -> Nat]
  <2>1. free[w] \in Nat
    BY DEF TypeOK
  <2>2. ~(free[w] < Allocs(batch)) /\ ~(Appends(batch) > 0 /\ free[w] - Allocs(batch) <= Appends(batch))
          => free[w] - Allocs(batch) - Appends(batch) \in Nat
    BY <1>1, <2>1
  <2> QED  BY <2>2, PassUnfolded DEF TypeOK
<1> QED  BY <1>2, <1>3, PassUnfolded DEF TypeOK, controller

LEMMA SampleTyped ==
  ASSUME TypeOK, NEW w \in Rank, NEW batch \in SUBSET Req, Sample(w, batch)
  PROVE  TypeOK'
<1> DEFINE done == {r \in batch : output[r] + 1 >= Output[r]}
<1>1. Total(blocks, done) \in Nat
  <2>1. IsFiniteSet(done) /\ done \subseteq Req
    BY KVAssumption, FS_Subset
  <2> HIDE DEF done
  <2> QED  BY <2>1, TotalType DEF TypeOK
<1>2. /\ output' \in [Req -> Nat] /\ stage' \in [Req -> Stage] /\ blocks' \in [Req -> Nat]
      /\ finished' \subseteq Req
  <2>1. \A r \in Req : output[r] \in Nat /\ output[r] + 1 \in Nat /\ blocks[r] \in Nat
    BY DEF TypeOK
  <2>2. output' \in [Req -> Nat]
    BY <2>1 DEF Sample
  <2>3. stage' \in [Req -> Stage]
    BY DEF Sample, TypeOK, Stage
  <2>4. blocks' \in [Req -> Nat]
    BY <2>1 DEF Sample
  <2>5. finished' \subseteq Req
    BY DEF Sample, TypeOK
  <2> QED  BY <2>2, <2>3, <2>4, <2>5
<1>3. free' = [free EXCEPT ![w] = @ + Total(blocks, done)]
  BY DEF Sample
<1>4. free' \in [Rank -> Nat]
  <2> HIDE DEF done
  <2> QED  BY <1>1, <1>3 DEF TypeOK
<1> QED  BY <1>2, <1>4 DEF Sample, TypeOK, controller

LEMMA StepTyped == TypeOK /\ [Next]_vars => TypeOK'
<1> SUFFICES ASSUME TypeOK, [Next]_vars PROVE TypeOK'
  OBVIOUS
<1>1. ASSUME NEW r \in Req, PutRequest(r) PROVE TypeOK'
  BY <1>1, AppendProperties DEF PutRequest, TypeOK, workers
<1>2. CASE TakeRequest
  <2>1. Head(waiting) \in Req /\ Tail(waiting) \in Seq(Req)
    BY <1>2, HeadTailProperties DEF TakeRequest, TypeOK
  <2> QED  BY <1>2, <2>1 DEF TakeRequest, TypeOK, workers
<1>3. CASE UNCHANGED vars
  BY <1>3 DEF TypeOK, vars, controller, workers
<1> QED
  BY <1>1, <1>2, <1>3, ScheduleTyped, PollFinishedTyped, RecvRequestTyped, StartPassTyped,
     SampleTyped DEF Next

(* Every variable keeps its type (the declarations of DPScheduler,         *)
(* BlockManager and Sampler); in particular no rank's free blocks go below *)
(* zero, whatever the scheduler admits.                                    *)
THEOREM TypeCorrect == Spec => []TypeOK
<1> QED  BY InitTyped, StepTyped, PTL DEF Spec

-----------------------------------------------------------------------------
(* The invariant is inductive.                                             *)

LEMMA ChargedFinite ==
  ASSUME NEW w
  PROVE  IsFiniteSet(Charged(w)) /\ Charged(w) \subseteq Req
BY KVAssumption, FS_Subset DEF Charged

LEMMA InitIInv == Init => IInv
<1> SUFFICES ASSUME Init PROVE IInv
  OBVIOUS
<1>1. waiting = <<>> /\ submitted = [w \in Rank |-> <<>>] /\ DOMAIN <<>> = {}
  BY DEF Init
<1>2. Range(waiting) = {} /\ IsInjective(waiting)
      /\ \A w \in Rank : Range(submitted[w]) = {} /\ IsInjective(submitted[w])
  BY <1>1 DEF Range, IsInjective
<1>3. OncePlaced /\ ChargedWhere /\ ContextByStage /\ TablesFitContext
  BY <1>2, KVAssumption
  DEF Init, OncePlaced, ChargedWhere, ContextByStage, TablesFitContext, Unsent
<1>4. \A w \in Rank : Charged(w) = {} /\ Total(Charge, Charged(w)) = 0 /\ Total(blocks, Charged(w)) = 0
  <2>1. \A w \in Rank : w # NoRank
    BY DEF Rank, NoRank
  <2>2. \A w \in Rank : Charged(w) = {}
    BY <2>1 DEF Init, Charged
  <2> QED  BY <2>2, TotalEmpty
<1>5. ChargesConserved /\ BlocksConserved /\ Affordable
  BY <1>4, KVAssumption DEF Init, ChargesConserved, BlocksConserved, Affordable
<1> QED  BY <1>3, <1>5 DEF IInv

LEMMA PutRequestKeeps ==
  ASSUME TypeOK, IInv, NEW r \in Req, PutRequest(r)
  PROVE  IInv'
<1> USE DEF IInv
<1>1. /\ r \in arriving /\ arriving' = arriving \ {r} /\ waiting' = Append(waiting, r)
      /\ UNCHANGED <<head, parked, schEvent, stats, seqRank, curRank, policy, submitted, finished,
                     stage, context, output, blocks, free, aborted>>
  BY DEF PutRequest, workers
<1>2. Range(waiting') = Range(waiting) \cup {r} /\ IsInjective(waiting')
  BY <1>1, PutBack DEF TypeOK, OncePlaced
<1>3. OncePlaced' /\ Unsent' = Unsent
  BY <1>1, <1>2 DEF OncePlaced, Unsent
<1>4. ChargedWhere'
  BY <1>1, <1>3 DEF ChargedWhere
<1> QED
  BY <1>1, <1>3, <1>4
  DEF ContextByStage, TablesFitContext, ChargesConserved, BlocksConserved, Charged, Affordable

LEMMA TakeRequestKeeps ==
  ASSUME TypeOK, IInv, TakeRequest
  PROVE  IInv'
<1> USE DEF IInv
<1>1. /\ head = NoReq /\ waiting # <<>> /\ head' = Head(waiting) /\ waiting' = Tail(waiting)
      /\ UNCHANGED <<arriving, parked, schEvent, stats, seqRank, curRank, policy, submitted, finished,
                     stage, context, output, blocks, free, aborted>>
  BY DEF TakeRequest, workers
<1>2. /\ head' \in Range(waiting) /\ IsInjective(waiting')
      /\ Range(waiting') = Range(waiting) \ {head'}
  BY <1>1, TakeHead DEF TypeOK, OncePlaced
<1>3. head' \in Req
  BY <1>1, HeadTailProperties DEF TypeOK
<1>4. OncePlaced' /\ Unsent' = Unsent
  BY <1>1, <1>2, <1>3, KVAssumption DEF OncePlaced, Unsent
<1>5. ChargedWhere'
  BY <1>1, <1>4 DEF ChargedWhere
<1> QED
  BY <1>1, <1>4, <1>5
  DEF ContextByStage, TablesFitContext, ChargesConserved, BlocksConserved, Charged, Affordable

(* add_seq charges a request that was not charged, and that has no blocks. *)
LEMMA ScheduleKeeps ==
  ASSUME TypeOK, IInv, Schedule
  PROVE  IInv'
<1> USE DEF IInv
<1> DEFINE required == RequiredBlocks(head)
<1>1. /\ head \in Req /\ head # NoReq /\ required \in Nat /\ Charge[head] = required
      /\ seqRank[head] = NoRank /\ stage[head] = "away" /\ blocks[head] = 0
      /\ head \notin finished
  <2>1. head \in Req /\ head # NoReq
    BY DEF Schedule, TypeOK
  <2>2. NoRank \notin Rank
    BY DEF NoRank, Rank
  <2>3. seqRank[head] = NoRank
    BY <2>1 DEF ChargedWhere, Unsent
  <2>4. stage[head] = "away" /\ head \notin finished
    BY <2>1, <2>2, <2>3 DEF ChargedWhere
  <2> QED  BY <2>1, <2>3, <2>4, RequiredType DEF ContextByStage
<1>2. PICK w \in Rank \cup {NoRank} :
        w = Choice(required) /\ (policy # "RR" /\ w # NoRank => stats[w] >= required)
  BY <1>1, ChoiceFits
<1>3. UNCHANGED <<arriving, waiting, policy, finished, stage, context, output, blocks, free, aborted>>
  BY DEF Schedule, workers
<1>4. ContextByStage' /\ TablesFitContext'
  BY <1>3 DEF ContextByStage, TablesFitContext
<1>5. CASE w = NoRank
  <2>1. UNCHANGED <<head, stats, seqRank, submitted>>
    BY <1>2, <1>5 DEF Schedule
  <2> QED
    BY <1>3, <1>4, <2>1
    DEF OncePlaced, ChargedWhere, Unsent, ChargesConserved, BlocksConserved, Charged, Affordable
<1>6. CASE w # NoRank
  <2>1. /\ w \in Rank /\ head' = NoReq
        /\ stats' = [stats EXCEPT ![w] = @ - required]
        /\ seqRank' = [seqRank EXCEPT ![head] = w]
        /\ submitted' = [submitted EXCEPT ![w] = Append(@, head)]
    BY <1>2, <1>6 DEF Schedule
  <2> HIDE DEF required
  <2>2. \A v \in Rank : head \notin Range(submitted[v])
    <3>1. NoRank \notin Rank
      BY DEF NoRank, Rank
    <3> QED  BY <1>1, <3>1 DEF ChargedWhere
  <2>3. /\ Range(submitted'[w]) = Range(submitted[w]) \cup {head}
        /\ IsInjective(submitted'[w])
        /\ \A v \in Rank : v # w => submitted'[v] = submitted[v]
    <3>1. /\ submitted[w] \in Seq(Req) /\ submitted'[w] = Append(submitted[w], head)
          /\ \A v \in Rank : v # w => submitted'[v] = submitted[v]
      BY <2>1 DEF TypeOK
    <3> QED  BY <1>1, <2>1, <2>2, <3>1, PutBack DEF OncePlaced
  <2>4. OncePlaced'
    <3>1. NoReq \notin arriving \cup Range(waiting)
      BY KVAssumption DEF TypeOK, Range
    <3>2. \A v \in Rank : IsInjective(submitted'[v])
      BY <2>3 DEF OncePlaced
    <3> QED  BY <1>3, <2>1, <3>1, <3>2 DEF OncePlaced
  <2>0. \A r \in Req : seqRank'[r] = IF r = head THEN w ELSE seqRank[r]
    BY <1>1, <2>1 DEF TypeOK
  <2>5. ChargedWhere'
    <3>1. \A r \in Req : r # head => seqRank'[r] = seqRank[r]
      BY <2>0
    <3>2. seqRank'[head] = w
      BY <1>1, <2>0
    <3>3. \A r \in Unsent' : seqRank'[r] = NoRank
      <4>1. Unsent' \subseteq Unsent /\ head \notin Unsent' /\ Unsent \subseteq Req
        <5>1. arriving \subseteq Req /\ Range(waiting) \subseteq Req /\ NoReq \notin Req
          <6>1. waiting \in Seq(Req)
            BY DEF TypeOK
          <6>2. Range(waiting) \subseteq Req
            BY <6>1, RangeOfSeq
          <6> QED  BY <6>2, KVAssumption DEF TypeOK
        <5> QED  BY <1>1, <1>3, <2>1, <5>1 DEF Unsent, OncePlaced
      <4> QED  BY <3>1, <4>1 DEF ChargedWhere
    <3>4. \A v \in Rank : \A r \in Range(submitted'[v]) :
            seqRank'[r] = v /\ stage'[r] = "away" /\ r \notin finished'
      <4> SUFFICES ASSUME NEW v \in Rank, NEW r \in Range(submitted'[v])
                   PROVE  seqRank'[r] = v /\ stage'[r] = "away" /\ r \notin finished'
        OBVIOUS
      <4>1. CASE r = head
        <5>1. v = w
          BY <2>2, <2>3, <4>1
        <5> QED  BY <1>1, <1>3, <3>2, <4>1, <5>1
      <4>2. CASE r # head
        <5>1. r \in Range(submitted[v])
          BY <2>3, <4>2
        <5>2. r \in Req
          BY <5>1 DEF TypeOK, Range
        <5> QED  BY <1>3, <3>1, <4>2, <5>1, <5>2 DEF ChargedWhere
      <4> QED  BY <4>1, <4>2
    <3>5. \A r \in Req : stage'[r] # "away" => seqRank'[r] \in Rank
      BY <1>3, <2>1, <3>1, <3>2 DEF ChargedWhere
    <3>6. \A r \in finished' : seqRank'[r] \in Rank /\ stage'[r] = "away"
      BY <1>1, <1>3, <3>1 DEF ChargedWhere, TypeOK
    <3> QED  BY <3>3, <3>4, <3>5, <3>6 DEF ChargedWhere
  <2>6. /\ Charged(w)' = Charged(w) \cup {head} /\ head \notin Charged(w)
        /\ \A v \in Rank : v # w => Charged(v)' = Charged(v)
    <3>1. w # NoRank /\ \A v \in Rank : v # NoRank
      BY <2>1 DEF NoRank, Rank
    <3> QED  BY <1>1, <2>0, <3>1 DEF Charged
  <2>7. ChargesConserved'
    <3> SUFFICES ASSUME NEW v \in Rank
                 PROVE  stats'[v] + Total(Charge, Charged(v)') = NumBlocks[v]
      BY DEF ChargesConserved, Charge, RequiredBlocks, BlocksFor
    <3>1. stats[v] + Total(Charge, Charged(v)) = NumBlocks[v]
      BY DEF ChargesConserved
    <3>2. CASE v # w
      BY <2>1, <2>6, <3>1, <3>2 DEF TypeOK
    <3>3. CASE v = w
      <4>1. \A r \in Charged(w) \cup {head} : Charge[r] \in Nat
        BY <1>1, ChargedFinite, RequiredType
      <4>2. Total(Charge, Charged(w)) \in Nat
        BY <4>1, ChargedFinite, TotalType
      <4>3. Total(Charge, Charged(w)') = Total(Charge, Charged(w)) + required
        BY <1>1, <2>6, <4>1, ChargedFinite, TotalAdd
      <4>4. stats'[w] = stats[w] - required /\ stats[w] \in Int
        BY <2>1 DEF TypeOK
      <4>5. \A m \in Int, n, k \in Nat : (m - k) + (n + k) = m + n
        OBVIOUS
      <4>6. stats'[w] + Total(Charge, Charged(w)') = stats[w] + Total(Charge, Charged(w))
        <5>1. required \in Nat
          BY <1>1
        <5>2. (stats[w] - required) + (Total(Charge, Charged(w)) + required)
                = stats[w] + Total(Charge, Charged(w))
          BY <4>2, <4>4, <4>5, <5>1, Zenon
        <5> QED  BY <4>3, <4>4, <5>2, Zenon
      <4> QED  BY <3>1, <3>3, <4>6
    <3> QED  BY <3>2, <3>3
  <2>8. BlocksConserved'
    <3> SUFFICES ASSUME NEW v \in Rank
                 PROVE  free[v] + Total(blocks, Charged(v)') = NumBlocks[v]
      BY <1>3 DEF BlocksConserved
    <3>1. free[v] + Total(blocks, Charged(v)) = NumBlocks[v]
      BY DEF BlocksConserved
    <3>2. CASE v # w
      BY <2>6, <3>1, <3>2
    <3>3. CASE v = w
      <4>1. \A r \in Charged(w) \cup {head} : blocks[r] \in Nat
        BY <1>1, ChargedFinite DEF TypeOK
      <4>2. Total(blocks, Charged(w)) \in Nat
        BY <4>1, ChargedFinite, TotalType
      <4>3. Total(blocks, Charged(w)') = Total(blocks, Charged(w)) + blocks[head]
        BY <2>6, <4>1, ChargedFinite, TotalAdd
      <4>4. \A n \in Nat : n + 0 = n
        OBVIOUS
      <4>5. Total(blocks, Charged(w)') = Total(blocks, Charged(w))
        BY <1>1, <4>2, <4>3, <4>4, Zenon
      <4> QED  BY <3>1, <3>3, <4>5
    <3> QED  BY <3>2, <3>3
  <2>9. Affordable'
    <3>1. \A v \in Rank : stats'[v] = IF v = w THEN stats[w] - required ELSE stats[v]
      BY <2>1 DEF TypeOK
    <3>2. stats[w] \in Int
      BY <2>1 DEF TypeOK
    <3> QED  BY <1>1, <1>2, <1>3, <1>6, <3>1, <3>2 DEF Affordable
  <2> QED  BY <1>4, <2>4, <2>5, <2>7, <2>8, <2>9
<1> QED  BY <1>5, <1>6

(* del_seq takes back the charge of what has finished, and nothing else.   *)
LEMMA PollFinishedKeeps ==
  ASSUME TypeOK, IInv, PollFinished
  PROVE  IInv'
<1> USE DEF IInv
<1>1. /\ finished' = {}
      /\ \A w \in Rank : stats'[w] = stats[w] + Total(Charge, Charged(w) \cap finished)
      /\ \A r \in Req : seqRank'[r] = IF r \in finished THEN NoRank ELSE seqRank[r]
      /\ UNCHANGED <<arriving, waiting, head, policy, submitted, stage, context, output, blocks, free>>
  BY DEF PollFinished, workers
<1>2. \A w \in Rank : w # NoRank
  BY DEF NoRank, Rank
<1>3. \A w \in Rank : Charged(w)' = Charged(w) \ finished
  BY <1>1, <1>2 DEF Charged
<1>4. ASSUME NEW w \in Rank
      PROVE  /\ Total(Charge, Charged(w) \cap finished) \in Nat
             /\ stats'[w] + Total(Charge, Charged(w)') = stats[w] + Total(Charge, Charged(w))
  <2>1. \A r \in Charged(w) : Charge[r] \in Nat
    BY ChargedFinite, RequiredType
  <2>2. Charged(w) \ (Charged(w) \cap finished) = Charged(w) \ finished
    OBVIOUS
  <2>3. /\ Total(Charge, Charged(w))
              = Total(Charge, Charged(w) \ finished) + Total(Charge, Charged(w) \cap finished)
        /\ Total(Charge, Charged(w) \ finished) \in Nat
        /\ Total(Charge, Charged(w) \cap finished) \in Nat
    BY <2>1, <2>2, ChargedFinite, TotalPart
  <2>4. stats[w] \in Int
    BY DEF TypeOK
  <2>5. \A m \in Int, n, k \in Nat : (m + k) + n = m + (n + k)
    OBVIOUS
  <2>6. stats'[w] = stats[w] + Total(Charge, Charged(w) \cap finished)
    BY <1>1
  <2>7. Charged(w)' = Charged(w) \ finished
    BY <1>3
  <2>8. (stats[w] + Total(Charge, Charged(w) \cap finished)) + Total(Charge, Charged(w) \ finished)
          = stats[w] + (Total(Charge, Charged(w) \ finished) + Total(Charge, Charged(w) \cap finished))
    BY <2>3, <2>4, <2>5, Zenon
  <2>9. stats'[w] + Total(Charge, Charged(w)') = stats[w] + Total(Charge, Charged(w))
    BY <2>3, <2>6, <2>7, <2>8, Zenon
  <2> QED  BY <2>3, <2>9
<1>5. ChargesConserved'
  BY <1>4 DEF ChargesConserved, Charge, RequiredBlocks, BlocksFor
<1>6. BlocksConserved'
  <2> SUFFICES ASSUME NEW w \in Rank
               PROVE  free[w] + Total(blocks, Charged(w)') = NumBlocks[w]
    BY <1>1 DEF BlocksConserved
  <2>1. \A r \in Charged(w) : blocks[r] \in Nat
    BY ChargedFinite DEF TypeOK
  <2>2. Charged(w) \ (Charged(w) \cap finished) = Charged(w) \ finished
    OBVIOUS
  <2>3. /\ Total(blocks, Charged(w))
              = Total(blocks, Charged(w) \ finished) + Total(blocks, Charged(w) \cap finished)
        /\ Total(blocks, Charged(w) \ finished) \in Nat
    BY <2>1, <2>2, ChargedFinite, TotalPart
  <2>4. \A r \in Charged(w) \cap finished : blocks[r] = 0
    BY ChargedFinite DEF ChargedWhere, ContextByStage
  <2>5. Total(blocks, Charged(w) \cap finished) = 0
    BY <2>4, TotalZero
  <2>6. Total(blocks, Charged(w) \ finished) = Total(blocks, Charged(w))
    BY <2>3, <2>5
  <2> QED  BY <1>3, <2>6 DEF BlocksConserved
<1>7. Affordable'
  <2>1. \A w \in Rank : stats[w] \in Int
    BY DEF TypeOK
  <2>2. \A m \in Int, k \in Nat : m >= 0 => m + k >= 0
    OBVIOUS
  <2> QED  BY <1>1, <1>4, <2>1, <2>2 DEF Affordable
<1>8. OncePlaced' /\ ContextByStage' /\ TablesFitContext'
  BY <1>1 DEF OncePlaced, ContextByStage, TablesFitContext
<1>9. ChargedWhere'
  <2>1. \A r \in Unsent' : seqRank'[r] = NoRank
    <3>1. Unsent' = Unsent /\ Unsent \subseteq Req
      <4>1. Range(waiting) \subseteq Req
        BY RangeOfSeq DEF TypeOK
      <4> QED  BY <1>1, <4>1 DEF Unsent, TypeOK
    <3> QED  BY <1>1, <3>1 DEF ChargedWhere
  <2>2. \A w \in Rank : \A r \in Range(submitted'[w]) :
          seqRank'[r] = w /\ stage'[r] = "away" /\ r \notin finished'
    <3> SUFFICES ASSUME NEW w \in Rank, NEW r \in Range(submitted[w])
                 PROVE  seqRank'[r] = w /\ stage[r] = "away"
      BY <1>1
    <3>1. r \in Req
      BY RangeOfSeq DEF TypeOK
    <3> QED  BY <1>1, <3>1 DEF ChargedWhere
  <2>3. \A r \in Req : stage'[r] # "away" => seqRank'[r] \in Rank
    BY <1>1 DEF ChargedWhere
  <2> QED  BY <1>1, <2>1, <2>2, <2>3 DEF ChargedWhere
<1> QED  BY <1>5, <1>6, <1>7, <1>8, <1>9

(* A request a worker receives has no blocks and no output yet.            *)
LEMMA RecvRequestKeeps ==
  ASSUME TypeOK, IInv, NEW w \in Rank, RecvRequest(w)
  PROVE  IInv'
<1> USE DEF IInv
<1>1. PICK r \in Req : r = Head(submitted[w])
  BY HeadTailProperties DEF TypeOK, RecvRequest
<1>2. /\ submitted[w] # <<>> /\ submitted' = [submitted EXCEPT ![w] = Tail(@)]
      /\ stage' = [stage EXCEPT ![r] = "prefill"] /\ output' = [output EXCEPT ![r] = 0]
      /\ UNCHANGED <<arriving, waiting, head, stats, seqRank, policy, finished, context, blocks, free>>
  BY <1>1 DEF RecvRequest, controller
<1>3. /\ \A v \in Rank : submitted'[v] = IF v = w THEN Tail(submitted[w]) ELSE submitted[v]
      /\ \A q \in Req : stage'[q] = IF q = r THEN "prefill" ELSE stage[q]
      /\ \A q \in Req : output'[q] = IF q = r THEN 0 ELSE output[q]
  BY <1>2 DEF TypeOK
<1>4. /\ r \in Range(submitted[w]) /\ IsInjective(Tail(submitted[w]))
      /\ Range(Tail(submitted[w])) = Range(submitted[w]) \ {r}
  BY <1>1, <1>2, TakeHead DEF TypeOK, OncePlaced
<1>5. seqRank[r] = w /\ stage[r] = "away" /\ r \notin finished /\ blocks[r] = 0
  BY <1>4 DEF ChargedWhere, ContextByStage
<1>6. OncePlaced'
  BY <1>2, <1>3, <1>4 DEF OncePlaced
<1>7. ChargedWhere'
  <2>1. \A q \in Unsent' : seqRank'[q] = NoRank
    BY <1>2 DEF ChargedWhere, Unsent
  <2>2. \A v \in Rank : \A q \in Range(submitted'[v]) :
          seqRank'[q] = v /\ stage'[q] = "away" /\ q \notin finished'
    <3> SUFFICES ASSUME NEW v \in Rank, NEW q \in Range(submitted'[v])
                 PROVE  seqRank[q] = v /\ stage'[q] = "away" /\ q \notin finished
      BY <1>2
    <3>1. q \in Range(submitted[v]) /\ (v = w => q # r)
      BY <1>3, <1>4
    <3>2. q \in Req
      BY <3>1, RangeOfSeq DEF TypeOK
    <3> QED  BY <1>3, <1>5, <3>1, <3>2 DEF ChargedWhere
  <2>3. \A q \in Req : stage'[q] # "away" => seqRank'[q] \in Rank
    BY <1>2, <1>3, <1>5 DEF ChargedWhere
  <2>4. \A q \in finished' : seqRank'[q] \in Rank /\ stage'[q] = "away"
    BY <1>2, <1>3, <1>5 DEF ChargedWhere, TypeOK
  <2> QED  BY <2>1, <2>2, <2>3, <2>4 DEF ChargedWhere
<1>8. ContextByStage' /\ TablesFitContext'
  BY <1>2, <1>3, <1>5 DEF ContextByStage, TablesFitContext
<1>9. ChargesConserved' /\ BlocksConserved' /\ Affordable'
  BY <1>2 DEF ChargesConserved, BlocksConserved, Charged, Affordable
<1> QED  BY <1>6, <1>7, <1>8, <1>9

(* What is true of a request that can start a pass.                        *)
LEMMA AtQueue ==
  ASSUME TypeOK, IInv, NEW w \in Rank, NEW batch, batch \subseteq At(w, {"prefill", "decode"})
  PROVE  /\ batch \subseteq Charged(w) /\ IsFiniteSet(batch)
         /\ \A r \in batch :
              /\ ContextLen(batch)[r] = Prefill[r] + output[r] /\ output[r] < Output[r]
              /\ blocks[r] + Allocated(batch)[r] = BlocksFor(ContextLen(batch)[r])
              /\ BlocksFor(ContextLen(batch)[r]) + AppendedIn(batch)[r]
                   = BlocksFor(ContextLen(batch)[r] + 1)
<1>1. batch \subseteq Charged(w) /\ batch \subseteq Req
  BY DEF At, Charged
<1>2. IsFiniteSet(batch)
  BY <1>1, KVAssumption, FS_Subset
<1>3. ASSUME NEW r \in batch
      PROVE  /\ ContextLen(batch)[r] = Prefill[r] + output[r] /\ output[r] < Output[r]
             /\ blocks[r] + Allocated(batch)[r] = BlocksFor(ContextLen(batch)[r])
             /\ BlocksFor(ContextLen(batch)[r]) + AppendedIn(batch)[r]
                  = BlocksFor(ContextLen(batch)[r] + 1)
  <2>1. /\ r \in Req /\ stage[r] \in {"prefill", "decode"}
        /\ Prefill[r] \in Nat \ {0} /\ Output[r] \in Nat \ {0} /\ output[r] \in Nat
        /\ context[r] \in Nat /\ blocks[r] \in Nat
    BY <1>1, KVAssumption DEF At, TypeOK
  <2>2. ContextLen(batch)[r] = Prefill[r] + output[r] /\ output[r] < Output[r]
    BY <2>1 DEF ContextLen, IInv, ContextByStage
  <2>3. ContextLen(batch)[r] \in Nat
    BY <2>1, <2>2
  <2>4. blocks[r] + Allocated(batch)[r] = BlocksFor(ContextLen(batch)[r])
    <3>1. BlocksFor(Prefill[r]) \in Nat /\ (Prefill[r] - 1) \div BlockSize + 1 = BlocksFor(Prefill[r])
      BY <2>1, BlocksForBounds, PrefillBlocks
    <3>2. CASE stage[r] = "prefill"
      <4>1. blocks[r] = 0 /\ ContextLen(batch)[r] = Prefill[r]
        BY <2>1, <3>2 DEF IInv, ContextByStage, ContextLen
      <4>2. Allocated(batch)[r] = BlocksFor(Prefill[r])
        BY <3>1, <3>2 DEF Allocated
      <4> QED  BY <3>1, <4>1, <4>2
    <3>3. CASE stage[r] = "decode"
      <4>1. Allocated(batch)[r] = 0
        BY <3>3 DEF Allocated
      <4>2. ContextLen(batch)[r] = context[r]
        BY <3>3 DEF ContextLen
      <4>3. blocks[r] = BlocksFor(context[r])
        BY <2>1, <3>3 DEF IInv, TablesFitContext
      <4> QED  BY <2>1, <4>1, <4>2, <4>3
    <3> QED  BY <2>1, <3>2, <3>3
  <2>5. AppendedIn(batch)[r] = Appended(ContextLen(batch)[r])
    BY DEF AppendedIn
  <2> QED  BY <2>2, <2>3, <2>4, <2>5, AppendedBlocks
<1> QED  BY <1>1, <1>2, <1>3

(* A pass moves blocks from the free list to the tables of its batch, and  *)
(* gives each request the blocks of a context one token longer.            *)
LEMMA StartPassKeeps ==
  ASSUME TypeOK, IInv, NEW w \in Rank, NEW batch \in SUBSET Req, StartPass(w, batch)
  PROVE  IInv'
<1> USE DEF IInv
<1>1. UNCHANGED <<arriving, waiting, head, policy, stats, seqRank, submitted, finished, output>>
  BY PassUnfolded DEF controller
<1>2. OncePlaced' /\ ChargesConserved' /\ Affordable'
  BY <1>1 DEF OncePlaced, ChargesConserved, Charged, Affordable
<1>3. CASE UNCHANGED <<stage, context, blocks, free>>
  BY <1>1, <1>2, <1>3
  DEF ChargedWhere, Unsent, ContextByStage, TablesFitContext, BlocksConserved, Charged
<1>4. CASE ~UNCHANGED <<stage, context, blocks, free>>
  <2>1. /\ batch # {} /\ batch \subseteq At(w, {"prefill", "decode"})
        /\ free' = [free EXCEPT ![w] = @ - Allocs(batch) - Appends(batch)]
        /\ blocks' = [r \in Req |-> IF r \in batch
                         THEN blocks[r] + Allocated(batch)[r] + AppendedIn(batch)[r]
                         ELSE blocks[r]]
        /\ context' = [r \in Req |-> IF r \in batch THEN ContextLen(batch)[r] + 1 ELSE context[r]]
        /\ stage' = [r \in Req |-> IF r \in batch THEN "layers" ELSE stage[r]]
    BY <1>4, PassUnfolded
  <2>2. /\ \A r \in Req : blocks'[r] = IF r \in batch
                            THEN blocks[r] + Allocated(batch)[r] + AppendedIn(batch)[r]
                            ELSE blocks[r]
        /\ \A r \in Req : context'[r] = IF r \in batch THEN ContextLen(batch)[r] + 1 ELSE context[r]
        /\ \A r \in Req : stage'[r] = IF r \in batch THEN "layers" ELSE stage[r]
    BY <2>1
  <2>3. /\ batch \subseteq Charged(w) /\ IsFiniteSet(batch)
        /\ \A r \in batch :
              /\ ContextLen(batch)[r] = Prefill[r] + output[r] /\ output[r] < Output[r]
              /\ blocks[r] + Allocated(batch)[r] + AppendedIn(batch)[r]
                   = BlocksFor(ContextLen(batch)[r] + 1)
    BY <2>1, AtQueue
  <2>4. ChargedWhere'
    <3>1. \A r \in batch : seqRank[r] = w /\ stage[r] # "away"
      BY <2>1 DEF At
    <3>2. \A v \in Rank : Range(submitted[v]) \subseteq Req
      BY RangeOfSeq DEF TypeOK
    <3>3. \A v \in Rank : \A r \in Range(submitted'[v]) :
            seqRank'[r] = v /\ stage'[r] = "away" /\ r \notin finished'
      BY <1>1, <2>2, <3>1, <3>2 DEF ChargedWhere
    <3>4. \A r \in Unsent' : seqRank'[r] = NoRank
      BY <1>1 DEF ChargedWhere, Unsent
    <3>5. \A r \in Req : stage'[r] # "away" => seqRank'[r] \in Rank
      BY <1>1, <2>2, <3>1 DEF ChargedWhere
    <3>6. \A r \in finished' : seqRank'[r] \in Rank /\ stage'[r] = "away"
      BY <1>1, <2>2, <3>1 DEF ChargedWhere, TypeOK
    <3> QED  BY <3>3, <3>4, <3>5, <3>6 DEF ChargedWhere
  <2>5. ContextByStage'
    <3> SUFFICES ASSUME NEW r \in Req
                 PROVE  /\ stage'[r] \in {"away", "prefill"} => blocks'[r] = 0
                        /\ stage'[r] = "prefill" => output[r] = 0
                        /\ stage'[r] = "decode" =>
                             context'[r] = Prefill[r] + output[r] /\ output[r] < Output[r]
                        /\ stage'[r] = "layers" =>
                             context'[r] = Prefill[r] + output[r] + 1 /\ output[r] < Output[r]
      BY <1>1 DEF ContextByStage
    <3>1. CASE r \in batch
      BY <2>2, <2>3, <3>1
    <3>2. CASE r \notin batch
      BY <2>2, <3>2 DEF ContextByStage
    <3> QED  BY <3>1, <3>2
  <2>6. TablesFitContext'
    <3> SUFFICES ASSUME NEW r \in Req, stage'[r] \in {"decode", "layers"}
                 PROVE  blocks'[r] = BlocksFor(context'[r])
      BY DEF TablesFitContext, BlocksFor
    <3>1. CASE r \in batch
      BY <2>2, <2>3, <3>1
    <3>2. CASE r \notin batch
      BY <2>2, <3>2 DEF TablesFitContext
    <3> QED  BY <3>1, <3>2
  <2>7. BlocksConserved'
    <3> DEFINE mid == [r \in batch |-> blocks[r] + Allocated(batch)[r]]
               rest == Charged(w) \ batch
    <3>1. /\ \A r \in batch : blocks[r] \in Nat /\ Allocated(batch)[r] \in Nat
                               /\ AppendedIn(batch)[r] \in Nat
          /\ Allocs(batch) \in Nat /\ Appends(batch) \in Nat
      BY PassTypes DEF TypeOK
    <3>2. \A r \in batch : mid[r] \in Nat /\ blocks'[r] = mid[r] + AppendedIn(batch)[r]
      <4>1. \A r \in batch : mid[r] = blocks[r] + Allocated(batch)[r]
        OBVIOUS
      <4>2. \A m, n \in Nat : m + n \in Nat
        OBVIOUS
      <4>3. \A r \in batch : blocks'[r] = (blocks[r] + Allocated(batch)[r]) + AppendedIn(batch)[r]
        BY <2>2
      <4> HIDE DEF mid
      <4> QED  BY <3>1, <4>1, <4>2, <4>3, Zenon
    <3>3. Total(blocks', batch) = Total(blocks, batch) + Allocs(batch) + Appends(batch)
      <4>1. Total(mid, batch) = Total(blocks, batch) + Allocs(batch)
        BY <2>3, <3>1, TotalPlus DEF Allocs
      <4>2. Total(blocks', batch) = Total(mid, batch) + Appends(batch)
        <5> HIDE DEF mid
        <5> QED  BY <2>3, <3>1, <3>2, TotalPlus DEF Appends
      <4> QED  BY <4>1, <4>2, Zenon
    <3>4. Total(blocks', rest) = Total(blocks, rest)
      <4>1. \A r \in rest : blocks'[r] = blocks[r]
        BY <2>2 DEF Charged
      <4> HIDE DEF rest
      <4> QED  BY <4>1, TotalSame
    <3>5. /\ Total(blocks, Charged(w)) = Total(blocks, rest) + Total(blocks, batch)
          /\ Total(blocks, rest) \in Nat /\ Total(blocks, batch) \in Nat
      <4>1. \A r \in Charged(w) : blocks[r] \in Nat
        BY DEF TypeOK, Charged
      <4> QED  BY <2>3, <4>1, ChargedFinite, TotalPart
    <3>6. Total(blocks', Charged(w)) = Total(blocks', rest) + Total(blocks', batch)
      <4>1. \A r \in Charged(w) : blocks'[r] \in Nat
        BY StartPassTyped DEF TypeOK, Charged
      <4> QED  BY <2>3, <4>1, ChargedFinite, TotalPart
    <3>7. /\ free[w] \in Nat /\ free'[w] = free[w] - Allocs(batch) - Appends(batch)
          /\ \A v \in Rank : v # w => free'[v] = free[v]
      BY <2>1 DEF TypeOK
    <3>8. free'[w] + Total(blocks', Charged(w)) = free[w] + Total(blocks, Charged(w))
      <4>2. (free[w] - Allocs(batch) - Appends(batch))
              + (Total(blocks, rest) + (Total(blocks, batch) + Allocs(batch) + Appends(batch)))
              = free[w] + (Total(blocks, rest) + Total(blocks, batch))
        <5> HIDE DEF rest
        <5>1. PICK f, a, p, s, b \in Nat :
                /\ f = free[w] /\ a = Allocs(batch) /\ p = Appends(batch)
                /\ s = Total(blocks, rest) /\ b = Total(blocks, batch)
          BY <3>1, <3>5, <3>7
        <5>2. (f - a - p) + (s + (b + a + p)) = f + (s + b)
          OBVIOUS
        <5> QED  BY <5>1, <5>2
      <4> HIDE DEF rest
      <4> QED  BY <3>3, <3>4, <3>5, <3>6, <3>7, <4>2, Zenon
    <3>9. \A v \in Rank : v # w => Total(blocks', Charged(v)) = Total(blocks, Charged(v))
      <4> SUFFICES ASSUME NEW v \in Rank, v # w
                   PROVE  Total(blocks', Charged(v)) = Total(blocks, Charged(v))
        OBVIOUS
      <4>1. \A r \in Charged(v) : blocks'[r] = blocks[r]
        BY <2>2, <2>3 DEF Charged
      <4> QED  BY <4>1, TotalSame
    <3>10. \A v \in Rank : Charged(v)' = Charged(v)
      BY <1>1 DEF Charged
    <3> SUFFICES ASSUME NEW v \in Rank
                 PROVE  free'[v] + Total(blocks', Charged(v)') = NumBlocks[v]
      BY DEF BlocksConserved
    <3>11. free[v] + Total(blocks, Charged(v)) = NumBlocks[v]
      BY DEF BlocksConserved
    <3> HIDE DEF rest, mid
    <3> QED  BY <3>7, <3>8, <3>9, <3>10, <3>11
  <2> QED  BY <1>2, <2>4, <2>5, <2>6, <2>7
<1> QED  BY <1>3, <1>4

(* release_seqs gives back every block of what is done; the rest goes on   *)
(* with its table as it is.                                                *)
LEMMA SampleKeeps ==
  ASSUME TypeOK, IInv, NEW w \in Rank, NEW batch \in SUBSET Req, Sample(w, batch)
  PROVE  IInv'
<1> USE DEF IInv
<1> DEFINE over == {r \in batch : output[r] + 1 >= Output[r]}
<1>1. PICK done \in SUBSET batch : done = over
  OBVIOUS
<1>2. /\ batch \subseteq At(w, {"layers"})
      /\ free' = [free EXCEPT ![w] = @ + Total(blocks, done)]
      /\ finished' = finished \cup done
      /\ \A r \in Req : output'[r] = IF r \in batch THEN output[r] + 1 ELSE output[r]
      /\ \A r \in Req : stage'[r] = IF r \in done THEN "away"
                                   ELSE IF r \in batch THEN "decode" ELSE stage[r]
      /\ \A r \in Req : blocks'[r] = IF r \in done THEN 0 ELSE blocks[r]
      /\ UNCHANGED <<arriving, waiting, head, policy, stats, seqRank, submitted, context>>
  BY <1>1 DEF Sample, controller
<1>3. OncePlaced' /\ ChargesConserved' /\ Affordable'
  BY <1>2 DEF OncePlaced, ChargesConserved, Charged, Affordable
<1>4. \A r \in batch : seqRank[r] = w /\ stage[r] = "layers" /\ r \in Charged(w)
  BY <1>2 DEF At, Charged
<1>5. ChargedWhere'
  <2>1. \A r \in Unsent' : seqRank'[r] = NoRank
    BY <1>2 DEF ChargedWhere, Unsent
  <2>2. \A v \in Rank : \A r \in Range(submitted'[v]) :
          seqRank'[r] = v /\ stage'[r] = "away" /\ r \notin finished'
    <3>1. \A v \in Rank : Range(submitted[v]) \subseteq Req
      BY RangeOfSeq DEF TypeOK
    <3> QED  BY <1>1, <1>2, <1>4, <3>1 DEF ChargedWhere
  <2>3. \A r \in Req : stage'[r] # "away" => seqRank'[r] \in Rank
    BY <1>2, <1>4 DEF ChargedWhere
  <2>4. \A r \in finished' : seqRank'[r] \in Rank /\ stage'[r] = "away"
    <3> SUFFICES ASSUME NEW r \in finished \cup done
                 PROVE  seqRank[r] \in Rank /\ stage'[r] = "away"
      BY <1>2
    <3>1. r \in Req
      BY DEF TypeOK
    <3> QED  BY <1>2, <1>4, <3>1 DEF ChargedWhere
  <2> QED  BY <2>1, <2>2, <2>3, <2>4 DEF ChargedWhere
<1>6. ContextByStage'
  <2> SUFFICES ASSUME NEW r \in Req
               PROVE  /\ stage'[r] \in {"away", "prefill"} => blocks'[r] = 0
                      /\ stage'[r] = "prefill" => output'[r] = 0
                      /\ stage'[r] = "decode" =>
                           context[r] = Prefill[r] + output'[r] /\ output'[r] < Output[r]
                      /\ stage'[r] = "layers" =>
                           context[r] = Prefill[r] + output'[r] + 1 /\ output'[r] < Output[r]
    BY <1>2 DEF ContextByStage
  <2>1. CASE r \in batch
    <3>1. /\ output[r] \in Nat /\ Prefill[r] \in Nat /\ Output[r] \in Nat
          /\ context[r] = Prefill[r] + output[r] + 1
      BY <1>4, <2>1, KVAssumption DEF TypeOK, ContextByStage
    <3>2. r \notin done => output[r] + 1 < Output[r]
      BY <1>1, <2>1, <3>1
    <3> HIDE DEF over
    <3> QED  BY <1>2, <2>1, <3>1, <3>2
  <2>2. CASE r \notin batch
    BY <1>1, <1>2, <2>2 DEF ContextByStage
  <2> QED  BY <2>1, <2>2
<1>7. TablesFitContext'
  <2> SUFFICES ASSUME NEW r \in Req, stage'[r] \in {"decode", "layers"}
               PROVE  blocks'[r] = BlocksFor(context[r])
    BY <1>2 DEF TablesFitContext, BlocksFor
  <2>1. r \notin done
    BY <1>2
  <2> QED  BY <1>2, <1>4, <2>1 DEF TablesFitContext
<1>8. BlocksConserved'
  <2> HIDE DEF over
  <2>1. done \subseteq Charged(w)
    BY <1>4
  <2>2. /\ Total(blocks, Charged(w)) = Total(blocks, Charged(w) \ done) + Total(blocks, done)
        /\ Total(blocks, Charged(w) \ done) \in Nat /\ Total(blocks, done) \in Nat
    <3>1. \A r \in Charged(w) : blocks[r] \in Nat
      BY DEF TypeOK, Charged
    <3> QED  BY <2>1, <3>1, ChargedFinite, TotalPart
  <2>3. /\ Total(blocks', Charged(w)) = Total(blocks', Charged(w) \ done) + Total(blocks', done)
    <3>1. \A r \in Charged(w) : blocks'[r] \in Nat
      BY SampleTyped DEF TypeOK, Charged
    <3> QED  BY <2>1, <3>1, ChargedFinite, TotalPart
  <2>4. Total(blocks', done) = 0
    <3>1. \A r \in done : blocks'[r] = 0
      BY <1>2
    <3> QED  BY <3>1, TotalZero
  <2>5. Total(blocks', Charged(w) \ done) = Total(blocks, Charged(w) \ done)
    <3>1. \A r \in Charged(w) \ done : blocks'[r] = blocks[r]
      BY <1>2 DEF Charged
    <3> QED  BY <3>1, TotalSame
  <2>6. \A v \in Rank : v # w => Total(blocks', Charged(v)) = Total(blocks, Charged(v))
    <3> SUFFICES ASSUME NEW v \in Rank, v # w
                 PROVE  Total(blocks', Charged(v)) = Total(blocks, Charged(v))
      OBVIOUS
    <3>1. \A r \in Charged(v) : blocks'[r] = blocks[r]
      BY <1>2, <1>4 DEF Charged
    <3> QED  BY <3>1, TotalSame
  <2>7. /\ free[w] \in Nat /\ free'[w] = free[w] + Total(blocks, done)
        /\ \A v \in Rank : v # w => free'[v] = free[v]
    BY <1>2 DEF TypeOK
  <2>8. free'[w] + Total(blocks', Charged(w)) = free[w] + Total(blocks, Charged(w))
    <3>1. PICK f, s, d \in Nat : /\ f = free[w] /\ s = Total(blocks, Charged(w) \ done)
                               /\ d = Total(blocks, done)
      BY <2>2, <2>7
    <3>2. (f + d) + (s + 0) = f + (s + d)
      OBVIOUS
    <3> QED  BY <2>2, <2>3, <2>4, <2>5, <2>7, <3>1, <3>2
  <2>9. \A v \in Rank : Charged(v)' = Charged(v)
    BY <1>2 DEF Charged
  <2> SUFFICES ASSUME NEW v \in Rank
               PROVE  free'[v] + Total(blocks', Charged(v)') = NumBlocks[v]
    BY DEF BlocksConserved
  <2>10. free[v] + Total(blocks, Charged(v)) = NumBlocks[v]
    BY DEF BlocksConserved
  <2> QED  BY <2>6, <2>7, <2>8, <2>9, <2>10
<1> QED  BY <1>3, <1>5, <1>6, <1>7, <1>8

LEMMA StepIInv == TypeOK /\ IInv /\ [Next]_vars => IInv'
<1> SUFFICES ASSUME TypeOK, IInv, [Next]_vars PROVE IInv'
  OBVIOUS
<1>1. CASE UNCHANGED vars
  BY <1>1 DEF vars, controller, workers, IInv, OncePlaced, ChargedWhere, Unsent, ContextByStage,
    TablesFitContext, ChargesConserved, BlocksConserved, Charged, Affordable
<1> QED
  BY <1>1, PutRequestKeeps, TakeRequestKeeps, ScheduleKeeps, PollFinishedKeeps, RecvRequestKeeps,
     StartPassKeeps, SampleKeeps DEF Next

(* The invariant holds of every reachable state.                           *)
THEOREM Invariance == Spec => []IInv
<1> QED  BY InitTyped, StepTyped, InitIInv, StepIInv, PTL DEF Spec

-----------------------------------------------------------------------------
(* What follows.                                                           *)

(* add_seq and del_seq never lose a charge and never take one back twice,  *)
(* for any policy and any order of polls, schedules and wake-ups.          *)
THEOREM Charges == Spec => []ChargesConserved
<1>1. IInv => ChargesConserved
  BY DEF IInv
<1> QED  BY <1>1, Invariance, PTL

(* allocate, append_tokens and release never lose or double a block.       *)
THEOREM Blocks == Spec => []BlocksConserved
<1>1. IInv => BlocksConserved
  BY DEF IInv
<1> QED  BY <1>1, Invariance, PTL

(* The table of a running request always has exactly the blocks of its     *)
(* context: prepare_block_table finds the slot of the next token.          *)
THEOREM TablesFit == Spec => []TablesFitContext
<1>1. IInv => TablesFitContext
  BY DEF IInv
<1> QED  BY <1>1, Invariance, PTL

(* No request has more blocks than it was charged.                         *)
LEMMA WithinCharge ==
  ASSUME TypeOK, IInv, NEW r \in Req
  PROVE  blocks[r] <= Charge[r]
<1>1. /\ Prefill[r] \in Nat /\ Output[r] \in Nat /\ output[r] \in Nat
      /\ context[r] \in Nat /\ stage[r] \in Stage
      /\ BlocksFor(Prefill[r] + Output[r]) <= Charge[r]
      /\ Charge[r] \in Nat /\ BlocksFor(Prefill[r] + Output[r]) \in Nat
  <2>1. /\ Prefill[r] \in Nat /\ Output[r] \in Nat /\ output[r] \in Nat
        /\ context[r] \in Nat /\ stage[r] \in Stage
    BY KVAssumption DEF TypeOK
  <2>2. Prefill[r] + Output[r] \in Nat
    BY <2>1
  <2> QED  BY <2>1, <2>2, RequiredType, BlocksForBounds
<1>2. CASE stage[r] \in {"away", "prefill"}
  <2>1. blocks[r] = 0
    BY <1>2 DEF IInv, ContextByStage
  <2> QED  BY <1>1, <2>1
<1>3. CASE stage[r] \in {"decode", "layers"}
  <2>1. blocks[r] = BlocksFor(context[r])
    BY <1>3 DEF IInv, TablesFitContext
  <2>2. context[r] <= Prefill[r] + Output[r]
    BY <1>1, <1>3 DEF IInv, ContextByStage
  <2>3. BlocksFor(context[r]) <= BlocksFor(Prefill[r] + Output[r]) /\ BlocksFor(context[r]) \in Nat
    BY <1>1, <2>2, BlocksForMonotone, BlocksForBounds
  <2> QED  BY <1>1, <2>1, <2>3
<1> QED  BY <1>1, <1>2, <1>3 DEF Stage

(* With a policy that looks at the blocks, what the scheduler counts as    *)
(* free is never negative and really is free at the rank, however late it  *)
(* learns of a release (dpscheduler.py:119, :183, :205).                   *)
THEOREM Covered ==
  ASSUME "RR" \notin Policies
  PROVE  Spec => []NeverOvercommitted
<1>1. ASSUME TypeOK, IInv PROVE NeverOvercommitted
  <2> SUFFICES ASSUME NEW w \in Rank PROVE 0 <= stats[w] /\ stats[w] <= free[w]
    BY DEF NeverOvercommitted
  <2>1. policy # "RR"
    BY <1>1 DEF TypeOK
  <2>2. stats[w] >= 0 /\ stats[w] \in Int /\ free[w] \in Nat
    BY <1>1, <2>1 DEF IInv, Affordable, TypeOK
  <2>3. \A r \in Charged(w) : blocks[r] \in Nat /\ Charge[r] \in Nat /\ blocks[r] <= Charge[r]
    BY <1>1, ChargedFinite, RequiredType, WithinCharge DEF TypeOK
  <2>4. PICK used, held \in Nat :
          used = Total(blocks, Charged(w)) /\ held = Total(Charge, Charged(w)) /\ used <= held
    BY <2>3, ChargedFinite, TotalType, TotalMonotone
  <2>5. stats[w] + held = NumBlocks[w] /\ free[w] + used = NumBlocks[w]
    BY <1>1, <2>4 DEF IInv, ChargesConserved, BlocksConserved
  <2> QED  BY <2>2, <2>4, <2>5
<1> QED  BY <1>1, TypeCorrect, Invariance, PTL

(* Where no request can fill its charge, no ASSERT of the block manager    *)
(* ever fails.  The strict bound is needed: "ASSERT (num_free_blocks() >   *)
(* blocks_to_add)" (block_manager.cpp:114) wants one block more than is    *)
(* taken, and a request that fills its charge may find none (KvExactFit).  *)
THEOREM SlackIsEnough ==
  ASSUME "RR" \notin Policies,
         \A r \in Req : BlocksFor(Prefill[r] + Output[r]) < RequiredBlocks(r)
  PROVE  Spec => []NoAssertFails
<1>1. Init => NoAssertFails
  BY DEF Init, NoAssertFails
<1>2. TypeOK /\ IInv /\ NoAssertFails /\ [Next]_vars => NoAssertFails'
  <2> SUFFICES ASSUME TypeOK, IInv, NoAssertFails, [Next]_vars PROVE NoAssertFails'
    OBVIOUS
  <2>1. ASSUME NEW w \in Rank, NEW batch \in SUBSET Req, StartPass(w, batch)
        PROVE  aborted' = aborted
    <3>1. /\ batch # {} /\ batch \subseteq At(w, {"prefill", "decode"})
      BY <2>1, PassUnfolded
    <3>2. /\ batch \subseteq Charged(w) /\ IsFiniteSet(batch)
          /\ \A r \in batch :
               /\ ContextLen(batch)[r] = Prefill[r] + output[r] /\ output[r] < Output[r]
               /\ blocks[r] + Allocated(batch)[r] + AppendedIn(batch)[r]
                    = BlocksFor(ContextLen(batch)[r] + 1)
      BY <3>1, AtQueue
    <3>3. /\ \A r \in batch : /\ ContextLen(batch)[r] \in Nat
                              /\ Allocated(batch)[r] \in Nat /\ AppendedIn(batch)[r] \in Nat
          /\ Allocs(batch) \in Nat /\ Appends(batch) \in Nat
      BY PassTypes
    <3>4. policy # "RR" /\ stats[w] >= 0 /\ stats[w] \in Int /\ free[w] \in Nat
      BY DEF TypeOK, IInv, Affordable
    <3> DEFINE after == [r \in Charged(w) |-> IF r \in batch
                          THEN BlocksFor(ContextLen(batch)[r] + 1) ELSE blocks[r]]
               mid == [r \in batch |-> blocks[r] + Allocated(batch)[r]]
               rest == Charged(w) \ batch
    <3>5. \A r \in Charged(w) : blocks[r] \in Nat /\ Charge[r] \in Nat /\ blocks[r] <= Charge[r]
      BY ChargedFinite, RequiredType, WithinCharge DEF TypeOK
    <3>6. \A r \in batch : after[r] \in Nat /\ after[r] < Charge[r]
      <4> SUFFICES ASSUME NEW r \in batch PROVE after[r] \in Nat /\ after[r] < Charge[r]
        OBVIOUS
      <4>1. /\ r \in Req /\ Prefill[r] \in Nat /\ Output[r] \in Nat /\ output[r] \in Nat
        BY KVAssumption DEF TypeOK
      <4>2. /\ ContextLen(batch)[r] + 1 \in Nat /\ Prefill[r] + Output[r] \in Nat
            /\ ContextLen(batch)[r] + 1 <= Prefill[r] + Output[r]
        BY <3>2, <4>1
      <4>3. after[r] = BlocksFor(ContextLen(batch)[r] + 1)
        BY <3>2
      <4> HIDE DEF after
      <4>4. /\ after[r] \in Nat /\ after[r] <= BlocksFor(Prefill[r] + Output[r])
            /\ BlocksFor(Prefill[r] + Output[r]) \in Nat
        BY <4>2, <4>3, BlocksForBounds, BlocksForMonotone
      <4>5. BlocksFor(Prefill[r] + Output[r]) < Charge[r] /\ Charge[r] \in Nat
        BY <4>1, RequiredType
      <4> QED  BY <4>4, <4>5
    <3>7. \A r \in rest : after[r] = blocks[r]
      OBVIOUS
    <3>8. Total(after, Charged(w)) < Total(Charge, Charged(w))
      <4>1. PICK x \in batch : TRUE
        BY <3>1
      <4> DEFINE others == Charged(w) \ {x}
      <4>2. \A r \in Charged(w) : after[r] \in Nat /\ after[r] <= Charge[r]
        <5>1. \A r \in Charged(w) : r \in batch \/ r \in rest
          OBVIOUS
        <5> HIDE DEF after, rest
        <5> QED  BY <3>5, <3>6, <3>7, <5>1
      <4> HIDE DEF after
      <4>3. /\ IsFiniteSet(others) /\ x \in Charged(w) /\ {x} \subseteq Charged(w)
        BY <3>2, ChargedFinite, FS_Subset
      <4>4. /\ Total(after, Charged(w)) = Total(after, others) + Total(after, {x})
            /\ Total(after, others) \in Nat
        BY <4>2, <4>3, ChargedFinite, TotalPart
      <4>5. /\ Total(Charge, Charged(w)) = Total(Charge, others) + Total(Charge, {x})
            /\ Total(Charge, others) \in Nat
        BY <3>5, <4>3, ChargedFinite, TotalPart
      <4>6. Total(after, others) <= Total(Charge, others)
        BY <3>5, <4>2, <4>3, TotalMonotone
      <4>7. /\ Total(after, {x}) = after[x] /\ Total(Charge, {x}) = Charge[x]
            /\ after[x] \in Nat /\ Charge[x] \in Nat /\ after[x] < Charge[x]
        BY <3>5, <3>6, <4>3, TotalOne
      <4> QED  BY <4>4, <4>5, <4>6, <4>7
    <3>9. Total(after, Charged(w)) = Total(blocks, Charged(w)) + Allocs(batch) + Appends(batch)
      <4>1. \A r \in batch : /\ mid[r] \in Nat /\ mid[r] = blocks[r] + Allocated(batch)[r]
                            /\ after[r] = mid[r] + AppendedIn(batch)[r]
        <5>1. \A r \in batch : mid[r] = blocks[r] + Allocated(batch)[r]
          OBVIOUS
        <5>2. \A r \in batch : after[r] = (blocks[r] + Allocated(batch)[r]) + AppendedIn(batch)[r]
          BY <3>2
        <5>3. \A m, n \in Nat : m + n \in Nat
          OBVIOUS
        <5>4. \A r \in batch : blocks[r] \in Nat
          BY <3>2, <3>5
        <5> HIDE DEF mid, after
        <5> QED  BY <3>3, <5>1, <5>2, <5>3, <5>4, Zenon
      <4>2. \A r \in batch : blocks[r] \in Nat
        BY <3>2, <3>5
      <4> HIDE DEF mid, after
      <4>3. Total(mid, batch) = Total(blocks, batch) + Allocs(batch)
        BY <3>2, <3>3, <4>1, <4>2, TotalPlus DEF Allocs
      <4>4. Total(after, batch) = Total(mid, batch) + Appends(batch)
        BY <3>2, <3>3, <3>6, <4>1, TotalPlus DEF Appends
      <4>5. Total(after, rest) = Total(blocks, rest)
        BY <3>7, TotalSame
      <4>6. \A r \in Charged(w) : after[r] \in Nat
        <5>1. \A r \in Charged(w) : r \in batch \/ r \in rest
          OBVIOUS
        <5> HIDE DEF rest
        <5> QED  BY <3>5, <3>6, <3>7, <5>1
      <4>7. Total(after, Charged(w)) = Total(after, rest) + Total(after, batch)
        BY <3>2, <4>6, ChargedFinite, TotalPart
      <4>8. /\ Total(blocks, Charged(w)) = Total(blocks, rest) + Total(blocks, batch)
            /\ Total(blocks, rest) \in Nat /\ Total(blocks, batch) \in Nat
        BY <3>2, <3>5, ChargedFinite, TotalPart
      <4>9. PICK s, b, a, p \in Nat : /\ s = Total(blocks, rest) /\ b = Total(blocks, batch)
                                    /\ a = Allocs(batch) /\ p = Appends(batch)
        BY <3>3, <4>8
      <4>10. s + ((b + a) + p) = ((s + b) + a) + p
        OBVIOUS
      <4> HIDE DEF rest
      <4> QED  BY <4>3, <4>4, <4>5, <4>7, <4>8, <4>9, <4>10, Zenon
    <3>10. free[w] - Allocs(batch) - Appends(batch) > 0
      <4> HIDE DEF after, mid, rest
      <4>1. \A r \in Charged(w) : Charge[r] \in Nat /\ blocks[r] \in Nat
        BY <3>5
      <4>2. PICK used, held \in Nat :
              used = Total(blocks, Charged(w)) /\ held = Total(Charge, Charged(w))
        BY <4>1, ChargedFinite, TotalType
      <4>3. stats[w] + held = NumBlocks[w] /\ free[w] + used = NumBlocks[w]
        BY <4>2 DEF IInv, ChargesConserved, BlocksConserved
      <4>4. used + Allocs(batch) + Appends(batch) < held
        BY <3>8, <3>9, <4>2
      <4>5. PICK a, p \in Nat : a = Allocs(batch) /\ p = Appends(batch)
        BY <3>3
      <4>6. used + a + p < held
        BY <4>4, <4>5
      <4>7. free[w] - a - p > 0
        BY <3>4, <4>3, <4>6
      <4> QED  BY <4>5, <4>7
    <3>11. ~(free[w] < Allocs(batch))
           /\ ~(Appends(batch) > 0 /\ free[w] - Allocs(batch) <= Appends(batch))
      BY <3>3, <3>4, <3>10
    <3> QED  BY <2>1, <3>11, PassUnfolded
  <2>2. CASE UNCHANGED vars
    BY <2>2 DEF vars, workers, NoAssertFails
  <2> QED
    BY <2>1, <2>2 DEF Next, NoAssertFails, PutRequest, TakeRequest, Schedule, PollFinished,
      RecvRequest, Sample, workers
<1> QED  BY <1>1, <1>2, TypeCorrect, Invariance, PTL DEF Spec
=============================================================================
