---------------------------- MODULE ControllerProof ----------------------------
(***************************************************************************)
(* The controller is right for every cluster it starts and every session   *)
(* it serves.                                                              *)
(*                                                                         *)
(* Start-up: what each phase leaves to the next.  Every strategy spreads   *)
(* the experts so that a layer and an expert rank name one device, and the *)
(* layers so that a layer and a data-parallel rank do; RoutingIsRight      *)
(* follows for the clusters that come up, and StartsWhenItAddsUp says      *)
(* which must.                                                             *)
(*                                                                         *)
(* Sessions: one inductive invariant, from which ResultsAreExpected,       *)
(* NoResultMissed and SessionsAreClean follow.  It says where each request *)
(* is.  A request that is put is in the scheduler's queue or with its      *)
(* waiting_loop, then charged: it runs, has finished, or is in a task that *)
(* was created to report it; and the order of the tasks not yet started    *)
(* keeps the report of a result behind the task that waits for it.         *)
(***************************************************************************)
EXTENDS ControllerSession, Placement, CollectionFacts

-----------------------------------------------------------------------------
(* Start-up.                                                               *)
(* Arithmetic of groups, stages and shares.                                *)
LEMMA Quotient ==
  ASSUME NEW a \in Nat, NEW b \in Nat \ {0}
  PROVE  /\ a \div b \in Nat /\ a % b \in Nat /\ a % b < b
         /\ b * (a \div b) <= a /\ a < b * (a \div b) + b
         /\ a = b * (a \div b) + (a % b)
<1>1. a \div b \in Nat /\ a % b \in Nat /\ a % b < b
  OBVIOUS
<1>2. b * (a \div b) <= a /\ a < b * (a \div b) + b
  OBVIOUS
<1>3. a = b * (a \div b) + (a % b)
  OBVIOUS
<1> QED  BY <1>1, <1>2, <1>3

LEMMA QuotientUnique ==
  ASSUME NEW a \in Nat, NEW b \in Nat \ {0}, NEW q \in Nat, NEW r \in Nat, r < b, a = b * q + r
  PROVE  a \div b = q /\ a % b = r
<1>1. a \div b = q
  OBVIOUS
<1>2. a % b = a - b * (a \div b)
  OBVIOUS
<1> QED  BY <1>1, <1>2

LEMMA QuotientBelow ==
  ASSUME NEW a \in Nat, NEW b \in Nat \ {0}, NEW k \in Nat, a < k * b
  PROVE  a \div b < k
<1> DEFINE q == a \div b
<1>1. q \in Nat /\ b * q <= a
  BY Quotient
<1> HIDE DEF q
<1>2. SUFFICES ASSUME k <= q PROVE FALSE
  BY <1>1 DEF q
<1>3. k * b <= b * q
  BY <1>1, <1>2
<1> QED  BY <1>1, <1>3

(* The degrees of a command line.                                          *)
LEMMA Degrees ==
  ASSUME cfg \in Setups
  PROVE  /\ cfg.gpus \in Nat \ {0} /\ cfg.tp \in Nat \ {0} /\ cfg.ep \in Nat \ {0}
         /\ cfg.dp \in Nat \ {0} /\ cfg.p \in Nat \ {0} /\ cfg.q \in Nat \ {0}
         /\ cfg.zigzag \in BOOLEAN /\ cfg.entries \in Seq(Nat \X Nat)
         /\ NumLayers \in Nat \ {0} /\ NumExperts \in Nat \ {0} /\ PerRank \in Nat
         /\ Devices \subseteq Nat /\ IsFiniteSet(Devices)
         /\ Layers \subseteq Nat /\ Experts \subseteq Nat
<1>1. /\ cfg.gpus \in Nat \ {0} /\ cfg.tp \in Nat \ {0} /\ cfg.ep \in Nat \ {0}
      /\ cfg.dp \in Nat \ {0} /\ cfg.p \in Nat \ {0} /\ cfg.q \in Nat \ {0}
      /\ cfg.zigzag \in BOOLEAN /\ cfg.entries \in Seq(Nat \X Nat)
      /\ NumLayers \in Nat \ {0} /\ NumExperts \in Nat \ {0}
  BY PlacementAssumption
<1>2. PerRank \in Nat
  BY <1>1, Quotient DEF PerRank
<1>3. Devices \subseteq Nat /\ IsFiniteSet(Devices)
  <2>1. Devices \subseteq Nat /\ 0 \in Int /\ cfg.gpus - 1 \in Int
    BY <1>1 DEF Devices
  <2>2. IsFiniteSet(0 .. cfg.gpus - 1)
    BY <2>1, FS_Interval
  <2> QED  BY <2>1, <2>2 DEF Devices
<1>4. Layers \subseteq Nat /\ Experts \subseteq Nat
  BY <1>1 DEF Layers, Experts
<1> QED  BY <1>1, <1>2, <1>3, <1>4

-----------------------------------------------------------------------------
(* The allocation file: experts are numbered through the devices.          *)
FileRead ==
  IF cfg.entries = NoFile THEN alloc = NoFile ELSE alloc = Allocation /\ FileAddsUp

LEMMA AllocationType ==
  ASSUME cfg \in Setups
  PROVE  Allocation \in [1 .. cfg.gpus -> Nat] /\ Allocation # NoFile
<1>0. cfg.gpus \in Nat \ {0} /\ Devices = 0 .. cfg.gpus - 1 /\ NumExperts \in Nat \ {0}
      /\ cfg.entries \in Seq(Nat \X Nat)
  BY Degrees DEF Devices
<1> USE <1>0
<1>1. ASSUME NEW d \in Nat PROVE Allocated(d) \in Nat
  <2> DEFINE counts == [i \in DOMAIN cfg.entries |-> cfg.entries[i][2]]
             mine == {i \in DOMAIN cfg.entries : cfg.entries[i][1] = d}
  <2>1. IsFiniteSet(mine)
    <3>1. DOMAIN cfg.entries = 1 .. Len(cfg.entries) /\ Len(cfg.entries) \in Nat
      BY LenProperties
    <3>2. IsFiniteSet(DOMAIN cfg.entries)
      <4>1. IsFiniteSet(1 .. Len(cfg.entries))
        BY <3>1, FS_Interval
      <4> QED  BY <3>1, <4>1
    <3> QED  BY <3>2, FS_Subset
  <2>2. \A i \in mine : counts[i] \in Nat
    OBVIOUS
  <2> HIDE DEF mine, counts
  <2>3. Total(counts, mine) \in Nat
    BY <2>1, <2>2, TotalType
  <2> QED  BY <2>3 DEF Allocated, mine, counts
<1>2. Allocation \in [1 .. cfg.gpus -> Nat]
  <2>1. \A i \in 1 .. cfg.gpus : i - 1 \in Nat
    OBVIOUS
  <2> QED  BY <1>1, <2>1 DEF Allocation
<1>3. 1 \in DOMAIN Allocation
  BY DEF Allocation
<1> QED  BY <1>2, <1>3 DEF NoFile

LEMMA ExpertsCounted ==
  ASSUME cfg \in Setups, alloc \in [1 .. cfg.gpus -> Nat]
  PROVE  /\ \A d \in 0 .. cfg.gpus : ExpertsBefore(d) \in Nat
         /\ ExpertsBefore(0) = 0
         /\ \A d \in Devices : ExpertsBefore(d + 1) = ExpertsBefore(d) + alloc[d + 1]
         /\ \A d, o \in 0 .. cfg.gpus : d <= o => ExpertsBefore(d) <= ExpertsBefore(o)
<1>0. cfg.gpus \in Nat \ {0} /\ Devices = 0 .. cfg.gpus - 1 /\ NumExperts \in Nat \ {0}
      /\ cfg.entries \in Seq(Nat \X Nat)
  BY Degrees DEF Devices
<1> USE <1>0
<1>1. ASSUME NEW d \in 0 .. cfg.gpus
      PROVE  IsFiniteSet(1 .. d) /\ \A i \in 1 .. d : alloc[i] \in Nat
  <2>1. IsFiniteSet(1 .. d)
    BY FS_Interval
  <2>2. \A i \in 1 .. d : i \in 1 .. cfg.gpus
    OBVIOUS
  <2> QED  BY <2>1, <2>2
<1>2. \A d \in 0 .. cfg.gpus : ExpertsBefore(d) \in Nat
  BY <1>1, TotalType DEF ExpertsBefore
<1>3. ExpertsBefore(0) = 0
  <2>1. 1 .. 0 = {}
    OBVIOUS
  <2> QED  BY <2>1, TotalEmpty DEF ExpertsBefore
<1>4. ASSUME NEW d \in Devices PROVE ExpertsBefore(d + 1) = ExpertsBefore(d) + alloc[d + 1]
  <2>1. /\ d \in 0 .. cfg.gpus /\ d + 1 \notin 1 .. d
        /\ (1 .. d) \cup {d + 1} = 1 .. d + 1 /\ d + 1 \in 1 .. cfg.gpus
    BY DEF Devices
  <2>2. Total(alloc, (1 .. d) \cup {d + 1}) = Total(alloc, 1 .. d) + alloc[d + 1]
    <3>1. IsFiniteSet(1 .. d) /\ \A y \in (1 .. d) \cup {d + 1} : alloc[y] \in Nat
      BY <1>1, <2>1
    <3>2. d + 1 \notin 1 .. d
      BY <2>1
    <3> QED  BY <3>1, <3>2, TotalAdd
  <2> QED  BY <2>1, <2>2 DEF ExpertsBefore
<1>5. ASSUME NEW d \in 0 .. cfg.gpus, NEW o \in 0 .. cfg.gpus, d <= o
      PROVE  ExpertsBefore(d) <= ExpertsBefore(o)
  <2>1. 1 .. d \subseteq 1 .. o
    BY <1>5
  <2>2. /\ Total(alloc, 1 .. o) = Total(alloc, (1 .. o) \ (1 .. d)) + Total(alloc, 1 .. d)
        /\ Total(alloc, (1 .. o) \ (1 .. d)) \in Nat /\ Total(alloc, 1 .. d) \in Nat
    BY <1>1, <2>1, TotalPart
  <2> QED  BY <2>2 DEF ExpertsBefore
<1> QED  BY <1>2, <1>3, <1>4, <1>5

(* Each expert is on one device, and the first of a device is on it.       *)
LEMMA HostByFile ==
  ASSUME cfg \in Setups, FileRead, ByFile
  PROVE  /\ \A e \in Experts : Host(e) \in Devices
         /\ \A d \in Devices : Allocated(d) > 0 => \E e \in Experts : Host(e) = d
<1>0. cfg.gpus \in Nat \ {0} /\ Devices = 0 .. cfg.gpus - 1 /\ NumExperts \in Nat \ {0}
      /\ cfg.entries \in Seq(Nat \X Nat)
  BY Degrees DEF Devices
<1> USE <1>0
<1>1. alloc = Allocation /\ Total(alloc, 1 .. cfg.gpus) = NumExperts
  BY DEF FileRead, ByFile, FileAddsUp
<1>2. alloc \in [1 .. cfg.gpus -> Nat]
  BY <1>1, AllocationType
<1> DEFINE E == [d \in 0 .. cfg.gpus |-> ExpertsBefore(d)]
<1>3. /\ \A d \in 0 .. cfg.gpus : E[d] \in Nat /\ E[d] = ExpertsBefore(d)
      /\ E[0] = 0 /\ E[cfg.gpus] = NumExperts
      /\ \A d \in Devices : d \in 0 .. cfg.gpus /\ d + 1 \in 0 .. cfg.gpus /\ E[d + 1] = E[d] + alloc[d + 1]
      /\ \A d, o \in 0 .. cfg.gpus : d <= o => E[d] <= E[o]
  <2>1. \A d \in Devices : d \in 0 .. cfg.gpus /\ d + 1 \in 0 .. cfg.gpus
    BY DEF Devices
  <2>2. E[0] = 0 /\ E[cfg.gpus] = NumExperts
    BY <1>1, <1>2, ExpertsCounted DEF ExpertsBefore
  <2> QED  BY <1>2, <2>1, <2>2, ExpertsCounted
<1> HIDE DEF E
<1> DEFINE On(d, e) == E[d] <= e /\ e < E[d + 1]
<1>4. \A e : Host(e) = CHOOSE d \in Devices : On(d, e)
  <2>1. \A e : \A d \in Devices : On(d, e) <=> ExpertsBefore(d) <= e /\ e < ExpertsBefore(d + 1)
    BY <1>3
  <2> HIDE DEF On
  <2> QED  BY <2>1 DEF Host, ByFile
<1>5. ASSUME NEW e \in Experts PROVE \E d \in Devices : On(d, e)
  <2> DEFINE S == {n \in 0 .. cfg.gpus : e < E[n]}
  <2>1. e \in Nat /\ e < NumExperts
    BY DEF Experts
  <2>2. cfg.gpus \in S /\ S \in SUBSET Nat
    BY <1>3, <2>1
  <2>3. PICK n \in S : \A m \in S : n <= m
    BY <2>2, LeastNumber
  <2>31. n \in Nat /\ n <= cfg.gpus /\ e < E[n]
    BY <2>3
  <2>4. n # 0 /\ n - 1 \in Devices /\ n - 1 \in 0 .. cfg.gpus /\ (n - 1) + 1 = n
    BY <1>3, <2>1, <2>31 DEF Devices
  <2>5. n - 1 \notin S
    BY <2>3, <2>4
  <2>6. E[n - 1] <= e /\ e < E[n]
    BY <1>3, <2>1, <2>4, <2>5
  <2> QED  BY <2>4, <2>6
<1>6. ASSUME NEW d \in Devices, Allocated(d) > 0
      PROVE  \E e \in Experts : Host(e) = d
  <2>1. d \in Nat /\ alloc[d + 1] > 0 /\ alloc[d + 1] \in Nat
    <3>1. d + 1 \in 1 .. cfg.gpus /\ (d + 1) - 1 = d
      BY DEF Devices
    <3>2. alloc[d + 1] = Allocated(d)
      BY <1>1, <3>1 DEF Allocation
    <3> QED  BY <1>2, <1>6, <3>1, <3>2
  <2>2. On(d, E[d]) /\ E[d] \in Nat
    BY <1>3, <2>1
  <2>3. E[d + 1] <= NumExperts
    <3>1. d + 1 <= cfg.gpus /\ cfg.gpus \in 0 .. cfg.gpus
      BY DEF Devices
    <3> QED  BY <1>3, <3>1
  <2>4. E[d] \in Experts
    BY <1>3, <2>2, <2>3 DEF Experts
  <2>5. ASSUME NEW o \in Devices, On(o, E[d]) PROVE o = d
    <3>0. d \in 0 .. cfg.gpus /\ d + 1 \in 0 .. cfg.gpus /\ d \in Nat
      BY <1>3
    <3>1. o \in Nat /\ o \in 0 .. cfg.gpus /\ o + 1 \in 0 .. cfg.gpus
      BY <1>3
    <3>2. CASE o < d
      <4>1. E[o + 1] <= E[d]
        BY <1>3, <3>0, <3>1, <3>2
      <4>2. E[o + 1] \in Nat /\ E[d] \in Nat /\ E[d] < E[o + 1]
        BY <1>3, <2>5, <3>0, <3>1
      <4> QED  BY <4>1, <4>2
    <3>3. CASE d < o
      <4>1. E[d + 1] <= E[o]
        BY <1>3, <3>0, <3>1, <3>3
      <4>2. E[o] \in Nat /\ E[d + 1] \in Nat /\ E[d] \in Nat /\ E[o] <= E[d] /\ E[d] < E[d + 1]
        BY <1>3, <2>2, <2>5, <3>0, <3>1
      <4> QED  BY <4>1, <4>2
    <3> QED  BY <3>0, <3>1, <3>2, <3>3
  <2> HIDE DEF On
  <2>6. (CHOOSE o \in Devices : On(o, E[d])) = d
    BY <2>2, <2>5
  <2> QED  BY <1>4, <2>4, <2>6
<1>7. \A e \in Experts : Host(e) \in Devices
  <2> HIDE DEF On
  <2> QED  BY <1>4, <1>5
<1> QED  BY <1>6, <1>7

-----------------------------------------------------------------------------
(* What a layout must give: experts are spread over the devices so that a  *)
(* layer and a rank name one device, and a worker's data-parallel rank is  *)
(* one the controller knows.                                               *)
LaidOut == /\ Solvable
           /\ attn = Layout.attn /\ expert = Layout.expert /\ groups = Layout.groups

Hosted ==
  /\ DOMAIN attn \subseteq Devices /\ DOMAIN expert \subseteq Devices
  /\ \A d \in DOMAIN attn : attn[d] \subseteq Layers
  /\ \A d \in DOMAIN expert : expert[d] \subseteq Layers \X Experts
  /\ \A x \in Layers \X Experts : \E d \in DOMAIN expert : x \in expert[d]
  /\ \A d, o \in DOMAIN expert : \A x \in expert[d], y \in expert[o] :
       x[1] = y[1] /\ ExpertRank(x) = ExpertRank(y) => d = o

Together ==
  /\ DOMAIN attn = Devices /\ DOMAIN expert = Devices
  /\ \A d \in Devices : attn[d] = Layers /\ AttnDpRank(d) = d
  /\ \A d \in Devices : \A x \in expert[d] : ExpertRank(x) = d

RanksKnown == \A d \in DOMAIN attn : AttnDpRank(d) \in 0 .. cfg.dp - 1

LEMMA ColocateHosts ==
  ASSUME cfg \in Setups, FileRead, LaidOut, Hybrid
  PROVE  Hosted /\ Together
<1>1. /\ attn = [d \in Devices |-> Layers]
      /\ expert = [d \in Devices |-> {x \in Layers \X Experts : Host(x[2]) = d}]
      /\ \A e \in Experts : Host(e) \in Devices
  BY DEF LaidOut, Layout, Colocated, Solvable, Hybrid
<1>2. \A d \in Devices : \A x : x \in expert[d] <=> x \in Layers \X Experts /\ Host(x[2]) = d
  BY <1>1
<1>3. \A x \in Layers \X Experts : x[2] \in Experts
  OBVIOUS
<1>4. ASSUME NEW d \in Devices, NEW x \in expert[d] PROVE ExpertRank(x) = d
  <2>1. CASE ByFile
    <3>1. d \in DOMAIN expert /\ \A o \in DOMAIN expert : x \in expert[o] => o = d
      BY <1>1, <1>2, <1>4
    <3>2. (CHOOSE o \in DOMAIN expert : x \in expert[o]) = d
      BY <1>4, <3>1
    <3> QED  BY <2>1, <3>2 DEF ExpertRank
  <2>2. CASE ~ByFile
    BY <1>2, <1>4, <2>2 DEF ExpertRank, Host
  <2> QED  BY <2>1, <2>2
<1>5. \A d \in Devices : AttnDpRank(d) = d
  BY <1>1 DEF AttnDpRank, Hybrid
<1>6. Together
  BY <1>1, <1>4, <1>5 DEF Together
<1>7. Hosted
  BY <1>1, <1>2, <1>3, <1>4 DEF Hosted
<1> QED  BY <1>6, <1>7

(* The place of a device: its group and its place in it.                   *)
LEMMA GroupPlaces ==
  ASSUME cfg \in Setups, cfg.gpus % GroupSize = 0
  PROVE  /\ GroupSize \in Nat \ {0} /\ cfg.tp < GroupSize /\ cfg.gpus \div GroupSize \in Nat \ {0}
         /\ \A d \in Devices : /\ d \div GroupSize \in 0 .. (cfg.gpus \div GroupSize) - 1
                               /\ d % GroupSize \in 0 .. GroupSize - 1
                               /\ d = GroupSize * (d \div GroupSize) + (d % GroupSize)
         /\ \A i \in 0 .. (cfg.gpus \div GroupSize) - 1, k \in 0 .. GroupSize - 1 :
              /\ GroupSize * i + k \in Devices
              /\ (GroupSize * i + k) \div GroupSize = i /\ (GroupSize * i + k) % GroupSize = k
<1> DEFINE g == GroupSize
           n == cfg.gpus \div g
<1>1. g \in Nat \ {0} /\ cfg.tp < g /\ cfg.gpus \in Nat \ {0}
  BY Degrees DEF GroupSize
<1>2. n \in Nat /\ cfg.gpus = g * n
  <2>1. n \in Nat /\ cfg.gpus = g * n + (cfg.gpus % g)
    BY <1>1, Quotient
  <2>2. g * n \in Nat
    BY <1>1, <2>1
  <2> QED  BY <2>1, <2>2
<1> HIDE DEF g, n
<1>3. n # 0
  BY <1>1, <1>2
<1>4. ASSUME NEW d \in Devices
      PROVE  d \div g \in 0 .. n - 1 /\ d % g \in 0 .. g - 1 /\ d = g * (d \div g) + (d % g)
  <2>1. d \in Nat /\ d < n * g
    BY <1>1, <1>2 DEF Devices
  <2>2. d \div g \in Nat /\ d % g \in Nat /\ d % g < g /\ d = g * (d \div g) + (d % g)
    BY <1>1, <2>1, Quotient
  <2>3. d \div g < n
    BY <1>1, <1>2, <2>1, QuotientBelow
  <2> QED  BY <1>1, <1>2, <2>2, <2>3
<1>5. ASSUME NEW i \in 0 .. n - 1, NEW k \in 0 .. g - 1
      PROVE  g * i + k \in Devices /\ (g * i + k) \div g = i /\ (g * i + k) % g = k
  <2>1. i \in Nat /\ k \in Nat /\ k < g /\ i + 1 <= n
    BY <1>1, <1>2
  <2>2. g * i \in Nat /\ g * (i + 1) <= g * n /\ g * (i + 1) = g * i + g
    BY <1>1, <1>2, <2>1
  <2>3. g * i + k \in Nat /\ g * i + k < cfg.gpus
    BY <1>1, <1>2, <2>1, <2>2
  <2>4. (g * i + k) \div g = i /\ (g * i + k) % g = k
    BY <1>1, <2>1, <2>3, QuotientUnique
  <2> QED  BY <1>1, <2>3, <2>4 DEF Devices
<1> QED  BY <1>1, <1>2, <1>3, <1>4, <1>5 DEF g, n

LEMMA SharesFit ==
  ASSUME cfg \in Setups, NumExperts <= cfg.ep * PerRank
  PROVE  PerRank \in Nat \ {0} /\ \A e \in Experts : e \div PerRank \in 0 .. cfg.ep - 1
<1>1. NumExperts \in Nat \ {0} /\ PerRank \in Nat /\ cfg.ep \in Nat
  BY Degrees
<1>2. PerRank # 0
  BY <1>1
<1>3. ASSUME NEW e \in Experts PROVE e \div PerRank \in 0 .. cfg.ep - 1
  <2>1. e \in Nat /\ e < cfg.ep * PerRank
    BY <1>1 DEF Experts
  <2>2. e \div PerRank \in Nat /\ e \div PerRank < cfg.ep
    BY <1>1, <1>2, <2>1, Quotient, QuotientBelow
  <2> QED  BY <1>1, <2>2
<1> QED  BY <1>1, <1>2, <1>3

InterleaveAt(d) ==
  {l \in Layers : l % (cfg.gpus \div GroupSize) = d \div GroupSize}

LEMMA InterleaveLaid ==
  ASSUME LaidOut, cfg.strategy = "interleave"
  PROVE  /\ cfg.gpus % GroupSize = 0 /\ NumExperts <= cfg.ep * PerRank /\ ~Hybrid /\ ~ByFile
         /\ DOMAIN attn = {d \in Devices : d % GroupSize < cfg.tp}
         /\ \A d \in DOMAIN attn : attn[d] = InterleaveAt(d)
         /\ DOMAIN expert = Devices \ DOMAIN attn
         /\ \A d \in DOMAIN expert : \A x :
              x \in expert[d] <=> /\ x \in InterleaveAt(d) \X Experts
                                  /\ x[2] \div PerRank = (d % GroupSize) - cfg.tp
         /\ \A x : ExpertRank(x) = x[2] \div PerRank
         /\ \A d : AttnDpRank(d) = 0
BY DEF LaidOut, Layout, Interleaved, InterleaveAt, Solvable, Hybrid, ByFile, ExpertRank, AttnDpRank

LEMMA InterleaveHosts ==
  ASSUME cfg \in Setups, LaidOut, cfg.strategy = "interleave"
  PROVE  Hosted /\ RanksKnown
<1> DEFINE n == cfg.gpus \div GroupSize
<1>1. /\ GroupSize \in Nat \ {0} /\ cfg.tp < GroupSize /\ n \in Nat \ {0}
      /\ \A d \in Devices : /\ d \div GroupSize \in 0 .. n - 1
                            /\ d % GroupSize \in 0 .. GroupSize - 1
                            /\ d = GroupSize * (d \div GroupSize) + (d % GroupSize)
      /\ \A i \in 0 .. n - 1, k \in 0 .. GroupSize - 1 :
           /\ GroupSize * i + k \in Devices
           /\ (GroupSize * i + k) \div GroupSize = i /\ (GroupSize * i + k) % GroupSize = k
  BY InterleaveLaid, GroupPlaces
<1>2. PerRank \in Nat \ {0} /\ \A e \in Experts : e \div PerRank \in 0 .. cfg.ep - 1
  BY InterleaveLaid, SharesFit
<1>3. cfg.tp \in Nat \ {0} /\ cfg.ep \in Nat \ {0} /\ cfg.dp \in Nat \ {0} /\ Layers \subseteq Nat
  BY Degrees
<1> HIDE DEF n
<1>4. ASSUME NEW x \in Layers \X Experts PROVE \E d \in DOMAIN expert : x \in expert[d]
  <2> DEFINE i == x[1] % n
             k == cfg.tp + (x[2] \div PerRank)
             d == GroupSize * i + k
  <2>1. x[1] \in Nat /\ x[1] \in Layers /\ x[2] \in Experts
    BY <1>3
  <2>2. i \in 0 .. n - 1
    <3>1. i \in Nat /\ i < n
      BY <1>1, <2>1, Quotient
    <3> QED  BY <1>1, <3>1
  <2>3. k \in 0 .. GroupSize - 1 /\ cfg.tp <= k /\ k - cfg.tp = x[2] \div PerRank
    <3>1. x[2] \div PerRank \in 0 .. cfg.ep - 1 /\ GroupSize = cfg.ep + cfg.tp
      BY <1>2, <2>1 DEF GroupSize
    <3> QED  BY <1>3, <3>1
  <2> HIDE DEF k
  <2>4. d \in Devices /\ d \div GroupSize = i /\ d % GroupSize = k
    BY <1>1, <2>2, <2>3
  <2> HIDE DEF d
  <2>5. d \in DOMAIN expert
    <3>1. ~(k < cfg.tp)
      BY <1>3, <2>3
    <3> QED  BY <2>4, <3>1, InterleaveLaid
  <2>6. x[1] \in InterleaveAt(d)
    BY <2>1, <2>4 DEF InterleaveAt, n
  <2>7. x \in expert[d]
    BY <2>1, <2>3, <2>4, <2>5, <2>6, InterleaveLaid
  <2> QED  BY <2>5, <2>7
<1>5. ASSUME NEW d \in DOMAIN expert, NEW o \in DOMAIN expert,
             NEW x \in expert[d], NEW y \in expert[o],
             x[1] = y[1], ExpertRank(x) = ExpertRank(y)
      PROVE  d = o
  <2>1. d \in Devices /\ o \in Devices
    BY InterleaveLaid
  <2>2. /\ x[1] % n = d \div GroupSize /\ y[1] % n = o \div GroupSize
        /\ x[2] \div PerRank = (d % GroupSize) - cfg.tp
        /\ y[2] \div PerRank = (o % GroupSize) - cfg.tp
    BY InterleaveLaid DEF InterleaveAt, n
  <2>3. d \div GroupSize = o \div GroupSize
    BY <1>5, <2>2
  <2>4. (d % GroupSize) - cfg.tp = (o % GroupSize) - cfg.tp
    BY <1>5, <2>2, InterleaveLaid
  <2>5. d % GroupSize = o % GroupSize
    <3>1. \A a, b, c \in Int : a - c = b - c => a = b
      OBVIOUS
    <3>2. d % GroupSize \in Int /\ o % GroupSize \in Int /\ cfg.tp \in Int
      <4>1. \A i \in Devices : i % GroupSize \in Nat
        <5>1. Devices \subseteq Nat
          BY Degrees
        <5> QED  BY <1>1, <5>1, Quotient
      <4> QED  BY <1>3, <2>1, <4>1
    <3> QED  BY <2>4, <3>1, <3>2, Zenon
  <2> QED  BY <1>1, <2>1, <2>3, <2>5
<1>6. RanksKnown
  <2>1. 0 \in 0 .. cfg.dp - 1
    BY <1>3
  <2> QED  BY <2>1, InterleaveLaid DEF RanksKnown
<1>7. Hosted
  <2>1. DOMAIN attn \subseteq Devices /\ DOMAIN expert \subseteq Devices
    BY InterleaveLaid
  <2>2. \A d : InterleaveAt(d) \subseteq Layers
    BY DEF InterleaveAt
  <2>3. \A d \in DOMAIN attn : attn[d] \subseteq Layers
    BY <2>2, InterleaveLaid
  <2>4. \A d \in DOMAIN expert : expert[d] \subseteq Layers \X Experts
    BY <2>2, InterleaveLaid
  <2> QED  BY <1>4, <1>5, <2>1, <2>3, <2>4 DEF Hosted
<1> QED  BY <1>6, <1>7

LEMMA PipelineLaid ==
  ASSUME LaidOut, cfg.strategy = "pipeline"
  PROVE  /\ cfg.gpus >= NumUsed /\ PerRank > 0 /\ ~Hybrid /\ ~ByFile
         /\ \A x \in Layers \X Experts : ExpertWorker(x) < NumUsed
         /\ DOMAIN attn = 0 .. NumAttn - 1
         /\ \A d \in DOMAIN attn : \A l :
              l \in attn[d] <=> /\ l \in Layers /\ d % cfg.tp = 0
                                /\ AttnStage(l) = d \div (cfg.dp * cfg.tp)
         /\ DOMAIN expert = NumAttn .. NumUsed - 1
         /\ \A d \in DOMAIN expert : \A x :
              x \in expert[d] <=> x \in Layers \X Experts /\ ExpertWorker(x) = d
         /\ groups = [i \in 0 .. cfg.p * cfg.dp - 1 |-> [k \in 1 .. cfg.tp |-> i * cfg.tp + k - 1]]
         /\ \A x : ExpertRank(x) = x[2] \div PerRank
         /\ \A d \in DOMAIN attn : AttnDpRank(d) = (d \div cfg.tp) % cfg.dp
BY DEF LaidOut, Layout, Pipelined, Solvable, Hybrid, ByFile, ExpertRank, AttnDpRank

LEMMA StageSizes ==
  ASSUME cfg \in Setups
  PROVE  /\ NumAttn \in Nat /\ NumUsed \in Nat /\ NumUsed = NumAttn + cfg.q * cfg.ep
         /\ cfg.q * cfg.ep \in Nat /\ NumAttn <= NumUsed
<1>1. cfg.p * cfg.tp \in Nat /\ cfg.dp \in Nat /\ cfg.q * cfg.ep \in Nat
  <2>1. \A a, b \in Nat : a * b \in Nat
    OBVIOUS
  <2>2. cfg.p \in Nat /\ cfg.tp \in Nat /\ cfg.dp \in Nat /\ cfg.q \in Nat /\ cfg.ep \in Nat
    BY Degrees
  <2> QED  BY <2>1, <2>2, Zenon
<1>2. (cfg.p * cfg.tp) * cfg.dp \in Nat
  BY <1>1
<1> QED  BY <1>1, <1>2 DEF NumAttn, NumUsed

LEMMA ExpertWorkerType ==
  ASSUME cfg \in Setups, PerRank > 0, NEW x \in Layers \X Experts
  PROVE  /\ x[1] \in Nat /\ x[2] \in Nat
         /\ x[1] % cfg.q \in 0 .. cfg.q - 1 /\ x[2] \div PerRank \in Nat
         /\ (x[1] % cfg.q) * cfg.ep \in Nat
         /\ ExpertWorker(x) \in Nat /\ NumAttn <= ExpertWorker(x)
<1>1. /\ x[1] \in Nat /\ x[2] \in Nat /\ cfg.q \in Nat \ {0} /\ cfg.ep \in Nat
      /\ PerRank \in Nat \ {0}
  BY Degrees
<1>2. x[1] % cfg.q \in Nat /\ x[1] % cfg.q < cfg.q /\ x[2] \div PerRank \in Nat
  BY <1>1, Quotient
<1>3. (x[1] % cfg.q) * cfg.ep \in Nat
  BY <1>1, <1>2
<1>4. ExpertWorker(x) \in Nat /\ NumAttn <= ExpertWorker(x)
  BY <1>2, <1>3, StageSizes DEF ExpertWorker
<1> QED  BY <1>1, <1>2, <1>3, <1>4

LEMMA PipelineHosts ==
  ASSUME cfg \in Setups, LaidOut, cfg.strategy = "pipeline"
  PROVE  Hosted /\ RanksKnown
<1>1. /\ NumAttn \in Nat /\ NumUsed \in Nat /\ NumAttn <= NumUsed /\ NumUsed <= cfg.gpus
      /\ cfg.gpus \in Nat /\ cfg.tp \in Nat \ {0} /\ cfg.dp \in Nat \ {0}
  <2>1. cfg.gpus \in Nat /\ cfg.tp \in Nat \ {0} /\ cfg.dp \in Nat \ {0}
    BY Degrees
  <2>2. NumAttn \in Nat /\ NumUsed \in Nat /\ NumAttn <= NumUsed
    BY StageSizes
  <2>3. NumUsed <= cfg.gpus
    BY <2>1, <2>2, PipelineLaid
  <2> QED  BY <2>1, <2>2, <2>3
<1>2. DOMAIN attn \subseteq Devices /\ DOMAIN expert \subseteq Devices
  BY <1>1, PipelineLaid DEF Devices
<1>3. \A d \in DOMAIN attn : attn[d] \subseteq Layers
  BY PipelineLaid
<1>4. \A d \in DOMAIN expert : expert[d] \subseteq Layers \X Experts
  BY PipelineLaid
<1>5. ASSUME NEW x \in Layers \X Experts PROVE \E d \in DOMAIN expert : x \in expert[d]
  <2>1. ExpertWorker(x) \in Nat /\ NumAttn <= ExpertWorker(x) /\ ExpertWorker(x) < NumUsed
    BY PipelineLaid, ExpertWorkerType
  <2>2. ExpertWorker(x) \in DOMAIN expert
    BY <1>1, <2>1, PipelineLaid
  <2> QED  BY <2>2, PipelineLaid
<1>6. ASSUME NEW d \in DOMAIN expert, NEW o \in DOMAIN expert,
             NEW x \in expert[d], NEW y \in expert[o],
             x[1] = y[1], ExpertRank(x) = ExpertRank(y)
      PROVE  d = o
  <2>1. ExpertWorker(x) = d /\ ExpertWorker(y) = o /\ x[2] \div PerRank = y[2] \div PerRank
    BY <1>6, PipelineLaid
  <2> QED  BY <1>6, <2>1 DEF ExpertWorker
<1>7. ASSUME NEW d \in DOMAIN attn PROVE AttnDpRank(d) \in 0 .. cfg.dp - 1
  <2>1. d \in Nat
    BY <1>1, PipelineLaid
  <2>2. d \div cfg.tp \in Nat
    BY <1>1, <2>1, Quotient
  <2>3. (d \div cfg.tp) % cfg.dp \in Nat /\ (d \div cfg.tp) % cfg.dp < cfg.dp
    BY <1>1, <2>2, Quotient
  <2> QED  BY <1>1, <2>3, PipelineLaid
<1> QED  BY <1>2, <1>3, <1>4, <1>5, <1>6, <1>7 DEF Hosted, RanksKnown

LEMMA LayoutHosts ==
  ASSUME cfg \in Setups, FileRead, LaidOut
  PROVE  Hosted /\ IF Hybrid THEN Together ELSE RanksKnown
BY ColocateHosts, InterleaveHosts, PipelineHosts DEF LaidOut, Solvable, Hybrid

-----------------------------------------------------------------------------
(* The tables of the workers that are up.                                  *)
RanksFound ==
  /\ \A d \in Devices : HasRank(d) /\ (HasAttn(d) => RankAt(d) < cfg.dp)
  /\ tokenizer = [d \in DOMAIN attn |-> RankAt(d)]

AllStarted == \A d \in Devices : CoreStarts(d)

LEMMA Edges ==
  ASSUME Hosted
  PROVE  /\ \A d : Out(d) \subseteq DOMAIN attn \cup DOMAIN expert
         /\ \A d \in DOMAIN attn : \A l \in attn[d] : ExpertAt(l) \subseteq Out(d)
         /\ \A d \in DOMAIN expert : \A x \in expert[d] :
              AttnAt(NextLayer(x[1])) \subseteq Out(d)
         /\ \A x \in Layers \X Experts : \A o \in DOMAIN expert :
              x \in expert[o] => o \in ExpertAt(x[1])
<1>1. \A l : AttnAt(l) \subseteq DOMAIN attn /\ ExpertAt(l) \subseteq DOMAIN expert
  BY DEF AttnAt, ExpertAt
<1>2. \A x \in Layers \X Experts : x[1] \in Layers /\ x[2] \in Experts /\ x = <<x[1], x[2]>>
  OBVIOUS
<1>3. \A x \in Layers \X Experts : \A o \in DOMAIN expert : x \in expert[o] => o \in ExpertAt(x[1])
  BY <1>2 DEF ExpertAt
<1>4. ASSUME NEW d \in DOMAIN attn, NEW l \in attn[d] PROVE ExpertAt(l) \subseteq Out(d)
  <2>1. l \in Layers /\ d \in AttnAt(l)
    BY DEF Hosted, AttnAt
  <2> QED  BY <2>1 DEF Out
<1>5. ASSUME NEW d \in DOMAIN expert, NEW x \in expert[d]
      PROVE  AttnAt(NextLayer(x[1])) \subseteq Out(d)
  <2>1. x \in Layers \X Experts
    BY DEF Hosted
  <2>2. x[1] \in Layers /\ d \in ExpertAt(x[1])
    BY <1>2, <1>3, <2>1
  <2> QED  BY <2>2 DEF Out
<1>6. \A d : Out(d) \subseteq DOMAIN attn \cup DOMAIN expert
  BY <1>1 DEF Out
<1> QED  BY <1>3, <1>4, <1>5, <1>6

LEMMA AtMostOne ==
  ASSUME NEW S, IsFiniteSet(S), Cardinality(S) <= 1, NEW a \in S
  PROVE  S = {a}
<1>1. {a} \in SUBSET S /\ IsFiniteSet({a}) /\ Cardinality({a}) = 1
  BY FS_Singleton
<1>2. Cardinality({a}) <= Cardinality(S) /\ Cardinality(S) \in Nat
  BY <1>1, FS_Subset, FS_CardinalityType
<1>3. Cardinality(S) = Cardinality({a})
  BY <1>1, <1>2
<1> QED  BY <1>1, <1>3, FS_Subset

LEMMA ChannelsRight ==
  ASSUME cfg \in Setups, FileRead, LaidOut, AllStarted
  PROVE  ChannelsLeadThere
<1>1. Hosted /\ IF Hybrid THEN Together ELSE RanksKnown
  BY LayoutHosts
<1>2. ASSUME NEW d \in DOMAIN attn, NEW l \in attn[d], NEW e \in Experts
      PROVE  /\ ToExpert(d, <<l, e>>) # {}
             /\ \A o \in ToExpert(d, <<l, e>>) : <<l, e>> \in expert[o]
  <2> DEFINE x == <<l, e>>
  <2>1. x \in Layers \X Experts /\ x[1] = l
    BY <1>1 DEF Hosted
  <2>2. PICK h \in DOMAIN expert : x \in expert[h]
    BY <1>1, <2>1 DEF Hosted
  <2>3. h \in Out(d)
    <3>1. h \in ExpertAt(l)
      BY <1>1, <2>1, <2>2, Edges
    <3> QED  BY <1>1, <3>1, Edges
  <2> HIDE DEF x
  <2>4. CASE Hybrid
    <3>1. ExpertRank(x) = h /\ \A o \in Out(d) : AttnDpRank(o) = o
      <4>1. \A o \in Out(d) : o \in Devices
        BY <1>1, Edges DEF Hosted
      <4> QED  BY <1>1, <2>2, <2>4, <4>1 DEF Together
    <3>2. ToExpert(d, x) = {h}
      BY <2>3, <2>4, <3>1 DEF ToExpert, WithRank
    <3> QED  BY <2>2, <3>2 DEF x
  <2>5. CASE ~Hybrid
    <3>1. h \in ToExpert(d, x)
      BY <2>2, <2>3, <2>5 DEF ToExpert
    <3>2. ASSUME NEW o \in ToExpert(d, x) PROVE x \in expert[o]
      <4>1. PICK y \in expert[o] : y[1] = x[1] /\ ExpertRank(y) = ExpertRank(x)
        BY <2>5 DEF ToExpert
      <4>2. o \in DOMAIN expert
        BY <2>5 DEF ToExpert
      <4>3. o = h
        BY <1>1, <2>2, <4>1, <4>2 DEF Hosted
      <4> QED  BY <2>2, <4>3
    <3> QED  BY <3>1, <3>2 DEF x
  <2> QED  BY <2>4, <2>5 DEF x
<1>3. ASSUME NEW d \in DOMAIN expert, NEW x \in expert[d], NEW a \in AttnAt(NextLayer(x[1]))
      PROVE  ToAttn(d, NextLayer(x[1]), AttnDpRank(a)) = {a}
  <2> DEFINE l == NextLayer(x[1])
             T == ToAttn(d, l, AttnDpRank(a))
  <2>1. a \in Out(d) /\ a \in DOMAIN attn /\ a \in AttnAt(l) /\ d \in Devices
    BY <1>1, Edges DEF AttnAt, Hosted
  <2>2. a \in T
    BY <2>1 DEF ToAttn, WithRank
  <2>3. CASE Hybrid
    <3>1. \A o \in Out(d) \cup {a} : AttnDpRank(o) = o
      <4>1. \A o \in Out(d) : o \in Devices
        BY <1>1, Edges DEF Hosted
      <4> QED  BY <1>1, <2>1, <2>3, <4>1 DEF Together
    <3> QED  BY <2>1, <2>3, <3>1 DEF ToAttn, WithRank
  <2>4. CASE ~Hybrid
    <3>1. l \in Layers
      <4>1. x[1] \in Nat /\ NumLayers \in Nat \ {0}
        <5>1. x \in Layers \X Experts
          BY <1>1 DEF Hosted
        <5> QED  BY <5>1, Degrees
      <4>2. x[1] + 1 \in Nat
        BY <4>1
      <4>3. (x[1] + 1) % NumLayers \in Nat /\ (x[1] + 1) % NumLayers < NumLayers
        BY <4>1, <4>2, Quotient
      <4> QED  BY <4>1, <4>3 DEF NextLayer, Layers
    <3>2. AttnDpRank(a) \in 0 .. cfg.dp - 1
      BY <1>1, <2>1, <2>4 DEF RanksKnown
    <3>3. Cardinality(T) <= 1
      BY <2>1, <2>4, <3>1, <3>2 DEF AllStarted, CoreStarts
    <3>4. IsFiniteSet(T)
      <4>1. T \subseteq Devices
        BY <1>1, Edges DEF ToAttn, WithRank, Hosted
      <4> QED  BY <4>1, Degrees, FS_Subset
    <3> HIDE DEF T
    <3> QED  BY <2>2, <3>3, <3>4, AtMostOne DEF T
  <2> QED  BY <2>3, <2>4
<1> QED  BY <1>2, <1>3 DEF ChannelsLeadThere

LEMMA TokenizersRight ==
  ASSUME cfg \in Setups, FileRead, LaidOut, RanksFound
  PROVE  TokenizersMatch
<1> SUFFICES ASSUME Hybrid, NEW d \in DOMAIN attn
             PROVE  tokenizer[d] = AttnDpRank(d)
  BY DEF TokenizersMatch
<1>1. Together
  BY LayoutHosts
<1>2. d \in Devices /\ d \in DOMAIN expert /\ AttnDpRank(d) = d /\ tokenizer[d] = RankAt(d)
  BY <1>1 DEF Together, RanksFound
<1>3. RanksOf(d) \subseteq {d}
  BY <1>1, <1>2 DEF RanksOf, Together
<1>4. Cardinality(RanksOf(d)) = 1
  BY <1>2 DEF RanksFound, HasRank
<1>5. RanksOf(d) # {}
  BY <1>4, FS_EmptySet
<1>6. RankAt(d) = d
  BY <1>2, <1>3, <1>5 DEF RankAt
<1> QED  BY <1>2, <1>6

-----------------------------------------------------------------------------
(* A set-up that adds up passes every check of the start-up.               *)
LEMMA EvenShares ==
  ASSUME cfg \in Setups, NumExperts % cfg.ep = 0
  PROVE  PerRank \in Nat \ {0} /\ NumExperts = cfg.ep * PerRank
<1>1. NumExperts \in Nat \ {0} /\ cfg.ep \in Nat \ {0}
  BY Degrees
<1>2. PerRank \in Nat /\ NumExperts = cfg.ep * PerRank + (NumExperts % cfg.ep)
  BY <1>1, Quotient DEF PerRank
<1>3. NumExperts = cfg.ep * PerRank
  <2>1. \A a, b \in Nat : a * b \in Nat /\ a * b + 0 = a * b
    OBVIOUS
  <2>2. cfg.ep * PerRank + 0 = cfg.ep * PerRank
    BY <1>1, <1>2, <2>1
  <2> QED  BY <1>2, <2>2
<1>4. PerRank # 0
  <2>1. cfg.ep * 0 = 0
    BY <1>1
  <2> QED  BY <1>1, <1>3, <2>1
<1> QED  BY <1>2, <1>3, <1>4

LEMMA StagesFit ==
  ASSUME cfg \in Setups, cfg.zigzag \/ NumLayers % cfg.p = 0
  PROVE  /\ cfg.zigzag \/ cfg.p <= NumLayers
         /\ \A l \in Layers : AttnStage(l) < cfg.p
<1>1. NumLayers \in Nat \ {0} /\ cfg.p \in Nat \ {0} /\ \A l \in Layers : l \in Nat /\ l < NumLayers
  BY Degrees DEF Layers
<1>2. CASE cfg.zigzag
  <2>1. \A l \in Layers : l % cfg.p < cfg.p
    BY <1>1, Quotient
  <2> QED  BY <1>2, <2>1 DEF AttnStage
<1>3. CASE ~cfg.zigzag
  <2> DEFINE m == NumLayers \div cfg.p
  <2>1. m \in Nat /\ NumLayers = cfg.p * m + (NumLayers % cfg.p) /\ NumLayers % cfg.p = 0
    BY <1>1, <1>3, Quotient
  <2> HIDE DEF m
  <2>2. NumLayers = cfg.p * m /\ m # 0
    <3>1. cfg.p * m \in Nat
      BY <1>1, <2>1
    <3>2. NumLayers = cfg.p * m
      BY <2>1, <3>1
    <3>3. cfg.p * 0 = 0
      BY <1>1
    <3> QED  BY <1>1, <3>2, <3>3
  <2>3. cfg.p <= NumLayers
    <3>1. \A a, b \in Nat \ {0} : a <= a * b
      OBVIOUS
    <3>2. m \in Nat \ {0} /\ cfg.p \in Nat \ {0}
      BY <1>1, <2>1, <2>2
    <3>3. cfg.p <= cfg.p * m
      BY <3>1, <3>2, Zenon
    <3> QED  BY <2>2, <3>3
  <2>4. \A l \in Layers : l \div m < cfg.p
    BY <1>1, <2>1, <2>2, QuotientBelow
  <2> QED  BY <1>3, <2>3, <2>4 DEF AttnStage, m
<1> QED  BY <1>2, <1>3

LEMMA WorkersFit ==
  ASSUME cfg \in Setups, NumExperts % cfg.ep = 0, NEW x \in Layers \X Experts
  PROVE  ExpertWorker(x) < NumUsed
<1> DEFINE s == x[1] % cfg.q
           k == x[2] \div PerRank
<1>1. PerRank \in Nat \ {0} /\ NumExperts = cfg.ep * PerRank
  BY EvenShares
<1>2. k \in 0 .. cfg.ep - 1
  <2>1. x[2] \in Experts /\ NumExperts <= cfg.ep * PerRank
    BY <1>1, Degrees
  <2> QED  BY <2>1, SharesFit
<1>3. s \in Nat /\ s + 1 <= cfg.q /\ cfg.q \in Nat /\ cfg.ep \in Nat
  <2>1. s \in 0 .. cfg.q - 1 /\ cfg.q \in Nat \ {0} /\ cfg.ep \in Nat
    BY <1>1, ExpertWorkerType, Degrees
  <2> QED  BY <2>1
<1> HIDE DEF s, k
<1>4. s * cfg.ep + cfg.ep <= cfg.q * cfg.ep /\ s * cfg.ep \in Nat
  <2>1. (s + 1) * cfg.ep <= cfg.q * cfg.ep
    BY <1>3
  <2>2. (s + 1) * cfg.ep = s * cfg.ep + cfg.ep /\ s * cfg.ep \in Nat
    BY <1>3
  <2> QED  BY <2>1, <2>2
<1>5. ExpertWorker(x) = NumAttn + s * cfg.ep + k
  BY DEF ExpertWorker, s, k
<1> DEFINE a == s * cfg.ep
           b == cfg.q * cfg.ep
<1>6. a \in Nat /\ b \in Nat /\ a + cfg.ep <= b /\ NumAttn \in Nat /\ NumUsed = NumAttn + b
      /\ ExpertWorker(x) = NumAttn + a + k
  BY <1>4, <1>5, StageSizes
<1> HIDE DEF a, b
<1> QED  BY <1>2, <1>3, <1>6

LEMMA AddsUpSolves ==
  ASSUME cfg \in Setups, FileRead, AddsUp
  PROVE  Solvable
<1>1. CASE cfg.strategy = "colocate" /\ cfg.entries = NoFile
  <2>1. ~ByFile /\ cfg.ep = cfg.gpus /\ NumExperts % cfg.ep = 0
    BY <1>1 DEF AddsUp, FileRead, ByFile
  <2>2. PerRank \in Nat \ {0} /\ NumExperts = cfg.ep * PerRank
    BY <2>1, EvenShares
  <2>3. \A e \in Experts : e \div PerRank \in Devices
    BY <2>1, <2>2, SharesFit, Degrees DEF Devices
  <2> QED  BY <1>1, <2>1, <2>2, <2>3 DEF Solvable, Host
<1>2. CASE cfg.strategy = "colocate" /\ cfg.entries # NoFile
  <2>1. ByFile
    BY <1>2, AllocationType DEF FileRead, ByFile, Hybrid
  <2> QED  BY <1>2, <2>1, HostByFile DEF Solvable
<1>3. CASE cfg.strategy = "interleave"
  <2>1. cfg.gpus % GroupSize = 0 /\ NumExperts % cfg.ep = 0
    BY <1>3 DEF AddsUp
  <2>2. NumExperts <= cfg.ep * PerRank
    BY <2>1, EvenShares, Degrees
  <2> QED  BY <1>3, <2>1, <2>2 DEF Solvable
<1>4. CASE cfg.strategy = "pipeline"
  <2>1. cfg.gpus = NumUsed /\ NumExperts % cfg.ep = 0 /\ (cfg.zigzag \/ NumLayers % cfg.p = 0)
    BY <1>4 DEF AddsUp
  <2>2. cfg.gpus >= NumUsed /\ PerRank > 0
    BY <2>1, EvenShares, StageSizes
  <2> QED  BY <1>4, <2>1, <2>2, StagesFit, WorkersFit DEF Solvable
<1> QED  BY <1>1, <1>2, <1>3, <1>4 DEF AddsUp

(* One rank for all experts of a device.                                   *)
LEMMA OneRank ==
  ASSUME NEW d \in DOMAIN expert, NEW x \in expert[d],
         \A y \in expert[d] : ExpertRank(y) = ExpertRank(x)
  PROVE  HasRank(d) /\ RankAt(d) = ExpertRank(x)
<1>1. RanksOf(d) = {ExpertRank(x)}
  BY DEF RanksOf
<1>2. Cardinality(RanksOf(d)) = 1
  BY <1>1, FS_Singleton
<1> QED  BY <1>1, <1>2 DEF HasRank, RankAt

LEMMA ColocateRanks ==
  ASSUME cfg \in Setups, FileRead, LaidOut, AddsUp, Hybrid, NEW d \in Devices
  PROVE  HasRank(d) /\ RankAt(d) < cfg.dp
<1>1. Together /\ Hosted /\ cfg.dp = cfg.gpus
  BY ColocateHosts DEF AddsUp, Hybrid
<1>2. \E e \in Experts : Host(e) = d
  <2>1. CASE cfg.entries = NoFile
    <3>1. ~ByFile /\ cfg.ep = cfg.gpus /\ NumExperts % cfg.ep = 0
      BY <2>1 DEF AddsUp, FileRead, ByFile, Hybrid
    <3>2. PerRank \in Nat \ {0} /\ NumExperts = cfg.ep * PerRank
      BY <3>1, EvenShares
    <3>3. d \in Nat /\ d + 1 <= cfg.ep /\ cfg.ep \in Nat
      BY <3>1, Degrees DEF Devices
    <3>4. PerRank * d \in Nat /\ PerRank * (d + 1) = PerRank * d + PerRank
          /\ PerRank * (d + 1) <= cfg.ep * PerRank
      BY <3>2, <3>3
    <3>5. PerRank * d \in Experts
      BY <3>2, <3>3, <3>4, Degrees DEF Experts
    <3>6. (PerRank * d) \div PerRank = d
      <4>1. PerRank * d = PerRank * d + 0
        BY <3>4
      <4> QED  BY <3>2, <3>3, <3>4, <4>1, QuotientUnique
    <3> QED  BY <3>1, <3>5, <3>6 DEF Host
  <2>2. CASE cfg.entries # NoFile
    <3>1. ByFile
      BY <2>2, AllocationType DEF FileRead, ByFile
    <3>2. Allocated(d) > 0
      BY <2>2 DEF AddsUp, Hybrid
    <3> QED  BY <3>1, <3>2, HostByFile
  <2> QED  BY <2>1, <2>2
<1>3. PICK e \in Experts : Host(e) = d
  BY <1>2
<1>4. d \in DOMAIN expert /\ <<0, e>> \in expert[d]
  <2>1. expert[d] = {x \in Layers \X Experts : Host(x[2]) = d}
    BY DEF LaidOut, Layout, Colocated, Hybrid
  <2>2. 0 \in Layers
    BY Degrees DEF Layers
  <2> QED  BY <1>1, <1>3, <2>1, <2>2 DEF Together
<1>5. HasRank(d) /\ RankAt(d) = d
  BY <1>1, <1>4, OneRank DEF Together
<1> QED  BY <1>1, <1>5, Degrees DEF Devices

LEMMA InterleaveRanks ==
  ASSUME cfg \in Setups, LaidOut, AddsUp, cfg.strategy = "interleave", NEW d \in Devices
  PROVE  HasRank(d) /\ (HasAttn(d) => RankAt(d) < cfg.dp)
<1> DEFINE n == cfg.gpus \div GroupSize
<1>1. /\ cfg.tp = 1 /\ cfg.gpus % GroupSize = 0 /\ NumExperts % cfg.ep = 0 /\ n <= NumLayers
  BY DEF AddsUp
<1>2. /\ GroupSize \in Nat \ {0} /\ n \in Nat \ {0}
      /\ d \div GroupSize \in 0 .. n - 1 /\ d % GroupSize \in 0 .. GroupSize - 1
  BY <1>1, GroupPlaces
<1> HIDE DEF n
<1>3. CASE d \in DOMAIN attn
  <2>1. d \notin DOMAIN expert
    BY <1>3, InterleaveLaid
  <2>2. d % GroupSize = 0 /\ d \in Nat
    BY <1>1, <1>2, <1>3, InterleaveLaid, Degrees
  <2>3. d \in DOMAIN groups /\ groups[d] = [i \in 1 .. 1 |-> d - 0 + i - 1]
    <3>1. groups = [o \in {o \in Devices : o % GroupSize < cfg.tp} |->
                      [i \in 1 .. cfg.tp |-> o - (o % GroupSize) + i - 1]]
      BY DEF LaidOut, Layout, Interleaved
    <3> QED  BY <1>1, <1>3, <2>2, <3>1, InterleaveLaid
  <2>4. DOMAIN groups[d] = {1} /\ groups[d][1] = d
    BY <2>2, <2>3
  <2>5. RankAt(d) = 0
    <3>1. d \in Range(groups[d])
      BY <2>4 DEF Range
    <3>2. (CHOOSE i \in DOMAIN groups[d] : groups[d][i] = d) = 1
      BY <2>4
    <3> QED  BY <2>1, <3>1, <3>2 DEF RankAt
  <2> QED  BY <1>3, <2>1, <2>3, <2>5, Degrees DEF HasRank, HasAttn
<1>4. CASE d \notin DOMAIN attn
  <2>1. d \in DOMAIN expert /\ (d % GroupSize) - 1 \in 0 .. cfg.ep - 1
    <3>1. d \in DOMAIN expert /\ ~(d % GroupSize < 1)
      BY <1>1, <1>4, InterleaveLaid
    <3>2. GroupSize = cfg.ep + 1 /\ cfg.ep \in Nat
      BY <1>1, Degrees DEF GroupSize
    <3> QED  BY <1>2, <3>1, <3>2
  <2> DEFINE l == d \div GroupSize
             k == (d % GroupSize) - 1
             e == PerRank * k
  <2>2. PerRank \in Nat \ {0} /\ NumExperts = cfg.ep * PerRank /\ cfg.ep \in Nat
    BY <1>1, EvenShares, Degrees
  <2>3. k \in Nat /\ k + 1 <= cfg.ep
    BY <2>1, <2>2
  <2>4. l \in InterleaveAt(d)
    <3>1. l \in Nat /\ l < n /\ l < NumLayers
      <4>1. l \in 0 .. n - 1 /\ n \in Nat /\ NumLayers \in Nat /\ n <= NumLayers
        BY <1>1, <1>2, Degrees
      <4> HIDE DEF l
      <4> QED  BY <4>1
    <3>2. l % n = l
      <4>1. l = n * 0 + l
        BY <1>2, <3>1
      <4> QED  BY <1>2, <3>1, <4>1, QuotientUnique
    <3>3. l \in Layers
      BY <3>1, Degrees DEF Layers
    <3> QED  BY <3>2, <3>3 DEF InterleaveAt, n
  <2> HIDE DEF l, k
  <2>5. e \in Experts /\ e \div PerRank = k
    <3>1. PerRank * k \in Nat /\ PerRank * (k + 1) = PerRank * k + PerRank
          /\ PerRank * (k + 1) <= cfg.ep * PerRank
      BY <2>2, <2>3
    <3>2. PerRank * k \in Experts
      BY <2>2, <2>3, <3>1, Degrees DEF Experts
    <3>3. (PerRank * k) \div PerRank = k
      <4>1. PerRank * k = PerRank * k + 0
        BY <3>1
      <4> QED  BY <2>2, <2>3, <3>1, <4>1, QuotientUnique
    <3> QED  BY <3>2, <3>3
  <2> HIDE DEF e
  <2>6. <<l, e>> \in expert[d]
    <3>1. <<l, e>> \in InterleaveAt(d) \X Experts
      BY <2>4, <2>5
    <3>2. <<l, e>>[2] \div PerRank = (d % GroupSize) - cfg.tp
      BY <1>1, <2>5 DEF k
    <3> QED  BY <2>1, <3>1, <3>2, InterleaveLaid
  <2>7. \A y \in expert[d] : ExpertRank(y) = ExpertRank(<<l, e>>)
    BY <2>1, <2>6, InterleaveLaid
  <2> QED  BY <1>4, <2>1, <2>6, <2>7, OneRank DEF HasAttn
<1> QED  BY <1>3, <1>4

LEMMA PipelineRanks ==
  ASSUME cfg \in Setups, LaidOut, AddsUp, cfg.strategy = "pipeline", NEW d \in Devices
  PROVE  HasRank(d) /\ (HasAttn(d) => RankAt(d) < cfg.dp)
<1>1. /\ cfg.tp = 1 /\ cfg.gpus = NumUsed /\ NumExperts % cfg.ep = 0 /\ cfg.q <= NumLayers
  BY DEF AddsUp
<1>2. /\ NumAttn \in Nat /\ NumUsed = NumAttn + cfg.q * cfg.ep /\ cfg.q * cfg.ep \in Nat
      /\ d \in 0 .. NumUsed - 1 /\ cfg.p * cfg.dp = NumAttn
  <2>1. cfg.p * 1 = cfg.p
    BY Degrees
  <2>2. NumAttn = cfg.p * cfg.dp
    BY <1>1, <2>1 DEF NumAttn
  <2> QED  BY <1>1, <2>2, StageSizes DEF Devices
<1>3. CASE d < NumAttn
  <2>1. d \in Nat /\ d \in DOMAIN attn /\ d \notin DOMAIN expert
    BY <1>2, <1>3, PipelineLaid
  <2>2. d \in DOMAIN groups /\ groups[d] = [k \in 1 .. 1 |-> d * 1 + k - 1]
    <3>1. d \in 0 .. cfg.p * cfg.dp - 1
      BY <1>2, <1>3
    <3> QED  BY <1>1, <3>1, PipelineLaid
  <2>3. DOMAIN groups[d] = {1} /\ groups[d][1] = d
    BY <2>1, <2>2
  <2>4. RankAt(d) = 0
    <3>1. d \in Range(groups[d])
      BY <2>3 DEF Range
    <3>2. (CHOOSE i \in DOMAIN groups[d] : groups[d][i] = d) = 1
      BY <2>3
    <3> QED  BY <2>1, <3>1, <3>2 DEF RankAt
  <2> QED  BY <2>1, <2>2, <2>4, Degrees DEF HasRank, HasAttn
<1>4. CASE ~(d < NumAttn)
  <2> DEFINE j == d - NumAttn
             s == j \div cfg.ep
             k == j % cfg.ep
             e == PerRank * k
             x == <<s, e>>
  <2>1. d \in DOMAIN expert /\ d \notin DOMAIN attn
    BY <1>2, <1>4, PipelineLaid, StageSizes
  <2>2. PerRank \in Nat \ {0} /\ NumExperts = cfg.ep * PerRank /\ cfg.ep \in Nat \ {0}
        /\ cfg.q \in Nat \ {0}
    BY <1>1, EvenShares, Degrees
  <2>3. j \in Nat /\ j < cfg.q * cfg.ep /\ d = NumAttn + j
    BY <1>2, <1>4
  <2> HIDE DEF j
  <2>4. s \in Nat /\ s < cfg.q /\ k \in Nat /\ k < cfg.ep /\ j = cfg.ep * s + k
    <3>1. s < cfg.q
      BY <2>2, <2>3, QuotientBelow
    <3> QED  BY <2>2, <2>3, <3>1, Quotient
  <2> HIDE DEF s, k
  <2>5. s \in Layers /\ s % cfg.q = s
    <3>1. s \in Layers
      BY <1>1, <2>2, <2>4, Degrees DEF Layers
    <3>2. s = cfg.q * 0 + s
      BY <2>2, <2>4
    <3> QED  BY <2>2, <2>4, <3>1, <3>2, QuotientUnique
  <2>6. e \in Experts /\ e \div PerRank = k
    <3>1. PerRank * k \in Nat /\ PerRank * (k + 1) = PerRank * k + PerRank
      BY <2>2, <2>4
    <3>2. PerRank * (k + 1) <= cfg.ep * PerRank
      <4>1. k + 1 <= cfg.ep /\ k + 1 \in Nat /\ cfg.ep \in Nat /\ PerRank \in Nat
        BY <2>2, <2>4
      <4>2. \A a, b, c \in Nat : a <= b => c * a <= b * c
        OBVIOUS
      <4> QED  BY <4>1, <4>2, Zenon
    <3>3. PerRank * k \in Experts
      BY <2>2, <3>1, <3>2, Degrees DEF Experts
    <3>4. PerRank * k = PerRank * k + 0
      BY <3>1
    <3>5. (PerRank * k) \div PerRank = k
      BY <2>2, <2>4, <3>1, <3>4, QuotientUnique
    <3> QED  BY <3>3, <3>5
  <2> HIDE DEF e
  <2>7. x \in expert[d]
    <3>1. x \in Layers \X Experts
      BY <2>5, <2>6
    <3>2. ExpertWorker(x) = NumAttn + s * cfg.ep + k
      BY <2>5, <2>6 DEF ExpertWorker
    <3>3. s * cfg.ep \in Nat /\ s * cfg.ep = cfg.ep * s
      BY <2>2, <2>4
    <3>4. ExpertWorker(x) = d
      BY <1>2, <2>3, <2>4, <3>2, <3>3
    <3> QED  BY <2>1, <3>1, <3>4, PipelineLaid
  <2>8. ASSUME NEW y \in expert[d] PROVE ExpertRank(y) = k
    <3> DEFINE t == y[1] % cfg.q
               r == y[2] \div PerRank
    <3>1. y \in Layers \X Experts /\ ExpertWorker(y) = d
      BY <2>1, PipelineLaid
    <3>2. t \in Nat /\ t * cfg.ep \in Nat
      <4>1. t \in 0 .. cfg.q - 1 /\ t * cfg.ep \in Nat
        BY <2>2, <3>1, ExpertWorkerType
      <4> QED  BY <2>2, <4>1
    <3>3. r \in Nat /\ r < cfg.ep
      <4>1. y[2] \in Experts /\ NumExperts <= cfg.ep * PerRank
        BY <2>2, <3>1, Degrees
      <4>2. r \in 0 .. cfg.ep - 1
        BY <4>1, SharesFit
      <4> QED  BY <2>2, <4>2
    <3>4. ExpertWorker(y) = NumAttn + t * cfg.ep + r
      BY DEF ExpertWorker
    <3> HIDE DEF t, r
    <3>5. j = t * cfg.ep + r
      BY <1>2, <2>3, <3>1, <3>2, <3>3, <3>4
    <3>6. t * cfg.ep = cfg.ep * t
      BY <2>2, <3>2
    <3>7. j % cfg.ep = r
      BY <2>2, <2>3, <3>2, <3>3, <3>5, <3>6, QuotientUnique
    <3> QED  BY <3>7, PipelineLaid DEF k, r
  <2>9. \A y \in expert[d] : ExpertRank(y) = ExpertRank(x)
    BY <2>7, <2>8
  <2> HIDE DEF x
  <2> QED  BY <2>1, <2>7, <2>9, OneRank DEF HasAttn
<1> QED  BY <1>3, <1>4

LEMMA AddsUpRanks ==
  ASSUME cfg \in Setups, FileRead, LaidOut, AddsUp
  PROVE  \A d \in Devices : HasRank(d) /\ (HasAttn(d) => RankAt(d) < cfg.dp)
BY ColocateRanks, InterleaveRanks, PipelineRanks DEF AddsUp, Hybrid

(* A layer has one attention worker of a rank.                             *)
LEMMA OneWorkerOfRank ==
  ASSUME cfg \in Setups, LaidOut, AddsUp, ~Hybrid, NEW l,
         NEW a \in AttnAt(l), NEW b \in AttnAt(l), AttnDpRank(a) = AttnDpRank(b)
  PROVE  a = b
<1>1. a \in DOMAIN attn /\ b \in DOMAIN attn /\ l \in attn[a] /\ l \in attn[b]
  BY DEF AttnAt
<1>2. CASE cfg.strategy = "interleave"
  <2>1. a \in Devices /\ b \in Devices /\ a % GroupSize < 1 /\ b % GroupSize < 1
        /\ a \div GroupSize = b \div GroupSize /\ cfg.gpus % GroupSize = 0
    BY <1>1, <1>2, InterleaveLaid DEF InterleaveAt, AddsUp
  <2>2. \A d \in {a, b} : /\ d % GroupSize \in 0 .. GroupSize - 1
                          /\ d = GroupSize * (d \div GroupSize) + (d % GroupSize)
    BY <2>1, GroupPlaces
  <2>3. GroupSize \in Nat \ {0}
    BY <2>1, GroupPlaces
  <2>4. a % GroupSize = 0 /\ b % GroupSize = 0
    BY <2>1, <2>2, <2>3
  <2>5. a = GroupSize * (a \div GroupSize) + 0 /\ b = GroupSize * (b \div GroupSize) + 0
    BY <2>2, <2>4
  <2> QED  BY <2>1, <2>5
<1>3. CASE cfg.strategy = "pipeline"
  <2>1. cfg.tp = 1 /\ cfg.dp \in Nat \ {0} /\ a \in Nat /\ b \in Nat
    BY <1>1, <1>3, PipelineLaid, StageSizes, Degrees DEF AddsUp
  <2>2. a \div 1 = a /\ b \div 1 = b /\ cfg.dp * 1 = cfg.dp
    BY <2>1
  <2>3. a \div cfg.dp = b \div cfg.dp /\ a % cfg.dp = b % cfg.dp
    <3>1. a \div (cfg.dp * cfg.tp) = b \div (cfg.dp * cfg.tp)
          /\ (a \div cfg.tp) % cfg.dp = (b \div cfg.tp) % cfg.dp
      BY <1>1, <1>3, PipelineLaid
    <3> QED  BY <2>1, <2>2, <3>1
  <2>4. a = cfg.dp * (a \div cfg.dp) + (a % cfg.dp) /\ b = cfg.dp * (b \div cfg.dp) + (b % cfg.dp)
    BY <2>1, Quotient
  <2> QED  BY <2>3, <2>4
<1> QED  BY <1>2, <1>3 DEF AddsUp, Hybrid

LEMMA AddsUpStarts ==
  ASSUME cfg \in Setups, FileRead, LaidOut, AddsUp
  PROVE  AllStarted
<1> SUFFICES ASSUME NEW d \in DOMAIN expert, d \in Devices, ~Hybrid
             PROVE  /\ \A o \in Out(d) : attn[o] # {}
                    /\ \A l \in Layers : \A r \in 0 .. cfg.dp - 1 : Cardinality(ToAttn(d, l, r)) <= 1
  BY DEF AllStarted, CoreStarts, AddsUp
<1>1. d \notin DOMAIN attn
  <2>1. CASE cfg.strategy = "interleave"
    BY <2>1, InterleaveLaid
  <2>2. CASE cfg.strategy = "pipeline"
    BY <2>2, PipelineLaid, StageSizes
  <2> QED  BY <2>1, <2>2 DEF AddsUp, Hybrid
<1>2. ASSUME NEW o \in Out(d) PROVE attn[o] # {}
  <2>1. PICK l \in Layers : o \in AttnAt(NextLayer(l))
    BY <1>1 DEF Out, AttnAt
  <2> QED  BY <2>1 DEF AttnAt
<1>3. ASSUME NEW l \in Layers, NEW r \in 0 .. cfg.dp - 1
      PROVE  Cardinality(ToAttn(d, l, r)) <= 1
  <2>1. \A a, b \in ToAttn(d, l, r) : a = b
    BY OneWorkerOfRank DEF ToAttn, WithRank
  <2>2. CASE ToAttn(d, l, r) = {}
    BY <2>2, FS_EmptySet
  <2>3. CASE ToAttn(d, l, r) # {}
    <3>1. PICK a \in ToAttn(d, l, r) : TRUE
      BY <2>3
    <3>2. ToAttn(d, l, r) = {a}
      BY <2>1, <3>1
    <3>3. Cardinality({a}) = 1
      BY FS_Singleton
    <3> QED  BY <3>2, <3>3
  <2> QED  BY <2>2, <2>3
<1> QED  BY <1>2, <1>3

-----------------------------------------------------------------------------
(* A phase that leaves the layout alone leaves what is known of it alone.  *)
LEMMA PhasesKeep ==
  ASSUME UNCHANGED <<cfg, alloc, place>>
  PROVE  FileRead' = FileRead /\ LaidOut' = LaidOut
BY DEF FileRead, LaidOut, Layout, Solvable, FileAddsUp, Allocation, Allocated, Devices, GroupSize,
       NumUsed, NumAttn, Interleaved, Pipelined, Colocated, Host, ByFile, Hybrid,
       ExpertsBefore, PerRank, AttnStage, ExpertWorker, place

LEMMA TablesKeep ==
  ASSUME UNCHANGED <<cfg, alloc, place, tokenizer>>
  PROVE  RanksFound' = RanksFound /\ AllStarted' = AllStarted
<1>1. RanksFound' = RanksFound
  BY DEF RanksFound, place, HasRank, RankAt, HasAttn, RanksOf, ExpertRank, ByFile, Hybrid,
         Devices, PerRank
<1>2. AllStarted' = AllStarted
  BY DEF AllStarted, CoreStarts, place, HasAttn, Hybrid, ToAttn, WithRank, Out, AttnAt, ExpertAt,
         NextLayer, AttnDpRank, Devices
<1> QED  BY <1>1, <1>2

-----------------------------------------------------------------------------
(* What each phase of the start-up leaves to the next one.                 *)
StartUpInv ==
  /\ cfg \in Setups
  /\ IF pc = "resolve" THEN alloc = NoFile ELSE pc # "failed" => FileRead
  /\ pc \in {"setup", "core", "up"} => LaidOut
  /\ pc \in {"core", "up"} => RanksFound
  /\ pc = "up" => AllStarted
  /\ StartsWhenItAddsUp

LEMMA StartUpBegins == StartUpInit => StartUpInv
BY DEF StartUpInit, StartUpInv, StartsWhenItAddsUp

LEMMA StartUpStep == StartUpInv /\ [StartUpNext]_startUp => StartUpInv'
<1> SUFFICES ASSUME StartUpInv, [StartUpNext]_startUp PROVE StartUpInv'
  OBVIOUS
<1>1. CASE Resolve
  <2>1. CASE cfg.entries # NoFile /\ ~FileAddsUp /\ Fail
    <3>1. ~AddsUp
      BY <2>1 DEF AddsUp
    <3>2. cfg' = cfg /\ pc' = "failed" /\ ~AddsUp'
      BY <2>1, <3>1 DEF Fail, AddsUp, FileAddsUp, Allocation, Allocated, Devices, GroupSize, NumUsed, NumAttn
    <3> QED  BY <3>2 DEF StartUpInv, StartsWhenItAddsUp
  <2>2. CASE cfg.entries = NoFile /\ pc' = "solve" /\ UNCHANGED <<cfg, alloc, place, tokenizer>>
    BY <1>1, <2>2 DEF StartUpInv, StartsWhenItAddsUp, Resolve, FileRead
  <2>3. CASE cfg.entries # NoFile /\ FileAddsUp /\ alloc' = Allocation /\ pc' = "solve" /\ cfg' = cfg
    BY <2>3 DEF StartUpInv, StartsWhenItAddsUp, FileRead, FileAddsUp, Allocation, Allocated, Devices
  <2> QED  BY <1>1, <2>1, <2>2, <2>3 DEF Resolve
<1>2. CASE Solve
  <2>0. cfg \in Setups /\ FileRead
    BY <1>2 DEF StartUpInv, Solve
  <2>1. CASE ~Solvable /\ Fail
    <3>1. ~AddsUp
      BY <2>0, <2>1, AddsUpSolves
    <3>2. cfg' = cfg /\ pc' = "failed" /\ ~AddsUp'
      BY <2>1, <3>1 DEF Fail, AddsUp, FileAddsUp, Allocation, Allocated, Devices, GroupSize, NumUsed, NumAttn
    <3> QED  BY <2>0, <3>2 DEF StartUpInv, StartsWhenItAddsUp
  <2>2. CASE /\ Solvable
             /\ attn' = Layout.attn /\ expert' = Layout.expert /\ groups' = Layout.groups
             /\ pc' = "setup" /\ UNCHANGED <<cfg, alloc, tokenizer>>
    <3>1. Layout' = Layout /\ Solvable' = Solvable /\ FileRead' = FileRead
      BY <2>2 DEF Layout, Solvable, FileRead, FileAddsUp, Allocation, Allocated, Devices, GroupSize,
                  NumUsed, NumAttn, Interleaved, Pipelined, Colocated, Host, ByFile, Hybrid,
                  ExpertsBefore, PerRank, AttnStage, ExpertWorker
    <3> QED  BY <2>0, <2>2, <3>1 DEF StartUpInv, StartsWhenItAddsUp, LaidOut
  <2> QED  BY <1>2, <2>1, <2>2 DEF Solve
<1>3. CASE Setup
  <2> DEFINE ok == \A d \in Devices : HasRank(d) /\ (HasAttn(d) => RankAt(d) < cfg.dp)
  <2>0. cfg \in Setups /\ FileRead /\ LaidOut
    BY <1>3 DEF StartUpInv, Setup
  <2>1. CASE ~ok /\ Fail
    <3>1. ~AddsUp
      BY <2>0, <2>1, AddsUpRanks
    <3>2. cfg' = cfg /\ pc' = "failed" /\ ~AddsUp'
      BY <2>1, <3>1 DEF Fail, AddsUp, FileAddsUp, Allocation, Allocated, Devices, GroupSize, NumUsed, NumAttn
    <3> QED  BY <2>0, <3>2 DEF StartUpInv, StartsWhenItAddsUp
  <2>2. CASE ok /\ tokenizer' = [d \in DOMAIN attn |-> RankAt(d)] /\ pc' = "core"
             /\ UNCHANGED <<cfg, alloc, place>>
    <3>1. FileRead' /\ LaidOut'
      BY <2>0, <2>2, PhasesKeep
    <3>2. RanksFound'
      <4>1. cfg' = cfg /\ attn' = attn
        BY <2>2 DEF place
      <4>2. /\ Devices' = Devices
            /\ \A d : HasRank(d)' = HasRank(d) /\ HasAttn(d)' = HasAttn(d) /\ RankAt(d)' = RankAt(d)
        BY <2>2 DEF place, HasRank, RankAt, HasAttn, RanksOf, ExpertRank, ByFile, Hybrid, Devices, PerRank
      <4>3. tokenizer' = [d \in DOMAIN attn' |-> RankAt(d)']
        BY <2>2, <4>1, <4>2
      <4>4. \A d \in Devices' : HasRank(d)' /\ (HasAttn(d)' => RankAt(d)' < cfg'.dp)
        BY <2>2, <4>1, <4>2
      <4> QED  BY <4>3, <4>4 DEF RanksFound
    <3> QED  BY <2>0, <2>2, <3>1, <3>2 DEF StartUpInv, StartsWhenItAddsUp
  <2> HIDE DEF ok
  <2>3. (~ok /\ Fail) \/ (ok /\ tokenizer' = [d \in DOMAIN attn |-> RankAt(d)] /\ pc' = "core"
                          /\ UNCHANGED <<cfg, alloc, place>>)
    BY <1>3 DEF Setup, ok
  <2> QED  BY <2>1, <2>2, <2>3
<1>4. CASE InitCore
  <2>0. cfg \in Setups /\ FileRead /\ LaidOut /\ RanksFound
    BY <1>4 DEF StartUpInv, InitCore
  <2>1. CASE ~AllStarted /\ Fail
    <3>1. ~AddsUp
      BY <2>0, <2>1, AddsUpStarts
    <3>2. cfg' = cfg /\ pc' = "failed" /\ ~AddsUp'
      BY <2>1, <3>1 DEF Fail, AddsUp, FileAddsUp, Allocation, Allocated, Devices, GroupSize, NumUsed, NumAttn
    <3> QED  BY <2>0, <3>2 DEF StartUpInv, StartsWhenItAddsUp
  <2>2. CASE AllStarted /\ pc' = "up" /\ UNCHANGED <<cfg, alloc, place, tokenizer>>
    <3>1. FileRead' /\ LaidOut'
      BY <2>0, <2>2, PhasesKeep
    <3>2. RanksFound' /\ AllStarted'
      BY <2>0, <2>2, TablesKeep
    <3> QED  BY <2>0, <2>2, <3>1, <3>2 DEF StartUpInv, StartsWhenItAddsUp
  <2> QED  BY <1>4, <2>1, <2>2 DEF InitCore, AllStarted
<1>5. CASE UNCHANGED startUp
  <2>1. /\ cfg' = cfg /\ pc' = pc /\ alloc' = alloc /\ UNCHANGED <<cfg, alloc, place, tokenizer>>
        /\ UNCHANGED <<cfg, alloc, place>>
    BY <1>5 DEF startUp
  <2>2. FileRead' = FileRead /\ LaidOut' = LaidOut /\ RanksFound' = RanksFound /\ AllStarted' = AllStarted
    BY <2>1, PhasesKeep, TablesKeep
  <2>3. AddsUp' = AddsUp
    BY <2>1 DEF AddsUp, FileAddsUp, Allocation, Allocated, Devices, GroupSize, NumUsed, NumAttn
  <2> QED  BY <2>1, <2>2, <2>3 DEF StartUpInv, StartsWhenItAddsUp
<1> QED  BY <1>1, <1>2, <1>3, <1>4, <1>5 DEF StartUpNext

(* The phases of the start-up, and what a set-up that adds up passes, for  *)
(* any number of devices, layers and experts, and any command line.        *)
THEOREM StartUpInvariance == StartUpSpec => []StartUpInv
<1> QED  BY StartUpBegins, StartUpStep, PTL DEF StartUpSpec

(* In a cluster that is up, the tables of the dispatchers (which device an *)
(* expert's channel leads to, which an attention rank's) agree with the    *)
(* placement, and the tokenizer's queues with the ranks.                   *)
THEOREM RoutingRight == StartUpSpec => []RoutingIsRight
<1>1. StartUpInv => RoutingIsRight
  BY ChannelsRight, TokenizersRight DEF StartUpInv, RoutingIsRight
<1> QED  BY <1>1, StartUpInvariance, PTL

(* No check of init_engine and its callees rejects a set-up that adds up.  *)
THEOREM StartsUp == StartUpSpec => []StartsWhenItAddsUp
<1>1. StartUpInv => StartsWhenItAddsUp
  BY DEF StartUpInv
<1> QED  BY <1>1, StartUpInvariance, PTL

-----------------------------------------------------------------------------
(* Sessions.                                                               *)
ClientTask(r) == [task |-> "client", req |-> r]
FinishTask(reqs) == [task |-> "finish", reqs |-> reqs]
LoopTask == [task |-> "waiting_loop"]
PollTask == [task |-> "poll"]

Waiting   == Range(queue) \cup ({held} \ {None})
Running   == {r \in Req : left[r] > 0}
Reporting == {r \in Req : \E t \in Range(fresh) : t.task = "finish" /\ r \in t.reqs}

(* What the controller tracks is what waits and what is charged.           *)
Entries ==
  /\ inFlight = tracked /\ tracked = Waiting \cup charged
  /\ Waiting \cap charged = {}
  /\ IsInjective(queue) /\ held \notin Range(queue)

(* What is charged runs, has finished, or is about to be reported.         *)
Placed ==
  /\ charged = Running \cup finished \cup Reporting
  /\ Running \cap finished = {} /\ (Running \cup finished) \cap Reporting = {}
  /\ IsFiniteSet(charged) /\ room + Cardinality(charged) = Capacity

(* Each task is created once, and a report after the task it notifies.     *)
Tasks ==
  /\ IsInjective(fresh)
  /\ \A t, u \in Range(fresh) :
       t.task = "finish" /\ u.task = "finish" => t = u \/ t.reqs \cap u.reqs = {}
  /\ \A t \in Range(fresh) : t.task = "finish" => t.reqs # {}
  /\ \A i, j \in DOMAIN fresh :
       fresh[i].task = "finish" /\ fresh[j].task = "client" /\ fresh[j].req \in fresh[i].reqs => j < i

(* How far the client of each request is.                                  *)
Clients ==
  /\ \A r \in Req : client[r] = "created" <=> ClientTask(r) \in Range(fresh)
  /\ \A r \in Req : client[r] \in {"created", "waiting"} <=> r \in tracked
  /\ \A r \in Req : SessionOf[r] > session => client[r] = "none"
  /\ \A r \in Req : SessionOf[r] < session => client[r] = "answered"
  /\ driver # "put" => slo = {} /\ \A r \in Mine : client[r] = "answered"

(* Where waiting_loop is.                                                  *)
LoopState ==
  /\ loop = "created" <=> LoopTask \in Range(fresh)
  /\ PollTask \in Range(fresh) => loop = "created"
  /\ fresh # <<>> /\ PollTask \in Range(fresh) => Head(fresh) = PollTask
  /\ loop = "parked" <=> held # None
  /\ endEvent => driver \in {"await_loop", "idle"}
  /\ driver = "idle" => fresh = <<>>

IInv == /\ TypeOK
        /\ broken = {}
        /\ Entries
        /\ Placed
        /\ Tasks
        /\ Clients
        /\ LoopState

-----------------------------------------------------------------------------
(* Tasks.                                                                  *)

LEMMA TaskShapes ==
  /\ \A r \in Req : ClientTask(r) \in Task /\ ClientTask(r).task = "client" /\ ClientTask(r).req = r
  /\ \A reqs \in SUBSET Req :
       FinishTask(reqs) \in Task /\ FinishTask(reqs).task = "finish" /\ FinishTask(reqs).reqs = reqs
  /\ LoopTask \in Task /\ LoopTask.task = "waiting_loop"
  /\ PollTask \in Task /\ PollTask.task = "poll"
  /\ \A t \in Task :
       \/ t.task = "client" /\ t.req \in Req /\ t = ClientTask(t.req)
       \/ t.task = "finish" /\ t.reqs \in SUBSET Req /\ t = FinishTask(t.reqs)
       \/ t = LoopTask
       \/ t = PollTask
<1>1. \A r \in Req : ClientTask(r) \in Task /\ ClientTask(r).task = "client" /\ ClientTask(r).req = r
  BY DEF ClientTask, Task
<1>2. \A reqs \in SUBSET Req :
        FinishTask(reqs) \in Task /\ FinishTask(reqs).task = "finish" /\ FinishTask(reqs).reqs = reqs
  BY DEF FinishTask, Task
<1>3. /\ LoopTask \in Task /\ LoopTask.task = "waiting_loop"
      /\ PollTask \in Task /\ PollTask.task = "poll"
  BY DEF LoopTask, PollTask, Task
<1>4. ASSUME NEW t \in Task
      PROVE  \/ t.task = "client" /\ t.req \in Req /\ t = ClientTask(t.req)
             \/ t.task = "finish" /\ t.reqs \in SUBSET Req /\ t = FinishTask(t.reqs)
             \/ t = LoopTask
             \/ t = PollTask
  <2>1. CASE t \in [task : {"client"}, req : Req]
    BY <2>1 DEF ClientTask
  <2>2. CASE t \in [task : {"finish"}, reqs : SUBSET Req]
    BY <2>2 DEF FinishTask
  <2>3. CASE t \in [task : {"waiting_loop", "poll"}]
    BY <2>3 DEF LoopTask, PollTask
  <2> QED  BY <2>1, <2>2, <2>3 DEF Task
<1> QED  BY <1>1, <1>2, <1>3, <1>4

(* A task that starts is the oldest, and nothing else leaves.              *)
LEMMA StartsKeeps ==
  ASSUME TypeOK, Tasks, LoopState, NEW t, Starts(t)
  PROVE  /\ fresh' \in Seq(Task) /\ Tasks'
         /\ t \in Range(fresh) /\ Range(fresh') = Range(fresh) \ {t}
         /\ PollTask \notin Range(fresh')
         /\ \A u \in Range(fresh) : t.task = "finish" /\ u.task = "client" => u.req \notin t.reqs
<1>1. fresh \in Seq(Task) /\ fresh # <<>> /\ t = Head(fresh) /\ fresh' = Tail(fresh)
  BY DEF TypeOK, Starts
<1>2. /\ t \in Range(fresh) /\ Range(fresh') = Range(fresh) \ {t} /\ IsInjective(fresh')
  BY <1>1, TakeHead DEF Tasks
<1>3. /\ fresh' \in Seq(Task) /\ Len(fresh) \in Nat \ {0} /\ DOMAIN fresh = 1 .. Len(fresh)
      /\ DOMAIN fresh' = 1 .. Len(fresh) - 1 /\ t = fresh[1]
      /\ \A i \in 1 .. Len(fresh) - 1 : fresh'[i] = fresh[i + 1]
  BY <1>1, HeadTailProperties, LenProperties, EmptySeq
<1>4. \A i, j \in DOMAIN fresh' :
        fresh'[i].task = "finish" /\ fresh'[j].task = "client" /\ fresh'[j].req \in fresh'[i].reqs => j < i
  <2> SUFFICES ASSUME NEW i \in DOMAIN fresh', NEW j \in DOMAIN fresh', fresh'[i].task = "finish",
                      fresh'[j].task = "client", fresh'[j].req \in fresh'[i].reqs
               PROVE  j < i
    OBVIOUS
  <2>1. i + 1 \in DOMAIN fresh /\ j + 1 \in DOMAIN fresh /\ i \in Int /\ j \in Int
    BY <1>3
  <2>2. fresh'[i] = fresh[i + 1] /\ fresh'[j] = fresh[j + 1]
    BY <1>3
  <2>3. j + 1 < i + 1
    BY <2>1, <2>2 DEF Tasks
  <2> QED  BY <2>1, <2>3
<1>5. Tasks'
  BY <1>2, <1>4 DEF Tasks
<1>6. PollTask \notin Range(fresh')
  BY <1>1, <1>2 DEF LoopState
<1>7. ASSUME NEW u \in Range(fresh), t.task = "finish", u.task = "client", u.req \in t.reqs
      PROVE  FALSE
  <2>1. PICK j \in DOMAIN fresh : u = fresh[j]
    BY DEF Range
  <2>2. 1 \in DOMAIN fresh /\ j \in Nat \ {0}
    BY <1>3
  <2>3. j < 1
    BY <1>3, <1>7, <2>1, <2>2 DEF Tasks
  <2> QED  BY <2>2, <2>3
<1> QED  BY <1>2, <1>3, <1>5, <1>6, <1>7

(* A new task goes to the back.                                            *)
LEMMA AppendKeeps ==
  ASSUME TypeOK, Tasks, LoopState, NEW t \in Task, fresh' = Append(fresh, t),
         t \notin Range(fresh),
         t.task = "finish" =>
           /\ t.reqs # {}
           /\ \A u \in Range(fresh) : u.task = "finish" => t.reqs \cap u.reqs = {},
         t.task = "client" => \A u \in Range(fresh) : u.task = "finish" => t.req \notin u.reqs
  PROVE  /\ fresh' \in Seq(Task) /\ Tasks' /\ Range(fresh') = Range(fresh) \cup {t}
         /\ fresh' # <<>> /\ (fresh # <<>> => Head(fresh') = Head(fresh))
<1>1. fresh \in Seq(Task)
  BY DEF TypeOK
<1>2. /\ Range(fresh') = Range(fresh) \cup {t} /\ IsInjective(fresh')
  BY <1>1, PutBack DEF Tasks
<1>3. /\ fresh' \in Seq(Task) /\ Len(fresh) \in Nat /\ DOMAIN fresh = 1 .. Len(fresh)
      /\ DOMAIN fresh' = 1 .. Len(fresh) + 1 /\ fresh' # <<>>
      /\ fresh'[Len(fresh) + 1] = t
      /\ \A i \in 1 .. Len(fresh) : fresh'[i] = fresh[i]
  BY <1>1, AppendProperties, LenProperties
<1>4. fresh # <<>> => Head(fresh') = Head(fresh)
  BY <1>1, HeadTailAppend
<1>5. \A i, j \in DOMAIN fresh' :
        fresh'[i].task = "finish" /\ fresh'[j].task = "client" /\ fresh'[j].req \in fresh'[i].reqs => j < i
  <2> SUFFICES ASSUME NEW i \in DOMAIN fresh', NEW j \in DOMAIN fresh', fresh'[i].task = "finish",
                      fresh'[j].task = "client", fresh'[j].req \in fresh'[i].reqs
               PROVE  j < i
    OBVIOUS
  <2>1. (i \in DOMAIN fresh \/ i = Len(fresh) + 1) /\ (j \in DOMAIN fresh \/ j = Len(fresh) + 1)
    BY <1>3
  <2>2. CASE i \in DOMAIN fresh /\ j \in DOMAIN fresh
    BY <1>3, <2>2 DEF Tasks
  <2>3. CASE i \in DOMAIN fresh /\ j = Len(fresh) + 1
    <3>1. fresh'[i] = fresh[i] /\ fresh'[j] = t /\ fresh[i] \in Range(fresh)
      BY <1>3, <2>3 DEF Range
    <3> QED  BY <3>1
  <2>4. CASE i = Len(fresh) + 1 /\ j \in DOMAIN fresh
    BY <1>3, <2>4
  <2>5. CASE i = Len(fresh) + 1 /\ j = Len(fresh) + 1
    BY <1>3, <2>5
  <2> QED  BY <2>1, <2>2, <2>3, <2>4, <2>5
<1>6. Tasks'
  BY <1>2, <1>5 DEF Tasks
<1> QED  BY <1>2, <1>3, <1>4, <1>6

LEMMA SessionType ==
  ASSUME TypeOK
  PROVE  /\ Session \subseteq Nat \ {0} /\ session \in Nat
         /\ \A r \in Req : SessionOf[r] \in Nat \ {0}
<1>1. Cardinality(Session) \in Nat
  BY SessionAssumption, FS_CardinalityType
<1>2. Session \subseteq Nat \ {0}
  <2>1. \A n \in Nat : 1 .. n \subseteq Nat \ {0}
    OBVIOUS
  <2> QED  BY <1>1, <2>1, SessionAssumption, Zenon
<1>3. session \in Session \cup {0}
  BY DEF TypeOK
<1>4. SessionOf \in [Req -> Session]
  BY SessionAssumption
<1>5. \A r \in Req : SessionOf[r] \in Nat \ {0}
  BY <1>2, <1>4
<1>6. session \in Nat
  BY <1>2, <1>3
<1> QED  BY <1>2, <1>5, <1>6

(* Once every request of this session is answered, nothing is left.        *)
LEMMA NothingLeft ==
  ASSUME IInv, \A r \in Mine : client[r] = "answered"
  PROVE  /\ tracked = {} /\ inFlight = {} /\ charged = {} /\ queue = <<>> /\ held = None
         /\ Running = {} /\ finished = {} /\ Reporting = {} /\ room = Capacity
         /\ \A t \in Range(fresh) : t = LoopTask \/ t = PollTask
<1> USE DEF IInv
<1>1. \A r \in Req : client[r] \in {"answered", "none"}
  <2>1. session \in Int /\ \A r \in Req : SessionOf[r] \in Int
    BY SessionType
  <2>2. \A m, n \in Int : m < n \/ m = n \/ m > n
    OBVIOUS
  <2>3. \A r \in Req : SessionOf[r] < session \/ SessionOf[r] = session \/ SessionOf[r] > session
    BY <2>1, <2>2, Zenon
  <2> QED  BY <2>3 DEF Clients, Mine
<1>2. tracked = {} /\ inFlight = {} /\ charged = {} /\ Waiting = {}
  BY <1>1 DEF Clients, Entries, TypeOK
<1>3. queue = <<>> /\ held = None
  BY <1>2, HoldsNothing DEF Waiting, TypeOK
<1>4. Running = {} /\ finished = {} /\ Reporting = {}
  BY <1>2 DEF Placed
<1>5. room = Capacity
  <2>1. Cardinality(charged) = 0
    BY <1>2, FS_EmptySet
  <2>2. room + 0 = Capacity /\ room \in Int
    BY <2>1, SessionAssumption DEF Placed, TypeOK
  <2> QED  BY <2>2
<1>6. ASSUME NEW t \in Range(fresh), t # LoopTask, t # PollTask PROVE FALSE
  <2>1. t \in Task
    BY RangeOfSeq DEF TypeOK
  <2>2. CASE t.task = "client" /\ t.req \in Req /\ t = ClientTask(t.req)
    BY <1>1, <1>6, <2>2 DEF Clients
  <2>3. CASE t.task = "finish" /\ t.reqs \in SUBSET Req
    <3>1. PICK r \in t.reqs : r \in Req
      BY <2>3 DEF Tasks
    <3> QED  BY <1>4, <2>3, <3>1 DEF Reporting
  <2> QED  BY <1>6, <2>1, <2>2, <2>3, TaskShapes
<1> QED  BY <1>2, <1>3, <1>4, <1>5, <1>6

-----------------------------------------------------------------------------
LEMMA InitIInv == Init => IInv
<1> SUFFICES ASSUME Init PROVE IInv
  OBVIOUS
<1> USE DEF Init
<1>1. fresh = <<>> /\ queue = <<>> /\ held = None /\ Range(fresh) = {} /\ Range(queue) = {}
  BY DEF Range
<1>2. IsFiniteSet({}) /\ Cardinality({}) = 0
  BY FS_EmptySet
<1>3. TypeOK
  <2>1. fresh \in Seq(Task) /\ queue \in Seq(Req)
    BY EmptySeq
  <2>2. client \in [Req -> {"none", "created", "waiting", "notified", "answered"}]
    OBVIOUS
  <2>3. left \in [Req -> Nat]
    OBVIOUS
  <2>4. room \in 0 .. Capacity
    BY SessionAssumption
  <2> QED  BY <2>1, <2>2, <2>3, <2>4 DEF TypeOK
<1>4. Entries
  BY <1>1 DEF Entries, Waiting, IsInjective
<1>5. Running = {} /\ Reporting = {}
  BY <1>1 DEF Running, Reporting
<1>6. Placed
  BY <1>2, <1>5, SessionAssumption DEF Placed
<1>7. Tasks
  BY <1>1 DEF Tasks, IsInjective
<1>8. Clients
  <2>1. \A r \in Req : ~(SessionOf[r] < session) /\ r \notin Mine
    BY <1>3, SessionType DEF Mine
  <2>2. \A r \in Req : client[r] = "none" /\ ClientTask(r) \notin Range(fresh) /\ r \notin tracked
    BY <1>1
  <2>3. slo = {} /\ \A r \in Mine : client[r] = "answered"
    BY <2>1 DEF Mine
  <2> QED  BY <2>1, <2>2, <2>3 DEF Clients
<1>9. LoopState
  BY <1>1 DEF LoopState
<1> QED  BY <1>3, <1>4, <1>6, <1>7, <1>8, <1>9 DEF IInv

-----------------------------------------------------------------------------
(* The driver.                                                             *)

LEMMA StartSessionKeeps == IInv /\ StartSession => IInv'
<1> SUFFICES ASSUME IInv, StartSession PROVE IInv'
  OBVIOUS
<1> USE DEF StartSession, scheduler, workers
<1>1. /\ fresh = <<>> /\ queue = <<>> /\ held = None /\ charged = {} /\ room = Capacity
      /\ tracked = {} /\ Running = {} /\ finished = {} /\ slo = {}
      /\ \A r \in Mine : client[r] = "answered"
  BY NothingLeft DEF IInv, Clients, LoopState
<1>2. /\ fresh' = <<PollTask, LoopTask>> /\ fresh' \in Seq(Task) /\ fresh' # <<>>
      /\ Range(fresh') = {PollTask, LoopTask} /\ Head(fresh') = PollTask /\ IsInjective(fresh')
  <2>1. fresh' = <<PollTask, LoopTask>>
    BY <1>1 DEF PollTask, LoopTask
  <2>2. PollTask \in Task /\ LoopTask \in Task /\ PollTask # LoopTask
    BY TaskShapes
  <2>3. \A s, p, l : p \in Task /\ l \in Task /\ s = <<p, l>> =>
           /\ s \in Seq(Task) /\ Head(s) = p
           /\ Len(s) = 2 /\ DOMAIN s = 1 .. 2 /\ s[1] = p /\ s[2] = l
    OBVIOUS
  <2>4. /\ fresh' \in Seq(Task) /\ Head(fresh') = PollTask
        /\ Len(fresh') = 2 /\ DOMAIN fresh' = 1 .. 2
        /\ fresh'[1] = PollTask /\ fresh'[2] = LoopTask
    BY <2>1, <2>2, <2>3
  <2>5. fresh' # <<>>
    BY <2>4, EmptySeq
  <2>6. Range(fresh') = {PollTask, LoopTask}
    BY <2>4 DEF Range
  <2>7. IsInjective(fresh')
    BY <2>2, <2>4 DEF IsInjective
  <2> QED  BY <2>1, <2>4, <2>5, <2>6, <2>7
<1>3. PollTask.task = "poll" /\ LoopTask.task = "waiting_loop" /\ PollTask # LoopTask
  BY TaskShapes
<1>4. TypeOK'
  <2>1. TypeOK
    BY DEF IInv
  <2>2. queue' \in Seq(Req)
    BY EmptySeq
  <2>3. room' \in 0 .. Capacity
    BY SessionAssumption
  <2> QED  BY <1>2, <2>1, <2>2, <2>3 DEF TypeOK
<1>5. Entries'
  BY <1>1 DEF IInv, Entries, Waiting
<1>6. Placed'
  <2>1. Running' = {} /\ Reporting' = {}
    BY <1>1, <1>2, <1>3 DEF Running, Reporting
  <2> QED  BY <1>1, <2>1 DEF IInv, Placed
<1>7. Tasks'
  <2>1. \A t \in Range(fresh') : t.task # "finish"
    BY <1>2, <1>3
  <2>2. \A i \in DOMAIN fresh' : fresh'[i] \in Range(fresh')
    BY DEF Range
  <2> QED  BY <1>2, <2>1, <2>2 DEF Tasks
<1>8. Clients'
  <2>1. \A r \in Req : ClientTask(r) \notin Range(fresh') /\ ClientTask(r) \notin Range(fresh)
    BY <1>1, <1>2, <1>3, TaskShapes DEF Range
  <2>2. \A r \in Req : SessionOf[r] > session' => SessionOf[r] > session
    BY SessionType DEF IInv
  <2>3. \A r \in Req : SessionOf[r] < session' => SessionOf[r] < session \/ SessionOf[r] = session
    BY SessionType DEF IInv
  <2> QED  BY <1>1, <2>1, <2>2, <2>3 DEF IInv, Clients, Mine
<1>9. LoopState'
  BY <1>1, <1>2 DEF IInv, LoopState
<1> QED  BY <1>4, <1>5, <1>6, <1>7, <1>8, <1>9 DEF IInv

LEMMA PutKeeps == ASSUME NEW r \in Req PROVE IInv /\ Put(r) => IInv'
<1> SUFFICES ASSUME IInv, Put(r) PROVE IInv'
  OBVIOUS
<1> USE DEF Put, scheduler, workers
<1>1. TypeOK /\ Tasks /\ LoopState /\ Entries /\ Placed /\ Clients
  BY DEF IInv
<1>2. client[r] = "none" /\ r \notin tracked /\ r \notin Range(queue) /\ r # held /\ r \notin charged
  <2>1. client[r] = "none"
    OBVIOUS
  <2>2. r \notin tracked
    BY <1>1, <2>1 DEF Clients
  <2>3. r # None
    BY SessionAssumption
  <2> QED  BY <1>1, <2>1, <2>2, <2>3 DEF Entries, Waiting
<1>3. ClientTask(r) \in Task /\ ClientTask(r).task = "client" /\ ClientTask(r).req = r
  BY TaskShapes
<1>4. fresh' = Append(fresh, ClientTask(r)) /\ ClientTask(r) \notin Range(fresh)
  BY <1>1, <1>2 DEF ClientTask, Clients
<1>5. \A u \in Range(fresh) : u.task = "finish" => r \notin u.reqs
  BY <1>1, <1>2 DEF Placed, Reporting
<1>6. /\ fresh' \in Seq(Task) /\ Tasks' /\ Range(fresh') = Range(fresh) \cup {ClientTask(r)}
      /\ fresh' # <<>> /\ (fresh # <<>> => Head(fresh') = Head(fresh))
  BY <1>1, <1>3, <1>4, <1>5, AppendKeeps
<1>7. queue' \in Seq(Req) /\ Range(queue') = Range(queue) \cup {r} /\ IsInjective(queue')
  BY <1>1, <1>2, PutBack DEF TypeOK, Entries
<1>8. TypeOK'
  BY <1>1, <1>6, <1>7 DEF TypeOK
<1>9. Entries'
  <2>1. Waiting' = Waiting \cup {r}
    BY <1>7 DEF Waiting
  <2> QED  BY <1>1, <1>2, <1>7, <2>1 DEF Entries
<1>10. Placed'
  <2>1. Running' = Running
    BY DEF Running
  <2>2. Reporting' = Reporting
    BY <1>3, <1>6 DEF Reporting
  <2> QED  BY <1>1, <2>1, <2>2 DEF Placed
<1>11. Clients'
  <2>1. \A s \in Req : client'[s] = IF s = r THEN "created" ELSE client[s]
    BY <1>1 DEF TypeOK
  <2>2. \A s \in Req : ClientTask(s) = ClientTask(r) => s = r
    BY TaskShapes
  <2>3. ~(SessionOf[r] > session) /\ ~(SessionOf[r] < session)
    BY <1>1, SessionType DEF Mine
  <2>4. driver' = "put" /\ session' = session
    OBVIOUS
  <2>5. \A s \in Req : client'[s] = "created" <=> ClientTask(s) \in Range(fresh')
    BY <1>1, <1>6, <2>1, <2>2 DEF Clients
  <2>6. \A s \in Req : client'[s] \in {"created", "waiting"} <=> s \in tracked'
    BY <1>1, <2>1 DEF Clients
  <2> QED  BY <1>1, <2>1, <2>3, <2>4, <2>5, <2>6 DEF Clients
<1>12. LoopState'
  <2>1. ClientTask(r) # LoopTask /\ ClientTask(r) # PollTask
    BY TaskShapes
  <2>2. PollTask \in Range(fresh) => fresh # <<>>
    BY DEF Range
  <2> QED  BY <1>1, <1>6, <2>1, <2>2 DEF LoopState
<1> QED  BY <1>6, <1>8, <1>9, <1>10, <1>11, <1>12 DEF IInv

LEMMA ResetKeeps == IInv /\ Reset => IInv'
<1> SUFFICES ASSUME IInv, Reset PROVE IInv'
  OBVIOUS
<1> USE DEF Reset, scheduler
<1>1. TypeOK /\ Tasks /\ LoopState /\ Entries /\ Placed /\ Clients
  BY DEF IInv
<1>2. /\ tracked = {} /\ inFlight = {} /\ charged = {} /\ finished = {}
      /\ Running = {} /\ Reporting = {} /\ Waiting = {}
  BY <1>1, NothingLeft DEF Gathered, Entries
<1>3. TypeOK'
  BY <1>1 DEF TypeOK
<1>4. Entries'
  BY <1>1, <1>2 DEF Entries, Waiting
<1>5. Placed'
  BY <1>1, <1>2 DEF Placed, Running, Reporting
<1>6. Tasks'
  BY <1>1 DEF Tasks
<1>7. Clients'
  BY <1>1, <1>2 DEF Clients, Gathered, Mine
<1>8. LoopState'
  BY <1>1 DEF LoopState
<1> QED  BY <1>1, <1>3, <1>4, <1>5, <1>6, <1>7, <1>8 DEF IInv

LEMMA StopSchedulerKeeps == IInv /\ StopScheduler => IInv'
<1> SUFFICES ASSUME IInv, StopScheduler PROVE IInv'
  OBVIOUS
<1> USE DEF StopScheduler, workers
<1>1. TypeOK /\ Tasks /\ LoopState /\ Entries /\ Placed /\ Clients
  BY DEF IInv
<1>2. TypeOK'
  BY <1>1 DEF TypeOK
<1>3. Entries' /\ Placed' /\ Tasks'
  BY <1>1 DEF Entries, Waiting, Placed, Running, Reporting, Tasks
<1>4. Clients'
  BY <1>1 DEF Clients, Mine
<1>5. LoopState'
  BY <1>1 DEF LoopState
<1> QED  BY <1>2, <1>3, <1>4, <1>5 DEF IInv

LEMMA StopPollingKeeps == IInv /\ StopPolling => IInv'
<1> SUFFICES ASSUME IInv, StopPolling PROVE IInv'
  OBVIOUS
<1> USE DEF StopPolling, scheduler, workers
<1>1. TypeOK /\ Tasks /\ LoopState /\ Entries /\ Placed /\ Clients
  BY DEF IInv
<1>2. fresh = <<>>
  <2>1. \A r \in Mine : client[r] = "answered"
    BY <1>1 DEF Clients
  <2>2. \A t \in Range(fresh) : t = LoopTask \/ t = PollTask
    BY <2>1, NothingLeft
  <2>3. LoopTask \notin Range(fresh) /\ PollTask \notin Range(fresh)
    BY <1>1 DEF LoopState
  <2>4. Range(fresh) = {}
    BY <2>2, <2>3
  <2> QED  BY <1>1, <2>4, HoldsNothing DEF TypeOK
<1>3. fresh' = <<>>
  BY <1>2
<1>4. TypeOK'
  BY <1>1, <1>2, <1>3 DEF TypeOK
<1>5. Entries' /\ Placed' /\ Tasks'
  BY <1>1, <1>2, <1>3 DEF Entries, Waiting, Placed, Running, Reporting, Tasks
<1>6. Clients'
  BY <1>1, <1>2, <1>3 DEF Clients, Mine
<1>7. LoopState'
  BY <1>1, <1>2, <1>3 DEF LoopState
<1> QED  BY <1>4, <1>5, <1>6, <1>7 DEF IInv

-----------------------------------------------------------------------------
(* waiting_loop.                                                           *)

LEMMA LoopStartsKeeps == IInv /\ LoopStarts => IInv'
<1> SUFFICES ASSUME IInv, LoopStarts PROVE IInv'
  OBVIOUS
<1> USE DEF LoopStarts, workers
<1>1. TypeOK /\ Tasks /\ LoopState /\ Entries /\ Placed /\ Clients
  BY DEF IInv
<1>2. Starts(LoopTask) /\ LoopTask.task = "waiting_loop" /\ \A r \in Req : ClientTask(r) # LoopTask
  BY TaskShapes DEF LoopTask
<1>3. /\ fresh' \in Seq(Task) /\ Tasks' /\ LoopTask \in Range(fresh)
      /\ Range(fresh') = Range(fresh) \ {LoopTask} /\ PollTask \notin Range(fresh')
  BY <1>1, <1>2, StartsKeeps
<1>4. TypeOK'
  BY <1>1, <1>3 DEF TypeOK
<1>5. Entries'
  BY <1>1 DEF Entries, Waiting
<1>6. Placed'
  <2>1. Running' = Running /\ Reporting' = Reporting
    BY <1>2, <1>3 DEF Running, Reporting
  <2> QED  BY <1>1, <2>1 DEF Placed
<1>7. Clients'
  BY <1>1, <1>2, <1>3 DEF Clients, Mine
<1>8. LoopState'
  <2>1. fresh # <<>> /\ loop = "created"
    BY <1>1, <1>3 DEF Starts, LoopState
  <2> QED  BY <1>1, <1>3, <2>1 DEF LoopState
<1> QED  BY <1>3, <1>4, <1>5, <1>6, <1>7, <1>8 DEF IInv

(* Nothing waits for the driver once it ends the loop, so the request it   *)
(* would throw away is not there.                                          *)
LEMMA LoopEndsKeeps == IInv /\ LoopEnds => IInv'
<1> SUFFICES ASSUME IInv, LoopEnds PROVE IInv'
  OBVIOUS
<1> USE DEF LoopEnds, workers
<1>1. TypeOK /\ Tasks /\ LoopState /\ Entries /\ Placed /\ Clients
  BY DEF IInv
<1>2. queue = <<>> /\ queue' = <<>>
  <2>1. driver # "put"
    BY <1>1 DEF LoopState
  <2>2. \A r \in Mine : client[r] = "answered"
    BY <1>1, <2>1 DEF Clients
  <2> QED  BY <2>2, NothingLeft
<1>3. TypeOK'
  BY <1>1, <1>2 DEF TypeOK
<1>4. Entries' /\ Placed' /\ Tasks'
  BY <1>1, <1>2 DEF Entries, Waiting, Placed, Running, Reporting, Tasks
<1>5. Clients'
  BY <1>1 DEF Clients, Mine
<1>6. LoopState'
  BY <1>1 DEF LoopState
<1> QED  BY <1>3, <1>4, <1>5, <1>6 DEF IInv

(* A request the loop holds is charged and runs, or stays as it was.       *)
LEMMA PlacingKeeps ==
  ASSUME TypeOK, Placed, NEW r \in Req, r \notin charged, TryToPlace(r),
         fresh' = fresh, finished' = finished
  PROVE  /\ Placed' /\ room' \in 0 .. Capacity /\ left' \in [Req -> Nat]
         /\ \/ loop' = "parked" /\ held' = r /\ charged' = charged
            \/ loop' = "getting" /\ held' = None /\ charged' = charged \cup {r}
<1>1. /\ left \in [Req -> Nat] /\ room \in 0 .. Capacity /\ Capacity \in Nat
      /\ NumTokens[r] \in Nat \ {0}
  BY SessionAssumption DEF TypeOK
<1>2. Reporting' = Reporting
  BY DEF Reporting
<1>3. CASE room = 0
  <2>1. /\ loop' = "parked" /\ held' = r
        /\ room' = room /\ charged' = charged /\ left' = left
    BY <1>3 DEF TryToPlace
  <2>2. Running' = Running
    BY <2>1 DEF Running
  <2> QED  BY <1>1, <1>2, <2>1, <2>2 DEF Placed
<1>4. CASE room # 0
  <2>1. /\ loop' = "getting" /\ held' = None
        /\ room' = room - 1 /\ charged' = charged \cup {r}
        /\ left' = [left EXCEPT ![r] = NumTokens[r]]
    BY <1>4 DEF TryToPlace
  <2>2. left' \in [Req -> Nat] /\ room' \in 0 .. Capacity
    BY <1>1, <1>4, <2>1
  <2>3. Running' = Running \cup {r}
    BY <1>1, <2>1 DEF Running
  <2>4. IsFiniteSet(charged') /\ Cardinality(charged') = Cardinality(charged) + 1
    BY <2>1, FS_AddElement DEF Placed
  <2>5. Cardinality(charged) \in Nat
    BY FS_CardinalityType DEF Placed
  <2>6. room' + Cardinality(charged') = Capacity
    BY <1>1, <2>1, <2>4, <2>5 DEF Placed
  <2>7. Placed'
    BY <1>2, <2>1, <2>3, <2>4, <2>6 DEF Placed
  <2> QED  BY <2>1, <2>2, <2>7
<1> QED  BY <1>3, <1>4

LEMMA TakeRequestKeeps == IInv /\ TakeRequest => IInv'
<1> SUFFICES ASSUME IInv, TakeRequest PROVE IInv'
  OBVIOUS
<1> DEFINE r == Head(queue)
<1> USE DEF TakeRequest
<1>1. TypeOK /\ Tasks /\ LoopState /\ Entries /\ Placed /\ Clients
  BY DEF IInv
<1>2. held = None
  BY <1>1 DEF LoopState
<1>3. /\ r \in Range(queue) /\ Range(queue') = Range(queue) \ {r} /\ IsInjective(queue')
      /\ queue' \in Seq(Req) /\ r \in Req
  BY <1>1, TakeHead, HeadTailProperties DEF TypeOK, Entries
<1>4. r \notin charged /\ r # None
  BY <1>1, <1>3, SessionAssumption DEF Entries, Waiting
<1>5. /\ Placed' /\ room' \in 0 .. Capacity /\ left' \in [Req -> Nat]
      /\ \/ loop' = "parked" /\ held' = r /\ charged' = charged
         \/ loop' = "getting" /\ held' = None /\ charged' = charged \cup {r}
  BY <1>1, <1>3, <1>4, PlacingKeeps
<1> HIDE DEF r
<1>6. TypeOK'
  BY <1>1, <1>3, <1>5 DEF TypeOK
<1>7. Entries'
  <2>1. held' \notin Range(queue')
    BY <1>3, <1>5, RangeOfSeq, SessionAssumption
  <2>2. Waiting' \cup charged' = Waiting \cup charged /\ Waiting' \cap charged' = {}
    BY <1>1, <1>2, <1>3, <1>4, <1>5 DEF Waiting, Entries
  <2> QED  BY <1>1, <1>3, <2>1, <2>2 DEF Entries
<1>8. Tasks'
  BY <1>1 DEF Tasks
<1>9. Clients'
  BY <1>1 DEF Clients, Mine
<1>10. LoopState'
  BY <1>1, <1>4, <1>5 DEF LoopState
<1> QED  BY <1>1, <1>5, <1>6, <1>7, <1>8, <1>9, <1>10 DEF IInv

LEMMA RetryHeldKeeps == IInv /\ RetryHeld => IInv'
<1> SUFFICES ASSUME IInv, RetryHeld PROVE IInv'
  OBVIOUS
<1> USE DEF RetryHeld
<1>1. TypeOK /\ Tasks /\ LoopState /\ Entries /\ Placed /\ Clients
  BY DEF IInv
<1>2. held \in Req /\ held # None
  BY <1>1 DEF LoopState, TypeOK
<1>3. held \notin charged /\ held \notin Range(queue)
  BY <1>1, <1>2 DEF Entries, Waiting
<1>4. /\ Placed' /\ room' \in 0 .. Capacity /\ left' \in [Req -> Nat]
      /\ \/ loop' = "parked" /\ held' = held /\ charged' = charged
         \/ loop' = "getting" /\ held' = None /\ charged' = charged \cup {held}
  BY <1>1, <1>2, <1>3, PlacingKeeps
<1>5. TypeOK'
  <2>1. held' \in Req \cup {None} /\ charged' \subseteq Req /\ loop' \in {"parked", "getting"}
    BY <1>1, <1>2, <1>4 DEF TypeOK
  <2> QED  BY <1>1, <1>4, <2>1 DEF TypeOK
<1>6. Entries'
  <2>1. None \notin Range(queue)
    BY <1>1, RangeOfSeq, SessionAssumption DEF TypeOK
  <2>2. Waiting' \cup charged' = Waiting \cup charged /\ Waiting' \cap charged' = {}
    BY <1>1, <1>2, <1>3, <1>4 DEF Waiting, Entries
  <2> QED  BY <1>1, <1>3, <1>4, <2>1, <2>2 DEF Entries
<1>7. Tasks'
  BY <1>1 DEF Tasks
<1>8. Clients'
  BY <1>1 DEF Clients, Mine
<1>9. LoopState'
  BY <1>1, <1>2, <1>4 DEF LoopState
<1> QED  BY <1>1, <1>4, <1>5, <1>6, <1>7, <1>8, <1>9 DEF IInv

-----------------------------------------------------------------------------
(* The clients, polling and reporting.                                     *)

LEMMA PollStartsKeeps == IInv /\ PollStarts => IInv'
<1> SUFFICES ASSUME IInv, PollStarts PROVE IInv'
  OBVIOUS
<1> USE DEF PollStarts, scheduler, workers
<1>1. TypeOK /\ Tasks /\ LoopState /\ Entries /\ Placed /\ Clients
  BY DEF IInv
<1>2. /\ Starts(PollTask) /\ PollTask.task = "poll" /\ LoopTask # PollTask
      /\ \A r \in Req : ClientTask(r) # PollTask
  BY TaskShapes DEF PollTask
<1>3. /\ fresh' \in Seq(Task) /\ Tasks' /\ PollTask \in Range(fresh)
      /\ Range(fresh') = Range(fresh) \ {PollTask} /\ PollTask \notin Range(fresh')
  BY <1>1, <1>2, StartsKeeps
<1>4. TypeOK'
  BY <1>1, <1>3 DEF TypeOK
<1>5. Entries'
  BY <1>1 DEF Entries, Waiting
<1>6. Placed'
  <2>1. Running' = Running /\ Reporting' = Reporting
    BY <1>2, <1>3 DEF Running, Reporting
  <2> QED  BY <1>1, <2>1 DEF Placed
<1>7. Clients'
  BY <1>1, <1>2, <1>3 DEF Clients, Mine
<1>8. LoopState'
  <2>1. fresh # <<>>
    BY <1>2 DEF Starts
  <2> QED  BY <1>1, <1>2, <1>3, <2>1 DEF LoopState
<1> QED  BY <1>3, <1>4, <1>5, <1>6, <1>7, <1>8, <1>1 DEF IInv

LEMMA PollKeeps == IInv /\ Poll => IInv'
<1> SUFFICES ASSUME IInv, Poll PROVE IInv'
  OBVIOUS
<1> USE DEF Poll, Fetch, scheduler
<1>1. TypeOK /\ Tasks /\ LoopState /\ Entries /\ Placed /\ Clients
  BY DEF IInv
<1>2. finished \subseteq Req /\ finished # {} /\ driver = "put"
  <2>1. driver # "put" => \A r \in Mine : client[r] = "answered"
    BY <1>1 DEF Clients
  <2> QED  BY <1>1, <2>1, NothingLeft DEF TypeOK
<1> DEFINE new == FinishTask(finished)
<1>3. new \in Task /\ new.task = "finish" /\ new.reqs = finished
  BY <1>2, TaskShapes
<1>4. \A u \in Range(fresh) : u.task = "finish" => new.reqs \cap u.reqs = {}
  BY <1>1, <1>2, <1>3 DEF Placed, Reporting
<1>5. new \notin Range(fresh)
  BY <1>2, <1>3, <1>4
<1>6. fresh' = Append(fresh, new)
  BY DEF FinishTask
<1> HIDE DEF new
<1>7. /\ fresh' \in Seq(Task) /\ Tasks' /\ Range(fresh') = Range(fresh) \cup {new}
      /\ fresh' # <<>> /\ (fresh # <<>> => Head(fresh') = Head(fresh))
  BY <1>1, <1>2, <1>3, <1>4, <1>5, <1>6, AppendKeeps
<1>8. TypeOK'
  BY <1>1, <1>7 DEF TypeOK
<1>9. Entries'
  BY <1>1 DEF Entries, Waiting
<1>10. Placed'
  <2>1. Running' = Running
    BY DEF Running
  <2>2. Reporting' = Reporting \cup finished
    BY <1>2, <1>3, <1>7 DEF Reporting
  <2> QED  BY <1>1, <2>1, <2>2 DEF Placed
<1>11. \A r \in Req : ClientTask(r) # new /\ LoopTask # new /\ PollTask # new
  BY <1>3, TaskShapes
<1>12. Clients'
  BY <1>1, <1>2, <1>7, <1>11 DEF Clients, Mine
<1>13. LoopState'
  <2>1. LoopTask # new /\ PollTask # new
    BY <1>3, TaskShapes
  <2>2. PollTask \in Range(fresh) => fresh # <<>>
    BY DEF Range
  <2> QED  BY <1>1, <1>2, <1>7, <2>1, <2>2 DEF LoopState
<1> QED  BY <1>7, <1>8, <1>9, <1>10, <1>12, <1>13, <1>1 DEF IInv

LEMMA ClientStartsKeeps == ASSUME NEW r \in Req PROVE IInv /\ ClientStarts(r) => IInv'
<1> SUFFICES ASSUME IInv, ClientStarts(r) PROVE IInv'
  OBVIOUS
<1> USE DEF ClientStarts, scheduler, workers
<1>1. TypeOK /\ Tasks /\ LoopState /\ Entries /\ Placed /\ Clients
  BY DEF IInv
<1>2. /\ Starts(ClientTask(r)) /\ ClientTask(r).task = "client"
      /\ LoopTask # ClientTask(r) /\ \A s \in Req : ClientTask(s) = ClientTask(r) => s = r
  BY TaskShapes DEF ClientTask
<1>3. /\ fresh' \in Seq(Task) /\ Tasks' /\ ClientTask(r) \in Range(fresh)
      /\ Range(fresh') = Range(fresh) \ {ClientTask(r)} /\ PollTask \notin Range(fresh')
  BY <1>1, <1>2, StartsKeeps
<1>4. client[r] = "created" /\ \A s \in Req : client'[s] = IF s = r THEN "waiting" ELSE client[s]
  BY <1>1, <1>3 DEF Clients, TypeOK
<1>5. TypeOK'
  BY <1>1, <1>3 DEF TypeOK
<1>6. Entries'
  BY <1>1 DEF Entries, Waiting
<1>7. Placed'
  <2>1. Running' = Running /\ Reporting' = Reporting
    BY <1>2, <1>3 DEF Running, Reporting
  <2> QED  BY <1>1, <2>1 DEF Placed
<1>8. Clients'
  <2>1. \A s \in Req : client'[s] = "created" <=> ClientTask(s) \in Range(fresh')
    BY <1>1, <1>2, <1>3, <1>4 DEF Clients
  <2>2. \A s \in Req : client[s] \in {"none", "answered"} => client'[s] = client[s]
    BY <1>4
  <2>3. \A s \in Req : client'[s] \in {"created", "waiting"} <=> s \in tracked'
    BY <1>1, <1>4 DEF Clients
  <2> QED  BY <1>1, <1>4, <2>1, <2>2, <2>3 DEF Clients, Mine
<1>9. LoopState'
  <2>1. fresh # <<>>
    BY <1>2 DEF Starts
  <2> QED  BY <1>1, <1>2, <1>3, <2>1 DEF LoopState
<1> QED  BY <1>1, <1>3, <1>5, <1>6, <1>7, <1>8, <1>9 DEF IInv

LEMMA ClientReturnsKeeps == ASSUME NEW r \in Req PROVE IInv /\ ClientReturns(r) => IInv'
<1> SUFFICES ASSUME IInv, ClientReturns(r) PROVE IInv'
  OBVIOUS
<1> USE DEF ClientReturns, scheduler, workers
<1>1. TypeOK /\ Tasks /\ LoopState /\ Entries /\ Placed /\ Clients
  BY DEF IInv
<1>2. \A s \in Req : client'[s] = IF s = r THEN "answered" ELSE client[s]
  BY <1>1 DEF TypeOK
<1>3. TypeOK'
  BY <1>1 DEF TypeOK
<1>4. Entries' /\ Placed' /\ Tasks'
  BY <1>1 DEF Entries, Waiting, Placed, Running, Reporting, Tasks
<1>5. Clients'
  BY <1>1, <1>2 DEF Clients, Mine
<1>6. LoopState'
  BY <1>1 DEF LoopState
<1> QED  BY <1>1, <1>3, <1>4, <1>5, <1>6 DEF IInv

LEMMA FinishKeeps == ASSUME NEW reqs \in SUBSET Req PROVE IInv /\ Finish(reqs) => IInv'
<1> SUFFICES ASSUME IInv, Finish(reqs) PROVE IInv'
  OBVIOUS
<1> USE DEF workers
<1> DEFINE t == FinishTask(reqs)
<1>1. TypeOK /\ Tasks /\ LoopState /\ Entries /\ Placed /\ Clients
  BY DEF IInv
<1>2. /\ Starts(t) /\ t \in Task /\ t.task = "finish" /\ t.reqs = reqs
      /\ LoopTask # t /\ PollTask # t /\ \A s \in Req : ClientTask(s) # t
  BY TaskShapes DEF Finish, FinishTask
<1> HIDE DEF t
<1>3. /\ fresh' \in Seq(Task) /\ Tasks' /\ t \in Range(fresh)
      /\ Range(fresh') = Range(fresh) \ {t} /\ PollTask \notin Range(fresh')
  BY <1>1, <1>2, StartsKeeps
<1>4. \A u \in Range(fresh) : t.task = "finish" /\ u.task = "client" => u.req \notin t.reqs
  BY <1>1, <1>2, StartsKeeps
<1>5. reqs \subseteq Reporting /\ reqs \subseteq charged /\ reqs \subseteq tracked /\ reqs \cap Waiting = {}
  BY <1>1, <1>2, <1>3 DEF Reporting, Placed, Entries
<1>6. \A r \in reqs : client[r] = "waiting"
  <2> SUFFICES ASSUME NEW r \in reqs PROVE client[r] = "waiting"
    OBVIOUS
  <2>1. ClientTask(r).task = "client" /\ ClientTask(r).req = r
    BY TaskShapes
  <2>2. ClientTask(r) \notin Range(fresh)
    BY <1>2, <1>4, <2>1
  <2> QED  BY <1>1, <1>5, <2>2 DEF Clients
<1>7. driver = "put"
  <2>1. driver # "put" => \A r \in Mine : client[r] = "answered"
    BY <1>1 DEF Clients
  <2>2. driver # "put" => Reporting = {}
    BY <2>1, NothingLeft
  <2>3. reqs # {}
    BY <1>1, <1>2, <1>3 DEF Tasks
  <2> QED  BY <1>5, <2>2, <2>3
<1>8. /\ inFlight' = inFlight \ reqs /\ tracked' = tracked \ reqs /\ charged' = charged \ reqs
      /\ room' = room + Cardinality(reqs) /\ schEvent' = TRUE /\ broken' = broken
      /\ client' = [r \in Req |-> IF r \in reqs THEN "notified" ELSE client[r]]
      /\ UNCHANGED <<session, driver, queue, loop, held, endEvent, polling, left, slo, finished>>
  <2>1. reqs \subseteq inFlight \cap charged \cap tracked
    BY <1>1, <1>5 DEF Entries
  <2>2. Notified(reqs) = reqs
    BY <1>6 DEF Notified
  <2> QED  BY <2>1, <2>2 DEF Finish, DelSeqs
<1>9. \A r \in Req : client'[r] = IF r \in reqs THEN "notified" ELSE client[r]
  BY <1>8
<1>10. /\ IsFiniteSet(charged') /\ room' \in 0 .. Capacity /\ room' + Cardinality(charged') = Capacity
  <2>1. IsFiniteSet(charged) /\ IsFiniteSet(reqs) /\ charged = charged' \cup reqs
    BY <1>1, <1>5, <1>8, FS_Subset DEF Placed
  <2>2. IsFiniteSet(charged') /\ charged' \cap reqs = {}
    BY <1>8, <2>1, FS_Subset
  <2>3. Cardinality(charged') \in Nat /\ Cardinality(reqs) \in Nat
    BY <2>1, <2>2, FS_CardinalityType
  <2>4. Cardinality(charged) = Cardinality(charged') + Cardinality(reqs)
    <3>1. Cardinality(charged' \cup reqs)
            = Cardinality(charged') + Cardinality(reqs) - Cardinality(charged' \cap reqs)
      BY <2>1, <2>2, FS_Union
    <3>2. Cardinality(charged' \cap reqs) = 0
      BY <2>2, FS_EmptySet
    <3> QED  BY <2>1, <2>3, <3>1, <3>2
  <2>5. room \in Nat /\ Capacity \in Nat /\ room + Cardinality(charged) = Capacity
    BY <1>1, SessionAssumption DEF TypeOK, Placed
  <2>6. room' + Cardinality(charged') = Capacity /\ room' \in 0 .. Capacity
    BY <1>8, <2>3, <2>4, <2>5
  <2> QED  BY <2>2, <2>6
<1>11. TypeOK'
  <2>1. inFlight' \subseteq Req /\ tracked' \subseteq Req /\ charged' \subseteq Req
    BY <1>1, <1>8 DEF TypeOK
  <2>2. client' \in [Req -> {"none", "created", "waiting", "notified", "answered"}]
    BY <1>1, <1>8 DEF TypeOK
  <2>3. schEvent' \in BOOLEAN
    BY <1>8
  <2> QED  BY <1>1, <1>3, <1>8, <1>10, <2>1, <2>2, <2>3 DEF TypeOK
<1>12. Entries'
  BY <1>1, <1>5, <1>8 DEF Entries, Waiting
<1>13. Placed'
  <2>1. Running' = Running /\ finished' = finished
    BY <1>8 DEF Running
  <2>2. Reporting' = Reporting \ reqs
    BY <1>1, <1>2, <1>3 DEF Reporting, Tasks
  <2> QED  BY <1>1, <1>5, <1>8, <1>10, <2>1, <2>2 DEF Placed
<1>14. Clients'
  <2>1. \A s \in Req : client'[s] = "created" <=> ClientTask(s) \in Range(fresh')
    BY <1>1, <1>2, <1>3, <1>6, <1>9 DEF Clients
  <2>2. \A s \in Req : client'[s] \in {"created", "waiting"} <=> s \in tracked'
    BY <1>1, <1>8, <1>9 DEF Clients
  <2> QED  BY <1>1, <1>6, <1>7, <1>8, <1>9, <2>1, <2>2 DEF Clients
<1>15. LoopState'
  <2>1. fresh # <<>>
    BY <1>2 DEF Starts
  <2> QED  BY <1>1, <1>2, <1>3, <1>8, <2>1 DEF LoopState
<1> QED  BY <1>1, <1>3, <1>8, <1>11, <1>12, <1>13, <1>14, <1>15 DEF IInv

LEMMA TokenKeeps == ASSUME NEW r \in Req PROVE IInv /\ Token(r) => IInv'
<1> SUFFICES ASSUME IInv, Token(r) PROVE IInv'
  OBVIOUS
<1> USE DEF Token, scheduler
<1>1. TypeOK /\ Tasks /\ LoopState /\ Entries /\ Placed /\ Clients
  BY DEF IInv
<1>2. left \in [Req -> Nat] /\ left[r] \in Nat \ {0} /\ r \in Running
  BY <1>1 DEF TypeOK, Running
<1>3. driver = "put"
  <2>1. driver # "put" => \A s \in Mine : client[s] = "answered"
    BY <1>1 DEF Clients
  <2> QED  BY <1>2, <2>1, NothingLeft
<1>4. left' \in [Req -> Nat] /\ \A s \in Req : left'[s] = IF s = r THEN left[r] - 1 ELSE left[s]
  BY <1>2
<1>5. TypeOK'
  BY <1>1, <1>4 DEF TypeOK
<1>6. Entries'
  BY <1>1 DEF Entries, Waiting
<1>7. Placed'
  <2>1. Reporting' = Reporting
    BY DEF Reporting
  <2>2. CASE left[r] = 1
    <3>1. Running' = Running \ {r} /\ finished' = finished \cup {r}
      BY <1>2, <1>4, <2>2 DEF Running
    <3> QED  BY <1>1, <1>2, <2>1, <3>1 DEF Placed
  <2>3. CASE left[r] # 1
    <3>1. Running' = Running /\ finished' = finished
      BY <1>2, <1>4, <2>3 DEF Running
    <3> QED  BY <1>1, <2>1, <3>1 DEF Placed
  <2> QED  BY <2>2, <2>3
<1>8. Tasks'
  BY <1>1 DEF Tasks
<1>9. Clients'
  BY <1>1, <1>3 DEF Clients, Mine
<1>10. LoopState'
  BY <1>1 DEF LoopState
<1> QED  BY <1>1, <1>5, <1>6, <1>7, <1>8, <1>9, <1>10 DEF IInv

-----------------------------------------------------------------------------
LEMMA StepIInv == IInv /\ [Next]_vars => IInv'
<1> SUFFICES ASSUME IInv, [Next]_vars PROVE IInv'
  OBVIOUS
<1>1. CASE Driver
  BY <1>1, StartSessionKeeps, PutKeeps, ResetKeeps, StopSchedulerKeeps, StopPollingKeeps DEF Driver
<1>2. CASE WaitingLoop
  BY <1>2, LoopStartsKeeps, LoopEndsKeeps, TakeRequestKeeps, RetryHeldKeeps DEF WaitingLoop
<1>3. CASE PollStarts \/ Poll
  BY <1>3, PollStartsKeeps, PollKeeps
<1>4. CASE \E r \in Req : ClientStarts(r) \/ ClientReturns(r) \/ Token(r)
  BY <1>4, ClientStartsKeeps, ClientReturnsKeeps, TokenKeeps
<1>5. CASE \E reqs \in SUBSET Req : Finish(reqs)
  BY <1>5, FinishKeeps
<1>6. CASE UNCHANGED vars
  <2> USE <1>6 DEF IInv, vars, scheduler, workers
  <2>1. TypeOK' /\ broken' = {}
    BY DEF TypeOK
  <2>2. Entries' /\ Placed' /\ Tasks'
    BY DEF Entries, Waiting, Placed, Running, Reporting, Tasks
  <2>3. Clients' /\ LoopState'
    BY DEF Clients, Mine, LoopState
  <2> QED  BY <2>1, <2>2, <2>3
<1> QED  BY <1>1, <1>2, <1>3, <1>4, <1>5, <1>6 DEF Next

(* Whatever the number of sessions, requests and places: every request is  *)
(* in one place of the controller, and the tasks not yet started are in    *)
(* the order that put, start_polling_results and poll_finished_results     *)
(* created them.                                                           *)
THEOREM Invariance == Spec => []IInv
<1>1. Init => IInv
  BY InitIInv
<1>2. IInv /\ [Next]_vars => IInv'
  BY StepIInv
<1> QED  BY <1>1, <1>2, PTL DEF Spec

(* A result that arrives finds its entries in in_flight_reqs,              *)
(* request_results and seq_ranks: process_finished_results never ends with *)
(* a KeyError, and what is charged is what del_seq will give back.         *)
THEOREM Expected == Spec => []ResultsAreExpected
<1>1. IInv => ResultsAreExpected
  <2> SUFFICES ASSUME IInv PROVE ResultsAreExpected
    OBVIOUS
  <2>1. TypeOK /\ broken = {} /\ room + Cardinality(charged) = Capacity
    BY DEF IInv, Placed
  <2>2. charged \subseteq inFlight \cap tracked \cap charged
    BY DEF IInv, Entries
  <2>3. UNION {fresh[i].reqs : i \in {j \in DOMAIN fresh : fresh[j].task = "finish"}} \subseteq Reporting
    <3> SUFFICES ASSUME NEW i \in DOMAIN fresh, fresh[i].task = "finish", NEW r \in fresh[i].reqs
                 PROVE  r \in Reporting
      OBVIOUS
    <3>1. fresh[i] \in Range(fresh)
      BY DEF Range
    <3>2. fresh[i] \in Task
      BY <2>1, <3>1, RangeOfSeq DEF TypeOK
    <3>3. fresh[i].reqs \in SUBSET Req
      BY <3>2, TaskShapes
    <3> QED  BY <3>1, <3>3 DEF Reporting
  <2>4. Unreported \subseteq charged
    BY <2>3 DEF IInv, Placed, Running, Unreported
  <2> QED  BY <2>1, <2>2, <2>4 DEF ResultsAreExpected
<1> QED  BY <1>1, Invariance, PTL

(* A client that has asked for its result is known to the controller until *)
(* it is notified: AsyncResult.put never comes before the get.             *)
THEOREM NotMissed == Spec => []NoResultMissed
<1>1. IInv => NoResultMissed
  BY DEF IInv, Clients, NoResultMissed
<1> QED  BY <1>1, Invariance, PTL

(* Between two sessions nothing of the last one is left in the controller, *)
(* the scheduler, the detokenizer or among the tasks, though start does    *)
(* not clear seq_ranks.                                                    *)
THEOREM Clean == Spec => []SessionsAreClean
<1>1. IInv => SessionsAreClean
  <2> SUFFICES ASSUME IInv, driver = "idle"
               PROVE  /\ queue = <<>> /\ held = None /\ charged = {} /\ fresh = <<>>
                      /\ inFlight = {} /\ tracked = {} /\ slo = {}
    BY DEF SessionsAreClean
  <2>1. slo = {} /\ \A r \in Mine : client[r] = "answered"
    BY DEF IInv, Clients
  <2>2. fresh = <<>>
    BY DEF IInv, LoopState
  <2> QED  BY <2>1, <2>2, NothingLeft
<1> QED  BY <1>1, Invariance, PTL
=============================================================================
