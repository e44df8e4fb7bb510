------------------------------- MODULE Placement -------------------------------
(***************************************************************************)
(* How a cluster is laid out and started: the placement strategies of      *)
(* utils/placement.py, the expert allocation file of the serving script,   *)
(* Controller.init_engine, and the channel tables the dispatchers build    *)
(* from what they are handed.                                              *)
(*                                                                         *)
(* A worker is its device id, a channel the worker it leads to.  Start-up  *)
(* runs one phase after another over all workers, as the controller waits  *)
(* for every worker between them; a failed assertion or look-up anywhere   *)
(* ends it.  Where a table entry is overwritten in the order of the edges, *)
(* the model keeps all candidates.                                         *)
(***************************************************************************)
EXTENDS Integers, Sequences, FiniteSets, Functions, Totals

CONSTANTS NumLayers, NumExperts,
          Setups \* [strategy, gpus, tp, ep, dp, p, q, zigzag, entries]

ASSUME PlacementAssumption ==
  /\ NumLayers \in Nat \ {0} /\ NumExperts \in Nat \ {0}
  /\ \A s \in Setups :
       /\ s.strategy \in {"single", "interleave", "pipeline", "colocate"}
       /\ {s.gpus, s.tp, s.ep, s.dp, s.p, s.q} \subseteq Nat \ {0}
       /\ s.zigzag \in BOOLEAN /\ s.entries \in Seq(Nat \X Nat)

NoFile == <<>>  \* no expert_allocation_path
Layers  == 0 .. NumLayers - 1
Experts == 0 .. NumExperts - 1

VARIABLES
  cfg,       \* the command line
  pc,        \* "resolve", "solve", "setup", "core", "up" or "failed"
  alloc,     \* expert_allocation: experts of each device, or NoFile
  attn,      \* ModelPlacement.attn: layers of each attention worker
  expert,    \* ModelPlacement.expert: <<layer, expert>> of each expert worker
  groups,    \* ModelPlacement.device_groups
  tokenizer  \* the tokenizer socket each worker reads

place == <<attn, expert, groups>>
startUp == <<cfg, pc, alloc, place, tokenizer>>

Nobody == [d \in {} |-> 0]
Devices == 0 .. cfg.gpus - 1
PerRank == NumExperts \div cfg.ep   \* num_experts_per_rank
Hybrid  == cfg.strategy = "colocate"

StartUpInit ==
  /\ cfg \in Setups /\ pc = "resolve" /\ alloc = NoFile
  /\ attn = Nobody /\ expert = Nobody /\ groups = Nobody
  /\ tokenizer = Nobody

Fail == pc' = "failed" /\ UNCHANGED <<cfg, alloc, place, tokenizer>>

-----------------------------------------------------------------------------
(* resolve_expert_allocation: entries <<device, experts>> of the file are  *)
(* added up by device and must make up the model's experts.                *)

Allocated(d) ==
  Total([i \in DOMAIN cfg.entries |-> cfg.entries[i][2]],
        {i \in DOMAIN cfg.entries : cfg.entries[i][1] = d})

Allocation == [i \in 1 .. cfg.gpus |-> Allocated(i - 1)]

FileAddsUp ==
  /\ \A i \in DOMAIN cfg.entries : cfg.entries[i][1] \in Devices
  /\ Total(Allocation, 1 .. cfg.gpus) = NumExperts

Resolve ==
  /\ pc = "resolve"
  /\ \/ /\ cfg.entries = NoFile
        /\ pc' = "solve" /\ UNCHANGED <<cfg, alloc, place, tokenizer>>
     \/ /\ cfg.entries # NoFile /\ FileAddsUp
        /\ alloc' = Allocation
        /\ pc' = "solve" /\ UNCHANGED <<cfg, place, tokenizer>>
     \/ /\ cfg.entries # NoFile /\ ~FileAddsUp
        /\ Fail

-----------------------------------------------------------------------------
(* The strategies: the layers of each attention worker, the layers and     *)
(* experts of each expert worker, and the device groups.                   *)

(* Groups of tp attention workers followed by ep expert workers; the       *)
(* layers go around the groups.                                            *)
GroupSize == cfg.ep + cfg.tp

Interleaved ==
  LET attnD  == {d \in Devices : d % GroupSize < cfg.tp}
      at(d)  == {l \in Layers : l % (cfg.gpus \div GroupSize) = d \div GroupSize}
  IN  [attn   |-> [d \in attnD |-> at(d)],
       expert |-> [d \in Devices \ attnD |->
                     {x \in at(d) \X Experts : x[2] \div PerRank = (d % GroupSize) - cfg.tp}],
       groups |-> [d \in attnD |-> [i \in 1 .. cfg.tp |-> d - (d % GroupSize) + i - 1]]]

(* p stages of attention workers, dp groups of tp in each, then q stages   *)
(* of ep expert workers.                                                   *)
NumAttn == cfg.p * cfg.tp * cfg.dp
NumUsed == NumAttn + cfg.q * cfg.ep

AttnStage(l) == IF cfg.zigzag THEN l % cfg.p ELSE l \div (NumLayers \div cfg.p)
ExpertWorker(x) == NumAttn + (x[1] % cfg.q) * cfg.ep + x[2] \div PerRank

Pipelined ==
  [attn   |-> [d \in 0 .. NumAttn - 1 |->
                 {l \in Layers : d % cfg.tp = 0 /\ AttnStage(l) = d \div (cfg.dp * cfg.tp)}],
   expert |-> [d \in NumAttn .. NumUsed - 1 |->
                 {x \in Layers \X Experts : ExpertWorker(x) = d}],
   groups |-> [i \in 0 .. cfg.p * cfg.dp - 1 |-> [k \in 1 .. cfg.tp |-> i * cfg.tp + k - 1]]]

(* Every worker has all attention layers and a share of the experts.       *)
(* get_model_placement hands the allocation to this strategy only.         *)
ByFile == Hybrid /\ alloc # NoFile

ExpertsBefore(d) == Total(alloc, 1 .. d)

Host(e) ==
  IF ByFile THEN CHOOSE d \in Devices : ExpertsBefore(d) <= e /\ e < ExpertsBefore(d + 1)
  ELSE e \div PerRank

Colocated ==
  [attn   |-> [d \in Devices |-> Layers],
   expert |-> [d \in Devices |-> {x \in Layers \X Experts : Host(x[2]) = d}],
   groups |-> [d \in Devices |-> <<d>>]]

(* The assertions and look-ups of the strategy succeed; those of "single", *)
(* which checks edges that are only added later, never do.                 *)
Solvable ==
  \/ /\ cfg.strategy = "interleave"
     /\ cfg.gpus % GroupSize = 0 /\ NumExperts <= cfg.ep * PerRank
  \/ /\ cfg.strategy = "pipeline"
     /\ cfg.gpus >= NumUsed /\ PerRank > 0
     /\ cfg.zigzag \/ cfg.p <= NumLayers
     /\ \A l \in Layers : AttnStage(l) < cfg.p
     /\ \A x \in Layers \X Experts : ExpertWorker(x) < NumUsed
  \/ /\ cfg.strategy = "colocate"
     /\ ByFile \/ PerRank > 0
     /\ \A e \in Experts : Host(e) \in Devices

Layout == CASE cfg.strategy = "interleave" -> Interleaved
            [] cfg.strategy = "pipeline"   -> Pipelined
            [] cfg.strategy = "colocate"   -> Colocated

Solve ==
  /\ pc = "solve"
  /\ \/ /\ ~Solvable
        /\ Fail
     \/ /\ Solvable
        /\ attn' = Layout.attn /\ expert' = Layout.expert /\ groups' = Layout.groups
        /\ pc' = "setup"
        /\ UNCHANGED <<cfg, alloc, tokenizer>>

-----------------------------------------------------------------------------
(* _add_edges, _update_expert_rank, _update_attn_dp_rank.                  *)

AttnAt(l)   == {d \in DOMAIN attn : l \in attn[d]}
ExpertAt(l) == {d \in DOMAIN expert : \E e \in Experts : <<l, e>> \in expert[d]}
NextLayer(l) == (l + 1) % NumLayers

Out(d) == UNION {    (IF d \in AttnAt(l) THEN ExpertAt(l) ELSE {})
                \cup (IF d \in ExpertAt(l) THEN AttnAt(NextLayer(l)) ELSE {}) : l \in Layers}

(* Mutant: the allocation is not taken into account.                       *)
ExpertRank_Uniform(x) == x[2] \div PerRank

ExpertRank(x) == IF ByFile THEN CHOOSE d \in DOMAIN expert : x \in expert[d]
                 ELSE x[2] \div PerRank

(* Mutant: the rank of the base class is not overridden.                   *)
AttnDpRank_Default(d) == 0

AttnDpRank(d) == IF d \notin DOMAIN attn THEN 0
                 ELSE CASE cfg.strategy = "interleave" -> 0
                        [] cfg.strategy = "pipeline"   -> (d \div cfg.tp) % cfg.dp
                        [] cfg.strategy = "colocate"   -> d

-----------------------------------------------------------------------------
(* setup_engine on every worker: its rank, and the tokenizer it reads.     *)

HasAttn(d) == d \in DOMAIN attn
RanksOf(d) == {ExpertRank(x) : x \in expert[d]}

(* ModelPlacement.rank_at finds a rank.                                    *)
HasRank(d) ==
  IF d \in DOMAIN expert THEN Cardinality(RanksOf(d)) = 1
  ELSE HasAttn(d) /\ d \in DOMAIN groups

RankAt(d) ==
  IF d \in DOMAIN expert THEN CHOOSE r \in RanksOf(d) : TRUE
  ELSE IF d \in Range(groups[d])
       THEN (CHOOSE i \in DOMAIN groups[d] : groups[d][i] = d) - 1
       ELSE 0

Setup ==
  /\ pc = "setup"
  /\ LET ok == \A d \in Devices : HasRank(d) /\ (HasAttn(d) => RankAt(d) < cfg.dp)
     IN  \/ /\ ~ok /\ Fail
         \/ /\ ok
            /\ tokenizer' = [d \in DOMAIN attn |-> RankAt(d)]
            /\ pc' = "core"
            /\ UNCHANGED <<cfg, alloc, place>>

-----------------------------------------------------------------------------
(* init_core on every worker: the channel tables of its dispatcher.        *)

WithRank(d, r) == {o \in Out(d) : AttnDpRank(o) = r}

(* UnifiedDispatcher and MuAttnDispatcher: the channel of an expert.       *)
ToExpert(d, x) ==
  IF Hybrid THEN WithRank(d, ExpertRank(x))
  ELSE {o \in Out(d) \cap DOMAIN expert :
          \E y \in expert[o] : y[1] = x[1] /\ ExpertRank(y) = ExpertRank(x)}

(* UnifiedDispatcher and MuExpertDispatcher: the channel of an attention   *)
(* rank for a layer.                                                       *)
ToAttn(d, l, r) == {o \in WithRank(d, r) : Hybrid \/ o \in AttnAt(l)}

(* The assertions of the dispatchers' constructors, and the process group  *)
(* a tensor-parallel worker cannot join: its id is no longer passed.       *)
CoreStarts(d) ==
  /\ HasAttn(d) => cfg.tp = 1
  /\ d \in DOMAIN expert /\ ~Hybrid =>
       /\ \A o \in Out(d) : attn[o] # {}
       /\ \A l \in Layers : \A r \in 0 .. cfg.dp - 1 : Cardinality(ToAttn(d, l, r)) <= 1

InitCore ==
  /\ pc = "core"
  /\ \/ /\ \E d \in Devices : ~CoreStarts(d)
        /\ Fail
     \/ /\ \A d \in Devices : CoreStarts(d)
        /\ pc' = "up"
        /\ UNCHANGED <<cfg, alloc, place, tokenizer>>

StartUpNext == Resolve \/ Solve \/ Setup \/ InitCore

StartUpSpec == StartUpInit /\ [][StartUpNext]_startUp

-----------------------------------------------------------------------------

(* In a cluster that is up, whatever an attention worker sends for an      *)
(* expert of one of its layers arrives where that expert is, and what an   *)
(* expert worker sends for the next layer of a token of rank r arrives at  *)
(* that rank's worker of that layer: two independent tables, one by expert *)
(* rank and one by data-parallel rank, must agree with the placement.      *)
ChannelsLeadThere ==
  /\ \A d \in DOMAIN attn : \A l \in attn[d] : \A e \in Experts :
       /\ ToExpert(d, <<l, e>>) # {}
       /\ \A o \in ToExpert(d, <<l, e>>) : <<l, e>> \in expert[o]
  /\ \A d \in DOMAIN expert : \A x \in expert[d] :
       \A a \in AttnAt(NextLayer(x[1])) :
         ToAttn(d, NextLayer(x[1]), AttnDpRank(a)) = {a}

(* The tokenizer's queue of a rank is read by the worker of that rank and  *)
(* by no other, in the colocated placement: the address is picked by the   *)
(* expert rank, the request is sent by the data-parallel rank.             *)
TokenizersMatch ==
  Hybrid => \A d \in DOMAIN attn : tokenizer[d] = AttnDpRank(d)

RoutingIsRight == pc = "up" => ChannelsLeadThere /\ TokenizersMatch

(* Start-up rejects no set-up that adds up: no tensor parallelism, a file, *)
(* if any, that allocates all experts, as many devices as the degrees call *)
(* for, no stage without a layer, and experts that divide evenly or, where *)
(* the file is used, at least one on each device (the assertions of the    *)
(* strategies, rank_at, and the dispatchers).                              *)
AddsUp ==
  /\ cfg.tp = 1 /\ (cfg.entries = NoFile \/ FileAddsUp)
  /\ \/ /\ cfg.strategy = "colocate" /\ cfg.dp = cfg.gpus
        /\ IF cfg.entries = NoFile THEN cfg.ep = cfg.gpus /\ NumExperts % cfg.ep = 0
           ELSE \A d \in Devices : Allocated(d) > 0
     \/ /\ cfg.strategy = "interleave" /\ NumExperts % cfg.ep = 0
        /\ cfg.gpus % GroupSize = 0 /\ cfg.gpus \div GroupSize <= NumLayers
     \/ /\ cfg.strategy = "pipeline" /\ NumExperts % cfg.ep = 0
        /\ cfg.gpus = NumUsed /\ cfg.q <= NumLayers
        /\ cfg.zigzag \/ NumLayers % cfg.p = 0

StartsWhenItAddsUp == pc = "failed" => ~AddsUp
=============================================================================
