----------------------------- MODULE TokenRows -----------------------------
(***************************************************************************)
(* What happens to the rows of a batch during one layer: attention         *)
(* workers expand their tokens TopK times and order them by expert, the    *)
(* dispatcher cuts the batch by channel, an expert worker merges what has  *)
(* arrived, runs its experts, scales the rows by their gate weights and    *)
(* orders them by attention worker, the dispatcher cuts again, and the     *)
(* TopK replies of a request meet at its attention worker.                 *)
(* (disagmoe/frontend/engine.py, csrc/include/metadata.hpp and batch.hpp,  *)
(* csrc/muhelper/dispatcher.cpp, csrc/cuda_ops/permute.cu.)                *)
(*                                                                         *)
(* A batch is a tensor with one row per token and a metadata object with   *)
(* vectors (req_ids, exp_ids, ...) that run beside it.  Nothing in a row   *)
(* says whose it is: the two only agree because every permutation is       *)
(* applied to both.  Here element k of a batch is one record of what       *)
(* stands at place k of the vectors (req, exp, weight, dp) and of the      *)
(* tensor (of, the request whose hidden state the row holds; by and        *)
(* scaled, the expert and the weight it went through).  A weight is named  *)
(* by the hidden state and the expert the gate computed it for.            *)
(*                                                                         *)
(* init_prefill_lens always moves with req_ids: Fresh gives it, req by req.*)
(***************************************************************************)
EXTENDS Naturals, Sequences, FiniteSets, FiniteSetsExt, SequencesExt, PoolQueues

CONSTANTS Req,        \* request ids
          Fresh,      \* requests in their first pass (init_prefill_len # -1)
          Dp,         \* attention workers (attn_dp_rank)
          Home,       \* the attention worker of each request
          NumExperts,
          GateOuts,   \* what the gate may choose for a token, for each top-k
          Rank,       \* expert workers
          ExpertRank, \* expert_to_rank
          Threshold,  \* expert_schedule_token_threshold
          None        \* no expert yet, no weight, or bytes past the weights

Expert == 0 .. NumExperts - 1

ASSUME RowsAssumption ==
  /\ Req \subseteq Nat /\ IsFiniteSet(Req) /\ Dp \subseteq Nat /\ Fresh \subseteq Req
  /\ NumExperts \in Nat
  /\ Home \in [Req -> Dp] /\ ExpertRank \in [Expert -> Rank]
  /\ Threshold \in Nat \ {0}
  /\ \A out \in GateOuts : \E k \in 1 .. NumExperts :
       out \subseteq [1 .. k -> Expert] /\ \A es \in out : IsInjective(es)
  /\ None \notin Expert /\ None \notin Req \X Expert

VARIABLES
  gate,    \* the experts the gate of the layer chooses for each request
  todo,    \* requests each attention worker has still to run, in order
  toExpert,\* batches on the way to an expert worker
  queue,   \* the layer's batch_queue of each expert worker
  toAttn,  \* batches on the way back
  held     \* the rows that came back for each request (TokenTopKInfo)

vars == <<gate, todo, toExpert, queue, toAttn, held>>

(* top_k of the model configuration.                                       *)
TopK == Len(gate[CHOOSE q \in Req : TRUE])

-----------------------------------------------------------------------------
(* Permutations: places[i] is where element i goes (permute_vector).       *)
Placed(rows, places) ==
  [p \in DOMAIN rows |-> rows[CHOOSE i \in DOMAIN rows : places[i] = p]]

(* The counting sort shared by sort_by_expert and merge_by_expert.         *)
ExpertPlaces(rows) ==
  [i \in DOMAIN rows |->
    1 + Cardinality({j \in DOMAIN rows : \/ rows[j].exp < rows[i].exp
                                         \/ rows[j].exp = rows[i].exp /\ j < i})]

(* Mutant: decode tokens first.                                            *)
Precedes_PrefillsLast(a, b) ==
  \/ a.dp < b.dp
  \/ a.dp = b.dp /\ a.req \notin Fresh /\ b.req \in Fresh

(* sort_by_attention: std::sort is not stable, so rows that compare equal  *)
(* may come out in any order.                                              *)
Precedes(a, b) ==
  \/ a.dp < b.dp
  \/ /\ a.dp = b.dp
     /\ IF a.req \in Fresh /\ b.req \in Fresh
        THEN a.req < b.req
        ELSE a.req \in Fresh /\ b.req \notin Fresh

AttentionPlaces(rows) ==
  {places \in Bijection(DOMAIN rows, DOMAIN rows) :
     \A i, j \in DOMAIN rows : Precedes(rows[i], rows[j]) => places[i] < places[j]}

(* The dispatcher cuts a batch where the destination changes.              *)
Cuts(rows, dest) ==
  LET ends(i) == {j \in i .. Len(rows) : \A k \in i .. j : dest[k] = dest[i]}
      starts  == {i \in DOMAIN rows : i = 1 \/ dest[i - 1] # dest[i]}
  IN  {[to |-> dest[i], rows |-> SubSeq(rows, i, Max(ends(i)))] : i \in starts}

-----------------------------------------------------------------------------
(* postprocess_batch_attn.  duplicate_topk lays the requests out copy after*)
(* copy; the gate's output is flattened token after token, and so does     *)
(* the kernel of permute_tokens read the hidden states (token_id / topk).  *)
(* attn_dp_ranks is set after the sort, to this worker for every row.      *)
CopyReq(reqs, t)  == reqs[((t - 1) % Len(reqs)) + 1]
HiddenOf(reqs, t) == reqs[((t - 1) \div TopK) + 1]
Chosen(reqs, t)   == gate[HiddenOf(reqs, t)][((t - 1) % TopK) + 1]

ExpandedRow(d, reqs, t) ==
  [req |-> CopyReq(reqs, t), dp |-> d, exp |-> Chosen(reqs, t),
   weight |-> <<HiddenOf(reqs, t), Chosen(reqs, t)>>,
   of |-> HiddenOf(reqs, t), by |-> None, scaled |-> None]

(* Mutant: permute_token_infos leaves req_ids where they were.             *)
Expanded_ReqsStay(d, reqs) ==
  LET rows == [t \in 1 .. TopK * Len(reqs) |-> ExpandedRow(d, reqs, t)]
  IN  [p \in DOMAIN rows |-> [Placed(rows, ExpertPlaces(rows))[p] EXCEPT !.req = CopyReq(reqs, p)]]

Expanded(d, reqs) ==
  LET rows == [t \in 1 .. TopK * Len(reqs) |-> ExpandedRow(d, reqs, t)]
  IN  Placed(rows, ExpertPlaces(rows))

(* One attention batch of n tokens, and _send_to_expert_once.  Scheduled   *)
(* batches have their prefills first (merge_by_attention, pack_topk_tokens)*)
DestExpert(rows) == [i \in DOMAIN rows |-> ExpertRank[rows[i].exp]]

Attend(d, n) ==
  /\ n \in 1 .. Len(todo[d])
  /\ todo' = [todo EXCEPT ![d] = SubSeq(@, n + 1, Len(@))]
  /\ LET rows == Expanded(d, SubSeq(todo[d], 1, n))
     IN  toExpert' = toExpert \cup Cuts(rows, DestExpert(rows))
  /\ UNCHANGED <<gate, queue, toAttn, held>>

(* MuPool receives a batch and UnifiedPool files it in the expert layer.   *)
ExpertReceives(m) ==
  /\ m \in toExpert
  /\ toExpert' = toExpert \ {m}
  /\ queue' = [queue EXCEPT ![m.to] = Append(@, m.rows)]
  /\ UNCHANGED <<gate, todo, toAttn, held>>

-----------------------------------------------------------------------------
(* TokenBatch::merge: a single batch is returned as it came.               *)
(* Mutant: batches are only put one after the other.                      *)
Merged_Concatenated(batches) == FlattenSeq(batches)

Merged(batches) ==
  LET rows == FlattenSeq(batches)
  IN  IF Len(batches) = 1 THEN batches[1] ELSE Placed(rows, ExpertPlaces(rows))

(* The grouped GEMM only gets the number of rows of each local expert, in  *)
(* ascending order: row i goes to the expert whose group i falls in.       *)
RanBy(rows, i) ==
  LET upTo(e) == Cardinality({j \in DOMAIN rows : rows[j].exp <= e})
  IN  CHOOSE e \in Expert : i <= upTo(e) /\ \A f \in 0 .. e - 1 : upTo(f) < i

(* apply_weights_and_permute_tokens_kernel: the pointer is advanced by     *)
(* token_id and then indexed with token_id; the buffer goes on after the   *)
(* weights of the batch with bytes of earlier ones.                        *)
WeightRead(rows, i) ==
  LET k == (i - 1) + (i - 1) + 1
  IN  IF k <= Len(rows) THEN rows[k].weight ELSE None

Reply(rows, i) ==
  [req |-> rows[i].req, dp |-> rows[i].dp, of |-> rows[i].of,
   by |-> RanBy(rows, i), scaled |-> WeightRead(rows, i)]

DestAttn(rows) == [i \in DOMAIN rows |-> rows[i].dp]

(* execute_batch_expert and _send_to_attn_once.                            *)
RunExperts(r) ==
  /\ queue[r] # <<>>
  /\ queue' = [queue EXCEPT ![r] = Left(@, Threshold)]
  /\ LET rows == Merged(Taken(queue[r], Threshold))
     IN  \E places \in AttentionPlaces(rows) :
           LET replies == Placed([i \in DOMAIN rows |-> Reply(rows, i)], places)
           IN  toAttn' = toAttn \cup Cuts(replies, DestAttn(replies))
  /\ UNCHANGED <<gate, todo, toExpert, held>>

(* TokenTopKPool::put_batch, or with TopK = 1 process_attn_batch.          *)
RowsFor(q, rows) ==
  FlattenSeq([i \in DOMAIN rows |-> IF rows[i].req = q THEN <<rows[i]>> ELSE <<>>])

AttnReceives(m) ==
  /\ m \in toAttn
  /\ toAttn' = toAttn \ {m}
  /\ held' = [q \in Req |-> held[q] \o RowsFor(q, m.rows)]
  /\ UNCHANGED <<gate, todo, toExpert, queue>>

-----------------------------------------------------------------------------
PrefillsFirst(reqs) ==
  \A i, j \in DOMAIN reqs : i < j /\ reqs[j] \in Fresh => reqs[i] \in Fresh

Init ==
  /\ gate \in UNION {[Req -> out] : out \in GateOuts}
  /\ todo \in {q \in [Dp -> UNION {SetToSeqs({r \in Req : Home[r] = d}) : d \in Dp}] :
               \A d \in Dp : PrefillsFirst(q[d]) /\ Range(q[d]) = {r \in Req : Home[r] = d}}
  /\ toExpert = {} /\ toAttn = {}
  /\ queue = [r \in Rank |-> <<>>]
  /\ held = [q \in Req |-> <<>>]

Next ==
  \/ \E d \in Dp : \E n \in 1 .. Cardinality(Req) : Attend(d, n)
  \/ \E m \in toExpert : ExpertReceives(m)
  \/ \E r \in Rank : RunExperts(r)
  \/ \E m \in toAttn : AttnReceives(m)

Spec == Init /\ [][Next]_vars

-----------------------------------------------------------------------------
(* The rows that are in some batch, and those that came back.              *)
RowsOf(batches) == UNION {{<<b, i>> : i \in DOMAIN b} : b \in batches}

(* Every request is due TopK replies: until it has been run all of them,   *)
(* after that they are in the batches on the way and among those held.     *)
RepliesIn(batches, q) == Cardinality({x \in RowsOf(batches) : x[1][x[2]].req = q})

Batches == {m.rows : m \in toExpert \cup toAttn} \cup UNION {Range(queue[r]) : r \in Rank}

(* Splitting, merging and sorting lose no reply of a request and invent    *)
(* none, and every reply ends at the worker that holds the request's cache.*)
RepliesConserved ==
  /\ \A q \in Req :
       (IF q \in Range(todo[Home[q]]) THEN TopK ELSE 0)
         + RepliesIn(Batches, q) + Len(held[q]) = TopK
  /\ \A m \in toAttn : \A i \in DOMAIN m.rows : Home[m.rows[i].req] = m.to

(* A hidden state goes through each expert its gate chose, and through no  *)
(* other: the executor is told only group sizes, so a row out of place     *)
(* would run through a neighbour's expert.                                 *)
ExpertsAsChosen ==
  \A q, p \in Req : \A i \in DOMAIN held[q], j \in DOMAIN held[p] :
    LET row == held[q][i]  other == held[p][j]
    IN  /\ row.by \in Range(gate[row.of])
        /\ row.of = other.of /\ row.by = other.by => <<q, i>> = <<p, j>>

(* merge_by_attention takes the first num_prefill_seqs rows of a batch for *)
(* its prefills: batches that come back must be in that order.             *)
PrefillsComeFirst ==
  \A m \in toAttn : PrefillsFirst([i \in DOMAIN m.rows |-> m.rows[i].req])

(* The rows joined for a request hold its own hidden state ("positions[i] =*)
(* j means tokens i should be at position j", metadata.hpp:239 and 265).   *)
RowsOfItsRequest == \A q \in Req : \A i \in DOMAIN held[q] : held[q][i].of = q

(* With one expert per token that is true.                                 *)
OneExpertRowsOfItsRequest == TopK = 1 => RowsOfItsRequest

(* A row is scaled by the gate weight of its own state and expert          *)
(* ("weights and mappings can be padded, paddings are ignored",            *)
(* permute.cu:161).                                                        *)
ScaledByItsWeight ==
  \A q \in Req : \A i \in DOMAIN held[q] :
    held[q][i].scaled = <<held[q][i].of, held[q][i].by>>
=============================================================================
