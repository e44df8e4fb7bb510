------------------------------ MODULE SimCluster ------------------------------
(* What the serving simulators have in common: a stream of requests of a   *)
(* fixed number of tokens, and a cluster whose GPUs hold the experts of    *)
(* each layer side by side.  The router returns one of the expert sets of  *)
(* Routes, the rows of its recorded profile without their placeholders.    *)
EXTENDS Integers, FiniteSets

CONSTANTS NumRequests, TokensPerRequest, MaxActive, NumGpus, NumLayers,
          ExpertsPerGpu, MaxBatch, GpusPerHost, Routes

None == -1
Requests == 0 .. NumRequests - 1
Gpus     == 0 .. NumGpus - 1
Layers   == 0 .. NumLayers - 1
Experts  == 0 .. NumGpus * ExpertsPerGpu - 1

ASSUME ClusterAssumption ==
  /\ NumRequests \in Nat /\ TokensPerRequest \in Nat \ {0} /\ MaxActive \in Nat
  /\ NumGpus \in Nat \ {0} /\ NumLayers \in Nat \ {0} /\ ExpertsPerGpu \in Nat \ {0}
  /\ MaxBatch \in Nat \ {0} /\ GpusPerHost \in Nat \ {0}
  /\ \A E \in Routes : E # {} /\ E \subseteq Experts

GpuOf(e) == e \div ExpertsPerGpu
=============================================================================
