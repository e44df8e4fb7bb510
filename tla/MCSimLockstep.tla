---------------------------- MODULE MCSimLockstep ----------------------------
(* Two GPUs on two hosts with two experts each; a token goes to two        *)
(* experts of one GPU or to one of each.  The last request arrives while   *)
(* the others are served, or long after them.                              *)
EXTENDS SimLockstep

MCRoutes == {{0, 1}, {1, 2}}

Cfg(mode, stopAfter, arrivals) ==
  [mode |-> mode, stopAfter |-> stopAfter, arrivals |-> arrivals]

MCConfigs == {Cfg("sync", None, <<0, 0, 5>>),
              Cfg("sync", 1,    <<0, 2, 2>>),
              Cfg("tbo",  None, <<0, 0, 70>>),
              Cfg("tbo",  2,    <<0, 1, 3>>)}

MCBatchCost == <<2, 3>>
=============================================================================
