------------------------------ MODULE MCSimAsync ------------------------------
(* Both scheduling policies, both network models, and a driver that stops  *)
(* one token after saturation.                                             *)
EXTENDS SimAsync

Cfg(policy, congested, stopAfter) ==
  [policy |-> policy, congested |-> congested, stopAfter |-> stopAfter]

MCAsyncConfigs == {Cfg("defragging_v0", TRUE, None),
                   Cfg("defragging_v0", FALSE, 1),
                   Cfg("longest_queue_first", FALSE, None)}

MCRoutes == {{0, 1}, {1, 2}}
=============================================================================
