---------------------------- MODULE MCTokenRows ----------------------------
(* Values for TokenRows: two attention workers, two requests on worker 0,  *)
(* one of them in its first pass, and one on worker 1, three experts on    *)
(* two workers, and a gate with one or two experts per token.              *)
EXTENDS TokenRows

MCReq         == 1 .. 3
MCFresh       == {2}
MCDp          == 0 .. 1
MCHome        == [q \in MCReq |-> IF q = 3 THEN 1 ELSE 0]
MCRank        == {10, 11}
MCExpertRank  == [e \in 0 .. 2 |-> IF e < 2 THEN 10 ELSE 11]
MCTop1        == {<<0>>, <<1>>, <<2>>}
MCTop2        == {<<0, 1>>, <<2, 0>>, <<1, 2>>}
MCBoth        == {MCTop1, MCTop2}
MCOnlyTop2    == {MCTop2}
=============================================================================
