------------------------------ MODULE MCPlacement ------------------------------
(* Up to six devices and every degree of parallelism up to three; three    *)
(* layers, so that two stages share them unevenly, and four experts.       *)
(* Allocation files name a device twice, leave one out, or do not add up.  *)
EXTENDS Placement

Entries == {<<<<0, 1>>, <<1, 3>>>>, <<<<1, 1>>, <<0, 2>>, <<1, 1>>>>,
            <<<<0, 4>>>>, <<<<0, 2>>, <<1, 1>>>>}

Base == [gpus : 1 .. 6, tp : 1 .. 2, ep : 1 .. 5, dp : 1 .. 4]

Line(strategy, b, p, q, zigzag, entries) ==
  [strategy |-> strategy, gpus |-> b.gpus, tp |-> b.tp, ep |-> b.ep, dp |-> b.dp,
   p |-> p, q |-> q, zigzag |-> zigzag, entries |-> entries]

MCSetups ==
       {Line("colocate", b, 1, 1, TRUE, e) : b \in Base, e \in Entries \cup {NoFile}}
  \cup {Line(s, b, 1, 1, TRUE, e) : s \in {"interleave", "pipeline"}, b \in Base, e \in Entries}
  \cup {Line(s, b, 1, 1, TRUE, NoFile) : s \in {"single", "interleave"}, b \in Base}
  \cup {Line("pipeline", b, p, q, z, NoFile) : b \in Base, p \in 1 .. 3, q \in 1 .. 2, z \in BOOLEAN}
=============================================================================
