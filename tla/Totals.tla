------------------------------- MODULE Totals -------------------------------
(* Sums over finite sets, as the number of units when x has f[x] of them.  *)
EXTENDS Naturals, FiniteSets

Units(f, S) == UNION {{x} \X (1 .. f[x]) : x \in S}

Total(f, S) == Cardinality(Units(f, S))
=============================================================================
