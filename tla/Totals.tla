------------------------------- MODULE Totals -------------------------------
(* The sum of the values of a function over a finite set, counted unit by  *)
(* unit: x contributes the pairs <<x, 1>> .. <<x, f[x]>>. Unlike a fold it *)
(* needs no recursion, so that what it adds up to can be proved.           *)
EXTENDS Integers, FiniteSets

\* Each value of f over S lies in 0..max.
Units(S, f, max) == {u \in S \X (1..max) : u[2] <= f[u[1]]}

Total(S, f, max) == Cardinality(Units(S, f, max))
=============================================================================
