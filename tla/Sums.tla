-------------------------------- MODULE Sums --------------------------------
(* The sum of finitely many counters, as the size of a disjoint union: a     *)
(* form that needs no recursion, so that what adds to it can be proved.      *)
EXTENDS Integers, FiniteSets

\* As many marked units as each counter says; none for one below zero.
Units(f) == UNION {{x} \X (1..f[x]) : x \in DOMAIN f}

SumOf(f) == Cardinality(Units(f))

=============================================================================
