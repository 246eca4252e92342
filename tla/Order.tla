------------------------------- MODULE Order -------------------------------
(***************************************************************************)
(* Lists taken from finite sets of numbers: both backends answer a listing *)
(* with entries in the order of their ids, at most a number of them.       *)
(***************************************************************************)
EXTENDS Integers, FiniteSets

Below(S, x) == {y \in S : y <= x}
Above(S, x) == {y \in S : y >= x}
Rank(S, x)  == Cardinality(Below(S, x))

InOrder(S) == [i \in 1..Cardinality(S) |-> CHOOSE x \in S : Rank(S, x) = i]

(* The n highest, or all when there are no more.                            *)
Highest(S, n) == {x \in S : Cardinality(Above(S, x)) <= n}
=============================================================================
