------------------------------ MODULE Selection ------------------------------
(***************************************************************************)
(* The elements of a sequence at given positions.  The standard module's   *)
(* SelectSeq says the same with a test in the place of the positions, but  *)
(* a test is an operator, and the provers reason about sets.               *)
(***************************************************************************)
EXTENDS Integers, Sequences, FiniteSets

\* The number of positions in K up to j.
Rank(K, j) == Cardinality({l \in K : l <= j})

\* The elements of s at the positions in K, in their order.
Select(s, K) == [k \in 1..Cardinality(K) |-> s[CHOOSE j \in K : Rank(K, j) = k]]
=============================================================================
