------------------------------ MODULE Subsequences ------------------------------
(***************************************************************************)
(* What a comprehension [e for e in s if ...] over a list makes of it, for *)
(* the components that keep lists: the elements at the positions where the *)
(* condition holds, in their order. A position's rank is its place in the  *)
(* new list.                                                               *)
(***************************************************************************)
EXTENDS Integers, Sequences, FiniteSets

Rank(positions, i) == Cardinality({j \in positions : j <= i})

Pick(s, positions) ==
    [r \in 1 .. Cardinality(positions) |-> s[CHOOSE i \in positions : Rank(positions, i) = r]]

==============================================================================
