------------------------------ MODULE Positions ------------------------------
(***************************************************************************)
(* Some elements of a list, in their order: what std::erase_if and the     *)
(* loops that skip leave of a std::vector.                                 *)
(***************************************************************************)
EXTENDS Naturals, Sequences, FiniteSets

\* The numbers in S, in their order.
InOrder(S) ==
    CHOOSE f \in [1..Cardinality(S) -> S] : \A i, j \in DOMAIN f : i < j => f[i] < f[j]

\* The elements of s at the positions in S.
Picked(s, S) == [n \in 1..Cardinality(S) |-> s[InOrder(S)[n]]]
=============================================================================
