---------------------------- MODULE Subsequences ----------------------------
(***************************************************************************)
(* What filter() of an array returns: the elements at the positions that   *)
(* pass, in their order.  It is SelectSeq, said without recursion, so that *)
(* it can be reasoned about.                                               *)
(***************************************************************************)
EXTENDS Naturals, Sequences, FiniteSets

\* The n-th least position.
Nth(I, n) == CHOOSE i \in I : Cardinality({j \in I : j <= i}) = n

Picked(s, I) == [n \in 1 .. Cardinality(I) |-> s[Nth(I, n)]]
=============================================================================
