------------------------------- MODULE Orders -------------------------------
(***************************************************************************)
(* Finite sets in an order. Planning sorts what it found by a key of its   *)
(* own before it goes through it; here a key is the order that it gives.   *)
(***************************************************************************)
EXTENDS Integers, Sequences, FiniteSets

(* The members of a finite set in an order, which is given by its pairs:   *)
(* each at the place of its rank.                                          *)
Sorted(S, order) ==
    [k \in 1..Cardinality(S) |-> CHOOSE x \in S : Cardinality({y \in S : <<y, x>> \in order}) = k]

Rising(S) == Sorted(S, {pair \in S \X S : pair[1] <= pair[2]})
=============================================================================
