------------------------------ MODULE Selections ------------------------------
(***************************************************************************)
(* What a Python comprehension with a condition makes of a list: the       *)
(* elements at some positions, in their order.                             *)
(***************************************************************************)
EXTENDS Naturals, FiniteSets

(* The members of a finite set of numbers, from the least to the greatest. *)
InOrder(S) ==
    CHOOSE e \in [1 .. Cardinality(S) -> S] :
        /\ \A j, k \in 1 .. Cardinality(S) : j < k => e[j] < e[k]
        /\ \A i \in S : \E k \in 1 .. Cardinality(S) : e[k] = i

(* The elements of a sequence at a set of its positions.                   *)
Picked(s, S) == [k \in 1 .. Cardinality(S) |-> s[InOrder(S)[k]]]
=============================================================================
