---------------------------- MODULE MCReviewGate ----------------------------
(* Constants of the TLC runs of ReviewGate: a is attached and names no PR, *)
(* c is in the workpad and b and c name each other, and d, which names a,  *)
(* is only found by its branch, in a second repository.  A cap of 4 is     *)
(* reached exactly when d is among the PRs found.                          *)
EXTENDS ReviewGate

CONSTANTS a, b, c, d

Names == [p \in PRs |-> IF p = a THEN {} ELSE IF p = b THEN {c} ELSE IF p = c THEN {b} ELSE {a}]
=============================================================================
