-------------------------- MODULE MCCircuitBreaker --------------------------
(* Instances of CircuitBreaker for TLC. *)
EXTENDS CircuitBreaker, TLC

CONSTANTS c1, c2, c3, c4
MCCallers == {c1, c2, c3, c4}
Symmetry == Permutations(MCCallers)
=============================================================================
