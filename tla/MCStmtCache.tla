----------------------------- MODULE MCStmtCache -----------------------------
(* Instances of StmtCache for TLC: as many statements as can be open at once. *)
EXTENDS StmtCache, TLC

CONSTANTS c1, c2, c3, k1, k2, k3, s1, s2, s3, s4, s5
MCCallers == {c1, c2, c3}
MCStmts == {s1, s2, s3, s4, s5}
MCKeys == {k1, k2, k3}
Symmetry == Permutations(MCCallers) \cup Permutations(MCKeys) \cup Permutations(MCStmts)
=============================================================================
