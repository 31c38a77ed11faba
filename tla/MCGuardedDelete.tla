--------------------------- MODULE MCGuardedDelete ---------------------------
(* Small instances of GuardedDelete, one kind each. *)
EXTENDS GuardedDelete, TLC

CONSTANTS a1, a2, v1, v2

Symmetry == Permutations(Agent) \union Permutations(Version)
=============================================================================
