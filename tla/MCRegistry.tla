----------------------------- MODULE MCRegistry -----------------------------
(* Registry for TLC: two groups, both known modes and one unknown.          *)
EXTENDS Registry, TLC

Symmetry == Permutations(Calls) \cup Permutations(Groups)

=============================================================================
