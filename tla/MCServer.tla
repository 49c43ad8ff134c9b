------------------------------- MODULE MCServer -------------------------------
(* Symmetry of Server's connections for TLC; sound for the invariants only.      *)
EXTENDS Server, TLC

Symmetry == Permutations(Conns)
=============================================================================
