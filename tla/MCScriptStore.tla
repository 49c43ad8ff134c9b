---------------------------- MODULE MCScriptStore ----------------------------
(* Values of ScriptStore's constants for TLC: two scripts of the same name, and *)
(* another name that an earlier server may have left.                           *)
EXTENDS ScriptStore, TLC

MCNameOf == [s \in Scripts |-> "a"]
Symmetry == Permutations(Scripts) \cup Permutations(Workers)
=============================================================================
