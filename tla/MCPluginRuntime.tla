-------------------------- MODULE MCPluginRuntime --------------------------
(***************************************************************************)
(* Tasks and processes of PluginRuntime are interchangeable.               *)
(***************************************************************************)
EXTENDS PluginRuntime, TLC

Symmetry == Permutations(Tasks) \cup Permutations(Procs) \cup Permutations(Versions)
=============================================================================
