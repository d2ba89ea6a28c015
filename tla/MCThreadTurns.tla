--------------------------- MODULE MCThreadTurns ---------------------------
(* Instances of ThreadTurns for TLC. *)
EXTENDS ThreadTurns, TLC

\* Every thread belongs to the first project.
MCProjectOf == [t \in Threads |-> CHOOSE p \in Projects : TRUE]

Symmetry == Permutations(Turns)
=============================================================================
