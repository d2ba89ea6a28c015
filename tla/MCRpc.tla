------------------------------- MODULE MCRpc -------------------------------
(***************************************************************************)
(* Instances of Rpc for TLC.                                               *)
(***************************************************************************)
EXTENDS Rpc, TLC

CONSTANT Urgent   \* the foreground calls; the others are background

MCPriority == [c \in Calls |-> IF c \in Urgent THEN 2 ELSE 0]

Symmetry == Permutations(Calls \ Urgent)
=============================================================================
