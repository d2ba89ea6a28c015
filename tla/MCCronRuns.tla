----------------------------- MODULE MCCronRuns -----------------------------
(* Model checking CronRuns: every job belongs to one project. *)
EXTENDS CronRuns, TLC

MCProjectOf == [j \in Jobs |-> CHOOSE p \in Projects : TRUE]

Symmetry == Permutations(Jobs) \cup Permutations(Runs)
=============================================================================
