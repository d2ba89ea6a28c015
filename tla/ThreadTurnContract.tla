------------------------- MODULE ThreadTurnContract -------------------------
(***************************************************************************)
(* What the rest of the application may rely on about the turns of a       *)
(* thread, without controllers, promises, maps or columns: one turn at a   *)
(* time, a stop that ends it, an outcome that a restart keeps.             *)
(*                                                                         *)
(* ThreadTurns implements it; the cron runner and the ingress router only  *)
(* use what is stated here.                                                *)
(***************************************************************************)
CONSTANT Threads

VARIABLES
    phase,  \* "quiet": a message may start a turn;  "working": a turn runs;
            \* "stopping": the turn was stopped and is on its way out;
            \* "lost": the process died under the turn;  "gone": deleted
    last    \* how the last turn of the thread ended

vars == <<phase, last>>

TypeOK ==
    /\ phase \in [Threads -> {"quiet", "working", "stopping", "lost", "gone"}]
    /\ last \in [Threads -> {"none", "ran", "stopped", "failed"}]

Init ==
    /\ phase = [t \in Threads |-> "quiet"]
    /\ last = [t \in Threads |-> "none"]

Move(t, from, to) ==
    /\ phase[t] = from
    /\ phase' = [phase EXCEPT ![t] = to]

End(t, outcomes) == \E o \in outcomes : last' = [last EXCEPT ![t] = o]

\* A message is accepted only by a quiet thread.
Start(t) == Move(t, "quiet", "working") /\ UNCHANGED last

\* The user stops the turn: the outcome is known from here on.
Stop(t) == Move(t, "working", "stopping") /\ End(t, {"stopped"})

\* A turn ends by itself, or because the process aborted it.
Finish(t) == Move(t, "working", "quiet") /\ End(t, {"ran", "stopped", "failed"})

\* A stopped turn lets go of the thread; it cannot have run to its end.
LetGo(t) == Move(t, "stopping", "quiet") /\ End(t, {"stopped", "failed"})

\* Threads are deleted, never while one of them works.
Remove(S) ==
    /\ \A t \in S : phase[t] \in {"quiet", "stopping"}
    /\ phase' = [t \in Threads |-> IF t \in S THEN "gone" ELSE phase[t]]
    /\ last' = [t \in Threads |-> IF t \in S THEN "none" ELSE last[t]]

\* The process dies: a turn nobody stopped is lost, a stopped one is over.
Die ==
    /\ phase' = [t \in Threads |-> CASE phase[t] = "working" -> "lost"
                                     [] phase[t] = "stopping" -> "quiet"
                                     [] OTHER -> phase[t]]
    /\ UNCHANGED last

\* The next process finds the lost turns and settles them as stopped; every
\* other thread keeps the outcome it had.
Recover ==
    /\ phase' = [t \in Threads |-> IF phase[t] = "lost" THEN "quiet" ELSE phase[t]]
    /\ last' = [t \in Threads |-> IF phase[t] = "lost" THEN "stopped" ELSE last[t]]

Next ==
    \/ \E t \in Threads : Start(t) \/ Stop(t) \/ Finish(t) \/ LetGo(t)
    \/ \E S \in SUBSET Threads : Remove(S)
    \/ Die \/ Recover

Spec == Init /\ [][Next]_vars
=============================================================================
