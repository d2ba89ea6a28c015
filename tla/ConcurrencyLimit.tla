-------------------------- MODULE ConcurrencyLimit --------------------------
(***************************************************************************)
(* createAsyncConcurrencyLimit of project-procedures/shared.ts: the FIFO   *)
(* queue in front of the git reads, the diff loads, the worktree opens and *)
(* the scheduled cron launches.                                            *)
(*                                                                         *)
(* A task is one call of `run`.  Its promise settles in one microtask and  *)
(* its slot is given back in a later one, so another caller may run in     *)
(* between.                                                                *)
(***************************************************************************)
EXTENDS Naturals, Sequences, FiniteSets

CONSTANTS
    Tasks,          \* calls of run
    maxConcurrent   \* the parameter of createAsyncConcurrencyLimit

ASSUME LimitAssumption == maxConcurrent \in Nat

VARIABLES
    state,          \* what became of the promise of each task
    pendingTasks,
    activeCount,
    releasing,      \* settled tasks whose finally has not run
    aborted         \* tasks whose AbortSignal fired

limitVars == <<state, pendingTasks, activeCount, releasing, aborted>>

concurrency == IF maxConcurrent < 1 THEN 1 ELSE maxConcurrent

LimitTypeOK ==
    /\ state \in [Tasks -> {"unasked", "pending", "running", "settled", "rejected"}]
    /\ pendingTasks \in Seq(Tasks)
    /\ activeCount \in Nat
    /\ releasing \subseteq Tasks
    /\ aborted \subseteq Tasks

LimitInit ==
    /\ state = [t \in Tasks |-> "unasked"]
    /\ pendingTasks = <<>>
    /\ activeCount = 0
    /\ releasing = {}
    /\ aborted = {}

-----------------------------------------------------------------------------
\* Variant: a task that was aborted before it was queued is started.
StartsAlways(t) == TRUE

\* What `schedule` does with the head of the queue: start or reject it.
Starts(t) == t \notin aborted

\* The positions before one that it starts on the way there.
StartsAhead(queue, i) == {h \in 1..(i - 1) : Starts(queue[h])}

\* Variant: the loop guard lets one task too many through.
ReachedOneMore(queue, active) ==
    {i \in DOMAIN queue : active + Cardinality(StartsAhead(queue, i)) <= concurrency}

\* The positions that its loop takes from the queue: while it gets there, those
\* started on the way leave a slot.
Reached(queue, active) ==
    {i \in DOMAIN queue : active + Cardinality(StartsAhead(queue, i)) < concurrency}

\* schedule, on this queue with this many slots taken.
Schedule(queue, active) ==
    LET reached == Reached(queue, active)
        starting == {i \in reached : Starts(queue[i])}
    IN
    /\ pendingTasks' = SubSeq(queue, Cardinality(reached) + 1, Len(queue))
    /\ activeCount' = active + Cardinality(starting)
    /\ state' = [t \in Tasks |->
                    CASE \E i \in starting : queue[i] = t -> "running"
                      [] \E i \in reached \ starting : queue[i] = t -> "rejected"
                      [] \E i \in DOMAIN queue \ reached : queue[i] = t -> "pending"
                      [] OTHER -> state[t]]

\* run
Run(t) ==
    /\ state[t] = "unasked"
    /\ Schedule(Append(pendingTasks, t), activeCount)
    /\ UNCHANGED <<releasing, aborted>>

\* The callback ends, with a result or an error.
TaskEnds(t) ==
    /\ state[t] = "running"
    /\ state' = [state EXCEPT ![t] = "settled"]
    /\ releasing' = releasing \cup {t}
    /\ UNCHANGED <<pendingTasks, activeCount, aborted>>

\* Variant: the finally frees the slot and forgets the queue.
ReleaseOnly(t) ==
    /\ t \in releasing
    /\ releasing' = releasing \ {t}
    /\ activeCount' = IF activeCount = 0 THEN 0 ELSE activeCount - 1
    /\ UNCHANGED <<state, pendingTasks, aborted>>

\* The finally of start.
Release(t) ==
    /\ t \in releasing
    /\ releasing' = releasing \ {t}
    /\ Schedule(pendingTasks, IF activeCount = 0 THEN 0 ELSE activeCount - 1)
    /\ UNCHANGED aborted

\* The caller's signal fires: a waiting task leaves the queue, one that runs
\* or was not asked for yet is not touched by the limiter.
Abort(t) ==
    /\ t \notin aborted
    /\ aborted' = aborted \cup {t}
    /\ \/ \E i \in DOMAIN pendingTasks :
             /\ pendingTasks[i] = t
             /\ pendingTasks' = SubSeq(pendingTasks, 1, i - 1)
                                \o SubSeq(pendingTasks, i + 1, Len(pendingTasks))
             /\ state' = [state EXCEPT ![t] = "rejected"]
       \/ /\ state[t] # "pending"
          /\ UNCHANGED <<state, pendingTasks>>
    /\ UNCHANGED <<activeCount, releasing>>

LimitNext == \E t \in Tasks : Run(t) \/ TaskEnds(t) \/ Release(t) \/ Abort(t)

\* Callbacks come to an end: git commands and launches have their timeouts.
LimitFairness == \A t \in Tasks : WF_limitVars(TaskEnds(t)) /\ WF_limitVars(Release(t))

LimitSpec == LimitInit /\ [][LimitNext]_limitVars

FairLimitSpec == LimitSpec /\ LimitFairness

-----------------------------------------------------------------------------
\* The counter counts the tasks that hold a slot, and never more of them than
\* the limit: aborts and failures neither leak a slot nor free one twice.
SlotsAreCounted ==
    /\ activeCount = Cardinality({t \in Tasks : state[t] = "running"} \cup releasing)
    /\ activeCount <= concurrency

\* A task waits only while every slot is taken.
NoIdleSlot == pendingTasks # <<>> => activeCount = concurrency

\* A task whose signal had fired does not start.
AbortedNeverStart ==
    [][\A t \in aborted : state[t] # "running" => state'[t] # "running"]_limitVars

\* First come, first served: whoever starts was ahead of everyone who waits.
StartsInOrder ==
    [][\A i, k \in DOMAIN pendingTasks :
          i < k /\ state'[pendingTasks[k]] = "running"
             => state'[pendingTasks[i]] # "pending"]_limitVars

\* Every task that was asked for settles.
EveryTaskSettles ==
    \A t \in Tasks : state[t] = "pending" ~> state[t] \in {"settled", "rejected"}
=============================================================================
