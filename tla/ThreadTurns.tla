---------------------------- MODULE ThreadTurns ----------------------------
(***************************************************************************)
(* The life of a Thread turn: from the message that starts it to the       *)
(* settlement that ends it.                                                *)
(*                                                                         *)
(* Models ThreadTurnRunner, ThreadRuntimeLifecycle,                        *)
(* ThreadTurnPersistenceCoordinator, ThreadTurnRuntimeCoordinator and the  *)
(* procedures of project-procedures.ts that drive them.                    *)
(*                                                                         *)
(* The backend is one JavaScript event loop.  An action is what runs       *)
(* between two waits on something outside the loop (a timer, a child       *)
(* process, the model provider, the file system).  An `await` of a promise *)
(* that is already resolved does not let another request in, so it does    *)
(* not split an action.                                                    *)
(*                                                                         *)
(* A turn is named by the send request that asked for it.  The same name   *)
(* stands for the AbortController, the completion promise and the runtime  *)
(* that this turn creates.                                                 *)
(***************************************************************************)
EXTENDS FiniteSets

CONSTANTS
    Threads,    \* thread rows
    Projects,   \* project rows
    ProjectOf,  \* the project of each thread
    Turns,      \* send requests, each of which may become one turn
    NoTurn,     \* "no entry" in a map of ThreadRuntimeLifecycle
    Faults      \* what the environment may do in this run, see AllFaults

(***************************************************************************)
(* sqlite_busy: another connection holds the write lock past busy_timeout, *)
(*   so BEGIN IMMEDIATE fails and withSqliteRetry backs off on a timer.    *)
(* clock_tie: a settlement gets the millisecond of the last activity write.*)
(* slow_inventory: reading the plugin inventory takes file-system time.    *)
(* plugin_injection: a plugin registered a prompt injection.               *)
(***************************************************************************)
AllFaults == {"sqlite_busy", "clock_tie", "slow_inventory", "plugin_injection"}

ASSUME ConstantsAssumption ==
    /\ NoTurn \notin Turns
    /\ ProjectOf \in [Threads -> Projects]
    /\ Faults \subseteq AllFaults

VARIABLES
    \* --- rows of the database: survive a restart
    deleted,        \* threads with deleted_at set (their project's or their own)
    active,         \* active_turn_started_at: the turn that wrote it
    outcome,        \* what last_run_at, last_error_at and last_error_message say
    inProgress,     \* in_progress activity rows, dated against the last settlement
    \* --- ThreadRuntimeLifecycle: lost with the process
    up,             \* the backend process runs and has finished its recovery
    status,         \* the statuses map
    controller,     \* the abortControllers map
    completion,     \* the completions map
    runtime,        \* the runtimes map
    \* --- the pending requests and turns
    pc,             \* where the request or its turn waits
    thread,         \* the thread a request is about
    session,        \* the runtime whose session the turn prompts
    aborted,        \* turns whose AbortSignal fired
    awaited,        \* turns whose completion promise someone else awaits
    accessPending   \* threads with an access update waiting for the inventory

rowVars == <<deleted, active, outcome, inProgress>>
mapVars == <<status, controller, completion, runtime>>
turnVars == <<pc, thread, session, aborted, awaited>>
vars == <<rowVars, up, mapVars, turnVars, accessPending>>

Outcomes == {"none", "ran", "stopped", "failed"}
LivePoints == {"starting", "injecting", "prompting", "grace"}

TypeOK ==
    /\ deleted \subseteq Threads
    /\ active \in [Threads -> Turns \cup {NoTurn}]
    /\ outcome \in [Threads -> Outcomes]
    /\ inProgress \in [Threads -> {"none", "older", "current"}]
    /\ up \in BOOLEAN
    /\ status \in [Threads -> {"none", "working", "idle", "stopped", "failed"}]
    /\ controller \in [Threads -> Turns \cup {NoTurn}]
    /\ completion \in [Threads -> Turns \cup {NoTurn}]
    /\ runtime \in [Threads -> Turns \cup {NoTurn}]
    /\ pc \in [Turns -> {"unsent", "retrying", "done"} \cup LivePoints]
    /\ thread \in [Turns -> Threads]
    /\ session \in [Turns -> Turns \cup {NoTurn}]
    /\ aborted \subseteq Turns
    /\ awaited \subseteq Turns
    /\ accessPending \subseteq Threads

Init ==
    /\ deleted = {}
    /\ active = [t \in Threads |-> NoTurn]
    /\ outcome = [t \in Threads |-> "none"]
    /\ inProgress = [t \in Threads |-> "none"]
    /\ up = TRUE
    /\ status = [t \in Threads |-> "none"]
    /\ controller = [t \in Threads |-> NoTurn]
    /\ completion = [t \in Threads |-> NoTurn]
    /\ runtime = [t \in Threads |-> NoTurn]
    /\ pc = [u \in Turns |-> "unsent"]
    /\ thread \in [Turns -> Threads]
    /\ session = [u \in Turns |-> NoTurn]
    /\ aborted = {}
    /\ awaited = {}
    /\ accessPending = {}

-----------------------------------------------------------------------------
(* Readings of the state *)

\* The turn runs: runThreadMessageInBackground has not reached its finally.
Live(u) == pc[u] \in LivePoints

\* threadRunStatusFromRecord(...).state = "working": memory wins over the row.
IsWorking(t) ==
    \/ status[t] = "working"
    \/ status[t] = "none" /\ active[t] # NoTurn

Exists(t) == t \notin deleted

-----------------------------------------------------------------------------
(* Starting a turn *)

\* What queueMessage does once the user message is committed.  The status
\* notification reads the thread row and throws when it has been deleted
\* meanwhile, which leaves the controller and the status behind.
Launch(u) ==
    LET t == thread[u] IN
    /\ active' = [active EXCEPT ![t] = u]
    /\ controller' = [controller EXCEPT ![t] = u]
    /\ status' = [status EXCEPT ![t] = "working"]
    /\ IF Exists(t)
       THEN /\ pc' = [pc EXCEPT ![u] = "starting"]
            /\ completion' = [completion EXCEPT ![t] = u]
            /\ session' = [session EXCEPT ![u] =
                              IF runtime[t] # NoTurn THEN runtime[t] ELSE u]
       ELSE /\ pc' = [pc EXCEPT ![u] = "done"]
            /\ UNCHANGED <<completion, session>>
    /\ UNCHANGED <<deleted, outcome, inProgress, runtime, thread, aborted, awaited>>

\* Variant: queueMessage forgets that the last turn may still be stopping.
SendWhileStopping(u) ==
    /\ up
    /\ pc[u] = "unsent"
    /\ Exists(thread[u])
    /\ ~IsWorking(thread[u])
    /\ \/ Launch(u)
       \/ /\ "sqlite_busy" \in Faults
          /\ pc' = [pc EXCEPT ![u] = "retrying"]
          /\ UNCHANGED <<rowVars, mapVars, thread, session, aborted, awaited>>
    /\ UNCHANGED <<up, accessPending>>

\* sendThreadMessage: the guards of queueMessage and the first attempt of
\* persistQueuedThreadMessage.
Send(u) ==
    /\ up
    /\ pc[u] = "unsent"
    /\ Exists(thread[u])
    /\ ~IsWorking(thread[u])
    /\ completion[thread[u]] = NoTurn
    /\ \/ Launch(u)
       \/ /\ "sqlite_busy" \in Faults
          /\ pc' = [pc EXCEPT ![u] = "retrying"]
          /\ UNCHANGED <<rowVars, mapVars, thread, session, aborted, awaited>>
    /\ UNCHANGED <<up, accessPending>>

\* A later attempt of withSqliteRetry gets the lock, and queueMessage goes on
\* without looking at the thread again; or the last attempt fails.
Retry(u) ==
    /\ pc[u] = "retrying"
    /\ \/ Launch(u)
       \/ /\ pc' = [pc EXCEPT ![u] = "done"]
          /\ UNCHANGED <<rowVars, mapVars, thread, session, aborted, awaited>>
    /\ UNCHANGED <<up, accessPending>>

-----------------------------------------------------------------------------
(* Settling a turn *)

\* Variant: the finally block forgets the completion.
ReleaseKeepingCompletion(u, newStatus) ==
    LET t == thread[u] IN
    /\ status' = [status EXCEPT ![t] = newStatus]
    /\ controller' = [controller EXCEPT ![t] = IF @ = u THEN NoTurn ELSE @]
    /\ pc' = [pc EXCEPT ![u] = "done"]
    /\ UNCHANGED <<completion, deleted, up, thread, session, aborted, awaited,
                   accessPending>>

\* setRunStatus and the finally block: the controller goes only if it is still
\* this turn's, the completion goes whoever's it is.
Release(u, newStatus) ==
    LET t == thread[u] IN
    /\ status' = [status EXCEPT ![t] = newStatus]
    /\ controller' = [controller EXCEPT ![t] = IF @ = u THEN NoTurn ELSE @]
    /\ completion' = [completion EXCEPT ![t] = NoTurn]
    /\ pc' = [pc EXCEPT ![u] = "done"]
    /\ UNCHANGED <<deleted, up, thread, session, aborted, awaited, accessPending>>

\* In-progress rows that outlive a settlement which does not stop them: the
\* final flush of a turn that prompted may leave some, dated just before the
\* settlement; otherwise those of an earlier turn stay.
LeftInProgress(u) ==
    IF pc[u] \in {"prompting", "grace"}
    THEN {"none", "older"} \cup (IF "clock_tie" \in Faults THEN {"current"} ELSE {})
    ELSE IF inProgress[thread[u]] = "none" THEN {"none"} ELSE {"older"}

\* settleCanceledThreadTurn
SettleCanceled(u) ==
    /\ active' = [active EXCEPT ![thread[u]] = NoTurn]
    /\ outcome' = [outcome EXCEPT ![thread[u]] = "stopped"]
    /\ inProgress' = [inProgress EXCEPT ![thread[u]] = "none"]
    /\ Release(u, "stopped")

\* Variant: markThreadRan and markThreadFailed leave active_turn_started_at.
SettleEndedKeepingActive(u, result, newStatus) ==
    /\ outcome' = [outcome EXCEPT ![thread[u]] = result]
    /\ \E left \in LeftInProgress(u) :
          inProgress' = [inProgress EXCEPT ![thread[u]] = left]
    /\ UNCHANGED active
    /\ Release(u, newStatus)

\* markThreadRan or markThreadFailed, after the last flush of the activity
\* writer.
SettleEnded(u, result, newStatus) ==
    /\ active' = [active EXCEPT ![thread[u]] = NoTurn]
    /\ outcome' = [outcome EXCEPT ![thread[u]] = result]
    /\ \E left \in LeftInProgress(u) :
          inProgress' = [inProgress EXCEPT ![thread[u]] = left]
    /\ Release(u, newStatus)

SettleFailed(u) == SettleEnded(u, "failed", "failed")

\* Variant: the status map gets the outcome word of the row.
SettleRanWithRowWord(u) == SettleEnded(u, "ran", "ran")

\* The turn ran to its end.  On a deleted thread every write to the status
\* throws, and the turn ends in its catch block instead.
SettleRan(u) ==
    IF Exists(thread[u]) THEN SettleEnded(u, "ran", "idle") ELSE SettleFailed(u)

\* The catch block: only an abort error of an aborted turn is a cancellation.
SettleError(u, isAbortError) ==
    IF isAbortError /\ u \in aborted THEN SettleCanceled(u) ELSE SettleFailed(u)

-----------------------------------------------------------------------------
(* The steps of runThreadMessageInBackground *)

\* ensureRuntime is done: the runtime is registered under the thread id, the
\* turn subscribes to it and looks at its signal.
RuntimeReady(u) ==
    /\ pc[u] = "starting"
    /\ IF session[u] = u
       THEN runtime' = [runtime EXCEPT ![thread[u]] = u]
       ELSE UNCHANGED runtime
    /\ IF u \in aborted
       THEN SettleCanceled(u)
       ELSE /\ pc' = [pc EXCEPT ![u] = IF "plugin_injection" \in Faults
                                       THEN "injecting" ELSE "prompting"]
            /\ UNCHANGED <<rowVars, up, status, controller, completion, thread,
                           session, aborted, awaited, accessPending>>

\* createRuntime or reloadResources throws.
RuntimeFails(u) ==
    /\ pc[u] = "starting"
    /\ \E isAbortError \in BOOLEAN : SettleError(u, isAbortError)
    /\ UNCHANGED runtime

\* The plugin sidecars answered and the prompt is sent.
InjectionDone(u) ==
    /\ pc[u] = "injecting"
    /\ u \notin aborted
    /\ pc' = [pc EXCEPT ![u] = "prompting"]
    /\ UNCHANGED <<rowVars, up, mapVars, thread, session, aborted, awaited,
                   accessPending>>

\* A sidecar call fails, by itself or because the turn's signal cancelled it:
\* a PluginSidecarToolCallError either way, which is not an abort error.
InjectionFails(u) ==
    /\ pc[u] = "injecting"
    /\ SettleError(u, FALSE)
    /\ UNCHANGED runtime

\* A session event is projected and persisted, or the flush timer writes an
\* entry that was buffered before the abort.
WriteActivity(u) ==
    /\ pc[u] \in {"prompting", "grace"}
    /\ inProgress' = [inProgress EXCEPT ![thread[u]] = "current"]
    /\ UNCHANGED <<deleted, active, outcome, up, mapVars, turnVars, accessPending>>

\* session.prompt resolved and the turn ends with what the session holds: an
\* aborted turn is canceled, whatever the assistant said.  Stopped or not, the
\* turn fails when the handling of an event or the flush of the writer threw.
Conclude(u) ==
    /\ \/ SettleFailed(u)
       \/ SettleCanceled(u)
       \/ u \notin aborted /\ SettleRan(u)
    /\ UNCHANGED runtime

\* session.prompt resolves with text, resolves without any (the turn then
\* waits for trailing events), or rejects, with an abort error or another one;
\* an error in the handling of an event goes before that of the prompt.
PromptEnds(u) ==
    /\ pc[u] = "prompting"
    /\ \/ Conclude(u)
       \/ /\ pc' = [pc EXCEPT ![u] = "grace"]
          /\ UNCHANGED <<rowVars, up, mapVars, thread, session, aborted, awaited,
                         accessPending>>
       \/ /\ \E isAbortError \in BOOLEAN : SettleError(u, isAbortError)
          /\ UNCHANGED runtime

\* Variant: the wait for trailing events has no deadline, and the events of an
\* aborted turn are dropped.
GraceEndsOnText(u) ==
    /\ pc[u] = "grace"
    /\ u \notin aborted
    /\ Conclude(u)

\* The trailing text arrived, or THREAD_FINAL_EVENT_GRACE_MS is over.
GraceEnds(u) ==
    /\ pc[u] = "grace"
    /\ Conclude(u)

TurnStep(u) ==
    \/ RuntimeReady(u) \/ RuntimeFails(u)
    \/ InjectionDone(u) \/ InjectionFails(u)
    \/ PromptEnds(u) \/ GraceEnds(u)

-----------------------------------------------------------------------------
(* Requests about a thread *)

\* Variant: stopTurn returns without waiting for the completion.
StopWithoutWait(t) ==
    /\ up
    /\ Exists(t)
    /\ IsWorking(t)
    /\ controller[t] # NoTurn
    /\ aborted' = aborted \cup {controller[t]}
    /\ inProgress' = [inProgress EXCEPT ![t] = "none"]
    /\ active' = [active EXCEPT ![t] = NoTurn]
    /\ outcome' = [outcome EXCEPT ![t] = "stopped"]
    /\ status' = [status EXCEPT ![t] = "stopped"]
    /\ UNCHANGED <<awaited, deleted, up, controller, completion, runtime, pc, thread,
                   session, accessPending>>

\* Variant: stopTurn leaves the row to the turn's own settlement.
StopInMemory(t) ==
    /\ up
    /\ Exists(t)
    /\ IsWorking(t)
    /\ controller[t] # NoTurn
    /\ aborted' = aborted \cup {controller[t]}
    /\ awaited' = awaited \cup ({completion[t]} \ {NoTurn})
    /\ status' = [status EXCEPT ![t] = "stopped"]
    /\ UNCHANGED <<rowVars, up, controller, completion, runtime, pc, thread,
                   session, accessPending>>

\* stopTurn: it refuses a working thread without a controller.  The wait for
\* the completion, raced with a timer, changes nothing but attaches a handler.
Stop(t) ==
    /\ up
    /\ Exists(t)
    /\ IsWorking(t)
    /\ controller[t] # NoTurn
    /\ aborted' = aborted \cup {controller[t]}
    /\ awaited' = awaited \cup ({completion[t]} \ {NoTurn})
    /\ inProgress' = [inProgress EXCEPT ![t] = "none"]
    /\ active' = [active EXCEPT ![t] = NoTurn]
    /\ outcome' = [outcome EXCEPT ![t] = "stopped"]
    /\ status' = [status EXCEPT ![t] = "stopped"]
    /\ UNCHANGED <<deleted, up, controller, completion, runtime, pc, thread,
                   session, accessPending>>

\* clearThread for every thread of S, and the soft delete of their rows.
Remove(S) ==
    /\ aborted' = aborted \cup ({controller[t] : t \in S} \ {NoTurn})
    /\ controller' = [t \in Threads |-> IF t \in S THEN NoTurn ELSE controller[t]]
    /\ completion' = [t \in Threads |-> IF t \in S THEN NoTurn ELSE completion[t]]
    /\ runtime' = [t \in Threads |-> IF t \in S THEN NoTurn ELSE runtime[t]]
    /\ status' = [t \in Threads |-> IF t \in S THEN "none" ELSE status[t]]
    /\ deleted' = deleted \cup S
    /\ UNCHANGED <<active, outcome, inProgress, up, pc, thread, session, awaited,
                   accessPending>>

\* deleteThread; discardEmptyThread does the same under a stronger guard.
DeleteThread(t) ==
    /\ up
    /\ Exists(t)
    /\ ~IsWorking(t)
    /\ Remove({t})

\* deleteProject refuses while a thread of the project works.
ThreadsOf(p) == {t \in Threads : ProjectOf[t] = p /\ Exists(t)}

DeleteProject(p) ==
    /\ up
    /\ ThreadsOf(p) # {}
    /\ \A t \in ThreadsOf(p) : ~IsWorking(t)
    /\ Remove(ThreadsOf(p))

\* Variant: the model of a working thread may change.
UpdateModelWhileWorking(t) ==
    /\ up
    /\ Exists(t)
    /\ runtime' = [runtime EXCEPT ![t] = NoTurn]
    /\ UNCHANGED <<rowVars, up, status, controller, completion, turnVars,
                   accessPending>>

\* updateThreadModel and updateThreadReasoningEffort: the runtime was built
\* with the old value, so it is disposed.
UpdateModel(t) ==
    /\ up
    /\ Exists(t)
    /\ ~IsWorking(t)
    /\ runtime' = [runtime EXCEPT ![t] = NoTurn]
    /\ UNCHANGED <<rowVars, up, status, controller, completion, turnVars,
                   accessPending>>

\* updateThreadAccess looks at the run status and then awaits the plugin
\* inventory; it does not look again before it writes.
BeginAccessUpdate(t) ==
    /\ up
    /\ "slow_inventory" \in Faults
    /\ Exists(t)
    /\ ~IsWorking(t)
    /\ accessPending' = accessPending \cup {t}
    /\ UNCHANGED <<rowVars, up, mapVars, turnVars>>

EndAccessUpdate(t) ==
    /\ t \in accessPending
    /\ accessPending' = accessPending \ {t}
    /\ runtime' = [runtime EXCEPT ![t] = NoTurn]
    /\ UNCHANGED <<rowVars, up, status, controller, completion, turnVars>>

\* shutdownActiveThreadTurns, at the reset of the operator's primary factor and
\* at process shutdown: every registered turn is aborted and awaited.
AbortAll ==
    /\ up
    /\ LET running == {t \in Threads : controller[t] # NoTurn} IN
       /\ running # {}
       /\ aborted' = aborted \cup {controller[t] : t \in running}
       /\ awaited' = awaited \cup ({completion[t] : t \in running} \ {NoTurn})
    /\ UNCHANGED <<rowVars, up, mapVars, pc, thread, session, accessPending>>

-----------------------------------------------------------------------------
(* The process *)

\* The process exits or dies: the rows stay.
Crash ==
    /\ up
    /\ up' = FALSE
    /\ status' = [t \in Threads |-> "none"]
    /\ controller' = [t \in Threads |-> NoTurn]
    /\ completion' = [t \in Threads |-> NoTurn]
    /\ runtime' = [t \in Threads |-> NoTurn]
    /\ pc' = [u \in Turns |-> IF pc[u] = "unsent" THEN "unsent" ELSE "done"]
    /\ session' = [u \in Turns |-> NoTurn]
    /\ aborted' = {}
    /\ awaited' = {}
    /\ accessPending' = {}
    /\ UNCHANGED <<rowVars, thread>>

\* Variant: any in-progress row makes the thread interrupted.
ShouldRecoverAlways(t) == active[t] # NoTurn \/ inProgress[t] # "none"

\* Variant: an active turn without in-progress rows is not looked for.
ShouldRecoverFromRows(t) ==
    \/ inProgress[t] = "current"
    \/ inProgress[t] = "older" /\ outcome[t] = "none"

\* shouldRecoverInterruptedThread
ShouldRecover(t) ==
    \/ active[t] # NoTurn
    \/ inProgress[t] = "current"
    \/ inProgress[t] = "older" /\ outcome[t] = "none"

\* recoverInterruptedTurns runs over the threads that still exist before the
\* process serves a request.
Restart ==
    /\ ~up
    /\ up' = TRUE
    /\ LET recovered == {t \in Threads : Exists(t) /\ ShouldRecover(t)} IN
       /\ active' = [t \in Threads |-> IF t \in recovered THEN NoTurn ELSE active[t]]
       /\ outcome' = [t \in Threads |->
                         IF t \in recovered THEN "stopped" ELSE outcome[t]]
       /\ inProgress' = [t \in Threads |->
                            IF Exists(t) THEN "none" ELSE inProgress[t]]
    /\ UNCHANGED <<deleted, mapVars, turnVars, accessPending>>

-----------------------------------------------------------------------------
Next ==
    \/ \E u \in Turns : Send(u) \/ Retry(u) \/ TurnStep(u) \/ WriteActivity(u)
    \/ \E t \in Threads :
          \/ Stop(t) \/ DeleteThread(t) \/ UpdateModel(t)
          \/ BeginAccessUpdate(t) \/ EndAccessUpdate(t)
    \/ \E p \in Projects : DeleteProject(p)
    \/ AbortAll \/ Crash \/ Restart

\* Timers fire and a process that died is started again.  A turn is only sure
\* to move once it is aborted: nothing bounds how long a prompt may run.
Fairness ==
    /\ \A u \in Turns : WF_vars(Retry(u))
    /\ \A u \in Turns : WF_vars(u \in aborted /\ TurnStep(u))
    /\ WF_vars(Restart)

Spec == Init /\ [][Next]_vars

FairSpec == Spec /\ Fairness

-----------------------------------------------------------------------------
(* Safety *)

\* One turn at a time: no two turns of the same thread are between their
\* launch and their finally block, whatever was stopped, deleted or restarted
\* in between.  queueMessage's two guards are there for it.
SingleTurn ==
    \A u, v \in Turns : Live(u) /\ Live(v) /\ thread[u] = thread[v] => u = v

\* A thread shown as working can be stopped: stopTurn never meets "Thread stop
\* is unavailable because no active run was found", since a live turn of this
\* thread holds the controller.
StopIsAvailable ==
    \A t \in Threads : up /\ Exists(t) /\ IsWorking(t) =>
        /\ controller[t] # NoTurn
        /\ Live(controller[t])
        /\ thread[controller[t]] = t

\* A turn that nobody asked to stop is shown: the map and the row both say the
\* thread works, so it can neither be deleted nor be sent another message.
RunningTurnIsShown ==
    \A u \in Turns : Live(u) /\ u \notin aborted =>
        /\ status[thread[u]] = "working"
        /\ active[thread[u]] = u
        /\ Exists(thread[u])

\* A stop or a disposal reaches the session the turn is prompting: while a
\* turn that was not aborted uses a runtime, the map holds that runtime.
PromptedRuntimeIsRegistered ==
    \A u \in Turns :
        pc[u] \in {"injecting", "prompting", "grace"} /\ u \notin aborted
            => runtime[thread[u]] = session[u]

\* The settlement of a turn whose thread was deleted throws.  Someone waits
\* for such a turn, so the rejection does not reach unhandledRejection, which
\* would end the process.
OrphansAreAwaited ==
    \A u \in Turns : Live(u) /\ ~Exists(thread[u]) => u \in awaited

\* An active_turn_started_at that no live turn stands for exists only while
\* the process is down: nothing shows a thread as working for ever.
NoGhostTurn ==
    \A t \in Threads : up /\ Exists(t) /\ active[t] # NoTurn => Live(active[t])

-----------------------------------------------------------------------------
(* Steps *)

\* A stopped turn never turns into a successful one: the signal is looked at
\* after the last wait of runThreadMessageInBackground.
StoppedNeverRan ==
    [][\A t \in Threads : status[t] = "stopped" => status'[t] # "idle"]_vars

\* Recovery leaves a settled turn alone: a thread without an active turn keeps
\* the outcome its last settlement wrote, even when activity rows were left
\* in progress.
RecoveryKeepsSettlements ==
    [][~up /\ up' => \A t \in Threads :
          active[t] = NoTurn /\ outcome[t] # "none" => outcome'[t] = outcome[t]]_vars

\* A stopped thread stays stopped until its next message, its deletion or the
\* end of the process.
StopIsFinal ==
    [][\A t \in Threads : Exists(t) /\ status[t] = "stopped"
          => status'[t] \in {"stopped", "working", "none"}]_vars

\* Access controls change only on a thread that does not work.
AccessChangesAtRest ==
    [][\A t \in Threads : t \in accessPending /\ t \notin accessPending' /\ up'
          => ~IsWorking(t)]_vars

-----------------------------------------------------------------------------
(* Liveness *)

\* Every abort is followed by a settlement, so a stop, a reset of the primary
\* factor and a shutdown all come to an end.
AbortedTurnsSettle == \A u \in Turns : u \in aborted ~> ~Live(u)

\* A stopped thread accepts a message again: nobody stays at "Thread is still
\* stopping".
StoppedThreadsReopen ==
    \A t \in Threads : status[t] = "stopped" ~> completion[t] = NoTurn

-----------------------------------------------------------------------------
(* The abstract specification *)

phaseOf ==
    [t \in Threads |->
        CASE ~Exists(t) -> "gone"
          [] Exists(t) /\ ~up -> IF active[t] # NoTurn THEN "lost" ELSE "quiet"
          [] Exists(t) /\ up /\ IsWorking(t) -> "working"
          [] OTHER -> IF completion[t] # NoTurn THEN "stopping" ELSE "quiet"]

lastOf == [t \in Threads |-> IF Exists(t) THEN outcome[t] ELSE "none"]

Contract == INSTANCE ThreadTurnContract WITH phase <- phaseOf, last <- lastOf

\* The turns, with their controllers, promises and maps, are turns of the
\* contract.
ContractSpec == Contract!Spec
=============================================================================
