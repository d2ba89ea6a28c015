--------------------------- MODULE PluginRuntime ---------------------------
(***************************************************************************)
(* The sidecars of one plugin directory: the manager that starts and stops *)
(* them (plugin/sidecar-manager.ts), the lifecycle record that says        *)
(* whether it may (plugin/lifecycle.ts), the reconciliation that is asked  *)
(* for by RPC handlers (index.ts, rpc-handlers/plugin-admin.ts), and the   *)
(* operator who edits, approves, disables and retries the plugin.          *)
(*                                                                         *)
(* The manager has no lock.  Every handler, reconciliation and crash       *)
(* restart is a task that keeps its own snapshots across awaits; one       *)
(* action is the code between two of them.  The lifecycle file is read     *)
(* and written back as a whole, so a task's copy of the record goes stale  *)
(* while others write.                                                     *)
(***************************************************************************)
EXTENDS Naturals, FiniteSets

CONSTANTS
    Tasks,           \* asynchronous activities in flight at once
    Procs,           \* sidecar processes
    Versions,        \* review hashes the plugin's files can have
    CrashThreshold,  \* PLUGIN_SIDECAR_CRASH_LOOP_THRESHOLD
    MaxRequests,     \* what the operator does, edits included
    None

ASSUME RuntimeAssumption ==
    /\ MaxRequests \in Nat
    /\ CrashThreshold \in Nat \ {0}
    /\ None \notin Procs \cup Versions
    /\ Versions # {} /\ Procs # {} /\ Tasks # {}

VARIABLES
    disk,         \* review hash of the plugin's files
    record,       \* the plugin's record in the lifecycle file
    proc,         \* the session object and the process of each sidecar
    listed,       \* sessions.get(directoryName)
    crashes,      \* crashTimestampsByDirectoryName, inside the window
    task,
    reconciler,   \* pluginRuntimeReconciliationPromise: the task behind it
    pending,      \* pendingPluginRuntimeReconciliation
    approved,     \* history: the hashes the operator approved
    overlapped,   \* history: two tasks were in flight at once
    requests      \* requests so far

historyVars == <<approved, overlapped, requests>>
vars == <<disk, record, proc, listed, crashes, task, reconciler, pending, historyVars>>

(***************************************************************************)
(* States                                                                  *)
(***************************************************************************)
LifecycleStates == {"uninitialized", "active", "needs_review", "failed", "restart_required"}
Records == [state : LifecycleStates, hash : Versions \cup {None}]

\* life: the process, "dead" until its exit is noticed; the rest: the session
\* object.  A stopping session has been sent SIGTERM or is about to be.
Lives == {"free", "alive", "dead", "gone"}
Sessions == [life : Lives, ready : BOOLEAN, stopping : BOOLEAN, crons : BOOLEAN,
             hash : Versions \cup {None}]
Running(p) == proc[p].life = "alive"

Actions == {"enable", "review_changes", "disable", "retry"}
Points == {"idle", "look", "request", "read", "sync", "keep", "halt", "prepare", "await",
           "activate", "activated", "fail", "failed", "act", "acted", "retry",
           "other", "othered"}

\* plan: the hash to start, None for "do not start"; copy: the record as read.
TaskRecords == [pc : Points, plan : Versions \cup {None}, proc : Procs \cup {None},
                copy : Records, action : Actions \cup {None}]
NoCopy == [state |-> "uninitialized", hash |-> None]
Idle == [pc |-> "idle", plan |-> None, proc |-> None, copy |-> NoCopy, action |-> None]
Busy == {t \in Tasks : task[t].pc # "idle"}

\* A reconciliation works on the inventory it was given or on a fresh one.
Requests == [kind : {"none", "fresh", "given"}, plan : Versions \cup {None}]
NoRequest == [kind |-> "none", plan |-> None]

TypeOK ==
    /\ disk \in Versions
    /\ record \in Records
    /\ proc \in [Procs -> Sessions]
    /\ listed \in Procs \cup {None}
    /\ crashes \in 0..CrashThreshold
    /\ task \in [Tasks -> TaskRecords]
    /\ reconciler \in Tasks \cup {None}
    /\ pending \in Requests
    /\ approved \subseteq Versions
    /\ overlapped \in BOOLEAN
    /\ requests \in 0..MaxRequests

\* A process that is gone leaves nothing behind but cron schedules it still owns.
Unused == [life |-> "free", ready |-> FALSE, stopping |-> FALSE, crons |-> FALSE, hash |-> None]

\* Startup asks for a reconciliation on a fresh inventory.
Startup(t) == [x \in Tasks |-> IF x = t THEN [Idle EXCEPT !.pc = "read"] ELSE Idle]

Init ==
    /\ disk \in Versions
    /\ record = NoCopy
    /\ proc = [p \in Procs |-> Unused]
    /\ listed = None
    /\ crashes = 0
    /\ reconciler \in Tasks
    /\ task = Startup(reconciler)
    /\ pending = NoRequest
    /\ approved = {}
    /\ overlapped = FALSE
    /\ requests = 0

(***************************************************************************)
(* Tasks                                                                   *)
(***************************************************************************)
\* A task may run beside others; the history remembers that it did.
Begin(t, fields) ==
    /\ task[t].pc = "idle"
    /\ task' = [task EXCEPT ![t] = fields]
    /\ overlapped' = (overlapped \/ Busy # {})

At(t, pc) == task[t].pc = pc
Continue(t, fields) == task' = [task EXCEPT ![t] = fields]
Goto(t, pc) == Continue(t, [task[t] EXCEPT !.pc = pc])

\* The end of a task: the reconciler takes the pending request, if there is one.
Finish(t) ==
    IF t # reconciler \/ pending = NoRequest
    THEN /\ Continue(t, Idle)
         /\ reconciler' = IF t = reconciler THEN None ELSE reconciler
         /\ UNCHANGED pending
    ELSE /\ Continue(t, [Idle EXCEPT !.pc = IF pending.kind = "fresh" THEN "read" ELSE "sync",
                                     !.plan = pending.plan])
         /\ pending' = NoRequest
         /\ UNCHANGED reconciler

(***************************************************************************)
(* The lifecycle file and the inventory built from it                      *)
(***************************************************************************)
\* Variant: the state of the record is not looked at.
EligibleInAnyState(r, d) == IF r.hash = d THEN d ELSE None

\* buildPluginInventoryWithLifecycle and isEligibleActivePlugin: the hash to
\* run, or None.
Eligible(r, d) == IF r.state = "active" /\ r.hash = d THEN d ELSE None

\* approvalRecord, actionRecord, retryRecord: the record an action writes.
ActionRecord(action, r, d) ==
    CASE action = "enable"         -> [state |-> "active", hash |-> d]
      [] action = "review_changes" -> [r EXCEPT !.state = "needs_review"]
      [] action = "disable"        -> [r EXCEPT !.state = "restart_required"]
      [] action = "retry" /\ r.hash = d -> [r EXCEPT !.state = "active"]
      [] action = "retry" /\ r.hash # d -> [r EXCEPT !.state = "needs_review"]

\* readLifecycleStateFile of a task that will write the file back.
ReadRecord(t, from, to) ==
    /\ At(t, from)
    /\ Continue(t, [Idle EXCEPT !.pc = to, !.copy = record, !.action = task[t].action])
    /\ UNCHANGED <<disk, record, proc, listed, crashes, reconciler, pending, historyVars>>

(***************************************************************************)
(* Operator requests (RPC handlers)                                        *)
(***************************************************************************)
Asked == requests < MaxRequests /\ requests' = requests + 1

EditFiles ==
    /\ Asked
    /\ disk' \in Versions \ {disk}
    /\ UNCHANGED <<record, proc, listed, crashes, task, reconciler, pending, approved, overlapped>>

\* runPluginLifecycleAction; "enable" stands for reapprove as well.
Act(t, action) ==
    /\ Asked
    /\ Begin(t, [Idle EXCEPT !.pc = "act", !.action = action])
    /\ UNCHANGED <<disk, record, proc, listed, crashes, reconciler, pending, approved>>

\* getPluginInventory: the inventory is built, then a reconciliation asked for.
Refresh(t) ==
    /\ Asked
    /\ Begin(t, [Idle EXCEPT !.pc = "look"])
    /\ UNCHANGED <<disk, record, proc, listed, crashes, reconciler, pending, approved>>

Look(t) ==
    /\ At(t, "look")
    /\ Continue(t, [task[t] EXCEPT !.pc = "request", !.plan = Eligible(record, disk)])
    /\ UNCHANGED <<disk, record, proc, listed, crashes, reconciler, pending, historyVars>>

\* startPluginRuntimeReconciliation: one drain at a time, one request behind it.
Request(t) ==
    /\ At(t, "request")
    /\ IF reconciler # None
       THEN /\ pending' = [kind |-> "given", plan |-> task[t].plan]
            /\ Continue(t, Idle)
            /\ UNCHANGED reconciler
       ELSE /\ reconciler' = t
            /\ Goto(t, "sync")
            /\ UNCHANGED pending
    /\ UNCHANGED <<disk, record, proc, listed, crashes, historyVars>>

\* updatePluginSettings: a reconciliation without an inventory.
RequestFresh(t) ==
    /\ Asked
    /\ IF reconciler # None
       THEN /\ pending' = [kind |-> "fresh", plan |-> None]
            /\ UNCHANGED <<task, reconciler, overlapped>>
       ELSE /\ Begin(t, [Idle EXCEPT !.pc = "read"])
            /\ reconciler' = t
            /\ UNCHANGED pending
    /\ UNCHANGED <<disk, record, proc, listed, crashes, approved>>

\* Another plugin's record, or manifest metadata, is written: this plugin's
\* record goes back to the file as it was read.
WriteOther(t) ==
    /\ Asked
    /\ Begin(t, [Idle EXCEPT !.pc = "other"])
    /\ UNCHANGED <<disk, record, proc, listed, crashes, reconciler, pending, approved>>

WroteOther(t) ==
    /\ At(t, "othered")
    /\ record' = task[t].copy
    /\ Continue(t, Idle)
    /\ UNCHANGED <<disk, proc, listed, crashes, reconciler, pending, historyVars>>

\* The write of runPluginLifecycleAction, and what the handler goes on with:
\* an approval builds the inventory and starts from it, a retry stops first.
Acted(t) ==
    /\ At(t, "acted")
    /\ record' = ActionRecord(task[t].action, task[t].copy, disk)
    /\ approved' = IF task[t].action = "enable" THEN approved \cup {disk} ELSE approved
    /\ CASE task[t].action = "enable" -> Continue(t, [Idle EXCEPT !.pc = "read"])
         [] task[t].action = "retry"  -> Continue(t, [Idle EXCEPT !.pc = "retry"])
         [] OTHER                     -> Continue(t, Idle)
    /\ UNCHANGED <<disk, proc, listed, crashes, reconciler, pending, overlapped, requests>>

(***************************************************************************)
(* Stopping                                                                *)
(***************************************************************************)
\* The synchronous part of stopSession; the task goes on to "halt", where the
\* shutdown frame has been written (or not) and the process is killed.
Stop(t, p, next) ==
    /\ proc' = [proc EXCEPT ![p] = IF @.life \in {"free", "gone"} THEN Unused
                                   ELSE [@ EXCEPT !.stopping = TRUE, !.crons = FALSE]]
    /\ listed' = IF listed = p THEN None ELSE listed
    /\ Continue(t, [next EXCEPT !.proc = p])

Halt(t) ==
    /\ At(t, "halt")
    /\ IF task[t].plan = None /\ task[t].action # "retry"
       THEN Finish(t)
       ELSE /\ Continue(t, [Idle EXCEPT !.pc = IF task[t].action = "retry" THEN "read" ELSE "prepare",
                                       !.plan = task[t].plan])
            /\ UNCHANGED <<reconciler, pending>>
    /\ UNCHANGED <<disk, record, proc, listed, crashes, historyVars>>

\* retryPlugin
Retry(t) ==
    /\ At(t, "retry")
    /\ crashes' = 0
    /\ IF listed # None
       THEN Stop(t, listed, [Idle EXCEPT !.pc = "halt", !.action = "retry"])
       ELSE /\ Continue(t, [Idle EXCEPT !.pc = "read"])
            /\ UNCHANGED <<proc, listed>>
    /\ UNCHANGED <<disk, record, reconciler, pending, historyVars>>

(***************************************************************************)
(* startApprovedPlugins                                                    *)
(***************************************************************************)
\* The inventory (the one given, or a new one) and one turn of the loop over it,
\* up to its first await.
Sync(t) ==
    LET plan == IF At(t, "read") THEN Eligible(record, disk) ELSE task[t].plan
        Then(pc) == [Idle EXCEPT !.pc = pc, !.plan = plan]
    IN
    /\ At(t, "read") \/ At(t, "sync")
    /\ CASE listed # None /\ plan = proc[listed].hash ->
              /\ Continue(t, [Then("keep") EXCEPT !.proc = listed])
              /\ UNCHANGED <<proc, listed, reconciler, pending>>
         [] listed # None /\ plan # proc[listed].hash ->
              /\ Stop(t, listed, Then("halt"))
              /\ UNCHANGED <<reconciler, pending>>
         [] listed = None /\ plan # None ->
              /\ Continue(t, Then("prepare"))
              /\ UNCHANGED <<proc, listed, reconciler, pending>>
         [] listed = None /\ plan = None ->
              /\ Finish(t)
              /\ UNCHANGED <<proc, listed>>
    /\ UNCHANGED <<disk, record, crashes, historyVars>>

\* The settings of the session that was found are read: kept when they are the
\* same, replaced when they changed.
Keep(t) ==
    /\ At(t, "keep")
    /\ \/ /\ Finish(t)
          /\ UNCHANGED <<proc, listed>>
       \/ /\ Stop(t, task[t].proc, [task[t] EXCEPT !.pc = "halt"])
          /\ UNCHANGED <<reconciler, pending>>
    /\ UNCHANGED <<disk, record, crashes, historyVars>>

(***************************************************************************)
(* startPlugin                                                             *)
(***************************************************************************)
Available(p) ==
    /\ proc[p].life = "free"
    /\ \A t \in Tasks : task[t].proc # p

\* Variant: the files are not hashed again before the spawn.
SpawnUnchecked(t) ==
    /\ At(t, "prepare")
    /\ \E p \in Procs :
          /\ Available(p)
          /\ proc' = [proc EXCEPT ![p] = [Unused EXCEPT !.life = "alive", !.hash = disk]]
          /\ listed' = p
          /\ Continue(t, [Idle EXCEPT !.pc = "await", !.proc = p])
    /\ UNCHANGED <<disk, record, crashes, reconciler, pending, historyVars>>

\* The hash check that ends the preparation, the spawn and sessions.set.
Spawn(t) ==
    /\ At(t, "prepare")
    /\ disk = task[t].plan
    /\ \E p \in Procs :
          /\ Available(p)
          /\ proc' = [proc EXCEPT ![p] = [Unused EXCEPT !.life = "alive", !.hash = task[t].plan]]
          /\ listed' = p
          /\ Continue(t, [Idle EXCEPT !.pc = "await", !.proc = p])
    /\ UNCHANGED <<disk, record, crashes, reconciler, pending, historyVars>>

\* The hash differs, or the environment or the data directory is not as required.
PrepareFails(t) ==
    /\ At(t, "prepare")
    /\ Continue(t, [Idle EXCEPT !.pc = "fail"])
    /\ UNCHANGED <<disk, record, proc, listed, crashes, reconciler, pending, historyVars>>

\* sidecar.ready: resolveStartup and registerSessionCronSchedules.
Ready(t) ==
    LET p == task[t].proc IN
    /\ At(t, "await")
    /\ Running(p)
    /\ proc' = [proc EXCEPT ![p].ready = TRUE, ![p].crons = TRUE]
    /\ Continue(t, [Idle EXCEPT !.pc = "activate"])
    /\ UNCHANGED <<disk, record, listed, crashes, reconciler, pending, historyVars>>

\* Variant: the catch block leaves the map entry.
GiveUpListed(t, p, session) ==
    /\ proc' = [proc EXCEPT ![p] = session]
    /\ Continue(t, [Idle EXCEPT !.pc = "fail"])
    /\ UNCHANGED listed

\* The catch block of startPlugin; it deletes the map entry whatever it holds.
GiveUp(t, p, session) ==
    /\ proc' = [proc EXCEPT ![p] = session]
    /\ listed' = None
    /\ Continue(t, [Idle EXCEPT !.pc = "fail"])

\* sidecar.error or the startup timeout.
StartFails(t) ==
    LET p == task[t].proc IN
    /\ At(t, "await")
    /\ GiveUp(t, p, IF proc[p].life = "free" THEN Unused ELSE [proc[p] EXCEPT !.stopping = TRUE])
    /\ UNCHANGED <<disk, record, crashes, reconciler, pending, historyVars>>

\* recordPluginRuntimeActivation, after its read.
Activated(t) ==
    /\ At(t, "activated")
    /\ record' = [task[t].copy EXCEPT !.state = "active"]
    /\ Finish(t)
    /\ UNCHANGED <<disk, proc, listed, crashes, historyVars>>

\* recordPluginRuntimeFailure, after its read.
Failed(t) ==
    /\ At(t, "failed")
    /\ record' = [task[t].copy EXCEPT !.state = "failed"]
    /\ Finish(t)
    /\ UNCHANGED <<disk, proc, listed, crashes, historyVars>>

(***************************************************************************)
(* Processes that end                                                      *)
(***************************************************************************)
ProcessExits(p) ==
    /\ Running(p)
    /\ proc' = [proc EXCEPT ![p].life = "dead"]
    /\ UNCHANGED <<disk, record, listed, crashes, task, reconciler, pending, historyVars>>

\* Variant: whatever is listed is taken off the map, and only the map.
UnlistAny(p) ==
    /\ proc' = [proc EXCEPT ![p] = IF ~@.crons THEN Unused ELSE [@ EXCEPT !.life = "gone"]]
    /\ listed' = None

\* What the exit handler does first: only a listed session is taken off the map
\* and loses its schedules.
Unlist(p) ==
    /\ proc' = [proc EXCEPT ![p] = IF listed = p \/ ~@.crons THEN Unused
                                   ELSE [@ EXCEPT !.life = "gone"]]
    /\ listed' = IF listed = p THEN None ELSE listed

StoppedExits(p) ==
    /\ proc[p].life = "dead" /\ proc[p].stopping
    /\ Unlist(p)
    /\ UNCHANGED <<disk, record, crashes, task, reconciler, pending, historyVars>>

\* rejectStartup, whose task then goes through its catch block.
StartingExits(p) ==
    /\ proc[p].life = "dead" /\ ~proc[p].stopping /\ ~proc[p].ready
    /\ \E t \in Tasks : At(t, "await") /\ task[t].proc = p /\ GiveUp(t, p, Unused)
    /\ UNCHANGED <<disk, record, crashes, reconciler, pending, historyVars>>

\* recordUnexpectedCrash: a restart below the threshold, a failure at it.
Crashes(p) ==
    LET n == IF crashes < CrashThreshold THEN crashes + 1 ELSE crashes IN
    /\ proc[p].life = "dead" /\ ~proc[p].stopping /\ proc[p].ready
    /\ Unlist(p)
    /\ crashes' = n
    /\ \E t \in Tasks :
          Begin(t, IF n >= CrashThreshold
                   THEN [Idle EXCEPT !.pc = "fail"]
                   ELSE [Idle EXCEPT !.pc = "prepare", !.plan = proc[p].hash])
    /\ UNCHANGED <<disk, record, reconciler, pending, approved, requests>>

\* pruneCrashTimestamps: the oldest crashes leave the window.
WindowPasses ==
    /\ crashes > 0
    /\ crashes' \in 0..(crashes - 1)
    /\ UNCHANGED <<disk, record, proc, listed, task, reconciler, pending, historyVars>>

\* Metidos ends, by shutdown or by a crash, and its sidecars with it; only the
\* files survive.
HostRestarts ==
    /\ proc' = [p \in Procs |-> Unused]
    /\ listed' = None
    /\ crashes' = 0
    /\ reconciler' \in Tasks
    /\ task' = Startup(reconciler')
    /\ pending' = NoRequest
    /\ overlapped' = FALSE
    /\ UNCHANGED <<disk, record, approved, requests>>

(***************************************************************************)
(* Specification                                                           *)
(***************************************************************************)
TaskStep(t) ==
    \/ Look(t) \/ Request(t) \/ Acted(t) \/ Retry(t) \/ WroteOther(t)
    \/ ReadRecord(t, "act", "acted") \/ ReadRecord(t, "other", "othered")
    \/ ReadRecord(t, "activate", "activated") \/ ReadRecord(t, "fail", "failed")
    \/ Sync(t) \/ Keep(t) \/ Halt(t)
    \/ Spawn(t) \/ PrepareFails(t) \/ Ready(t) \/ StartFails(t)
    \/ Activated(t) \/ Failed(t)

OperatorStep(t) ==
    \/ \E action \in Actions : Act(t, action)
    \/ Refresh(t) \/ RequestFresh(t) \/ WriteOther(t)

ProcessStep(p) ==
    ProcessExits(p) \/ StoppedExits(p) \/ StartingExits(p) \/ Crashes(p)

Next ==
    \/ \E t \in Tasks : TaskStep(t) \/ OperatorStep(t)
    \/ \E p \in Procs : ProcessStep(p)
    \/ EditFiles \/ WindowPasses \/ HostRestarts

Spec == Init /\ [][Next]_vars

(***************************************************************************)
(* Properties                                                              *)
(***************************************************************************)
\* Plugin code runs only in a version the operator approved, whatever the
\* tasks do to each other and to the lifecycle file: computePluginReviewHash
\* stands between every start, crash restarts included, and the spawn.
OnlyApprovedCode == \A p \in Procs : Running(p) => proc[p].hash \in approved

\* The session the manager would hand a call to is never one it is stopping,
\* although stops, starts and exits of several sessions interleave.
ListedIsServing == listed # None => ~proc[listed].stopping

\* "Exactly one sidecar process per activated plugin": every sidecar that is
\* not on its way out, and every cron schedule, belongs to the listed session.
OneSidecar ==
    \A p \in Procs : (Running(p) /\ ~proc[p].stopping) \/ proc[p].crons => listed = p

\* ... as long as no two tasks were ever in flight together.
OneSidecarAlone == ~overlapped => OneSidecar

\* A plugin whose failure is on record has no sidecar once the tasks are done:
\* the crash loop ends and no restart is left behind.
FailedIsDown ==
    ~overlapped /\ Busy = {} /\ record.state = "failed" => listed = None

OperatorWrites == \E t \in Tasks : At(t, "acted") /\ task'[t] # task[t]

\* The record of a failure is undone by the operator only, never by the
\* runtime's own activation of a sidecar (again without overlap).
FailureSticks ==
    [][record.state = "failed" /\ record' # record /\ ~overlapped
         => OperatorWrites]_vars

\* "Disable marks the plugin disabled and restart-required": only the operator
\* takes that back.
DisableSticks ==
    [][record.state = "restart_required" /\ record' # record
         => OperatorWrites]_vars
=============================================================================
