------------------------------ MODULE CronRuns ------------------------------
(***************************************************************************)
(* Cron jobs: their rows, the registrations of the in-process scheduler,   *)
(* and the runs that turn a fire into the turn of a child thread.          *)
(*                                                                         *)
(* Models sidecar-cron-scheduler.ts, sidecar-cron-runner.ts, the cron      *)
(* procedures of project-procedures.ts and the cron statements of db.ts.   *)
(* The child threads are seen through ThreadTurnContract, which            *)
(* ThreadTurns implements: a run and its child thread share a name.        *)
(*                                                                         *)
(* As in ThreadTurns, an action is what the event loop runs between two    *)
(* waits on something outside it.  A monitor that saw its child settle is  *)
(* resumed by a microtask, so only the death of the process can come       *)
(* between the settlement of the child and the report of the run, or       *)
(* between the writes of the report, which are actions of their own.       *)
(***************************************************************************)
EXTENDS FiniteSets, Naturals

CONSTANTS
    Projects,   \* project rows
    Jobs,       \* ids of cron jobs, whether their row exists yet or not
    ProjectOf,  \* the project of each job
    Runs,       \* fires and manual runs, each of which may become one run
    Faults      \* what the environment may do in this run, see AllFaults

(***************************************************************************)
(* slow_import: the first import of the runner module reads the disk.      *)
(* slow_inventory: reading the plugin inventory or checking a workspace    *)
(*   path takes file-system time.                                          *)
(* project_deletion: the operator deletes projects that have cron jobs.    *)
(* sqlite_busy: a statement of the runner throws: one that heals or claims *)
(*   a job, reports a run, or records that a launch or a report failed.    *)
(* clock_back: the date of a run is not later than that of the last run of *)
(*   the job, as the clock was set back or both are of one millisecond.    *)
(***************************************************************************)
AllFaults == {"slow_import", "slow_inventory", "project_deletion", "sqlite_busy",
              "clock_back"}

ASSUME ConstantsAssumption ==
    /\ ProjectOf \in [Jobs -> Projects]
    /\ Faults \subseteq AllFaults

VARIABLES
    \* --- rows of the database: survive a restart
    untracked,  \* projects with deleted_at set
    jobs,       \* cron_jobs rows that exist
    enabled,    \* those with enabled = 1
    gone,       \* those with deleted_at set
    lastRun,    \* last_run_status of each job
    runRow,     \* run_status of the cron_job_runs row of each run
    phase,      \* the turns of the child threads, see ThreadTurnContract
    last,
    \* --- memory of the process
    up,
    loaded,     \* the runner module has been imported
    registered, \* the registrations map of the scheduler
    activeIds,  \* activeCronJobIds
    edits,      \* updateCron requests waiting for the plugin inventory
    \* --- the runs
    pc,         \* where the run waits
    job,        \* the job it is about
    scheduled,  \* runs that a registration fired, the others are manual
    verdict,    \* what the monitor was told, until it has reported it
    cronTurns   \* runs whose child works on the turn the runner started

projectVars == <<untracked, jobs, enabled, gone>>
threadVars == <<phase, last>>
recordVars == <<lastRun, runRow>>
runVars == <<pc, job, scheduled, verdict, cronTurns>>
vars == <<projectVars, recordVars, threadVars, up, loaded, registered, activeIds,
          edits, runVars>>

Turns == INSTANCE ThreadTurnContract WITH Threads <- Runs

Terminal == {"Completed", "Errored", "Stopped"}

TypeOK ==
    /\ untracked \subseteq Projects
    /\ jobs \subseteq Jobs
    /\ enabled \subseteq jobs
    /\ gone \subseteq jobs
    /\ lastRun \in [Jobs -> {"none", "InProgress"} \cup Terminal]
    /\ runRow \in [Runs -> {"none", "InProgress"} \cup Terminal]
    /\ Turns!TypeOK
    /\ up \in BOOLEAN
    /\ loaded \in BOOLEAN
    /\ registered \subseteq jobs
    /\ activeIds \subseteq jobs
    /\ edits \in [Jobs -> {"none", "enable", "disable"}]
    /\ pc \in [Runs -> {"unused", "importing", "creating", "monitoring", "recorded",
                        "failing", "failed", "done"}]
    /\ job \in [Runs -> Jobs]
    /\ scheduled \subseteq Runs
    /\ verdict \in [Runs -> {"none"} \cup Terminal]
    /\ cronTurns \subseteq Runs

Init ==
    /\ untracked = {}
    /\ jobs = {}
    /\ enabled = {}
    /\ gone = {}
    /\ lastRun = [j \in Jobs |-> "none"]
    /\ runRow = [e \in Runs |-> "none"]
    /\ Turns!Init
    /\ up = TRUE
    /\ loaded = FALSE
    /\ registered = {}
    /\ activeIds = {}
    /\ edits = [j \in Jobs |-> "none"]
    /\ pc = [e \in Runs |-> "unused"]
    /\ job \in [Runs -> Jobs]
    /\ scheduled = {}
    /\ verdict = [e \in Runs |-> "none"]
    /\ cronTurns = {}

-----------------------------------------------------------------------------
(* Readings of the state *)

Tracked(j) == ProjectOf[j] \notin untracked

RunsOf(j) == {e \in Runs : job[e] = j}

\* The run is between executeCronJob and the end of its monitor.
Executing(e) == pc[e] \in {"creating", "monitoring", "recorded", "failing", "failed"}

\* The child thread of a run exists from its run row on.
HasChild(e) == runRow[e] # "none" /\ phase[e] # "gone"

\* No monitor has a microtask to run: another macrotask may begin.
Quiescent == up /\ \A e \in Runs : verdict[e] = "none"

\* hasActiveThreadForCronJob
HasActiveThread(j) == \E e \in RunsOf(j) : phase[e] = "working"

\* listActiveCronJobs, with its join on projects.
ActiveJobs == {j \in enabled \ gone : Tracked(j)}

-----------------------------------------------------------------------------
(* Starting a run *)

\* Variant: the claim does not look at last_run_status.
CanClaimTwice(j, lastStatus, later) ==
    /\ j \in jobs \ gone
    /\ ~HasActiveThread(j)
    /\ later

\* The WHERE clause of claimCronJobForScheduledRunById, `later` being its
\* comparison of dates.  Both callers pass includeDisabled, so `enabled` does
\* not matter.
CanClaim(j, lastStatus, later) ==
    /\ j \in jobs \ gone
    /\ lastStatus # "InProgress"
    /\ ~HasActiveThread(j)
    /\ later

\* What last_run_date < runDate may say.  A job that never ran has no date.
Later(j) == IF "clock_back" \in Faults /\ lastRun[j] # "none" THEN BOOLEAN ELSE {TRUE}

\* The two statements of stopInProgressCronJobRuns, on the run rows and on the
\* rows of these jobs: what is in progress becomes Stopped.
StoppedRuns(S) == [e \in Runs |-> IF job[e] \in S /\ runRow[e] = "InProgress"
                                  THEN "Stopped" ELSE runRow[e]]

StoppedJobs(S) == [j \in Jobs |-> IF j \in S /\ lastRun[j] = "InProgress"
                                  THEN "Stopped" ELSE lastRun[j]]

StopRuns(S) == runRow' = StoppedRuns(S) /\ lastRun' = StoppedJobs(S)

\* Variant: stale rows are left alone.
StaleNever(j) == {}

\* The jobs whose in-progress rows runCronJobById takes for stale.
Stale(j) == IF j \in activeIds \/ HasActiveThread(j) THEN {} ELSE {j}

\* The claim of a job and what was healed before it.
ClaimRows(j) ==
    /\ lastRun' = [lastRun EXCEPT ![j] = "InProgress"]
    /\ runRow' = StoppedRuns(Stale(j))

\* A statement of runCronJobById throws: the first, the second or neither half
\* of the healing was written, or all of it and the claim, when what throws is
\* the audit event of a disabled job.
ClaimThrows(e) ==
    LET j == job[e] IN
    /\ "sqlite_busy" \in Faults
    /\ pc' = [pc EXCEPT ![e] = "done"]
    /\ UNCHANGED activeIds
    /\ \/ UNCHANGED recordVars
       \/ runRow' = StoppedRuns(Stale(j)) /\ UNCHANGED lastRun
       \/ StopRuns(Stale(j))
       \/ /\ j \notin enabled
          /\ \E later \in Later(j) : CanClaim(j, StoppedJobs(Stale(j))[j], later)
          /\ ClaimRows(j)

\* runCronJobById with allowStaleRestart, up to the wait for createThread.
RunById(e) ==
    LET j == job[e] IN
    /\ \/ \E later \in Later(j) :
             IF CanClaim(j, StoppedJobs(Stale(j))[j], later)
             THEN /\ pc' = [pc EXCEPT ![e] = "creating"]
                  /\ activeIds' = activeIds \cup {j}
                  /\ ClaimRows(j)
             ELSE /\ pc' = [pc EXCEPT ![e] = "done"]
                  /\ StopRuns(Stale(j))
                  /\ UNCHANGED activeIds
       \/ ClaimThrows(e)
    /\ UNCHANGED <<projectVars, threadVars, up, registered, edits, job, verdict,
                   cronTurns>>

\* The import of the runner: at once when it has been loaded before.
Import(e) ==
    \/ /\ RunById(e)
       /\ loaded' = TRUE
    \/ /\ ~loaded
       /\ "slow_import" \in Faults
       /\ pc' = [pc EXCEPT ![e] = "importing"]
       /\ UNCHANGED <<projectVars, recordVars, threadVars, up, loaded, registered,
                      activeIds, edits, job, verdict, cronTurns>>

\* launchScheduledCronJob: a registration of the job fires.
Fire(e) ==
    /\ Quiescent
    /\ pc[e] = "unused"
    /\ job[e] \in registered
    /\ scheduled' = scheduled \cup {e}
    /\ Import(e)

\* runCronNowProcedure
RunNow(e) ==
    /\ Quiescent
    /\ pc[e] = "unused"
    /\ job[e] \in jobs \ gone
    /\ Tracked(job[e])
    /\ UNCHANGED scheduled
    /\ Import(e)

ImportDone(e) ==
    /\ Quiescent
    /\ pc[e] = "importing"
    /\ loaded' = TRUE
    /\ RunById(e)
    /\ UNCHANGED scheduled

-----------------------------------------------------------------------------
(* Executing a run *)

\* executeCronJob: the child thread is created, the run row is written, the
\* prompt is sent, and the monitor subscribes to the child.
LaunchSucceeds(e) ==
    /\ Quiescent
    /\ pc[e] = "creating"
    /\ Tracked(job[e])
    /\ Turns!Start(e)
    /\ cronTurns' = cronTurns \cup {e}
    /\ runRow' = [runRow EXCEPT ![e] = "InProgress"]
    /\ pc' = [pc EXCEPT ![e] = "monitoring"]
    /\ UNCHANGED <<projectVars, lastRun, up, loaded, registered, activeIds, edits,
                   job, scheduled, verdict>>

\* createThread or sendThreadMessage throws: before the run row exists, or
\* after.  When the catch block cannot write either, it throws on the way and
\* the job stays in activeCronJobIds.
LaunchFails(e) ==
    /\ Quiescent
    /\ pc[e] = "creating"
    /\ pc' = [pc EXCEPT ![e] = "done"]
    /\ \/ /\ \E row \in {"none", "Errored"} : runRow' = [runRow EXCEPT ![e] = row]
          /\ lastRun' = [lastRun EXCEPT ![job[e]] = "Errored"]
          /\ activeIds' = activeIds \ {job[e]}
       \/ /\ "sqlite_busy" \in Faults
          /\ \E row \in {"none", "InProgress", "Errored"} :
                runRow' = [runRow EXCEPT ![e] = row]
          /\ UNCHANGED <<lastRun, activeIds>>
    /\ UNCHANGED <<projectVars, threadVars, up, loaded, registered, edits, job,
                   scheduled, verdict, cronTurns>>

\* Variant: a failed turn counts as a completed run.
VerdictOfAny(outcome) == IF outcome = "stopped" THEN "Stopped" ELSE "Completed"

\* cronRunStatusFromRpcThreadRunStatus
VerdictOf(outcome) ==
    CASE outcome = "ran" -> "Completed"
      [] outcome = "stopped" -> "Stopped"
      [] outcome = "failed" -> "Errored"

\* The status of a child changed from working to something else: its monitor,
\* if it still has one, settles.
TellMonitor(e) ==
    /\ verdict' = IF pc[e] = "monitoring"
                  THEN [verdict EXCEPT ![e] = VerdictOf(last'[e])] ELSE verdict
    /\ cronTurns' = cronTurns \ {e}

\* Variant: the deadline stops nothing but the wait, and is never armed when
\* the child is still working.
TimeoutNever(e) ==
    /\ Quiescent
    /\ pc[e] = "monitoring"
    /\ phase[e] # "working"
    /\ verdict' = [verdict EXCEPT ![e] = "Errored"]
    /\ UNCHANGED <<projectVars, recordVars, threadVars, up, loaded, registered,
                   activeIds, edits, pc, job, scheduled, cronTurns>>

\* RUN_TIMEOUT_MS has passed, or the read of the child's state throws and the
\* wait rejects: the run is to be recorded as Errored, the child works on.
Timeout(e) ==
    /\ Quiescent
    /\ pc[e] = "monitoring"
    /\ verdict' = [verdict EXCEPT ![e] = "Errored"]
    /\ UNCHANGED <<projectVars, recordVars, threadVars, up, loaded, registered,
                   activeIds, edits, pc, job, scheduled, cronTurns>>

-----------------------------------------------------------------------------
(* monitorCronJobRun, from the end of its wait on *)

\* The next statement is at `at`.
Proceed(e, at) ==
    /\ pc' = [pc EXCEPT ![e] = at]
    /\ UNCHANGED <<projectVars, threadVars, up, loaded, registered, activeIds, edits,
                   job, scheduled, verdict, cronTurns>>

\* The finally block.
EndMonitor(e) ==
    /\ activeIds' = activeIds \ {job[e]}
    /\ pc' = [pc EXCEPT ![e] = "done"]
    /\ verdict' = [verdict EXCEPT ![e] = "none"]
    /\ UNCHANGED <<projectVars, threadVars, up, loaded, registered, edits, job,
                   scheduled, cronTurns>>

ReportRun(e) ==
    /\ up
    /\ pc[e] = "monitoring"
    /\ verdict[e] # "none"
    /\ runRow' = [runRow EXCEPT ![e] = verdict[e]]
    /\ UNCHANGED lastRun
    /\ Proceed(e, "recorded")

\* Variant: the job row gets the status word of the thread.
ReportThreadWord(e) ==
    /\ up
    /\ pc[e] = "recorded"
    /\ lastRun' = [lastRun EXCEPT ![job[e]] = last[e]]
    /\ UNCHANGED runRow
    /\ EndMonitor(e)

\* Variant: the report ends neither the subscription nor the deadline.
ReportAndListen(e) ==
    /\ up
    /\ pc[e] = "recorded"
    /\ lastRun' = [lastRun EXCEPT ![job[e]] = verdict[e]]
    /\ activeIds' = activeIds \ {job[e]}
    /\ pc' = [pc EXCEPT ![e] = IF phase[e] = "working" THEN "monitoring" ELSE "done"]
    /\ verdict' = [verdict EXCEPT ![e] = "none"]
    /\ UNCHANGED <<projectVars, threadVars, runRow, up, loaded, registered, edits,
                   job, scheduled, cronTurns>>

ReportJob(e) ==
    /\ up
    /\ pc[e] = "recorded"
    /\ lastRun' = [lastRun EXCEPT ![job[e]] = verdict[e]]
    /\ UNCHANGED runRow
    /\ EndMonitor(e)

\* Either write throws; what is written by then stays.
ReportFails(e) ==
    /\ up
    /\ "sqlite_busy" \in Faults
    /\ pc[e] \in {"monitoring", "recorded"}
    /\ verdict[e] # "none"
    /\ UNCHANGED recordVars
    /\ Proceed(e, "failing")

\* The catch block writes Errored over both rows, whatever the verdict was.
CorrectRun(e) ==
    /\ up
    /\ pc[e] = "failing"
    /\ runRow' = [runRow EXCEPT ![e] = "Errored"]
    /\ UNCHANGED lastRun
    /\ Proceed(e, "failed")

CorrectJob(e) ==
    /\ up
    /\ pc[e] = "failed"
    /\ lastRun' = [lastRun EXCEPT ![job[e]] = "Errored"]
    /\ UNCHANGED runRow
    /\ EndMonitor(e)

\* A write of the catch block throws as well.  Nobody awaits the monitor, so
\* the rejection also shuts the server down, which is a Crash soon after.
MonitorThrows(e) ==
    /\ up
    /\ "sqlite_busy" \in Faults
    /\ pc[e] \in {"failing", "failed"}
    /\ UNCHANGED recordVars
    /\ EndMonitor(e)

Report(e) ==
    \/ ReportRun(e) \/ ReportJob(e) \/ ReportFails(e)
    \/ CorrectRun(e) \/ CorrectJob(e) \/ MonitorThrows(e)

-----------------------------------------------------------------------------
(* The child threads *)

\* The operator writes to the child of an earlier run.
UserSends(e) ==
    /\ Quiescent
    /\ HasChild(e)
    /\ Turns!Start(e)
    /\ UNCHANGED <<projectVars, recordVars, up, loaded, registered, activeIds, edits,
                   runVars>>

\* The turn of a child ends, or the operator stops it.
TurnEnds(e) ==
    /\ Quiescent
    /\ Turns!Finish(e) \/ Turns!Stop(e)
    /\ TellMonitor(e)
    /\ UNCHANGED <<projectVars, recordVars, up, loaded, registered, activeIds, edits,
                   pc, job, scheduled>>

\* A stopped turn lets go, or an idle child thread is deleted.
TurnLeaves(e) ==
    /\ Quiescent
    /\ HasChild(e)
    /\ Turns!LetGo(e) \/ Turns!Remove({e})
    /\ UNCHANGED <<projectVars, recordVars, up, loaded, registered, activeIds, edits,
                   runVars>>

-----------------------------------------------------------------------------
(* The cron procedures and syncCronSchedulerCron *)

\* syncCronSchedulerCron, which the RPC handler and the Pi tool host call after
\* the procedure.
Sync(j) ==
    registered' = IF j \in enabled' \ gone' THEN registered \cup {j}
                                            ELSE registered \ {j}

\* newCronProcedure waits for the workspace check after it looked at the
\* project.
NewCron(j) ==
    /\ Quiescent
    /\ j \notin jobs
    /\ Tracked(j) \/ "slow_inventory" \in Faults
    /\ jobs' = jobs \cup {j}
    /\ enabled' \in {enabled, enabled \cup {j}}
    /\ UNCHANGED gone
    /\ Sync(j)
    /\ UNCHANGED <<untracked, recordVars, threadVars, up, loaded, activeIds, edits,
                   runVars>>

\* updateCronProcedure: it looks at the row, then waits for the workspace or
\* for the plugin inventory when the edit needs them.
BeginEdit(j) ==
    /\ Quiescent
    /\ "slow_inventory" \in Faults
    /\ j \in jobs \ gone
    /\ Tracked(j)
    /\ edits[j] = "none"
    /\ \E edit \in {"enable", "disable"} : edits' = [edits EXCEPT ![j] = edit]
    /\ UNCHANGED <<projectVars, recordVars, threadVars, up, loaded, registered,
                   activeIds, runVars>>

\* An edit that does not mention `enabled` is one that sets what is there.
Enabled(j, edit) == IF edit = "enable" THEN enabled \cup {j} ELSE enabled \ {j}

\* Variant: the edit is not followed by a sync.
EndEditUnsynced(j) ==
    /\ Quiescent
    /\ edits[j] # "none"
    /\ enabled' = Enabled(j, edits[j])
    /\ edits' = [edits EXCEPT ![j] = "none"]
    /\ UNCHANGED <<untracked, jobs, gone, registered, recordVars, threadVars, up,
                   loaded, activeIds, runVars>>

\* updateCronJob and the sync: the row is not looked at again.
EndEdit(j) ==
    /\ Quiescent
    /\ edits[j] # "none"
    /\ enabled' = Enabled(j, edits[j])
    /\ edits' = [edits EXCEPT ![j] = "none"]
    /\ UNCHANGED <<untracked, jobs, gone>>
    /\ Sync(j)
    /\ UNCHANGED <<recordVars, threadVars, up, loaded, activeIds, runVars>>

\* An edit that waits for nothing: title, prompt, schedule or `enabled`.
EditAtOnce(j) ==
    /\ Quiescent
    /\ j \in jobs \ gone
    /\ Tracked(j)
    /\ \E edit \in {"enable", "disable"} : enabled' = Enabled(j, edit)
    /\ UNCHANGED <<untracked, jobs, gone>>
    /\ Sync(j)
    /\ UNCHANGED <<recordVars, threadVars, up, loaded, activeIds, edits, runVars>>

\* updateCron with deleted = true: softDeleteCronJob.
DeleteCron(j) ==
    /\ Quiescent
    /\ j \in jobs \ gone
    /\ Tracked(j)
    /\ gone' = gone \cup {j}
    /\ enabled' = enabled \ {j}
    /\ UNCHANGED <<untracked, jobs>>
    /\ Sync(j)
    /\ UNCHANGED <<recordVars, threadVars, up, loaded, activeIds, edits, runVars>>

\* deleteProjectProcedure: refused while a thread of the project works.  The
\* jobs go with the project; nobody tells the scheduler.
DeleteProject(p) ==
    LET owned == {j \in jobs : ProjectOf[j] = p}
        children == {e \in Runs : ProjectOf[job[e]] = p /\ HasChild(e)}
    IN
    /\ Quiescent
    /\ "project_deletion" \in Faults
    /\ p \notin untracked
    /\ Turns!Remove(children)
    /\ untracked' = untracked \cup {p}
    /\ gone' = gone \cup owned
    /\ enabled' = enabled \ owned
    /\ UNCHANGED <<jobs, recordVars, up, loaded, registered, activeIds, edits, runVars>>

\* syncCronSchedulerJobs, when the timezone or its offset changed.
SyncAll ==
    /\ Quiescent
    /\ registered' = ActiveJobs
    /\ UNCHANGED <<projectVars, recordVars, threadVars, up, loaded, activeIds, edits,
                   runVars>>

-----------------------------------------------------------------------------
(* The process *)

Crash ==
    /\ up
    /\ up' = FALSE
    /\ Turns!Die
    /\ loaded' = FALSE
    /\ registered' = {}
    /\ activeIds' = {}
    /\ edits' = [j \in Jobs |-> "none"]
    /\ pc' = [e \in Runs |-> IF pc[e] = "unused" THEN "unused" ELSE "done"]
    /\ verdict' = [e \in Runs |-> "none"]
    /\ cronTurns' = {}
    /\ UNCHANGED <<projectVars, recordVars, job, scheduled>>

\* recoverInterruptedTurns also stops the in-progress runs of the jobs whose
\* children it finds interrupted, or left with in-progress activity rows; then
\* startCronScheduler registers the active jobs.
Restart ==
    /\ ~up
    /\ up' = TRUE
    /\ \E stale \in SUBSET {e \in Runs : HasChild(e)} :
          /\ {e \in Runs : phase[e] = "lost"} \subseteq stale
          /\ StopRuns({job[e] : e \in stale})
    /\ Turns!Recover
    /\ registered' = ActiveJobs
    /\ UNCHANGED <<projectVars, loaded, activeIds, edits, runVars>>

-----------------------------------------------------------------------------
RunStep(e) ==
    \/ Fire(e) \/ RunNow(e) \/ ImportDone(e)
    \/ LaunchSucceeds(e) \/ LaunchFails(e) \/ Timeout(e) \/ Report(e)
    \/ UserSends(e) \/ TurnEnds(e) \/ TurnLeaves(e)

JobStep(j) ==
    NewCron(j) \/ BeginEdit(j) \/ EndEdit(j) \/ EditAtOnce(j) \/ DeleteCron(j)

Next ==
    \/ \E e \in Runs : RunStep(e)
    \/ \E j \in Jobs : JobStep(j)
    \/ \E p \in Projects : DeleteProject(p)
    \/ SyncAll \/ Crash \/ Restart

\* The disk answers, timers fire, microtasks run.  Nothing bounds the turn of
\* a child.
Fairness ==
    \A e \in Runs :
        /\ WF_vars(ImportDone(e))
        /\ WF_vars(LaunchSucceeds(e) \/ LaunchFails(e))
        /\ WF_vars(Timeout(e))
        /\ WF_vars(Report(e))

Spec == Init /\ [][Next]_vars

FairSpec == Spec /\ Fairness

-----------------------------------------------------------------------------
(* Safety *)

\* "Overlap protection prevents duplicate launches for the same cron job":
\* a job has at most one run between its claim and its report, whether the
\* fires, the manual runs, the edits or a restart brought it about.
OneRunPerJob ==
    \A e, f \in Runs : Executing(e) /\ Executing(f) /\ job[e] = job[f] => e = f

\* "Cron overlap guards still consult active thread state": even after the
\* monitor gave up on a run, the runner has no second turn of the job working
\* beside it.
NoTwoCronTurns ==
    \A e, f \in cronTurns :
        job[e] = job[f] /\ phase[e] = "working" /\ phase[f] = "working" => e = f

\* A job sits in activeCronJobIds exactly while one of its runs executes, so
\* the set neither blocks the healing of stale rows for ever nor lets it stop
\* the rows of a run that goes on.
ActiveIdsAreOwned == activeIds = {job[e] : e \in {x \in Runs : Executing(x)}}

\* The scheduler holds a registration for exactly the enabled, not deleted
\* jobs of tracked projects.
RegistrationsFollowRows == up => registered = ActiveJobs

\* At most two fires of the scheduler are launching a child at once.
ScheduledLaunchCap == Cardinality({e \in scheduled : pc[e] = "creating"}) <= 2

-----------------------------------------------------------------------------
(* Steps *)

\* A due fire or a manual run is dropped only when the job is deleted, another
\* run of it executes, or one of its children works: a row left in progress by
\* a crash or by a failure never silences the job.
FiresAreHonoured ==
    [][\A e \in Runs : pc[e] \in {"unused", "importing"} /\ pc'[e] = "done" /\ up' =>
          \/ job[e] \in gone
          \/ \E f \in RunsOf(job[e]) : Executing(f)
          \/ HasActiveThread(job[e])]_vars

\* The run history tells what became of the child, under every fault: Completed
\* only if its turn ran to its end, Errored never if it did, unless the monitor
\* could not write its report and its catch block says so.
RecordsAreTruthful ==
    [][\A e \in Runs : runRow'[e] # runRow[e] =>
          /\ runRow'[e] = "Completed" => last[e] = "ran"
          /\ runRow'[e] = "Errored" => last[e] # "ran" \/ pc[e] = "failing"]_vars

\* A run that ended keeps its record: neither a child that settles after the
\* timeout nor the healing of stale rows nor a restart rewrites it.  Only the
\* catch block of its own monitor does, when a write of the report threw.
RecordsAreFinal ==
    [][\A e \in Runs : runRow[e] \in Terminal =>
          \/ runRow'[e] = runRow[e]
          \/ pc[e] = "failing" /\ runRow'[e] = "Errored"]_vars

\* A record that says how a run ended is never rewritten.  With sqlite_busy it
\* is: updateLastRun throws after updateRunStatus wrote Completed, and the catch
\* block of monitorCronJobRun writes Errored over it.
RecordsStay ==
    [][\A e \in Runs : runRow[e] \in Terminal => runRow'[e] = runRow[e]]_vars

\* No run whose child ran to its end is recorded as Errored; fails with
\* sqlite_busy for the same reason.
ErrorsAreTrue ==
    [][\A e \in Runs : runRow'[e] # runRow[e] /\ runRow'[e] = "Errored"
          => last[e] # "ran"]_vars

\* A deleted job is not modified.
DeletedJobsStayDisabled == [][\A j \in gone : j \in enabled' => j \in enabled]_vars

\* A fire of the scheduler starts no run of a disabled job.
DisabledJobsDoNotFire ==
    [][\A e \in Runs : pc[e] # "creating" /\ pc'[e] = "creating" /\ e \in scheduled'
          => job[e] \in enabled]_vars

-----------------------------------------------------------------------------
(* Liveness *)

\* Every claimed run ends and releases its job, though its child may work on
\* for ever.
ClaimedRunsEnd == \A e \in Runs : Executing(e) ~> ~Executing(e)
=============================================================================
