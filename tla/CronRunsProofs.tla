--------------------------- MODULE CronRunsProofs ---------------------------
(***************************************************************************)
(* Theorems of CronRuns, for every number of projects, jobs and runs and   *)
(* for every set of faults unless a theorem assumes one away.              *)
(*                                                                         *)
(* One inductive invariant carries them.  Its core is Claimed: while a run *)
(* executes, its job is in activeCronJobIds and its row says InProgress.   *)
(* The first half keeps the healing of stale rows away from the run, the   *)
(* second keeps other claims away.                                         *)
(***************************************************************************)
EXTENDS CronRuns, TLAPS

\* No run executes and no turn is the runner's while the process is down.
DownIsEmpty == ~up => cronTurns = {} /\ \A e \in Runs : ~Executing(e)

\* Only a job with a row is edited or run.
RowsComeFirst ==
    /\ \A j \in Jobs : edits[j] # "none" => j \in jobs
    /\ \A e \in Runs : pc[e] = "importing" => job[e] \in jobs

Claimed ==
    \A e \in Runs : Executing(e) =>
        job[e] \in activeIds /\ lastRun[job[e]] = "InProgress"

\* A run whose report is under way, and the monitor of which has a verdict.
Reporting(e) == pc[e] \in {"recorded", "failing", "failed"}

VerdictIsMonitored ==
    \A e \in Runs :
        /\ verdict[e] # "none" => pc[e] = "monitoring" \/ Reporting(e)
        /\ Reporting(e) => verdict[e] # "none"

\* The run row is written with the launch and stays in progress until the
\* report.
RowFollowsRun ==
    \A e \in Runs :
        /\ pc[e] \in {"unused", "importing", "creating"} => runRow[e] = "none"
        /\ pc[e] = "monitoring" => runRow[e] = "InProgress"

CronTurnsWork == \A e \in cronTurns : phase[e] = "working"

\* A job whose run executes has no other turn of the runner working.
TurnsBesideRuns ==
    \A e \in Runs, f \in cronTurns : Executing(e) /\ job[e] = job[f] => e = f

RunInv ==
    /\ TypeOK
    /\ DownIsEmpty
    /\ RowsComeFirst
    /\ Claimed
    /\ OneRunPerJob
    /\ VerdictIsMonitored
    /\ RowFollowsRun
    /\ CronTurnsWork
    /\ TurnsBesideRuns
    /\ NoTwoCronTurns

-----------------------------------------------------------------------------
\* The initial state satisfies the invariant.
LEMMA RunInit == Init => RunInv
PROOF
  <1> SUFFICES ASSUME Init PROVE RunInv
    OBVIOUS
  <1>1. Turns!TypeOK
    BY DEF Init, Turns!Init, Turns!TypeOK
  <1>2. TypeOK
    BY <1>1 DEF Init, TypeOK
  <1>3. \A e \in Runs : ~Executing(e)
    BY DEF Init, Executing
  <1> QED
    BY <1>2, <1>3
    DEF Init, RunInv, DownIsEmpty, RowsComeFirst, Claimed, OneRunPerJob,
        VerdictIsMonitored, Reporting, RowFollowsRun, CronTurnsWork, TurnsBesideRuns,
        NoTwoCronTurns

\* What RunById does to the runs, from the guards of its three callers.
LEMMA LaunchStep ==
  ASSUME RunInv, NEW e \in Runs, Quiescent, pc[e] \in {"unused", "importing"},
         job[e] \in jobs, RunById(e), loaded' \in BOOLEAN, scheduled' \subseteq Runs
  PROVE  RunInv'
PROOF
  <1> DEFINE j == job[e]
  <1>0. j \in Jobs /\ up
    BY DEF RunInv, TypeOK, Quiescent
  <1>1. Stale(j) \subseteq {j} /\ (j \in Stale(j) => j \notin activeIds)
    BY DEF Stale
  <1>2. /\ lastRun' \in [Jobs -> {"none", "InProgress"} \cup Terminal]
        /\ runRow' \in [Runs -> {"none", "InProgress"} \cup Terminal]
        /\ activeIds' \subseteq jobs
        /\ \E at \in {"creating", "done"} : pc' = [pc EXCEPT ![e] = at]
    BY <1>0 DEF RunInv, TypeOK, RunById, ClaimThrows, ClaimRows, StopRuns, StoppedRuns,
                StoppedJobs, recordVars, Terminal
  <1>3. TypeOK'
    BY <1>2 DEF RunInv, TypeOK, RunById, projectVars, threadVars, Turns!TypeOK
  <1>4. \A f \in Runs : Executing(f) => f # e
    BY DEF RunInv, Executing
  <1>5. CASE pc'[e] = "creating"
    <2>1. /\ pc' = [pc EXCEPT ![e] = "creating"]
          /\ activeIds' = activeIds \cup {j}
          /\ lastRun' = [lastRun EXCEPT ![j] = "InProgress"]
          /\ runRow' = [x \in Runs |->
                           IF job[x] \in Stale(j) /\ runRow[x] = "InProgress"
                           THEN "Stopped" ELSE runRow[x]]
          /\ ~HasActiveThread(j)
          /\ (IF j \in Stale(j) /\ lastRun[j] = "InProgress"
              THEN "Stopped" ELSE lastRun[j]) # "InProgress"
      BY <1>0, <1>5
      DEF RunById, ClaimThrows, CanClaim, ClaimRows, StoppedRuns, StoppedJobs, RunInv,
          TypeOK
    <2>2. \A f \in Runs : Executing(f) => job[f] # j
      BY <2>1, <1>1 DEF RunInv, Claimed
    <2>3. \A f \in Runs : Executing(f)' <=> Executing(f) \/ f = e
      BY <2>1 DEF Executing, RunInv, TypeOK
    <2>4. \A f \in cronTurns : job[f] # j
      BY <2>1 DEF HasActiveThread, RunsOf, RunInv, CronTurnsWork, TypeOK
    <2>5. UNCHANGED <<job, up, cronTurns, verdict, phase, jobs, edits>>
      BY DEF RunById, projectVars, threadVars
    <2>6. (DownIsEmpty /\ RowsComeFirst /\ VerdictIsMonitored /\ CronTurnsWork)'
      BY <2>1, <2>5, <1>0
      DEF RunInv, TypeOK, DownIsEmpty, RowsComeFirst, VerdictIsMonitored, Reporting,
          CronTurnsWork, Quiescent
    <2>7. Claimed'
      BY <2>1, <2>2, <2>3, <2>5, <1>0 DEF RunInv, TypeOK, Claimed
    <2>8. RowFollowsRun'
      BY <2>1, <2>2, <2>3, <2>5, <1>0, <1>1
      DEF RunInv, TypeOK, RowFollowsRun, Executing, Claimed
    <2>9. (OneRunPerJob /\ TurnsBesideRuns /\ NoTwoCronTurns)'
      BY <2>2, <2>3, <2>4, <2>5
      DEF RunInv, OneRunPerJob, TurnsBesideRuns, NoTwoCronTurns
    <2> QED
      BY <1>3, <2>6, <2>7, <2>8, <2>9 DEF RunInv
  <1>6. CASE pc'[e] # "creating"
    <2>1. /\ pc' = [pc EXCEPT ![e] = "done"]
          /\ UNCHANGED <<activeIds, job, up, cronTurns, verdict, phase, jobs, edits>>
      BY <1>6 DEF RunById, ClaimThrows, projectVars, threadVars, RunInv, TypeOK
    <2>2. /\ \A f \in Runs : \/ runRow'[f] = runRow[f]
                             \/ job[f] \in Stale(j) /\ runRow'[f] = "Stopped"
                                                  /\ runRow[f] = "InProgress"
          /\ \A i \in Jobs : \/ lastRun'[i] = lastRun[i]
                             \/ i \in Stale(j)
                             \/ lastRun'[i] = "InProgress"
      BY <1>0, <1>6
      DEF RunById, ClaimThrows, ClaimRows, StopRuns, StoppedRuns, StoppedJobs,
          recordVars, RunInv, TypeOK
    <2>3. \A f \in Runs : Executing(f) => job[f] \notin Stale(j)
      BY <1>1 DEF RunInv, Claimed
    <2>4. \A f \in Runs : Executing(f)' <=> Executing(f)
      BY <2>1, <1>4 DEF Executing, RunInv, TypeOK
    <2>5. Claimed'
      BY <2>1, <2>2, <2>3, <2>4 DEF RunInv, TypeOK, Claimed
    <2>6. RowFollowsRun'
      BY <2>1, <2>2, <2>3, <2>4 DEF RunInv, TypeOK, RowFollowsRun, Executing
    <2>7. (DownIsEmpty /\ RowsComeFirst /\ VerdictIsMonitored /\ CronTurnsWork
           /\ OneRunPerJob /\ TurnsBesideRuns /\ NoTwoCronTurns)'
      BY <2>1, <2>4, <1>0
      DEF RunInv, TypeOK, DownIsEmpty, RowsComeFirst, VerdictIsMonitored, Reporting,
          CronTurnsWork, OneRunPerJob, TurnsBesideRuns, NoTwoCronTurns, Quiescent
    <2> QED
      BY <1>3, <2>5, <2>6, <2>7 DEF RunInv
  <1> QED
    BY <1>5, <1>6

-----------------------------------------------------------------------------
\* The actions that touch neither the claims nor the runs: the rows of the
\* jobs, the registrations, the turns that nobody monitors.
Aside ==
    /\ UNCHANGED <<recordVars, up, loaded, activeIds, runVars>>
    /\ \A e \in cronTurns : phase'[e] = "working"

\* A step aside of the runs (edits of jobs, sessions, clicks) keeps the invariant.
LEMMA AsideKeeps ==
  ASSUME RunInv, Aside, TypeOK', RowsComeFirst', up
  PROVE  RunInv'
  BY DEF Aside, RunInv, recordVars, runVars, TypeOK, DownIsEmpty, Claimed,
         OneRunPerJob, VerdictIsMonitored, Reporting, RowFollowsRun, CronTurnsWork,
         TurnsBesideRuns, NoTwoCronTurns, Executing

\* The contract's actions keep the types of the child threads.
LEMMA ContractType ==
  ASSUME Turns!TypeOK,
         \/ \E e \in Runs : Turns!Start(e) \/ Turns!Stop(e) \/ Turns!Finish(e)
                             \/ Turns!LetGo(e)
         \/ \E S \in SUBSET Runs : Turns!Remove(S)
         \/ Turns!Die
         \/ Turns!Recover
  PROVE  Turns!TypeOK'
  BY DEF Turns!TypeOK, Turns!Start, Turns!Stop, Turns!Finish, Turns!LetGo,
         Turns!Remove, Turns!Die, Turns!Recover, Turns!Move, Turns!End

\* The procedures on jobs.
LEMMA JobStepKeeps ==
  ASSUME RunInv, NEW j \in Jobs, JobStep(j)
  PROVE  RunInv'
PROOF
  <1> USE DEF Sync, Quiescent, projectVars, threadVars
  <1>1. up /\ Aside
    BY DEF RunInv, TypeOK, CronTurnsWork, JobStep, NewCron, BeginEdit, EndEdit,
           EditAtOnce, DeleteCron, Aside
  <1>2. TypeOK'
    <2>1. Turns!TypeOK'
      BY DEF RunInv, TypeOK, Turns!TypeOK, JobStep, NewCron, BeginEdit, EndEdit,
             EditAtOnce, DeleteCron
    <2>2. CASE NewCron(j)
      BY <2>1, <2>2, <1>1 DEF RunInv, TypeOK, NewCron, Aside, recordVars, runVars
    <2>3. CASE BeginEdit(j)
      BY <2>1, <2>3, <1>1 DEF RunInv, TypeOK, BeginEdit, Aside, recordVars, runVars
    <2>4. CASE EndEdit(j)
      BY <2>1, <2>4, <1>1
      DEF RunInv, TypeOK, RowsComeFirst, EndEdit, Enabled, Aside, recordVars, runVars
    <2>5. CASE EditAtOnce(j)
      BY <2>1, <2>5, <1>1
      DEF RunInv, TypeOK, EditAtOnce, Enabled, Aside, recordVars, runVars
    <2>6. CASE DeleteCron(j)
      BY <2>1, <2>6, <1>1 DEF RunInv, TypeOK, DeleteCron, Aside, recordVars, runVars
    <2> QED
      BY <2>2, <2>3, <2>4, <2>5, <2>6 DEF JobStep
  <1>3. RowsComeFirst'
    BY <1>1 DEF RunInv, TypeOK, RowsComeFirst, JobStep, NewCron, BeginEdit, EndEdit,
                EditAtOnce, DeleteCron, Aside, runVars
  <1> QED
    BY <1>1, <1>2, <1>3, AsideKeeps

\* The project and the scheduler.
LEMMA ScopeStepKeeps ==
  ASSUME RunInv, SyncAll \/ \E p \in Projects : DeleteProject(p)
  PROVE  RunInv'
PROOF
  <1>1. up /\ Aside
    BY DEF RunInv, TypeOK, CronTurnsWork, SyncAll, DeleteProject, Aside, Quiescent,
           threadVars, Turns!Remove, Turns!TypeOK
  <1>2. Turns!TypeOK'
    BY ContractType DEF RunInv, TypeOK, Turns!TypeOK, SyncAll, DeleteProject, threadVars
  <1>3. TypeOK' /\ RowsComeFirst'
    BY <1>1, <1>2
    DEF RunInv, TypeOK, RowsComeFirst, SyncAll, DeleteProject, ActiveJobs, Aside,
        recordVars, runVars, projectVars
  <1> QED
    BY <1>1, <1>3, AsideKeeps

-----------------------------------------------------------------------------
\* The last step of a run that was claimed.
Ends(e) == LaunchFails(e) \/ ReportJob(e) \/ CorrectJob(e) \/ MonitorThrows(e)

\* A step within the report.
Moves(e) == ReportRun(e) \/ ReportFails(e) \/ CorrectRun(e)

\* The last step of a run touches only its own rows, and releases its job at
\* most.
LEMMA Ending ==
  ASSUME RunInv, NEW e \in Runs, Ends(e)
  PROVE  /\ pc' = [pc EXCEPT ![e] = "done"]
         /\ Executing(e)
         /\ up
         /\ UNCHANGED <<projectVars, threadVars, up, loaded, registered, edits, job,
                        scheduled, cronTurns>>
         /\ verdict' \in [Runs -> {"none"} \cup Terminal]
         /\ \A f \in Runs : f # e => verdict'[f] = verdict[f]
         /\ verdict'[e] = "none"
         /\ activeIds' \subseteq activeIds
         /\ activeIds \ {job[e]} \subseteq activeIds'
         /\ runRow' \in [Runs -> {"none", "InProgress"} \cup Terminal]
         /\ \A f \in Runs : f # e => runRow'[f] = runRow[f]
         /\ lastRun' \in [Jobs -> {"none", "InProgress"} \cup Terminal]
         /\ \A i \in Jobs : i # job[e] => lastRun'[i] = lastRun[i]
PROOF
  <1> USE DEF RunInv, TypeOK, Executing, Terminal
  <1>1. CASE LaunchFails(e)
    BY <1>1 DEF LaunchFails, Quiescent
  <1>2. CASE ReportJob(e) \/ CorrectJob(e) \/ MonitorThrows(e)
    <2>1. EndMonitor(e) /\ Executing(e) /\ up /\ UNCHANGED runRow
      BY <1>2 DEF ReportJob, CorrectJob, MonitorThrows, recordVars
    <2>2. \E word \in Terminal : lastRun' = [lastRun EXCEPT ![job[e]] = word]
          \/ UNCHANGED lastRun
      BY <1>2 DEF ReportJob, CorrectJob, MonitorThrows, recordVars, VerdictIsMonitored,
                  Reporting
    <2> QED
      BY <2>1, <2>2 DEF EndMonitor
  <1> QED
    BY <1>1, <1>2 DEF Ends

\* A step within the report touches the run row at most.
LEMMA Moving ==
  ASSUME RunInv, NEW e \in Runs, Moves(e)
  PROVE  /\ \E at \in {"recorded", "failing", "failed"} : pc' = [pc EXCEPT ![e] = at]
         /\ pc[e] = "monitoring" \/ Reporting(e)
         /\ verdict[e] # "none"
         /\ up
         /\ UNCHANGED <<projectVars, threadVars, up, loaded, registered, activeIds,
                        edits, job, scheduled, verdict, cronTurns, lastRun>>
         /\ runRow' \in [Runs -> {"none", "InProgress"} \cup Terminal]
         /\ \A f \in Runs : f # e => runRow'[f] = runRow[f]
  BY DEF Moves, ReportRun, ReportFails, CorrectRun, Proceed, RunInv, TypeOK, Terminal,
         VerdictIsMonitored, Reporting, recordVars

\* A step of one run, from the claim to the report, keeps the invariant.
LEMMA RunStepKeeps ==
  ASSUME RunInv, NEW e \in Runs, RunStep(e)
  PROVE  RunInv'
PROOF
  <1> USE DEF projectVars, threadVars, recordVars, runVars
  <1>1. CASE Fire(e) \/ RunNow(e) \/ ImportDone(e)
    <2>1. /\ Quiescent
          /\ pc[e] \in {"unused", "importing"}
          /\ job[e] \in jobs
          /\ scheduled' \subseteq Runs
      BY <1>1 DEF Fire, RunNow, ImportDone, RunInv, TypeOK, RowsComeFirst
    <2>2. CASE RunById(e) /\ loaded' = TRUE
      BY <2>1, <2>2, LaunchStep
    <2>3. CASE ~(RunById(e) /\ loaded' = TRUE)
      <3>1. /\ pc' = [pc EXCEPT ![e] = "importing"]
            /\ pc[e] = "unused"
            /\ UNCHANGED <<projectVars, recordVars, threadVars, up, loaded, registered,
                           activeIds, edits, job, verdict, cronTurns>>
        BY <1>1, <2>3 DEF Fire, RunNow, ImportDone, Import
      <3>2. \A f \in Runs : Executing(f)' <=> Executing(f)
        BY <3>1 DEF Executing, RunInv, TypeOK
      <3>3. TypeOK'
        BY <2>1, <3>1 DEF RunInv, TypeOK, Turns!TypeOK
      <3> QED
        BY <2>1, <3>1, <3>2, <3>3
        DEF RunInv, TypeOK, DownIsEmpty, RowsComeFirst, Claimed, OneRunPerJob,
            VerdictIsMonitored, Reporting, RowFollowsRun, CronTurnsWork, TurnsBesideRuns,
            NoTwoCronTurns, Quiescent
    <2> QED
      BY <2>2, <2>3
  <1>2. CASE LaunchSucceeds(e)
    <2> USE <1>2 DEF LaunchSucceeds
    <2>1. Turns!TypeOK'
      BY ContractType DEF RunInv, TypeOK
    <2>2. TypeOK'
      BY <2>1 DEF RunInv, TypeOK
    <2>3. \A f \in Runs : Executing(f)' <=> Executing(f)
      BY DEF Executing, RunInv, TypeOK
    <2>4. phase' = [phase EXCEPT ![e] = "working"]
      BY DEF Turns!Start, Turns!Move
    <2>5. \A f \in cronTurns : job[f] = job[e] => f = e
      BY DEF RunInv, TurnsBesideRuns, Executing
    <2>6. (CronTurnsWork /\ TurnsBesideRuns /\ NoTwoCronTurns)'
      BY <2>3, <2>4, <2>5
      DEF RunInv, TypeOK, Turns!TypeOK, CronTurnsWork, TurnsBesideRuns, NoTwoCronTurns,
          OneRunPerJob, Executing
    <2> QED
      BY <2>2, <2>3, <2>6
      DEF RunInv, TypeOK, DownIsEmpty, RowsComeFirst, Claimed, OneRunPerJob,
          VerdictIsMonitored, Reporting, RowFollowsRun, Quiescent
  <1>3. CASE Ends(e)
    <2>1. /\ pc' = [pc EXCEPT ![e] = "done"]
          /\ Executing(e)
          /\ up
          /\ UNCHANGED <<projectVars, threadVars, up, loaded, registered, edits, job,
                         scheduled, cronTurns>>
          /\ verdict' \in [Runs -> {"none"} \cup Terminal]
          /\ \A f \in Runs : f # e => verdict'[f] = verdict[f]
          /\ verdict'[e] = "none"
          /\ activeIds' \subseteq activeIds
          /\ activeIds \ {job[e]} \subseteq activeIds'
          /\ runRow' \in [Runs -> {"none", "InProgress"} \cup Terminal]
          /\ \A f \in Runs : f # e => runRow'[f] = runRow[f]
          /\ lastRun' \in [Jobs -> {"none", "InProgress"} \cup Terminal]
          /\ \A i \in Jobs : i # job[e] => lastRun'[i] = lastRun[i]
      BY <1>3, Ending
    <2>2. \A f \in Runs : Executing(f)' <=> Executing(f) /\ f # e
      BY <2>1 DEF Executing, RunInv, TypeOK
    <2>3. \A f \in Runs : Executing(f) /\ f # e => job[f] # job[e]
      BY <2>1 DEF RunInv, OneRunPerJob
    <2>4. TypeOK'
      BY <2>1 DEF RunInv, TypeOK, Turns!TypeOK
    <2>5. Claimed'
      BY <2>1, <2>2, <2>3 DEF RunInv, TypeOK, Claimed
    <2>6. RowFollowsRun' /\ VerdictIsMonitored'
      BY <2>1 DEF RunInv, TypeOK, RowFollowsRun, VerdictIsMonitored, Reporting
    <2> QED
      BY <2>1, <2>2, <2>4, <2>5, <2>6
      DEF RunInv, TypeOK, DownIsEmpty, RowsComeFirst, OneRunPerJob, CronTurnsWork,
          TurnsBesideRuns, NoTwoCronTurns
  <1>4. CASE Timeout(e)
    BY <1>4
    DEF Timeout, Quiescent, RunInv, TypeOK, Turns!TypeOK, Terminal, DownIsEmpty,
        RowsComeFirst, Claimed, OneRunPerJob, VerdictIsMonitored, Reporting,
        RowFollowsRun, CronTurnsWork, TurnsBesideRuns, NoTwoCronTurns, Executing
  <1>5. CASE UserSends(e) \/ TurnLeaves(e)
    <2>1. up /\ Aside /\ UNCHANGED <<projectVars, registered, edits>>
      BY <1>5
      DEF UserSends, TurnLeaves, Aside, Quiescent, RunInv, TypeOK, CronTurnsWork,
          Turns!TypeOK, Turns!Start, Turns!LetGo, Turns!Remove, Turns!Move
    <2>2. Turns!TypeOK'
      BY <1>5, ContractType DEF UserSends, TurnLeaves, RunInv, TypeOK
    <2> QED
      BY <2>1, <2>2, AsideKeeps DEF RunInv, TypeOK, RowsComeFirst, Aside
  <1>6. CASE TurnEnds(e)
    <2> USE <1>6 DEF TurnEnds
    <2>1. Turns!TypeOK'
      BY ContractType DEF RunInv, TypeOK
    <2>2. /\ \A f \in Runs : f # e => phase'[f] = phase[f]
          /\ last'[e] \in {"ran", "stopped", "failed"}
      BY DEF Turns!Finish, Turns!Stop, Turns!Move, Turns!End, RunInv, TypeOK,
             Turns!TypeOK
    <2>3. VerdictOf(last'[e]) \in Terminal
      BY <2>2 DEF VerdictOf, Terminal
    <2>4. /\ cronTurns' = cronTurns \ {e}
          /\ verdict' \in [Runs -> {"none"} \cup Terminal]
          /\ VerdictIsMonitored'
      BY <2>3
      DEF TellMonitor, Quiescent, RunInv, TypeOK, VerdictIsMonitored, Reporting,
          Terminal
    <2>5. TypeOK'
      BY <2>1, <2>4 DEF RunInv, TypeOK
    <2> QED
      BY <2>2, <2>4, <2>5
      DEF RunInv, TypeOK, DownIsEmpty, RowsComeFirst, Claimed, OneRunPerJob,
          RowFollowsRun, CronTurnsWork, TurnsBesideRuns, NoTwoCronTurns, Executing
  <1>7. CASE Moves(e)
    <2>1. PICK at \in {"recorded", "failing", "failed"} : pc' = [pc EXCEPT ![e] = at]
      BY <1>7, Moving
    <2>2. /\ pc[e] = "monitoring" \/ Reporting(e)
          /\ verdict[e] # "none"
          /\ up
          /\ UNCHANGED <<projectVars, threadVars, up, loaded, registered, activeIds,
                         edits, job, scheduled, verdict, cronTurns, lastRun>>
          /\ runRow' \in [Runs -> {"none", "InProgress"} \cup Terminal]
          /\ \A f \in Runs : f # e => runRow'[f] = runRow[f]
      BY <1>7, Moving
    <2>3. \A f \in Runs : Executing(f)' <=> Executing(f)
      BY <2>1, <2>2 DEF Executing, Reporting, RunInv, TypeOK
    <2>4. TypeOK'
      BY <2>1, <2>2 DEF RunInv, TypeOK, Turns!TypeOK
    <2>5. RowFollowsRun' /\ VerdictIsMonitored'
      BY <2>1, <2>2 DEF RunInv, TypeOK, RowFollowsRun, VerdictIsMonitored, Reporting
    <2>6. RowsComeFirst'
      BY <2>1, <2>2 DEF RunInv, TypeOK, RowsComeFirst
    <2> QED
      BY <2>2, <2>3, <2>4, <2>5, <2>6
      DEF RunInv, DownIsEmpty, Claimed, OneRunPerJob, CronTurnsWork, TurnsBesideRuns,
          NoTwoCronTurns
  <1> QED
    BY <1>1, <1>2, <1>3, <1>4, <1>5, <1>6, <1>7 DEF RunStep, Report, Ends, Moves

-----------------------------------------------------------------------------
\* A crash keeps the invariant: the rows stay, activeIds goes with the process.
LEMMA CrashKeeps ==
  ASSUME RunInv, Crash
  PROVE  RunInv'
PROOF
  <1>1. Turns!TypeOK'
    BY ContractType DEF RunInv, TypeOK, Crash
  <1>2. /\ TypeOK'
        /\ \A e \in Runs : ~Executing(e)'
    BY <1>1 DEF RunInv, TypeOK, Crash, projectVars, recordVars, Executing
  <1> QED
    BY <1>2
    DEF RunInv, TypeOK, Crash, DownIsEmpty, RowsComeFirst, Claimed, OneRunPerJob,
        VerdictIsMonitored, Reporting, RowFollowsRun, CronTurnsWork, TurnsBesideRuns,
        NoTwoCronTurns, projectVars, recordVars

\* A restart keeps the invariant: the takeover finds no run in activeIds.
LEMMA RestartKeeps ==
  ASSUME RunInv, Restart
  PROVE  RunInv'
PROOF
  <1> USE DEF Restart, projectVars, runVars
  <1>1. Turns!TypeOK'
    BY ContractType DEF RunInv, TypeOK
  <1>2. /\ runRow' \in [Runs -> {"none", "InProgress"} \cup Terminal]
        /\ lastRun' \in [Jobs -> {"none", "InProgress"} \cup Terminal]
        /\ \A e \in Runs : runRow[e] = "none" => runRow'[e] = "none"
    BY DEF RunInv, TypeOK, StopRuns, StoppedRuns, StoppedJobs, Terminal
  <1>3. TypeOK'
    BY <1>1, <1>2 DEF RunInv, TypeOK, ActiveJobs
  <1>4. cronTurns = {} /\ \A e \in Runs : ~Executing(e)
    BY DEF RunInv, DownIsEmpty
  <1>5. \A e \in Runs : ~Executing(e)'
    BY <1>4 DEF Executing
  <1> QED
    BY <1>2, <1>3, <1>4, <1>5
    DEF RunInv, TypeOK, DownIsEmpty, RowsComeFirst, Claimed, OneRunPerJob,
        VerdictIsMonitored, Reporting, RowFollowsRun, CronTurnsWork, TurnsBesideRuns,
        NoTwoCronTurns, Executing

\* Every step keeps the invariant.
LEMMA RunInvStep == RunInv /\ [Next]_vars => RunInv'
PROOF
  <1> SUFFICES ASSUME RunInv, [Next]_vars PROVE RunInv'
    OBVIOUS
  <1>1. CASE UNCHANGED vars
    BY <1>1
    DEF RunInv, TypeOK, Turns!TypeOK, DownIsEmpty, RowsComeFirst, Claimed,
        OneRunPerJob, VerdictIsMonitored, Reporting, RowFollowsRun, CronTurnsWork,
        TurnsBesideRuns, NoTwoCronTurns, Executing, vars, projectVars, recordVars,
        threadVars, runVars
  <1>2. CASE Next
    BY <1>2, RunStepKeeps, JobStepKeeps, ScopeStepKeeps, CrashKeeps, RestartKeeps
    DEF Next
  <1> QED
    BY <1>1, <1>2

\* The invariant holds in every state.
LEMMA RunInvHolds == Spec => []RunInv
  BY RunInit, RunInvStep, PTL DEF Spec

\* Every variable keeps its type, with any fault.
THEOREM CronTypeCorrect == Spec => []TypeOK
PROOF
  <1>1. RunInv => TypeOK
    BY DEF RunInv
  <1> QED
    BY <1>1, RunInvHolds, PTL

\* A job has one run at a time between its claim and its report, whatever
\* fires, fails, is edited, deleted or restarted: the row of an executing run
\* says InProgress and its job is in activeCronJobIds, so no other claim passes.
THEOREM RunsNeverOverlap == Spec => []OneRunPerJob
PROOF
  <1>1. RunInv => OneRunPerJob
    BY DEF RunInv
  <1> QED
    BY <1>1, RunInvHolds, PTL

\* The runner never has two turns of a job working, even after it gave up
\* waiting for the first: a claim needs every child of the job at rest.
THEOREM TurnsNeverOverlap == Spec => []NoTwoCronTurns
PROOF
  <1>1. RunInv => NoTwoCronTurns
    BY DEF RunInv
  <1> QED
    BY <1>1, RunInvHolds, PTL

-----------------------------------------------------------------------------
\* Only the catch block of a monitor changes a run row that is terminal.
LEMMA RecordStep ==
  ASSUME RunInv, [Next]_vars, NEW f \in Runs, runRow[f] \in Terminal
  PROVE  \/ runRow'[f] = runRow[f]
         \/ pc[f] = "failing" /\ runRow'[f] = "Errored"
PROOF
  <1> USE DEF Terminal
  <1>1. CASE UNCHANGED vars
    BY <1>1 DEF vars, recordVars
  <1>2. ASSUME NEW e \in Runs, RunStep(e)
        PROVE  \/ runRow'[f] = runRow[f]
               \/ pc[f] = "failing" /\ runRow'[f] = "Errored"
    <2>1. CASE Fire(e) \/ RunNow(e) \/ ImportDone(e)
      BY <2>1 DEF RunInv, TypeOK, Fire, RunNow, ImportDone, Import, RunById,
                  ClaimThrows, ClaimRows, StopRuns, StoppedRuns, recordVars
    <2>2. CASE LaunchSucceeds(e) \/ LaunchFails(e)
      BY <2>2 DEF RunInv, TypeOK, RowFollowsRun, LaunchSucceeds, LaunchFails
    <2>3. CASE ReportRun(e)
      BY <2>3 DEF RunInv, TypeOK, RowFollowsRun, ReportRun
    <2>4. CASE CorrectRun(e)
      BY <2>4 DEF RunInv, TypeOK, CorrectRun
    <2>5. CASE \/ ReportJob(e) \/ ReportFails(e) \/ CorrectJob(e) \/ MonitorThrows(e)
               \/ Timeout(e) \/ UserSends(e) \/ TurnEnds(e) \/ TurnLeaves(e)
      BY <2>5 DEF ReportJob, ReportFails, CorrectJob, MonitorThrows, Timeout,
                  UserSends, TurnEnds, TurnLeaves, recordVars
    <2> QED
      BY <1>2, <2>1, <2>2, <2>3, <2>4, <2>5 DEF RunStep, Report
  <1>3. CASE Restart
    BY <1>3 DEF RunInv, TypeOK, Restart, StopRuns, StoppedRuns
  <1>4. CASE \/ \E j \in Jobs : JobStep(j)
             \/ \E p \in Projects : DeleteProject(p)
             \/ SyncAll
             \/ Crash
    BY <1>4 DEF JobStep, NewCron, BeginEdit, EndEdit, EditAtOnce, DeleteCron,
                DeleteProject, SyncAll, Crash, recordVars
  <1> QED
    BY <1>1, <1>2, <1>3, <1>4 DEF Next

\* Under every fault a record that says how a run ended is rewritten neither by
\* a child that settles late nor by the healing of stale rows nor by a restart
\* nor by the report of another run: only its own monitor, a write of which
\* threw, turns it into Errored.
THEOREM RecordsNeverChange == Spec => RecordsAreFinal
PROOF
  <1>1. RunInv /\ [Next]_vars
           => [\A e \in Runs : runRow[e] \in Terminal =>
                 \/ runRow'[e] = runRow[e]
                 \/ pc[e] = "failing" /\ runRow'[e] = "Errored"]_vars
    BY RecordStep
  <1> QED
    BY <1>1, RunInvHolds, PTL DEF Spec, RecordsAreFinal

-----------------------------------------------------------------------------
(* What the record of a run says of its child *)

\* The child of a run is fresh until the launch, works on the turn of the run
\* until the monitor is told, and a verdict agrees with how that turn ended.
ChildFollowsRun ==
    \A e \in Runs :
        /\ pc[e] \in {"unused", "importing", "creating"} =>
              phase[e] = "quiet" /\ last[e] = "none"
        /\ pc[e] = "monitoring" /\ verdict[e] = "none" =>
              phase[e] = "working" /\ last[e] = "none"
        /\ verdict[e] = "Completed" => last[e] = "ran"
        /\ verdict[e] = "Errored" => last[e] # "ran"

\* A step of the children that nobody monitors leaves the fresh and the
\* monitored ones alone: each of them needs a run row, and a turn at rest.
LEMMA OtherChildrenKeep ==
  ASSUME RunInv, ChildFollowsRun, Quiescent, NEW S \in SUBSET Runs,
         \A e \in S : runRow[e] # "none" /\ phase[e] # "working",
         \A e \in Runs \ S : phase'[e] = phase[e] /\ last'[e] = last[e],
         UNCHANGED <<pc, verdict>>
  PROVE  ChildFollowsRun'
PROOF
  <1>1. \A e \in S : pc[e] = "done" /\ verdict[e] = "none"
    BY DEF RunInv, TypeOK, RowFollowsRun, VerdictIsMonitored, Reporting,
           ChildFollowsRun, Quiescent
  <1> QED
    BY <1>1 DEF ChildFollowsRun

\* The runs and their children.
LEMMA ChildRunStep ==
  ASSUME RunInv, ChildFollowsRun, NEW e \in Runs, RunStep(e)
  PROVE  ChildFollowsRun'
PROOF
  <1> USE DEF threadVars, runVars
  <1>1. CASE Fire(e) \/ RunNow(e) \/ ImportDone(e)
    <2>1. /\ pc[e] \in {"unused", "importing"}
          /\ \E at \in {"importing", "creating", "done"} : pc' = [pc EXCEPT ![e] = at]
          /\ UNCHANGED <<phase, last, verdict>>
      BY <1>1 DEF Fire, RunNow, ImportDone, Import, RunById, ClaimThrows
    <2> QED
      BY <2>1 DEF RunInv, TypeOK, ChildFollowsRun
  <1>2. CASE LaunchSucceeds(e)
    BY <1>2 DEF LaunchSucceeds, Turns!Start, Turns!Move, RunInv, TypeOK, Turns!TypeOK,
                Quiescent, ChildFollowsRun
  <1>3. CASE Ends(e)
    <2>1. /\ pc' = [pc EXCEPT ![e] = "done"]
          /\ UNCHANGED <<phase, last>>
          /\ \A f \in Runs : f # e => verdict'[f] = verdict[f]
          /\ verdict'[e] = "none"
      BY <1>3, Ending
    <2> QED
      BY <2>1 DEF RunInv, TypeOK, ChildFollowsRun
  <1>4. CASE Timeout(e)
    BY <1>4 DEF Timeout, Quiescent, RunInv, TypeOK, ChildFollowsRun
  <1>5. CASE UserSends(e) \/ TurnLeaves(e)
    <2>1. /\ Quiescent
          /\ runRow[e] # "none" /\ phase[e] # "working"
          /\ \A f \in Runs \ {e} : phase'[f] = phase[f] /\ last'[f] = last[f]
          /\ UNCHANGED <<pc, verdict>>
      BY <1>5
      DEF UserSends, TurnLeaves, HasChild, Turns!Start, Turns!LetGo, Turns!Remove,
          Turns!Move, Turns!End, RunInv, TypeOK, Turns!TypeOK
    <2>2. {e} \in SUBSET Runs /\ \A f \in {e} : runRow[f] # "none" /\ phase[f] # "working"
      BY <2>1
    <2> QED
      BY <2>1, <2>2, OtherChildrenKeep
  <1>6. CASE TurnEnds(e)
    <2>1. /\ phase[e] = "working"
          /\ UNCHANGED pc
          /\ \A f \in Runs : f # e => phase'[f] = phase[f] /\ last'[f] = last[f]
          /\ last'[e] \in {"ran", "stopped", "failed"}
          /\ Quiescent
      BY <1>6
      DEF TurnEnds, Turns!Finish, Turns!Stop, Turns!Move, Turns!End, RunInv, TypeOK,
          Turns!TypeOK
    <2>2. /\ VerdictOf(last'[e]) # "none"
          /\ VerdictOf(last'[e]) = "Completed" => last'[e] = "ran"
          /\ VerdictOf(last'[e]) = "Errored" => last'[e] # "ran"
      BY <2>1 DEF VerdictOf
    <2>3. pc[e] \in {"monitoring", "done"}
      BY <2>1 DEF RunInv, TypeOK, VerdictIsMonitored, Reporting, Quiescent,
                  ChildFollowsRun
    <2>4. CASE pc[e] = "monitoring"
      <3>1. verdict' = [verdict EXCEPT ![e] = VerdictOf(last'[e])]
        BY <1>6, <2>4 DEF TurnEnds, TellMonitor
      <3> QED
        BY <2>1, <2>2, <2>4, <3>1 DEF RunInv, TypeOK, ChildFollowsRun
    <2>5. CASE pc[e] = "done"
      <3>1. UNCHANGED verdict
        BY <1>6, <2>5 DEF TurnEnds, TellMonitor
      <3> QED
        BY <2>1, <2>5, <3>1 DEF RunInv, TypeOK, Quiescent, ChildFollowsRun
    <2> QED
      BY <2>3, <2>4, <2>5
  <1>7. CASE Moves(e)
    <2>1. /\ \E at \in {"recorded", "failing", "failed"} : pc' = [pc EXCEPT ![e] = at]
          /\ verdict[e] # "none"
          /\ UNCHANGED <<phase, last, verdict>>
      BY <1>7, Moving
    <2> QED
      BY <2>1 DEF RunInv, TypeOK, ChildFollowsRun
  <1> QED
    BY <1>1, <1>2, <1>3, <1>4, <1>5, <1>6, <1>7 DEF RunStep, Report, Ends, Moves

\* Every step keeps a child in line with its run.
LEMMA ChildStep == RunInv /\ ChildFollowsRun /\ [Next]_vars => ChildFollowsRun'
PROOF
  <1> SUFFICES ASSUME RunInv, ChildFollowsRun, [Next]_vars PROVE ChildFollowsRun'
    OBVIOUS
  <1> USE DEF threadVars, runVars
  <1>1. CASE \/ UNCHANGED vars
             \/ \E j \in Jobs : JobStep(j)
             \/ SyncAll
    <2>1. UNCHANGED <<phase, last, pc, verdict>>
      BY <1>1 DEF vars, JobStep, NewCron, BeginEdit, EndEdit, EditAtOnce, DeleteCron,
                  SyncAll
    <2> QED
      BY <2>1 DEF ChildFollowsRun
  <1>2. ASSUME NEW p \in Projects, DeleteProject(p) PROVE ChildFollowsRun'
    <2> DEFINE children == {e \in Runs : ProjectOf[job[e]] = p /\ HasChild(e)}
    <2>1. /\ Quiescent
          /\ \A e \in children : runRow[e] # "none" /\ phase[e] # "working"
          /\ \A e \in Runs \ children : phase'[e] = phase[e] /\ last'[e] = last[e]
          /\ UNCHANGED <<pc, verdict>>
      BY <1>2 DEF DeleteProject, HasChild, Turns!Remove, RunInv, TypeOK, Turns!TypeOK
    <2>2. children \in SUBSET Runs
      OBVIOUS
    <2> HIDE DEF children
    <2> QED
      BY <2>1, <2>2, OtherChildrenKeep
  <1>3. CASE Crash
    BY <1>3 DEF Crash, Turns!Die, RunInv, TypeOK, Turns!TypeOK, ChildFollowsRun
  <1>4. CASE Restart
    <2>1. \A e \in Runs : verdict[e] = "none" /\ pc[e] # "monitoring"
      BY <1>4 DEF Restart, RunInv, DownIsEmpty, VerdictIsMonitored, Reporting, Executing
    <2> QED
      BY <1>4, <2>1
      DEF Restart, Turns!Recover, RunInv, TypeOK, Turns!TypeOK, ChildFollowsRun
  <1> QED
    BY <1>1, <1>2, <1>3, <1>4, ChildRunStep DEF Next

\* Only a report and a failed launch write Completed or Errored.
LEMMA TruthStep ==
  ASSUME RunInv, ChildFollowsRun, [Next]_vars, NEW f \in Runs,
         runRow'[f] # runRow[f]
  PROVE  /\ runRow'[f] = "Completed" => last[f] = "ran"
         /\ runRow'[f] = "Errored" => last[f] # "ran" \/ pc[f] = "failing"
PROOF
  <1>1. CASE runRow'[f] \in {"Completed", "Errored"}
    <2>1. PICK e \in Runs : LaunchFails(e) \/ ReportRun(e) \/ CorrectRun(e)
      BY <1>1
      DEF Next, vars, recordVars, RunStep, Report, ReportJob, ReportFails, CorrectJob,
          MonitorThrows, Fire, RunNow, ImportDone, Import, RunById, ClaimThrows,
          ClaimRows, StopRuns, StoppedRuns, LaunchSucceeds, Timeout, UserSends,
          TurnEnds, TurnLeaves, JobStep, NewCron, BeginEdit, EndEdit, EditAtOnce,
          DeleteCron, DeleteProject, SyncAll, Crash, Restart, RunInv, TypeOK
    <2>2. f = e
      BY <2>1 DEF LaunchFails, ReportRun, CorrectRun, RunInv, TypeOK
    <2> QED
      BY <2>1, <2>2
      DEF LaunchFails, ReportRun, CorrectRun, RunInv, TypeOK, ChildFollowsRun
  <1> QED
    BY <1>1

\* Under every fault Completed is written only of a child whose turn ran to its
\* end, and Errored of such a child only by the catch block of its own monitor,
\* a write of which threw.
THEOREM RecordsTellTheTruth == Spec => RecordsAreTruthful
PROOF
  <1>1. Init => ChildFollowsRun
    BY DEF Init, Turns!Init, ChildFollowsRun
  <1>2. RunInv /\ ChildFollowsRun /\ [Next]_vars
           => [\A e \in Runs : runRow'[e] # runRow[e] =>
                 /\ runRow'[e] = "Completed" => last[e] = "ran"
                 /\ runRow'[e] = "Errored" => last[e] # "ran" \/ pc[e] = "failing"]_vars
    BY TruthStep
  <1> QED
    BY <1>1, <1>2, ChildStep, RunInvHolds, PTL DEF Spec, RecordsAreTruthful

-----------------------------------------------------------------------------
\* The writes of the runner do not throw.
FailuresAreWritten == "sqlite_busy" \notin Faults

\* Then no report fails.
ReportsSucceed == \A e \in Runs : pc[e] \notin {"failing", "failed"}

\* No step leads into the catch block.
LEMMA ReportsSucceedStep ==
  ASSUME FailuresAreWritten, RunInv, ReportsSucceed, [Next]_vars
  PROVE  ReportsSucceed'
PROOF
  <1>1. CASE UNCHANGED vars
    BY <1>1 DEF vars, runVars, ReportsSucceed
  <1>2. ASSUME NEW e \in Runs, RunStep(e) PROVE ReportsSucceed'
    <2>1. \/ UNCHANGED pc
          \/ \E at \in {"importing", "creating", "monitoring", "recorded", "done"} :
                pc' = [pc EXCEPT ![e] = at]
      BY <1>2
      DEF FailuresAreWritten, ReportsSucceed, RunStep, Report, ReportRun, ReportJob,
          ReportFails, CorrectRun, CorrectJob, MonitorThrows, Proceed, EndMonitor, Fire,
          RunNow, ImportDone, Import, RunById, ClaimThrows, LaunchSucceeds, LaunchFails,
          Timeout, UserSends, TurnEnds, TurnLeaves, runVars
    <2> QED
      BY <2>1 DEF RunInv, TypeOK, ReportsSucceed
  <1>3. CASE Crash
    BY <1>3 DEF Crash, RunInv, TypeOK, ReportsSucceed
  <1>4. CASE \/ \E j \in Jobs : JobStep(j)
             \/ \E p \in Projects : DeleteProject(p)
             \/ SyncAll
             \/ Restart
    BY <1>4 DEF JobStep, NewCron, BeginEdit, EndEdit, EditAtOnce, DeleteCron,
                DeleteProject, SyncAll, Restart, runVars, ReportsSucceed
  <1> QED
    BY <1>1, <1>2, <1>3, <1>4 DEF Next

\* As long as the runner's writes succeed, a record is never rewritten at all,
\* and no child that ran to its end is recorded as Errored.
THEOREM RecordsStayTrue ==
  ASSUME FailuresAreWritten
  PROVE  Spec => RecordsStay /\ ErrorsAreTrue
PROOF
  <1> DEFINE Stays == \A e \in Runs : runRow[e] \in Terminal => runRow'[e] = runRow[e]
             True == \A e \in Runs : runRow'[e] # runRow[e] /\ runRow'[e] = "Errored"
                                        => last[e] # "ran"
  <1>1. Init => ReportsSucceed /\ ChildFollowsRun
    BY DEF Init, Turns!Init, ReportsSucceed, ChildFollowsRun
  <1>2. RunInv /\ ReportsSucceed /\ [Next]_vars => ReportsSucceed'
    BY ReportsSucceedStep
  <1>3. RunInv /\ ReportsSucceed /\ ChildFollowsRun /\ [Next]_vars => [Stays]_vars
    BY RecordStep DEF ReportsSucceed
  <1>4. RunInv /\ ReportsSucceed /\ ChildFollowsRun /\ [Next]_vars => [True]_vars
    BY TruthStep DEF ReportsSucceed
  <1>5. Spec => [][Stays]_vars /\ [][True]_vars
    <2> HIDE DEF Stays, True
    <2> QED
      BY <1>1, <1>2, <1>3, <1>4, ChildStep, RunInvHolds, PTL DEF Spec
  <1> QED
    BY <1>5 DEF RecordsStay, ErrorsAreTrue

-----------------------------------------------------------------------------
\* As long as failures are written, each id in activeIds has a run that owns it.
LEMMA OwnedStep ==
  ASSUME FailuresAreWritten, RunInv, ActiveIdsAreOwned, [Next]_vars
  PROVE  ActiveIdsAreOwned'
PROOF
  <1>1. CASE UNCHANGED vars
    BY <1>1 DEF vars, runVars, ActiveIdsAreOwned, Executing
  <1>2. ASSUME NEW e \in Runs, RunStep(e) PROVE ActiveIdsAreOwned'
    <2>1. CASE RunById(e) /\ pc[e] \in {"unused", "importing"}
      <3>1. job' = job /\ e \in Runs /\ ~Executing(e)
        BY <2>1 DEF RunById, Executing
      <3>2. CASE pc'[e] = "creating"
        BY <2>1, <3>1, <3>2
        DEF RunInv, TypeOK, RunById, ClaimThrows, ActiveIdsAreOwned, Executing
      <3>3. CASE pc'[e] # "creating"
        BY <2>1, <3>1, <3>3
        DEF RunInv, TypeOK, RunById, ClaimThrows, ActiveIdsAreOwned, Executing
      <3> QED
        BY <3>2, <3>3
    <2>2. CASE /\ activeIds' = activeIds
               /\ job' = job
               /\ \A f \in Runs : Executing(f)' <=> Executing(f)
      BY <2>2 DEF ActiveIdsAreOwned
    <2>3. CASE Ends(e)
      <3>1. /\ pc' = [pc EXCEPT ![e] = "done"]
            /\ job' = job
            /\ Executing(e)
        BY <2>3, Ending
      <3>2. activeIds' = activeIds \ {job[e]}
        BY <2>3 DEF Ends, LaunchFails, ReportJob, CorrectJob, MonitorThrows, EndMonitor,
                    FailuresAreWritten
      <3>3. \A f \in Runs : Executing(f)' <=> Executing(f) /\ f # e
        BY <3>1 DEF Executing, RunInv, TypeOK
      <3>4. \A f \in Runs : Executing(f) /\ job[f] = job[e] => f = e
        BY <3>1 DEF RunInv, OneRunPerJob
      <3> QED
        BY <3>1, <3>2, <3>3, <3>4 DEF ActiveIdsAreOwned
    <2>4. CASE Moves(e)
      <3>1. /\ \E at \in {"recorded", "failing", "failed"} : pc' = [pc EXCEPT ![e] = at]
            /\ pc[e] = "monitoring" \/ Reporting(e)
            /\ UNCHANGED <<activeIds, job>>
        BY <2>4, Moving
      <3>2. \A f \in Runs : Executing(f)' <=> Executing(f)
        BY <3>1 DEF Executing, Reporting, RunInv, TypeOK
      <3> QED
        BY <3>1, <3>2, <2>2
    <2>5. \/ RunById(e) /\ pc[e] \in {"unused", "importing"}
          \/ Ends(e) \/ Moves(e)
          \/ /\ activeIds' = activeIds
             /\ job' = job
             /\ \A f \in Runs : Executing(f)' <=> Executing(f)
      BY <1>2
      DEF RunStep, Report, Ends, Moves, Fire, RunNow, ImportDone, Import,
          LaunchSucceeds, Timeout, UserSends, TurnEnds, TurnLeaves, runVars, Executing,
          RunInv, TypeOK
    <2> QED
      BY <2>1, <2>2, <2>3, <2>4, <2>5
  <1>3. CASE Crash \/ Restart
    BY <1>3 DEF Crash, Restart, RunInv, TypeOK, DownIsEmpty, ActiveIdsAreOwned,
                Executing, runVars
  <1>4. CASE \/ \E j \in Jobs : JobStep(j)
             \/ \E p \in Projects : DeleteProject(p)
             \/ SyncAll
    BY <1>4 DEF JobStep, NewCron, BeginEdit, EndEdit, EditAtOnce, DeleteCron,
                DeleteProject, SyncAll, runVars, ActiveIdsAreOwned, Executing
  <1> QED
    BY <1>1, <1>2, <1>3, <1>4 DEF Next

\* activeCronJobIds holds exactly the jobs whose run executes.
THEOREM ActiveIdsAreExact ==
  ASSUME FailuresAreWritten
  PROVE  Spec => []ActiveIdsAreOwned
PROOF
  <1>1. Init => ActiveIdsAreOwned
    BY DEF Init, ActiveIdsAreOwned, Executing
  <1>2. RunInv /\ ActiveIdsAreOwned /\ [Next]_vars => ActiveIdsAreOwned'
    BY OwnedStep
  <1> QED
    BY <1>1, <1>2, RunInvHolds, PTL DEF Spec

\* A run has a later date than the last one of its job.
DatesIncrease == "clock_back" \notin Faults

\* A fire is dropped only for a reason: a crash at any point of an earlier run
\* leaves no row that silences the job.
THEOREM NoFireIsLost ==
  ASSUME FailuresAreWritten, DatesIncrease
  PROVE  Spec => FiresAreHonoured
PROOF
  <1> DEFINE Honoured ==
        \A e \in Runs : pc[e] \in {"unused", "importing"} /\ pc'[e] = "done" /\ up' =>
           \/ job[e] \in gone
           \/ \E f \in RunsOf(job[e]) : Executing(f)
           \/ HasActiveThread(job[e])
  <1>1. ASSUME RunInv, ActiveIdsAreOwned, [Next]_vars PROVE Honoured
    <2> SUFFICES ASSUME NEW e \in Runs, pc[e] \in {"unused", "importing"},
                        pc'[e] = "done", up'
                 PROVE  \/ job[e] \in gone
                        \/ \E f \in RunsOf(job[e]) : Executing(f)
                        \/ HasActiveThread(job[e])
      OBVIOUS
    <2>1. pc # pc'
      OBVIOUS
    <2>2. PICK f \in Runs : RunStep(f)
      BY <1>1, <2>1
      DEF Next, vars, runVars, JobStep, NewCron, BeginEdit, EndEdit, EditAtOnce,
          DeleteCron, DeleteProject, SyncAll, Crash, Restart
    <2>3. f = e
      BY <1>1, <2>2
      DEF RunInv, TypeOK, RunStep, Fire, RunNow, ImportDone, Import, RunById,
          ClaimThrows, LaunchSucceeds, LaunchFails, Timeout, Report, ReportRun,
          ReportJob, ReportFails, CorrectRun, CorrectJob, MonitorThrows, Proceed,
          EndMonitor, UserSends, TurnEnds, TurnLeaves, runVars
    <2>4. RunById(e) /\ job[e] \in jobs
      BY <1>1, <2>2, <2>3
      DEF RunInv, TypeOK, RowsComeFirst, VerdictIsMonitored, RunStep, Fire, RunNow,
          ImportDone, Import, LaunchSucceeds, LaunchFails, Timeout, Report, ReportRun,
          ReportJob, ReportFails, CorrectRun, CorrectJob, MonitorThrows, UserSends,
          TurnEnds, TurnLeaves, runVars
    <2>5. \/ job[e] \in gone
          \/ HasActiveThread(job[e])
          \/ job[e] \in activeIds
      BY <1>1, <2>4 DEF FailuresAreWritten, DatesIncrease, RunInv, TypeOK, RunById,
                        ClaimThrows, CanClaim, Later, StoppedJobs, Stale
    <2> QED
      BY <2>5, <1>1 DEF ActiveIdsAreOwned, RunsOf
  <1>2. RunInv /\ ActiveIdsAreOwned /\ [Next]_vars => [Honoured]_vars
    BY <1>1
  <1>3. Spec => [][Honoured]_vars
    <2> HIDE DEF Honoured
    <2> QED
      BY <1>2, RunInvHolds, ActiveIdsAreExact, PTL DEF Spec
  <1> QED
    BY <1>3 DEF FiresAreHonoured

-----------------------------------------------------------------------------
\* No project is deleted.
ProjectsStay == "project_deletion" \notin Faults

RegistrationInv == untracked = {} /\ RegistrationsFollowRows

\* The scheduler's registrations are those of the rows.
THEOREM RegistrationsAreExact ==
  ASSUME ProjectsStay
  PROVE  Spec => []RegistrationsFollowRows
PROOF
  <1>1. Init => RegistrationInv
    BY DEF Init, RegistrationInv, RegistrationsFollowRows, ActiveJobs
  <1>2. ASSUME RunInv, RegistrationInv, [Next]_vars PROVE RegistrationInv'
    <2> USE <1>2 DEF RegistrationInv, RegistrationsFollowRows, ActiveJobs, Tracked
    <2>1. CASE UNCHANGED <<untracked, enabled, gone, registered, up>>
      BY <2>1
    <2>2. ASSUME NEW j \in Jobs, JobStep(j) PROVE RegistrationInv'
      BY <2>2 DEF JobStep, NewCron, BeginEdit, EndEdit, EditAtOnce, DeleteCron, Sync,
                  Enabled, Quiescent, projectVars, RunInv, TypeOK
    <2>3. CASE SyncAll \/ Crash \/ Restart
      BY <2>3 DEF SyncAll, Crash, Restart, projectVars, Quiescent
    <2>4. ASSUME NEW e \in Runs, RunStep(e)
          PROVE  UNCHANGED <<untracked, enabled, gone, registered, up>>
      BY <2>4 DEF RunStep, Fire, RunNow, ImportDone, Import, RunById, LaunchSucceeds,
                  LaunchFails, Timeout, Report, ReportRun, ReportJob, ReportFails,
                  CorrectRun, CorrectJob, MonitorThrows, Proceed, EndMonitor, UserSends,
                  TurnEnds, TurnLeaves, projectVars
    <2>5. ASSUME NEW p \in Projects PROVE ~DeleteProject(p)
      BY DEF DeleteProject, ProjectsStay
    <2>6. UNCHANGED vars => UNCHANGED <<untracked, enabled, gone, registered, up>>
      BY DEF vars, projectVars
    <2> QED
      BY <2>1, <2>2, <2>3, <2>4, <2>5, <2>6 DEF Next
  <1>3. RunInv /\ RegistrationInv /\ [Next]_vars => RegistrationInv'
    BY <1>2
  <1>4. RegistrationInv => RegistrationsFollowRows
    BY DEF RegistrationInv
  <1> QED
    BY <1>1, <1>3, <1>4, RunInvHolds, PTL DEF Spec
=============================================================================
