------------------------ MODULE PluginRuntimeProofs ------------------------
(***************************************************************************)
(* Only approved code runs, for any tasks, processes and versions and      *)
(* however the tasks interleave; and while they do not, one sidecar runs,  *)
(* and a failure on record is a plugin that is down until the operator     *)
(* takes it back.                                                          *)
(*                                                                         *)
(* Every hash a task, the lifecycle file, a request or a session carries   *)
(* was approved once: hashes are copied, and the one place that makes a    *)
(* new one is the write of an approval.  That the copies may be stale does *)
(* not matter, since approvals are never forgotten; that the files may     *)
(* differ by now is what the check before the spawn is for.                *)
(*                                                                         *)
(* The second part has no lock to lean on: with one task in flight, that   *)
(* task's snapshots are still true at each of its awaits, and the          *)
(* invariant says what each point of it knows.                             *)
(***************************************************************************)
EXTENDS PluginRuntime, TLAPS

Hashes(A) == A \cup {None}

RecordOK(r, A) == r \in Records /\ r.hash \in Hashes(A)

\* A task that is about to act, acts on a known request.
TaskOK(x, A) ==
    /\ x \in TaskRecords
    /\ x.plan \in Hashes(A)
    /\ x.copy.hash \in Hashes(A)
    /\ x.pc \in {"act", "acted"} => x.action \in Actions

SessionOK(x, A) ==
    /\ x \in Sessions
    /\ x.hash \in Hashes(A)
    /\ x.life = "alive" => x.hash # None

RequestOK(x, A) == x \in Requests /\ x.plan \in Hashes(A)

TasksOK(f, A) == f \in [Tasks -> TaskRecords] /\ \A t \in Tasks : TaskOK(f[t], A)
SessionsOK(f, A) == f \in [Procs -> Sessions] /\ \A p \in Procs : SessionOK(f[p], A)
PlaceOK == reconciler \in Tasks \cup {None} /\ listed \in Procs \cup {None}

HashInv ==
    /\ disk \in Versions
    /\ approved \subseteq Versions
    /\ RecordOK(record, approved)
    /\ TasksOK(task, approved)
    /\ SessionsOK(proc, approved)
    /\ RequestOK(pending, approved)
    /\ PlaceOK

-----------------------------------------------------------------------------
(* Records *)

\* Lemma: what is fine with some approvals is fine with more of them.
LEMMA MoreApprovals ==
    ASSUME NEW A, NEW B, A \subseteq B
    PROVE  /\ \A r : RecordOK(r, A) => RecordOK(r, B)
           /\ \A f : TasksOK(f, A) => TasksOK(f, B)
           /\ \A f : SessionsOK(f, A) => SessionsOK(f, B)
           /\ \A x : RequestOK(x, A) => RequestOK(x, B)
  <1>1. Hashes(A) \subseteq Hashes(B)
    BY DEF Hashes
  <1>2. /\ \A x : TaskOK(x, A) => TaskOK(x, B)
        /\ \A x : SessionOK(x, A) => SessionOK(x, B)
    BY <1>1, Zenon DEF TaskOK, SessionOK
  <1> QED
    BY <1>1, <1>2, Zenon DEF RecordOK, TasksOK, SessionsOK, RequestOK

\* Lemma: a task that does nothing carries nothing.
LEMMA IdleTask == ASSUME NEW A PROVE TaskOK(Idle, A)
  BY DEF TaskOK, TaskRecords, Idle, NoCopy, Records, LifecycleStates, Hashes, Points

\* Lemma: a task may go anywhere with what it carries, but not back to a request.
LEMMA TaskMoves ==
    ASSUME NEW A, NEW x, TaskOK(x, A), NEW pc \in Points \ {"act", "acted"}
    PROVE  TaskOK([x EXCEPT !.pc = pc], A)
  <1>1. x \in TaskRecords
    BY DEF TaskOK
  <1>2. /\ [x EXCEPT !.pc = pc] \in TaskRecords
        /\ [x EXCEPT !.pc = pc].pc = pc
        /\ [x EXCEPT !.pc = pc].plan = x.plan
        /\ [x EXCEPT !.pc = pc].copy = x.copy
    BY <1>1, Zenon DEF TaskRecords
  <1> QED
    BY <1>2, Zenon DEF TaskOK

\* Lemma: ... with another session,
LEMMA TaskAims ==
    ASSUME NEW A, NEW x, TaskOK(x, A), NEW p \in Procs \cup {None}
    PROVE  TaskOK([x EXCEPT !.proc = p], A)
  <1>1. x \in TaskRecords
    BY DEF TaskOK
  <1>2. /\ [x EXCEPT !.proc = p] \in TaskRecords
        /\ [x EXCEPT !.proc = p].pc = x.pc
        /\ [x EXCEPT !.proc = p].plan = x.plan
        /\ [x EXCEPT !.proc = p].copy = x.copy
        /\ [x EXCEPT !.proc = p].action = x.action
    BY <1>1, Zenon DEF TaskRecords
  <1> QED
    BY <1>2, Zenon DEF TaskOK

\* Lemma: ... and with another hash that was approved.
LEMMA TaskPlans ==
    ASSUME NEW A, A \subseteq Versions, NEW x, TaskOK(x, A), NEW plan \in Hashes(A),
           NEW pc \in Points \ {"act", "acted"}
    PROVE  TaskOK([x EXCEPT !.pc = pc, !.plan = plan], A)
  <1>1. x \in TaskRecords /\ plan \in Versions \cup {None}
    BY DEF TaskOK, Hashes
  <1>2. /\ [x EXCEPT !.pc = pc, !.plan = plan] \in TaskRecords
        /\ [x EXCEPT !.pc = pc, !.plan = plan].pc = pc
        /\ [x EXCEPT !.pc = pc, !.plan = plan].plan = plan
        /\ [x EXCEPT !.pc = pc, !.plan = plan].copy = x.copy
    BY <1>1, Zenon DEF TaskRecords
  <1> QED
    BY <1>2, Zenon DEF TaskOK

\* Lemma: a task that was asked to act knows what.
LEMMA TaskActs ==
    ASSUME NEW A, NEW action \in Actions
    PROVE  TaskOK([Idle EXCEPT !.pc = "act", !.action = action], A)
  <1>1. Idle \in TaskRecords /\ Idle.plan = None /\ Idle.copy.hash = None
    BY DEF TaskRecords, Idle, NoCopy, Records, LifecycleStates, Points
  <1>2. "act" \in Points /\ None \in Hashes(A)
    BY DEF Points, Hashes
  <1>3. LET x == [Idle EXCEPT !.pc = "act", !.action = action]
        IN  /\ x \in TaskRecords
            /\ x.plan = None /\ x.copy.hash = None /\ x.action = action
    BY <1>1, <1>2, Zenon DEF TaskRecords
  <1> QED
    BY <1>2, <1>3, Zenon DEF TaskOK

\* Lemma: a task that read the lifecycle file carries the record it read.
LEMMA TaskReads ==
    ASSUME NEW A, NEW r, RecordOK(r, A), NEW pc \in Points, NEW action \in Actions \cup {None},
           pc \in {"act", "acted"} => action \in Actions
    PROVE  TaskOK([Idle EXCEPT !.pc = pc, !.copy = r, !.action = action], A)
  <1>1. Idle \in TaskRecords /\ Idle.plan = None
    BY DEF TaskRecords, Idle, NoCopy, Records, LifecycleStates, Points
  <1>2. r \in Records /\ r.hash \in Hashes(A) /\ None \in Hashes(A)
    BY DEF RecordOK, Hashes
  <1>3. LET x == [Idle EXCEPT !.pc = pc, !.copy = r, !.action = action]
        IN  /\ x \in TaskRecords
            /\ x.pc = pc /\ x.plan = None /\ x.copy = r /\ x.action = action
    BY <1>1, <1>2, Zenon DEF TaskRecords
  <1> QED
    BY <1>2, <1>3, Zenon DEF TaskOK

\* Lemma: one task among the others changes.
LEMMA TaskUpdate ==
    ASSUME NEW A, NEW f, TasksOK(f, A), NEW t \in Tasks, NEW x, TaskOK(x, A)
    PROVE  TasksOK([f EXCEPT ![t] = x], A)
  BY Zenon DEF TasksOK, TaskOK

\* Lemma: one session among the others changes, if there is such a session.
LEMMA SessionUpdate ==
    ASSUME NEW A, NEW f, SessionsOK(f, A), NEW p, NEW x, p \in Procs => SessionOK(x, A)
    PROVE  SessionsOK([f EXCEPT ![p] = x], A)
  BY Zenon DEF SessionsOK, SessionOK

\* Lemma: a session may stop, serve or lose its process; it keeps its hash.
LEMMA SessionMoves ==
    ASSUME NEW A, NEW x, SessionOK(x, A)
    PROVE  /\ SessionOK([x EXCEPT !.stopping = TRUE], A)
           /\ SessionOK([x EXCEPT !.stopping = TRUE, !.crons = FALSE], A)
           /\ SessionOK([x EXCEPT !.ready = TRUE, !.crons = TRUE], A)
           /\ SessionOK([x EXCEPT !.life = "dead"], A)
           /\ SessionOK([x EXCEPT !.life = "gone"], A)
  <1>1. x \in Sessions /\ x.hash \in Hashes(A) /\ (x.life = "alive" => x.hash # None)
    BY DEF SessionOK
  <1>2. /\ "dead" \in Lives /\ "dead" # "alive"
        /\ "gone" \in Lives /\ "gone" # "alive"
    BY DEF Lives
  <1>3. ASSUME NEW y, y \in Sessions, y.hash = x.hash, y.life = x.life \/ y.life # "alive"
        PROVE  SessionOK(y, A)
    BY <1>1, <1>3, Zenon DEF SessionOK
  <1>4. LET y == [x EXCEPT !.stopping = TRUE]
        IN  y \in Sessions /\ y.hash = x.hash /\ y.life = x.life
    BY <1>1, Zenon DEF Sessions
  <1>5. LET y == [x EXCEPT !.stopping = TRUE, !.crons = FALSE]
        IN  y \in Sessions /\ y.hash = x.hash /\ y.life = x.life
    BY <1>1, Zenon DEF Sessions
  <1>6. LET y == [x EXCEPT !.ready = TRUE, !.crons = TRUE]
        IN  y \in Sessions /\ y.hash = x.hash /\ y.life = x.life
    BY <1>1, Zenon DEF Sessions
  <1>7. LET y == [x EXCEPT !.life = "dead"]
        IN  y \in Sessions /\ y.hash = x.hash /\ y.life # "alive"
    BY <1>1, <1>2, Zenon DEF Sessions
  <1>8. LET y == [x EXCEPT !.life = "gone"]
        IN  y \in Sessions /\ y.hash = x.hash /\ y.life # "alive"
    BY <1>1, <1>2, Zenon DEF Sessions
  <1> QED
    BY <1>3, <1>4, <1>5, <1>6, <1>7, <1>8, Zenon

\* Lemma: a session that never was, or is no more.
LEMMA NoSession == ASSUME NEW A PROVE SessionOK(Unused, A)
  BY DEF SessionOK, Unused, Sessions, Lives, Hashes

\* Lemma: a new process runs the hash it was started with.
LEMMA NewSession ==
    ASSUME NEW A, A \subseteq Versions, NEW h \in A
    PROVE  SessionOK([Unused EXCEPT !.life = "alive", !.hash = h], A)
  <1>1. Unused \in Sessions /\ "alive" \in Lives
    BY DEF Unused, Sessions, Lives
  <1>2. h \in Versions /\ h # None /\ h \in Hashes(A)
    BY RuntimeAssumption DEF Hashes
  <1>3. LET y == [Unused EXCEPT !.life = "alive", !.hash = h]
        IN  y \in Sessions /\ y.hash = h
    BY <1>1, <1>2, Zenon DEF Sessions
  <1> QED
    BY <1>2, <1>3, Zenon DEF SessionOK

\* Lemma: the inventory plans approved hashes only.
LEMMA EligibleIsApproved ==
    ASSUME NEW A, NEW r, RecordOK(r, A), NEW d \in Versions
    PROVE  Eligible(r, d) \in Hashes(A)
  BY RuntimeAssumption DEF Eligible, RecordOK, Hashes

\* Lemma: an action writes the hash it found in the file, or the one it approves.
LEMMA ActionRecordOK ==
    ASSUME NEW A, A \subseteq Versions, NEW r, RecordOK(r, A), NEW d \in Versions,
           NEW action \in Actions
    PROVE  /\ action = "enable" => RecordOK(ActionRecord(action, r, d), A \cup {d})
           /\ action # "enable" => RecordOK(ActionRecord(action, r, d), A)
  <1>1. r \in Records /\ r.hash \in Hashes(A)
    BY DEF RecordOK
  <1>2. ASSUME NEW s \in LifecycleStates
        PROVE  RecordOK([r EXCEPT !.state = s], A)
    <2>1. [r EXCEPT !.state = s] \in Records /\ [r EXCEPT !.state = s].hash = r.hash
      BY <1>1, Zenon DEF Records
    <2> QED
      BY <1>1, <2>1, Zenon DEF RecordOK
  <1>3. RecordOK([state |-> "active", hash |-> d], A \cup {d})
    BY DEF RecordOK, Records, LifecycleStates, Hashes
  <1>4. {"active", "needs_review", "restart_required"} \subseteq LifecycleStates
    BY DEF LifecycleStates
  <1>5. CASE action = "enable"
    BY <1>3, <1>5 DEF ActionRecord
  <1>6. CASE action = "review_changes"
    <2>1. ActionRecord(action, r, d) = [r EXCEPT !.state = "needs_review"]
      BY <1>6, Zenon DEF ActionRecord
    <2> QED
      BY <1>2, <1>4, <1>6, <2>1, Zenon
  <1>7. CASE action = "disable"
    <2>1. ActionRecord(action, r, d) = [r EXCEPT !.state = "restart_required"]
      BY <1>7, Zenon DEF ActionRecord
    <2> QED
      BY <1>2, <1>4, <1>7, <2>1, Zenon
  <1>8. CASE action = "retry"
    <2>1. \/ ActionRecord(action, r, d) = [r EXCEPT !.state = "active"]
          \/ ActionRecord(action, r, d) = [r EXCEPT !.state = "needs_review"]
      BY <1>8, Zenon DEF ActionRecord
    <2> QED
      BY <1>2, <1>4, <1>8, <2>1, Zenon
  <1> QED
    BY <1>5, <1>6, <1>7, <1>8 DEF Actions

-----------------------------------------------------------------------------
(* Shared parts of the actions *)

\* What Finish, Stop and GiveUp leave as they should.
TasksKept == TasksOK(task', approved)
SessionsKept == SessionsOK(proc', approved) /\ listed' \in Procs \cup {None}
QueueKept == RequestOK(pending', approved) /\ reconciler' \in Tasks \cup {None}

\* Lemma: a task moves on, and nothing is forgotten.
LEMMA ContinueOK ==
    ASSUME HashInv, NEW t \in Tasks, NEW x, TaskOK(x, approved), Continue(t, x)
    PROVE  TasksKept
  BY TaskUpdate, Zenon DEF HashInv, Continue, TasksKept

\* Lemma: a task ends, and the reconciler goes on with the pending request.
LEMMA FinishOK ==
    ASSUME HashInv, NEW t \in Tasks, Finish(t)
    PROVE  TasksKept /\ QueueKept
  <1>1. TaskOK(Idle, approved)
    BY IdleTask
  <1>2. CASE t # reconciler \/ pending = NoRequest
    <2>1. Continue(t, Idle) /\ pending' = pending
          /\ reconciler' = IF t = reconciler THEN None ELSE reconciler
      BY <1>2, Zenon DEF Finish
    <2> QED
      BY <1>1, <2>1, ContinueOK, Zenon DEF HashInv, QueueKept, PlaceOK
  <1>3. CASE ~(t # reconciler \/ pending = NoRequest)
    <2> DEFINE to == IF pending.kind = "fresh" THEN "read" ELSE "sync"
               x == [Idle EXCEPT !.pc = to, !.plan = pending.plan]
    <2>1. Continue(t, x) /\ pending' = NoRequest /\ reconciler' = reconciler
      BY <1>3, Zenon DEF Finish
    <2>2. to \in Points \ {"act", "acted"}
      BY DEF Points
    <2>3. pending.plan \in Hashes(approved) /\ approved \subseteq Versions
      BY DEF HashInv, RequestOK
    <2>4. TaskOK(x, approved)
      <3> HIDE DEF to
      <3> QED
        BY <1>1, <2>2, <2>3, TaskPlans, Zenon
    <2>5. RequestOK(NoRequest, approved)
      BY DEF RequestOK, NoRequest, Requests, Hashes
    <2> HIDE DEF x
    <2> QED
      BY <2>1, <2>4, <2>5, ContinueOK, Zenon DEF HashInv, QueueKept, PlaceOK
  <1> QED
    BY <1>2, <1>3

\* Lemma: a session is told to stop, and its task goes on to wait for that.
LEMMA StopOK ==
    ASSUME HashInv, NEW t \in Tasks, NEW p \in Procs \cup {None}, NEW next,
           TaskOK(next, approved), Stop(t, p, next)
    PROVE  TasksKept /\ SessionsKept
  <1> DEFINE x == IF proc[p].life \in {"free", "gone"} THEN Unused
                  ELSE [proc[p] EXCEPT !.stopping = TRUE, !.crons = FALSE]
  <1>1. /\ proc' = [proc EXCEPT ![p] = x]
        /\ listed' = IF listed = p THEN None ELSE listed
        /\ Continue(t, [next EXCEPT !.proc = p])
    BY Zenon DEF Stop
  <1>2. p \in Procs => SessionOK(x, approved)
    BY NoSession, SessionMoves, Zenon DEF HashInv, SessionsOK
  <1>3. SessionsOK(proc', approved)
    <2> HIDE DEF x
    <2> QED
      BY <1>1, <1>2, SessionUpdate, Zenon DEF HashInv
  <1>4. TasksKept
    BY <1>1, TaskAims, ContinueOK, Zenon
  <1> QED
    BY <1>1, <1>3, <1>4, Zenon DEF SessionsKept, HashInv, PlaceOK

\* Lemma: a start is given up.
LEMMA GiveUpOK ==
    ASSUME HashInv, NEW t \in Tasks, NEW p, NEW x, p \in Procs => SessionOK(x, approved),
           GiveUp(t, p, x)
    PROVE  TasksKept /\ SessionsKept
  <1>1. /\ proc' = [proc EXCEPT ![p] = x]
        /\ listed' = None
        /\ Continue(t, [Idle EXCEPT !.pc = "fail"])
    BY Zenon DEF GiveUp
  <1>2. SessionsOK(proc', approved)
    BY <1>1, SessionUpdate, Zenon DEF HashInv
  <1>3. TaskOK([Idle EXCEPT !.pc = "fail"], approved)
    <2>1. "fail" \in Points \ {"act", "acted"}
      BY DEF Points
    <2> QED
      BY <2>1, IdleTask, TaskMoves, Zenon
  <1> QED
    BY <1>1, <1>2, <1>3, ContinueOK, Zenon DEF SessionsKept

\* Lemma: the exit handler takes a session off the map, or leaves its schedules.
LEMMA UnlistOK ==
    ASSUME HashInv, NEW p \in Procs, Unlist(p)
    PROVE  SessionsKept
  <1> DEFINE x == IF listed = p \/ ~proc[p].crons THEN Unused
                  ELSE [proc[p] EXCEPT !.life = "gone"]
  <1>1. proc' = [proc EXCEPT ![p] = x] /\ listed' = IF listed = p THEN None ELSE listed
    BY Zenon DEF Unlist
  <1>2. SessionOK(x, approved)
    BY NoSession, SessionMoves, Zenon DEF HashInv, SessionsOK
  <1>3. SessionsOK(proc', approved)
    <2> HIDE DEF x
    <2> QED
      BY <1>1, <1>2, SessionUpdate, Zenon DEF HashInv
  <1> QED
    BY <1>1, <1>3, Zenon DEF SessionsKept, HashInv, PlaceOK

\* Lemma: a step keeps the invariant when it keeps its parts and approves nothing.
LEMMA KeptInv ==
    ASSUME HashInv, disk' = disk, approved' = approved, RecordOK(record', approved),
           TasksKept, SessionsKept, QueueKept
    PROVE  HashInv'
  BY Zenon DEF HashInv, TasksKept, SessionsKept, QueueKept, PlaceOK, RecordOK, Hashes,
               TasksOK, SessionsOK, RequestOK, TaskOK, SessionOK

\* Lemma: what a step leaves alone is kept.
LEMMA Untouched ==
    ASSUME HashInv
    PROVE  /\ UNCHANGED record => RecordOK(record', approved)
           /\ UNCHANGED task => TasksKept
           /\ UNCHANGED <<proc, listed>> => SessionsKept
           /\ UNCHANGED <<pending, reconciler>> => QueueKept
  BY Zenon DEF HashInv, TasksKept, SessionsKept, QueueKept, PlaceOK

\* Lemma: a fresh task may go to any point that is no request, with any plan.
LEMMA FreshTasks ==
    ASSUME HashInv, NEW pc \in Points \ {"act", "acted"}, NEW plan \in Hashes(approved)
    PROVE  /\ TaskOK(Idle, approved)
           /\ TaskOK([Idle EXCEPT !.pc = pc], approved)
           /\ TaskOK([Idle EXCEPT !.pc = pc, !.plan = plan], approved)
           /\ \A p \in Procs \cup {None} :
                 /\ TaskOK([[Idle EXCEPT !.pc = pc] EXCEPT !.proc = p], approved)
                 /\ TaskOK([[Idle EXCEPT !.pc = pc, !.plan = plan] EXCEPT !.proc = p], approved)
  <1>1. approved \subseteq Versions
    BY DEF HashInv
  <1>2. /\ TaskOK(Idle, approved)
        /\ TaskOK([Idle EXCEPT !.pc = pc], approved)
        /\ TaskOK([Idle EXCEPT !.pc = pc, !.plan = plan], approved)
    BY <1>1, IdleTask, TaskMoves, TaskPlans, Zenon
  <1> QED
    BY <1>2, TaskAims, Zenon

\* The points at which a task does not act on a sidecar.
LEMMA QuietPoints ==
    {"look", "request", "read", "sync", "keep", "halt", "prepare", "await", "activate",
     "fail", "retry", "other"} \subseteq Points \ {"act", "acted"}
  BY DEF Points

-----------------------------------------------------------------------------
(* Steps *)

\* Lemma: requests of the operator.
LEMMA RequestsKeep ==
    ASSUME HashInv, NEW t \in Tasks, OperatorStep(t) \/ Look(t) \/ Request(t)
    PROVE  HashInv'
  <1>1. TaskOK(Idle, approved) /\ \A pc \in {"look", "read", "other"} :
          TaskOK([Idle EXCEPT !.pc = pc], approved)
    BY FreshTasks, QuietPoints, Zenon DEF Hashes
  <1>2. TaskOK(task[t], approved) /\ task[t].plan \in Hashes(approved)
    BY Zenon DEF HashInv, TasksOK, TaskOK
  <1>3. ASSUME NEW x, TaskOK(x, approved), Begin(t, x)
        PROVE  TasksKept
    BY <1>3, ContinueOK, Zenon DEF Begin, Continue
  <1>4. ASSUME NEW action \in Actions, Act(t, action)
        PROVE  HashInv'
    BY <1>3, <1>4, TaskActs, Untouched, KeptInv, Zenon DEF Act
  <1>5. CASE Refresh(t)
    BY <1>1, <1>3, <1>5, Untouched, KeptInv, Zenon DEF Refresh
  <1>6. CASE RequestFresh(t)
    <2>1. RequestOK([kind |-> "fresh", plan |-> None], approved)
      BY DEF RequestOK, Requests, Hashes
    <2>2. CASE reconciler # None
      BY <1>6, <2>1, <2>2, Untouched, KeptInv, Zenon
         DEF RequestFresh, QueueKept, HashInv, PlaceOK
    <2>3. CASE reconciler = None
      BY <1>1, <1>3, <1>6, <2>3, Untouched, KeptInv, Zenon
         DEF RequestFresh, QueueKept, HashInv, PlaceOK
    <2> QED
      BY <2>2, <2>3
  <1>7. CASE WriteOther(t)
    BY <1>1, <1>3, <1>7, Untouched, KeptInv, Zenon DEF WriteOther
  <1>8. CASE Look(t)
    <2>1. Eligible(record, disk) \in Hashes(approved)
      BY EligibleIsApproved, Zenon DEF HashInv
    <2>2. TaskOK([task[t] EXCEPT !.pc = "request", !.plan = Eligible(record, disk)], approved)
      BY <1>2, <2>1, QuietPoints, TaskPlans, Zenon DEF HashInv
    <2> QED
      BY <1>8, <2>2, ContinueOK, Untouched, KeptInv, Zenon DEF Look, historyVars
  <1>9. CASE Request(t)
    <2>1. CASE reconciler # None
      <3>1. RequestOK([kind |-> "given", plan |-> task[t].plan], approved)
        BY <1>2 DEF RequestOK, Requests, HashInv, Hashes
      <3>2. Continue(t, Idle) /\ pending' = [kind |-> "given", plan |-> task[t].plan]
            /\ UNCHANGED <<disk, record, proc, listed, approved, reconciler>>
        BY <1>9, <2>1, Zenon DEF Request, historyVars
      <3> QED
        BY <1>1, <3>1, <3>2, ContinueOK, Untouched, KeptInv, Zenon
           DEF QueueKept, HashInv, PlaceOK
    <2>2. CASE reconciler = None
      <3>1. Continue(t, [task[t] EXCEPT !.pc = "sync"]) /\ reconciler' = t
            /\ UNCHANGED <<disk, record, proc, listed, approved, pending>>
        BY <1>9, <2>2, Zenon DEF Request, Goto, historyVars
      <3> QED
        BY <1>2, <3>1, QuietPoints, TaskMoves, ContinueOK, Untouched, KeptInv, Zenon
           DEF QueueKept, HashInv
    <2> QED
      BY <2>1, <2>2
  <1> QED
    BY <1>4, <1>5, <1>6, <1>7, <1>8, <1>9 DEF OperatorStep

\* Lemma: the lifecycle file is read and written back.
LEMMA FileKeeps ==
    ASSUME HashInv, NEW t \in Tasks,
           \/ ReadRecord(t, "act", "acted") \/ ReadRecord(t, "other", "othered")
           \/ ReadRecord(t, "activate", "activated") \/ ReadRecord(t, "fail", "failed")
           \/ WroteOther(t) \/ Activated(t) \/ Failed(t)
    PROVE  HashInv'
  <1>1. RecordOK(record, approved) /\ TaskOK(task[t], approved)
    BY Zenon DEF HashInv, TasksOK
  <1>2. /\ task[t].copy \in Records /\ task[t].copy.hash \in Hashes(approved)
        /\ task[t].action \in Actions \cup {None}
        /\ task[t].pc = "act" => task[t].action \in Actions
    BY <1>1 DEF TaskOK, TaskRecords
  <1>3. RecordOK(task[t].copy, approved)
    BY <1>2 DEF RecordOK
  <1>4. ASSUME NEW s \in LifecycleStates
        PROVE  RecordOK([task[t].copy EXCEPT !.state = s], approved)
    <2>1. LET r == [task[t].copy EXCEPT !.state = s]
          IN  r \in Records /\ r.hash = task[t].copy.hash
      BY <1>2, Zenon DEF Records
    <2> QED
      BY <1>2, <2>1, Zenon DEF RecordOK
  <1>5. ASSUME NEW from, NEW to \in Points, ReadRecord(t, from, to),
               to \in {"act", "acted"} => task[t].action \in Actions
        PROVE  HashInv'
    <2>1. TaskOK([Idle EXCEPT !.pc = to, !.copy = record, !.action = task[t].action], approved)
      BY <1>1, <1>2, <1>5, TaskReads, Zenon
    <2> QED
      BY <1>5, <2>1, ContinueOK, Untouched, KeptInv, Zenon DEF ReadRecord, historyVars
  <1>6. {"acted", "othered", "activated", "failed"} \subseteq Points
        /\ {"othered", "activated", "failed"} \cap {"act", "acted"} = {}
    BY DEF Points
  <1>7. CASE ReadRecord(t, "act", "acted")
    <2>1. task[t].pc = "act"
      BY <1>7, Zenon DEF ReadRecord, At
    <2> QED
      BY <1>2, <1>5, <1>6, <1>7, <2>1, Zenon
  <1>8. CASE \/ ReadRecord(t, "other", "othered") \/ ReadRecord(t, "activate", "activated")
             \/ ReadRecord(t, "fail", "failed")
    BY <1>5, <1>6, <1>8, Zenon
  <1>9. CASE WroteOther(t)
    BY <1>3, <1>9, IdleTask, ContinueOK, Untouched, KeptInv, Zenon DEF WroteOther, historyVars
  <1>10. CASE Activated(t)
    <2>1. "active" \in LifecycleStates
      BY DEF LifecycleStates
    <2> QED
      BY <1>4, <1>10, <2>1, FinishOK, Untouched, KeptInv, Zenon DEF Activated, historyVars
  <1>11. CASE Failed(t)
    <2>1. "failed" \in LifecycleStates
      BY DEF LifecycleStates
    <2> QED
      BY <1>4, <1>11, <2>1, FinishOK, Untouched, KeptInv, Zenon DEF Failed, historyVars
  <1> QED
    BY <1>7, <1>8, <1>9, <1>10, <1>11

\* Lemma: an approval is the one step that approves.
LEMMA ActedKeeps ==
    ASSUME HashInv, NEW t \in Tasks, Acted(t)
    PROVE  HashInv'
  <1> DEFINE action == task[t].action
             A == IF action = "enable" THEN approved \cup {disk} ELSE approved
  <1>1. TaskOK(task[t], approved) /\ At(t, "acted")
    BY Zenon DEF HashInv, TasksOK, Acted
  <1>2. action \in Actions /\ RecordOK(task[t].copy, approved)
    BY <1>1 DEF TaskOK, At, RecordOK, TaskRecords
  <1>3. approved \subseteq A /\ A \subseteq Versions /\ disk \in Versions
        /\ approved \subseteq Versions
    BY DEF HashInv
  <1>4. RecordOK(ActionRecord(action, task[t].copy, disk), A)
    BY <1>2, <1>3, ActionRecordOK, Zenon
  <1>5. /\ record' = ActionRecord(action, task[t].copy, disk)
        /\ approved' = A
        /\ UNCHANGED <<disk, proc, listed, reconciler, pending>>
    BY Zenon DEF Acted
  <1>6. \/ Continue(t, [Idle EXCEPT !.pc = "read"])
        \/ Continue(t, [Idle EXCEPT !.pc = "retry"])
        \/ Continue(t, Idle)
    BY Zenon DEF Acted
  <1>7. TasksKept
    BY <1>6, FreshTasks, QuietPoints, ContinueOK, Zenon DEF Hashes
  <1>8. /\ TasksOK(task', A)
        /\ SessionsOK(proc, A) /\ RequestOK(pending, A)
    BY <1>3, <1>7, MoreApprovals, Zenon DEF TasksKept, HashInv
  <1> HIDE DEF A, action
  <1> QED
    BY <1>3, <1>4, <1>5, <1>8, Zenon DEF HashInv, PlaceOK

\* Lemma: one turn of the loop over the inventory, and the stops it makes.
LEMMA SyncKeeps ==
    ASSUME HashInv, NEW t \in Tasks, Sync(t) \/ Keep(t) \/ Halt(t) \/ Retry(t)
    PROVE  HashInv'
  <1>1. /\ TaskOK(task[t], approved)
        /\ task[t].plan \in Hashes(approved) /\ task[t].proc \in Procs \cup {None}
        /\ listed \in Procs \cup {None}
    BY DEF HashInv, TasksOK, TaskOK, TaskRecords, PlaceOK
  <1>2. CASE Sync(t)
    <2> DEFINE plan == IF At(t, "read") THEN Eligible(record, disk) ELSE task[t].plan
               Then(pc) == [Idle EXCEPT !.pc = pc, !.plan = plan]
    <2>1. plan \in Hashes(approved)
      BY <1>1, EligibleIsApproved, Zenon DEF HashInv
    <2>2. UNCHANGED <<disk, record, approved>>
      BY <1>2, Zenon DEF Sync, historyVars
    <2>3. \/ /\ Continue(t, [Then("keep") EXCEPT !.proc = listed])
             /\ UNCHANGED <<proc, listed, reconciler, pending>>
          \/ /\ Stop(t, listed, Then("halt"))
             /\ UNCHANGED <<reconciler, pending>>
          \/ /\ Continue(t, Then("prepare"))
             /\ UNCHANGED <<proc, listed, reconciler, pending>>
          \/ /\ Finish(t)
             /\ UNCHANGED <<proc, listed>>
      BY <1>2, Zenon DEF Sync
    <2>4. /\ TaskOK([Then("keep") EXCEPT !.proc = listed], approved)
          /\ TaskOK(Then("halt"), approved)
          /\ TaskOK(Then("prepare"), approved)
      <3> HIDE DEF plan
      <3> QED
        BY <1>1, <2>1, FreshTasks, QuietPoints, Zenon
    <2> HIDE DEF Then
    <2> QED
      BY <1>1, <2>2, <2>3, <2>4, ContinueOK, StopOK, FinishOK, Untouched, KeptInv, Zenon
  <1>3. CASE Keep(t)
    <2>1. TaskOK([task[t] EXCEPT !.pc = "halt"], approved)
      BY <1>1, QuietPoints, TaskMoves, Zenon
    <2> QED
      BY <1>1, <1>3, <2>1, StopOK, FinishOK, Untouched, KeptInv, Zenon DEF Keep, historyVars
  <1>4. CASE Halt(t)
    <2> DEFINE pc == IF task[t].action = "retry" THEN "read" ELSE "prepare"
    <2>1. UNCHANGED <<disk, record, proc, listed, approved>>
      BY <1>4, Zenon DEF Halt, historyVars
    <2>2. \/ Finish(t)
          \/ /\ Continue(t, [Idle EXCEPT !.pc = pc, !.plan = task[t].plan])
             /\ UNCHANGED <<reconciler, pending>>
      BY <1>4, Zenon DEF Halt
    <2>3. pc \in {"read", "prepare"}
      OBVIOUS
    <2> HIDE DEF pc
    <2>4. TaskOK([Idle EXCEPT !.pc = pc, !.plan = task[t].plan], approved)
      BY <1>1, <2>3, FreshTasks, QuietPoints, Zenon
    <2> QED
      BY <2>1, <2>2, <2>4, ContinueOK, FinishOK, Untouched, KeptInv, Zenon
  <1>5. CASE Retry(t)
    <2>1. /\ TaskOK([Idle EXCEPT !.pc = "read"], approved)
          /\ TaskOK([Idle EXCEPT !.pc = "halt", !.action = "retry"], approved)
      <3>1. TaskOK([Idle EXCEPT !.pc = "read"], approved)
        BY FreshTasks, QuietPoints, Zenon DEF Hashes
      <3>2. /\ Idle \in TaskRecords /\ Idle.plan = None /\ Idle.copy.hash = None
            /\ "halt" \in Points /\ "retry" \in Actions /\ None \in Hashes(approved)
            /\ "halt" \notin {"act", "acted"}
        BY DEF TaskRecords, Idle, NoCopy, Records, LifecycleStates, Points, Actions, Hashes
      <3>3. LET x == [Idle EXCEPT !.pc = "halt", !.action = "retry"]
            IN  /\ x \in TaskRecords
                /\ x.pc = "halt" /\ x.plan = None /\ x.copy.hash = None
        BY <3>2, Zenon DEF TaskRecords
      <3> QED
        BY <3>1, <3>2, <3>3, Zenon DEF TaskOK
    <2>2. UNCHANGED <<disk, record, approved, reconciler, pending>>
      BY <1>5, Zenon DEF Retry, historyVars
    <2>3. \/ Stop(t, listed, [Idle EXCEPT !.pc = "halt", !.action = "retry"])
          \/ /\ Continue(t, [Idle EXCEPT !.pc = "read"])
             /\ UNCHANGED <<proc, listed>>
      BY <1>5, Zenon DEF Retry
    <2> QED
      BY <1>1, <2>1, <2>2, <2>3, ContinueOK, StopOK, Untouched, KeptInv, Zenon
  <1> QED
    BY <1>2, <1>3, <1>4, <1>5

\* Lemma: a start; the check before the spawn makes its hash the approved one.
LEMMA StartKeeps ==
    ASSUME HashInv, NEW t \in Tasks,
           Spawn(t) \/ PrepareFails(t) \/ Ready(t) \/ StartFails(t)
    PROVE  HashInv'
  <1>1. /\ task[t].plan \in Hashes(approved) /\ task[t].proc \in Procs \cup {None}
        /\ disk \in Versions /\ approved \subseteq Versions
    BY DEF HashInv, TasksOK, TaskOK, TaskRecords
  <1>2. /\ TaskOK([Idle EXCEPT !.pc = "fail"], approved)
        /\ TaskOK([Idle EXCEPT !.pc = "activate"], approved)
    BY FreshTasks, QuietPoints, Zenon DEF Hashes
  <1>3. CASE Spawn(t)
    <2>1. task[t].plan \in approved
      BY <1>1, <1>3, RuntimeAssumption DEF Spawn, Hashes
    <2>2. PICK p \in Procs :
             /\ proc' = [proc EXCEPT ![p] = [Unused EXCEPT !.life = "alive", !.hash = task[t].plan]]
             /\ listed' = p
             /\ Continue(t, [Idle EXCEPT !.pc = "await", !.proc = p])
      BY <1>3, Zenon DEF Spawn
    <2>3. SessionsKept
      BY <1>1, <2>1, <2>2, NewSession, SessionUpdate, Zenon DEF SessionsKept, HashInv
    <2>4. TaskOK([Idle EXCEPT !.pc = "await", !.proc = p], approved)
      <3>1. Idle \in TaskRecords /\ Idle.plan = None /\ Idle.copy.hash = None
        BY DEF TaskRecords, Idle, NoCopy, Records, LifecycleStates, Points
      <3>2. "await" \in Points \ {"act", "acted"} /\ None \in Hashes(approved)
        BY DEF Points, Hashes
      <3>3. LET x == [Idle EXCEPT !.pc = "await", !.proc = p]
            IN  /\ x \in TaskRecords
                /\ x.pc = "await" /\ x.plan = None /\ x.copy.hash = None
        BY <3>1, <3>2, Zenon DEF TaskRecords
      <3> QED
        BY <3>2, <3>3, Zenon DEF TaskOK
    <2>5. UNCHANGED <<disk, record, approved, reconciler, pending>>
      BY <1>3, Zenon DEF Spawn, historyVars
    <2> QED
      BY <2>2, <2>3, <2>4, <2>5, ContinueOK, Untouched, KeptInv, Zenon
  <1>4. CASE PrepareFails(t)
    BY <1>2, <1>4, ContinueOK, Untouched, KeptInv, Zenon DEF PrepareFails, historyVars
  <1>5. CASE Ready(t)
    <2> DEFINE p == task[t].proc
               x == [proc[p] EXCEPT !.ready = TRUE, !.crons = TRUE]
    <2>1. proc' = [proc EXCEPT ![p] = x]
      BY <1>5, Zenon DEF Ready
    <2>2. p \in Procs => SessionOK(x, approved)
      BY SessionMoves, Zenon DEF HashInv, SessionsOK
    <2>3. SessionsOK(proc', approved)
      <3> HIDE DEF x
      <3> QED
        BY <2>1, <2>2, SessionUpdate, Zenon DEF HashInv
    <2>4. /\ Continue(t, [Idle EXCEPT !.pc = "activate"])
          /\ UNCHANGED <<disk, record, listed, approved, reconciler, pending>>
      BY <1>5, Zenon DEF Ready, historyVars
    <2> QED
      BY <1>2, <2>3, <2>4, ContinueOK, Untouched, KeptInv, Zenon
         DEF SessionsKept, HashInv, PlaceOK
  <1>6. CASE StartFails(t)
    <2> DEFINE p == task[t].proc
               x == IF proc[p].life = "free" THEN Unused ELSE [proc[p] EXCEPT !.stopping = TRUE]
    <2>1. GiveUp(t, p, x) /\ UNCHANGED <<disk, record, approved, reconciler, pending>>
      BY <1>6, Zenon DEF StartFails, historyVars
    <2>2. p \in Procs => SessionOK(x, approved)
      BY NoSession, SessionMoves, Zenon DEF HashInv, SessionsOK
    <2> HIDE DEF x
    <2> QED
      BY <2>1, <2>2, GiveUpOK, Untouched, KeptInv, Zenon
  <1> QED
    BY <1>3, <1>4, <1>5, <1>6

\* Lemma: processes that end; a crash restart starts the same hash again.
LEMMA ProcessKeeps ==
    ASSUME HashInv, NEW p \in Procs, ProcessStep(p)
    PROVE  HashInv'
  <1>1. SessionOK(proc[p], approved) /\ proc[p].hash \in Hashes(approved)
    BY Zenon DEF HashInv, SessionsOK, SessionOK
  <1>2. CASE ProcessExits(p)
    <2>1. proc' = [proc EXCEPT ![p] = [proc[p] EXCEPT !.life = "dead"]]
      BY <1>2, Zenon DEF ProcessExits
    <2>2. SessionOK([proc[p] EXCEPT !.life = "dead"], approved)
      BY <1>1, SessionMoves, Zenon
    <2>3. UNCHANGED <<disk, record, listed, approved, task, reconciler, pending>>
      BY <1>2, Zenon DEF ProcessExits, historyVars
    <2>4. SessionsKept
      BY <2>1, <2>2, <2>3, SessionUpdate, Zenon DEF SessionsKept, HashInv, PlaceOK
    <2> QED
      BY <2>3, <2>4, Untouched, KeptInv, Zenon
  <1>3. CASE StoppedExits(p)
    BY <1>3, UnlistOK, Untouched, KeptInv, Zenon DEF StoppedExits, historyVars
  <1>4. CASE StartingExits(p)
    BY <1>4, NoSession, GiveUpOK, Untouched, KeptInv, Zenon DEF StartingExits, historyVars
  <1>5. CASE Crashes(p)
    <2>1. Unlist(p) /\ UNCHANGED <<disk, record, reconciler, pending, approved>>
      BY <1>5, Zenon DEF Crashes
    <2>2. PICK t \in Tasks :
             \/ Continue(t, [Idle EXCEPT !.pc = "fail"])
             \/ Continue(t, [Idle EXCEPT !.pc = "prepare", !.plan = proc[p].hash])
      BY <1>5, Zenon DEF Crashes, Begin, Continue
    <2>3. /\ TaskOK([Idle EXCEPT !.pc = "fail"], approved)
          /\ TaskOK([Idle EXCEPT !.pc = "prepare", !.plan = proc[p].hash], approved)
      BY <1>1, FreshTasks, QuietPoints, Zenon
    <2> QED
      BY <2>1, <2>2, <2>3, UnlistOK, ContinueOK, Untouched, KeptInv, Zenon
  <1> QED
    BY <1>2, <1>3, <1>4, <1>5 DEF ProcessStep

\* Lemma: at startup nothing runs, and one task will read the inventory.
LEMMA StartupOK ==
    ASSUME NEW A, NEW r \in Tasks
    PROVE  /\ TasksOK(Startup(r), A)
           /\ SessionsOK([p \in Procs |-> Unused], A)
           /\ RequestOK(NoRequest, A)
  <1>1. TaskOK(Idle, A) /\ TaskOK([Idle EXCEPT !.pc = "read"], A)
    BY IdleTask, TaskMoves, QuietPoints, Zenon
  <1>2. TasksOK(Startup(r), A)
    BY <1>1, Zenon DEF TasksOK, Startup, TaskOK
  <1>3. SessionsOK([p \in Procs |-> Unused], A)
    BY NoSession, Zenon DEF SessionsOK, SessionOK
  <1>4. RequestOK(NoRequest, A)
    BY DEF RequestOK, NoRequest, Requests, Hashes
  <1> QED
    BY <1>2, <1>3, <1>4

\* The initial state satisfies the invariant.
LEMMA HashInit == Init => HashInv
  <1> SUFFICES ASSUME Init
               PROVE  HashInv
    OBVIOUS
  <1>1. RecordOK(NoCopy, {})
    BY DEF RecordOK, NoCopy, Records, LifecycleStates, Hashes
  <1> QED
    BY <1>1, StartupOK, Zenon DEF Init, HashInv, PlaceOK

\* Every step keeps the invariant of the hashes.
LEMMA HashStep == HashInv /\ [Next]_vars => HashInv'
  <1> SUFFICES ASSUME HashInv, [Next]_vars
               PROVE  HashInv'
    OBVIOUS
  <1>1. ASSUME NEW t \in Tasks, TaskStep(t) \/ OperatorStep(t)
        PROVE  HashInv'
    BY <1>1, RequestsKeep, FileKeeps, ActedKeeps, SyncKeeps, StartKeeps, Zenon DEF TaskStep
  <1>2. CASE EditFiles
    BY <1>2, Zenon DEF EditFiles, HashInv, PlaceOK
  <1>3. CASE WindowPasses
    BY <1>3, Zenon DEF WindowPasses, historyVars, HashInv, PlaceOK
  <1>4. CASE HostRestarts
    BY <1>4, StartupOK, Zenon DEF HostRestarts, HashInv, PlaceOK
  <1>5. CASE UNCHANGED vars
    BY <1>5, Zenon DEF vars, historyVars, HashInv, PlaceOK
  <1> QED
    BY <1>1, <1>2, <1>3, <1>4, <1>5, ProcessKeeps, Zenon DEF Next

-----------------------------------------------------------------------------
\* Theorem: plugin code runs only in a version the operator approved, however
\* approvals, edits, reconciliations and crash restarts interleave (startPlugin's
\* computePluginReviewHash before each spawn).
THEOREM ApprovedCodeRuns == Spec => []OnlyApprovedCode
  <1>1. HashInv => OnlyApprovedCode
    BY DEF HashInv, SessionsOK, SessionOK, Hashes, OnlyApprovedCode, Running
  <1> QED
    BY <1>1, HashInit, HashStep, PTL DEF Spec

-----------------------------------------------------------------------------
(* One task at a time *)

\* The points at which the reconciler can be.
ReconcilerPoints ==
    {"read", "sync", "keep", "halt", "prepare", "await", "activate", "activated", "fail",
     "failed"}

\* A session that is not on its way out is the listed one, and has its schedules
\* once it is ready; one that is has none, and an unused one is unused.
SessionFits(p, x, l) ==
    /\ x.life \in {"free", "alive", "dead"}
    /\ x.crons = (x.ready /\ ~x.stopping)
    /\ x.life # "free" /\ ~x.stopping <=> l = p
    /\ x.life = "free" => ~x.ready

\* What a task relies on between two awaits, when nobody else is at work: l is the
\* listed session, r the record in the lifecycle file.
TaskFits(x, r, l, sessions) ==
    /\ x.pc \in {"acted", "othered", "activated", "failed"} => x.copy = r
    /\ x.pc \in {"request", "sync"} /\ x.plan # None => r.state # "failed"
    /\ x.pc = "keep" => l # None /\ x.proc = l
    /\ x.pc \in {"halt", "prepare"} => l = None /\ r.state # "failed"
    /\ x.pc = "await" => /\ l # None /\ x.proc = l /\ ~sessions[l].ready
                         /\ r.state # "failed"
    /\ x.pc \in {"activate", "activated"} => r.state # "failed"
    /\ x.pc \in {"fail", "failed"} => l = None

LoneTasks ==
    /\ \A t, u \in Tasks : task[t].pc # "idle" /\ task[u].pc # "idle" => t = u
    /\ \A t \in Tasks : TaskFits(task[t], record, listed, proc)

LoneQueue ==
    /\ reconciler # None => task[reconciler].pc \in ReconcilerPoints
    /\ pending = NoRequest \/ pending = [kind |-> "fresh", plan |-> None]

LoneSessions ==
    /\ \A p \in Procs : SessionFits(p, proc[p], listed)
    /\ record.state = "failed" => listed = None

AloneInv == LoneTasks /\ LoneQueue /\ LoneSessions

\* Without overlap, the sidecars and the record are as the one task needs them.
LoneInv == ~overlapped => AloneInv

\* Lemma: where nothing is relied on.
LEMMA FreePoints ==
    ASSUME NEW x, x.pc \in {"idle", "look", "act", "other", "read", "retry"},
           NEW r, NEW l, NEW s
    PROVE  TaskFits(x, r, l, s)
  BY DEF TaskFits

\* Lemma: the one task at work moves on, or one starts when none is.
LEMMA LoneMoves ==
    ASSUME HashInv, LoneTasks, NEW t \in Tasks, task[t].pc # "idle" \/ Busy = {},
           NEW x, Continue(t, x), TaskFits(x, record', listed', proc')
    PROVE  LoneTasks'
  <1>1. task' = [task EXCEPT ![t] = x] /\ task \in [Tasks -> TaskRecords]
    BY DEF Continue, HashInv, TasksOK
  <1>2. ASSUME NEW u \in Tasks, u # t
        PROVE  task[u].pc = "idle" /\ task'[u] = task[u]
    BY <1>1, <1>2 DEF LoneTasks, Busy
  <1>3. ASSUME NEW u \in Tasks
        PROVE  TaskFits(task'[u], record', listed', proc')
    <2>1. CASE u = t
      BY <1>1, <2>1
    <2>2. CASE u # t
      <3>1. task'[u].pc = "idle"
        BY <1>2, <2>2
      <3> QED
        BY <3>1, FreePoints
    <2> QED
      BY <2>1, <2>2
  <1>4. \A u, v \in Tasks : task'[u].pc # "idle" /\ task'[v].pc # "idle" => u = v
    BY <1>2
  <1> QED
    BY <1>3, <1>4 DEF LoneTasks

\* Lemma: ... and the queue behind the reconciler is not touched.
LEMMA QueueMoves ==
    ASSUME HashInv, LoneTasks, LoneQueue, NEW t \in Tasks, task[t].pc # "idle",
           NEW x, Continue(t, x),
           task[t].pc \in ReconcilerPoints => x.pc \in ReconcilerPoints,
           UNCHANGED <<reconciler, pending>>
    PROVE  LoneQueue'
  <1>1. task' = [task EXCEPT ![t] = x] /\ task \in [Tasks -> TaskRecords]
        /\ reconciler \in Tasks \cup {None}
    BY DEF Continue, HashInv, TasksOK, PlaceOK
  <1>2. reconciler # None => reconciler = t
    BY <1>1 DEF LoneTasks, LoneQueue, ReconcilerPoints
  <1> QED
    BY <1>1, <1>2 DEF LoneQueue

\* A lone task that goes on to a point of its own kind stays alone.
LEMMA LoneStep ==
    ASSUME HashInv, AloneInv, NEW t \in Tasks, task[t].pc # "idle",
           NEW x, Continue(t, x),
           task[t].pc \in ReconcilerPoints => x.pc \in ReconcilerPoints,
           UNCHANGED <<reconciler, pending>>, TaskFits(x, record', listed', proc')
    PROVE  LoneTasks' /\ LoneQueue'
  BY LoneMoves, QueueMoves DEF AloneInv

\* Lemma: a task starts, and was alone to do so.
LEMMA LoneBegins ==
    ASSUME HashInv, AloneInv, NEW t \in Tasks, NEW x, Begin(t, x), ~overlapped',
           UNCHANGED pending,
           reconciler' = reconciler \/ (reconciler' = t /\ x.pc \in ReconcilerPoints),
           TaskFits(x, record', listed', proc')
    PROVE  LoneTasks' /\ LoneQueue'
  <1>1. Busy = {} /\ Continue(t, x)
    BY DEF Begin, Continue
  <1>2. task' = [task EXCEPT ![t] = x] /\ task \in [Tasks -> TaskRecords]
        /\ reconciler \in Tasks \cup {None}
    BY <1>1 DEF Continue, HashInv, TasksOK, PlaceOK
  <1>3. reconciler = None
    BY <1>1, <1>2 DEF AloneInv, LoneQueue, ReconcilerPoints, Busy
  <1>4. LoneQueue'
    BY <1>2, <1>3 DEF AloneInv, LoneQueue
  <1> QED
    BY <1>1, <1>4, LoneMoves DEF AloneInv

\* Lemma: the task ends, or the reconciler reads the inventory anew.
LEMMA LoneFinish ==
    ASSUME HashInv, AloneInv, NEW t \in Tasks, task[t].pc # "idle", Finish(t)
    PROVE  LoneTasks' /\ LoneQueue'
  <1>1. task \in [Tasks -> TaskRecords] /\ reconciler \in Tasks \cup {None}
    BY DEF HashInv, TasksOK, PlaceOK
  <1>2. reconciler # None => reconciler = t
    BY <1>1 DEF AloneInv, LoneTasks, LoneQueue, ReconcilerPoints
  <1>3. CASE t # reconciler \/ pending = NoRequest
    <2>1. Continue(t, Idle) /\ pending' = pending /\ reconciler' = None
      BY <1>2, <1>3, Zenon DEF Finish
    <2>2. Idle.pc = "idle"
      BY DEF Idle
    <2>3. LoneTasks'
      BY <2>1, <2>2, FreePoints, LoneMoves DEF AloneInv
    <2> QED
      BY <2>1, <2>3 DEF AloneInv, LoneQueue
  <1>4. CASE ~(t # reconciler \/ pending = NoRequest)
    <2>1. pending.kind = "fresh"
      BY <1>4 DEF AloneInv, LoneQueue
    <2>2. PICK x : x = [Idle EXCEPT !.pc = "read", !.plan = pending.plan]
      OBVIOUS
    <2>3. x.pc = "read"
      BY <2>2, Zenon DEF Idle
    <2>4. Continue(t, x) /\ pending' = NoRequest /\ reconciler' = reconciler
      BY <1>4, <2>1, <2>2, Zenon DEF Finish
    <2>5. LoneTasks'
      BY <2>3, <2>4, FreePoints, LoneMoves DEF AloneInv
    <2>6. task'[t] = x
      BY <1>1, <2>4 DEF Continue
    <2> QED
      BY <1>2, <2>3, <2>4, <2>5, <2>6 DEF LoneQueue, ReconcilerPoints
  <1> QED
    BY <1>3, <1>4

\* Lemma: the sidecars are left alone, and no failure is recorded beside one.
LEMMA SessionsStay ==
    ASSUME AloneInv, UNCHANGED <<proc, listed>>,
           record'.state = "failed" => record.state = "failed" \/ listed = None
    PROVE  LoneSessions'
  BY DEF AloneInv, LoneSessions

\* Lemma: a session is stopped.
LEMMA LoneStop ==
    ASSUME HashInv, AloneInv, NEW t \in Tasks, NEW p \in Procs, p = listed, NEW next,
           Stop(t, p, next), UNCHANGED record
    PROVE  LoneSessions' /\ listed' = None /\ record'.state # "failed"
  <1>1. p # None /\ record.state # "failed"
    BY RuntimeAssumption DEF AloneInv, LoneSessions
  <1>2. listed' = None
    BY DEF Stop
  <1>3. SessionFits(p, proc[p], p) /\ proc[p] \in Sessions /\ proc \in [Procs -> Sessions]
    BY DEF AloneInv, LoneSessions, HashInv, SessionsOK, SessionOK
  <1>4. PICK x : x = [proc[p] EXCEPT !.stopping = TRUE, !.crons = FALSE]
    OBVIOUS
  <1>5. x.life = proc[p].life /\ x.stopping = TRUE /\ x.crons = FALSE
        /\ x.ready = proc[p].ready
    BY <1>3, <1>4, Zenon DEF Sessions
  <1>6. proc[p].life \notin {"free", "gone"}
    BY <1>3 DEF SessionFits
  <1>7. proc' = [proc EXCEPT ![p] = x]
    BY <1>4, <1>6, Zenon DEF Stop
  <1>8. SessionFits(p, x, None)
    BY <1>1, <1>3, <1>5 DEF SessionFits
  <1>9. ASSUME NEW q \in Procs PROVE SessionFits(q, proc'[q], None)
    <2>1. CASE q = p
      BY <1>3, <1>7, <1>8, <2>1
    <2>2. CASE q # p
      <3>1. proc'[q] = proc[q] /\ SessionFits(q, proc[q], p)
        BY <1>3, <1>7, <2>2 DEF AloneInv, LoneSessions
      <3> QED
        BY <2>2, <3>1, RuntimeAssumption DEF SessionFits
    <2> QED
      BY <2>1, <2>2
  <1> QED
    BY <1>1, <1>2, <1>9 DEF LoneSessions

\* Lemma: a listed session is given up or its process is gone.
LEMMA LoneEnds ==
    ASSUME HashInv, AloneInv, NEW p \in Procs, p = listed, NEW x,
           proc' = [proc EXCEPT ![p] = x], listed' = None, UNCHANGED record,
           SessionFits(p, x, None)
    PROVE  LoneSessions'
  <1>1. proc \in [Procs -> Sessions]
    BY DEF HashInv, SessionsOK
  <1>2. ASSUME NEW q \in Procs PROVE SessionFits(q, proc'[q], None)
    <2>1. CASE q = p
      BY <1>1, <2>1
    <2>2. CASE q # p
      <3>1. proc'[q] = proc[q] /\ SessionFits(q, proc[q], p)
        BY <1>1, <2>2 DEF AloneInv, LoneSessions
      <3> QED
        BY <2>2, <3>1, RuntimeAssumption DEF SessionFits
    <2> QED
      BY <2>1, <2>2
  <1> QED
    BY <1>2 DEF LoneSessions

\* A process that nobody started fits a session that nobody opened.
LEMMA UnusedFits == \A p \in Procs : SessionFits(p, Unused, None)
  BY RuntimeAssumption, Zenon DEF SessionFits, Unused

\* Lemma: the requests of the operator, and what they go on with.
LEMMA LoneRequests ==
    ASSUME HashInv, AloneInv, ~overlapped', NEW t \in Tasks,
           OperatorStep(t) \/ Look(t) \/ Request(t)
    PROVE  AloneInv'
  <1>1. ASSUME NEW action, Act(t, action)
        PROVE  AloneInv'
    <2>1. PICK x : x = [Idle EXCEPT !.pc = "act", !.action = action]
      OBVIOUS
    <2>2. x.pc = "act"
      BY <2>1, Zenon DEF Idle
    <2>3. Begin(t, x) /\ UNCHANGED <<record, proc, listed, reconciler, pending>>
      BY <1>1, <2>1, Zenon DEF Act
    <2>4. LoneTasks' /\ LoneQueue'
      BY <2>2, <2>3, FreePoints, LoneBegins
    <2> QED
      BY <2>3, <2>4, SessionsStay DEF AloneInv
  <1>2. CASE Refresh(t)
    <2>1. PICK x : x = [Idle EXCEPT !.pc = "look"]
      OBVIOUS
    <2>2. x.pc = "look"
      BY <2>1, Zenon DEF Idle
    <2>3. Begin(t, x) /\ UNCHANGED <<record, proc, listed, reconciler, pending>>
      BY <1>2, <2>1, Zenon DEF Refresh
    <2>4. LoneTasks' /\ LoneQueue'
      BY <2>2, <2>3, FreePoints, LoneBegins
    <2> QED
      BY <2>3, <2>4, SessionsStay DEF AloneInv
  <1>3. CASE WriteOther(t)
    <2>1. PICK x : x = [Idle EXCEPT !.pc = "other"]
      OBVIOUS
    <2>2. x.pc = "other"
      BY <2>1, Zenon DEF Idle
    <2>3. Begin(t, x) /\ UNCHANGED <<record, proc, listed, reconciler, pending>>
      BY <1>3, <2>1, Zenon DEF WriteOther
    <2>4. LoneTasks' /\ LoneQueue'
      BY <2>2, <2>3, FreePoints, LoneBegins
    <2> QED
      BY <2>3, <2>4, SessionsStay DEF AloneInv
  <1>4. CASE RequestFresh(t) /\ reconciler # None
    <2>1. /\ pending' = [kind |-> "fresh", plan |-> None]
          /\ UNCHANGED <<record, proc, listed, task, reconciler>>
      BY <1>4, Zenon DEF RequestFresh
    <2> QED
      BY <2>1 DEF AloneInv, LoneTasks, LoneQueue, LoneSessions
  <1>5. CASE RequestFresh(t) /\ reconciler = None
    <2>1. PICK x : x = [Idle EXCEPT !.pc = "read"]
      OBVIOUS
    <2>2. x.pc = "read" /\ "read" \in ReconcilerPoints
      BY <2>1, Zenon DEF Idle, ReconcilerPoints
    <2>3. Begin(t, x) /\ reconciler' = t /\ UNCHANGED <<record, proc, listed, pending>>
      BY <1>5, <2>1, Zenon DEF RequestFresh
    <2>4. LoneTasks' /\ LoneQueue'
      BY <2>2, <2>3, FreePoints, LoneBegins
    <2> QED
      BY <2>3, <2>4, SessionsStay DEF AloneInv
  <1>6. task[t] \in TaskRecords /\ task \in [Tasks -> TaskRecords]
        /\ reconciler \in Tasks \cup {None}
    BY DEF HashInv, TasksOK, PlaceOK
  <1>7. CASE Look(t)
    <2>1. PICK x : x = [task[t] EXCEPT !.pc = "request", !.plan = Eligible(record, disk)]
      OBVIOUS
    <2>2. x.pc = "request" /\ x.plan = Eligible(record, disk)
      BY <1>6, <2>1, Zenon DEF TaskRecords
    <2>3. TaskFits(x, record, listed, proc)
      BY <2>2 DEF TaskFits, Eligible
    <2>4. task[t].pc = "look" /\ Continue(t, x)
          /\ UNCHANGED <<record, proc, listed, reconciler, pending>>
      BY <1>7, <2>1, Zenon DEF Look, At
    <2>5. task[t].pc \notin ReconcilerPoints /\ task[t].pc # "idle"
      BY <2>4 DEF ReconcilerPoints
    <2>6. LoneTasks' /\ LoneQueue'
      BY <2>3, <2>4, <2>5, LoneStep
    <2> QED
      BY <2>4, <2>6, SessionsStay DEF AloneInv
  <1>8. CASE Request(t)
    <2>1. task[t].pc = "request" /\ UNCHANGED <<record, proc, listed>>
      BY <1>8, Zenon DEF Request, At
    <2>2. reconciler = None
      BY <1>6, <2>1 DEF AloneInv, LoneTasks, LoneQueue, ReconcilerPoints
    <2>3. PICK x : x = [task[t] EXCEPT !.pc = "sync"]
      OBVIOUS
    <2>4. x.pc = "sync" /\ x.plan = task[t].plan
      BY <1>6, <2>3, Zenon DEF TaskRecords
    <2>5. Continue(t, x) /\ reconciler' = t /\ UNCHANGED pending
      BY <1>8, <2>2, <2>3, Zenon DEF Request, Goto
    <2>6. TaskFits(task[t], record, listed, proc)
      BY DEF AloneInv, LoneTasks
    <2>7. TaskFits(x, record, listed, proc)
      BY <2>1, <2>4, <2>6 DEF TaskFits
    <2>8. LoneTasks'
      BY <2>1, <2>5, <2>7, LoneMoves DEF AloneInv
    <2>9. task'[t] = x
      BY <1>6, <2>5 DEF Continue
    <2>10. LoneQueue'
      BY <2>4, <2>5, <2>9 DEF AloneInv, LoneQueue, ReconcilerPoints
    <2> QED
      BY <2>1, <2>8, <2>10, SessionsStay DEF AloneInv
  <1> QED
    BY <1>1, <1>2, <1>3, <1>4, <1>5, <1>7, <1>8, Zenon DEF OperatorStep

\* Lemma: a task reads the lifecycle file; nobody writes it until the task does.
LEMMA LoneReads ==
    ASSUME HashInv, AloneInv, NEW t \in Tasks,
           NEW from, NEW to, ReadRecord(t, from, to),
           <<from, to>> \in {<<"act", "acted">>, <<"other", "othered">>,
                             <<"activate", "activated">>, <<"fail", "failed">>}
    PROVE  AloneInv'
  <1>1. PICK x : x = [Idle EXCEPT !.pc = to, !.copy = record, !.action = task[t].action]
    OBVIOUS
  <1>2. x.pc = to /\ x.copy = record
    BY <1>1, Zenon DEF Idle
  <1>3. task[t].pc = from /\ Continue(t, x)
        /\ UNCHANGED <<record, proc, listed, reconciler, pending>>
    BY <1>1, Zenon DEF ReadRecord, At
  <1>4. TaskFits(task[t], record, listed, proc)
    BY DEF AloneInv, LoneTasks
  <1>5. TaskFits(x, record, listed, proc)
    BY <1>2, <1>3, <1>4 DEF TaskFits
  <1>6. task[t].pc # "idle" /\ (task[t].pc \in ReconcilerPoints => x.pc \in ReconcilerPoints)
    BY <1>2, <1>3 DEF ReconcilerPoints
  <1>7. LoneTasks' /\ LoneQueue'
    BY <1>3, <1>5, <1>6, LoneStep
  <1> QED
    BY <1>3, <1>7, SessionsStay DEF AloneInv

\* Lemma: what the operator writes is never a failure that was not on record.
LEMMA ActedIsNoFailure ==
    ASSUME NEW r \in Records, NEW d, NEW action \in Actions
    PROVE  ActionRecord(action, r, d).state # "failed"
  <1>1. /\ [r EXCEPT !.state = "needs_review"].state = "needs_review"
        /\ [r EXCEPT !.state = "restart_required"].state = "restart_required"
        /\ [r EXCEPT !.state = "active"].state = "active"
    BY Zenon DEF Records
  <1>2. \/ ActionRecord(action, r, d) = [state |-> "active", hash |-> d]
        \/ ActionRecord(action, r, d) = [r EXCEPT !.state = "needs_review"]
        \/ ActionRecord(action, r, d) = [r EXCEPT !.state = "restart_required"]
        \/ ActionRecord(action, r, d) = [r EXCEPT !.state = "active"]
    <2>1. action = "enable" \/ action = "review_changes" \/ action = "disable" \/ action = "retry"
      BY DEF Actions
    <2> QED
      BY <2>1, Zenon DEF ActionRecord
  <1>3. [state |-> "active", hash |-> d].state = "active"
    BY Zenon
  <1>4. ActionRecord(action, r, d).state \in {"active", "needs_review", "restart_required"}
    <2> HIDE DEF Records
    <2> QED
      BY <1>1, <1>2, <1>3, Zenon
  <1> QED
    BY <1>4

\* Lemma: a task writes the record back.
LEMMA LoneWrites ==
    ASSUME HashInv, AloneInv, NEW t \in Tasks,
           WroteOther(t) \/ Acted(t) \/ Activated(t) \/ Failed(t)
    PROVE  AloneInv'
  <1>1. task[t] \in TaskRecords /\ task[t].copy \in Records /\ TaskOK(task[t], approved)
    BY DEF HashInv, TasksOK, TaskRecords
  <1>2. TaskFits(task[t], record, listed, proc)
    BY DEF AloneInv, LoneTasks
  <1>3. CASE WroteOther(t)
    <2>1. task[t].pc = "othered" /\ record' = task[t].copy /\ Continue(t, Idle)
          /\ UNCHANGED <<proc, listed, reconciler, pending>>
      BY <1>3, Zenon DEF WroteOther, At
    <2>2. record' = record /\ task[t].pc \notin ReconcilerPoints
      BY <1>2, <2>1 DEF TaskFits, ReconcilerPoints
    <2>3. Idle.pc = "idle"
      BY DEF Idle
    <2>4. LoneTasks' /\ LoneQueue'
      BY <2>1, <2>2, <2>3, FreePoints, LoneStep
    <2> QED
      BY <2>1, <2>2, <2>4, SessionsStay DEF AloneInv
  <1>4. CASE Acted(t)
    <2>1. task[t].pc = "acted" /\ record' = ActionRecord(task[t].action, task[t].copy, disk)
          /\ UNCHANGED <<proc, listed, reconciler, pending>>
      BY <1>4, Zenon DEF Acted, At
    <2>2. record'.state # "failed"
      BY <1>1, <2>1, ActedIsNoFailure DEF TaskOK
    <2>3. PICK x : /\ Continue(t, x)
                   /\ \/ x = [Idle EXCEPT !.pc = "read"]
                      \/ x = [Idle EXCEPT !.pc = "retry"]
                      \/ x = Idle
      BY <1>4, Zenon DEF Acted
    <2>4. x.pc \in {"read", "retry", "idle"}
      <3>1. /\ [Idle EXCEPT !.pc = "read"].pc = "read"
            /\ [Idle EXCEPT !.pc = "retry"].pc = "retry"
            /\ Idle.pc = "idle"
        BY Zenon DEF Idle
      <3>2. x.pc = "read" \/ x.pc = "retry" \/ x.pc = "idle"
        BY <2>3, <3>1, Zenon
      <3> QED
        BY <3>2
    <2>5. task[t].pc \notin ReconcilerPoints
      BY <2>1 DEF ReconcilerPoints
    <2>6. LoneTasks' /\ LoneQueue'
      BY <2>1, <2>3, <2>4, <2>5, FreePoints, LoneStep
    <2> QED
      BY <2>1, <2>2, <2>6, SessionsStay DEF AloneInv
  <1>5. CASE Activated(t)
    <2>1. task[t].pc = "activated" /\ record' = [task[t].copy EXCEPT !.state = "active"]
          /\ Finish(t) /\ UNCHANGED <<proc, listed>>
      BY <1>5, Zenon DEF Activated, At
    <2>2. record'.state = "active"
      BY <1>1, <2>1, Zenon DEF Records
    <2> QED
      BY <2>1, <2>2, LoneFinish, SessionsStay DEF AloneInv
  <1>6. CASE Failed(t)
    <2>1. task[t].pc = "failed" /\ Finish(t) /\ UNCHANGED <<proc, listed>>
      BY <1>6, Zenon DEF Failed, At
    <2>2. listed = None
      BY <1>2, <2>1 DEF TaskFits
    <2> QED
      BY <2>1, <2>2, LoneFinish, SessionsStay DEF AloneInv
  <1> QED
    BY <1>3, <1>4, <1>5, <1>6

\* Lemma: the listed session, when a task found it there, is a session.
LEMMA ListedSession ==
    ASSUME HashInv, listed # None
    PROVE  listed \in Procs /\ proc[listed] \in Sessions
  BY DEF HashInv, PlaceOK, SessionsOK

\* Lemma: a session is stopped for a task that goes on to the halt.
LEMMA LoneStops ==
    ASSUME HashInv, AloneInv, NEW t \in Tasks, task[t].pc # "idle", NEW p \in Procs,
           p = listed, NEW next \in TaskRecords, next.pc = "halt", Stop(t, p, next),
           UNCHANGED <<record, reconciler, pending>>
    PROVE  AloneInv'
  <1>1. LoneSessions' /\ listed' = None /\ record'.state # "failed"
    BY LoneStop
  <1>2. PICK x : x = [next EXCEPT !.proc = p]
    OBVIOUS
  <1>3. x.pc = "halt"
    BY <1>2, Zenon DEF TaskRecords
  <1>4. Continue(t, x)
    BY <1>2, Zenon DEF Stop
  <1>5. TaskFits(x, record', listed', proc')
    BY <1>1, <1>3 DEF TaskFits
  <1>6. LoneTasks' /\ LoneQueue'
    BY <1>3, <1>4, <1>5, LoneStep DEF ReconcilerPoints
  <1> QED
    BY <1>1, <1>6 DEF AloneInv

\* Lemma: one turn of the reconciliation.
LEMMA LoneSync ==
    ASSUME HashInv, AloneInv, NEW t \in Tasks, Sync(t)
    PROVE  AloneInv'
  <1> DEFINE plan == IF At(t, "read") THEN Eligible(record, disk) ELSE task[t].plan
             Then(pc) == [Idle EXCEPT !.pc = pc, !.plan = plan]
  <1>1. /\ task[t].pc = "read" \/ task[t].pc = "sync"
        /\ UNCHANGED record
    BY Zenon DEF Sync, At
  <1>2. TaskFits(task[t], record, listed, proc)
    BY DEF AloneInv, LoneTasks
  <1>3. plan # None => record.state # "failed"
    BY <1>1, <1>2 DEF TaskFits, At, Eligible
  <1>4. plan \in Versions \cup {None} /\ record \in Records
    BY DEF HashInv, RecordOK, TasksOK, TaskRecords, Eligible, Records
  <1>5. Idle \in TaskRecords /\ Idle.pc = "idle"
    BY DEF TaskRecords, Idle, NoCopy, Records, LifecycleStates, Points
  <1>6. ASSUME NEW pc \in Points
        PROVE  Then(pc) \in TaskRecords /\ Then(pc).pc = pc /\ Then(pc).plan = plan
    <2> HIDE DEF plan
    <2> QED
      BY <1>4, <1>5, Zenon DEF TaskRecords
  <1>7. {"keep", "halt", "prepare"} \subseteq Points
    BY DEF Points
  <1>8. CASE listed # None /\ plan = proc[listed].hash
    <2>1. PICK k : k = Then("keep")
      OBVIOUS
    <2>2. k \in TaskRecords /\ k.pc = "keep"
      BY <1>6, <1>7, <2>1
    <2>3. PICK x : x = [k EXCEPT !.proc = listed]
      OBVIOUS
    <2>4. x.pc = "keep" /\ x.proc = listed
      BY <2>2, <2>3, Zenon DEF TaskRecords
    <2>5. Continue(t, x) /\ UNCHANGED <<proc, listed, reconciler, pending>>
      BY <1>8, <2>1, <2>3, Zenon DEF Sync
    <2>6. TaskFits(x, record, listed, proc)
      BY <1>8, <2>4 DEF TaskFits
    <2>7. LoneTasks' /\ LoneQueue'
      BY <1>1, <2>4, <2>5, <2>6, LoneStep DEF ReconcilerPoints
    <2> QED
      BY <1>1, <2>5, <2>7, SessionsStay DEF AloneInv
  <1>9. CASE listed # None /\ plan # proc[listed].hash
    <2>1. PICK k : k = Then("halt")
      OBVIOUS
    <2>2. k \in TaskRecords /\ k.pc = "halt"
      BY <1>6, <1>7, <2>1
    <2>3. Stop(t, listed, k) /\ UNCHANGED <<record, reconciler, pending>>
      BY <1>9, <2>1, Zenon DEF Sync
    <2> QED
      BY <1>1, <1>9, <2>2, <2>3, ListedSession, LoneStops
  <1>10. CASE listed = None /\ plan # None
    <2>1. PICK x : x = Then("prepare")
      OBVIOUS
    <2>2. x.pc = "prepare"
      BY <1>6, <1>7, <2>1
    <2>3. Continue(t, x) /\ UNCHANGED <<proc, listed, reconciler, pending>>
      BY <1>10, <2>1, Zenon DEF Sync
    <2>4. TaskFits(x, record, listed, proc)
      BY <1>3, <1>10, <2>2 DEF TaskFits
    <2>5. LoneTasks' /\ LoneQueue'
      BY <1>1, <2>2, <2>3, <2>4, LoneStep DEF ReconcilerPoints
    <2> QED
      BY <1>1, <2>3, <2>5, SessionsStay DEF AloneInv
  <1>11. CASE listed = None /\ plan = None
    <2>1. Finish(t) /\ UNCHANGED <<proc, listed>>
      BY <1>11, Zenon DEF Sync
    <2> QED
      BY <1>1, <2>1, LoneFinish, SessionsStay DEF AloneInv
  <1> QED
    BY <1>8, <1>9, <1>10, <1>11

\* Lemma: what follows on it.
LEMMA LoneHalts ==
    ASSUME HashInv, AloneInv, NEW t \in Tasks, Keep(t) \/ Halt(t) \/ Retry(t)
    PROVE  AloneInv'
  <1>1. task[t] \in TaskRecords
    BY DEF HashInv, TasksOK
  <1>2. TaskFits(task[t], record, listed, proc)
    BY DEF AloneInv, LoneTasks
  <1>3. Idle \in TaskRecords /\ Idle.pc = "idle"
    BY DEF TaskRecords, Idle, NoCopy, Records, LifecycleStates, Points
  <1>4. CASE Keep(t)
    <2>1. task[t].pc = "keep" /\ UNCHANGED record
      BY <1>4, Zenon DEF Keep, At
    <2>2. listed # None /\ task[t].proc = listed
      BY <1>2, <2>1 DEF TaskFits
    <2>3. CASE Finish(t) /\ UNCHANGED <<proc, listed>>
      BY <2>1, <2>3, LoneFinish, SessionsStay DEF AloneInv
    <2>4. CASE /\ Stop(t, task[t].proc, [task[t] EXCEPT !.pc = "halt"])
               /\ UNCHANGED <<reconciler, pending>>
      <3>1. PICK k : k = [task[t] EXCEPT !.pc = "halt"]
        OBVIOUS
      <3>2. "halt" \in Points
        BY DEF Points
      <3>3. k \in TaskRecords /\ k.pc = "halt"
        BY <1>1, <3>1, <3>2, Zenon DEF TaskRecords
      <3>4. Stop(t, listed, k)
        BY <2>2, <2>4, <3>1, Zenon
      <3> QED
        BY <2>1, <2>2, <2>4, <3>3, <3>4, ListedSession, LoneStops
    <2> QED
      BY <1>4, <2>3, <2>4, Zenon DEF Keep
  <1>5. CASE Halt(t)
    <2>1. task[t].pc = "halt" /\ UNCHANGED <<record, proc, listed>>
      BY <1>5, Zenon DEF Halt, At
    <2>2. listed = None /\ record.state # "failed"
      BY <1>2, <2>1 DEF TaskFits
    <2>3. CASE Finish(t)
      BY <2>1, <2>3, LoneFinish, SessionsStay DEF AloneInv
    <2>4. CASE ~Finish(t)
      <3> DEFINE to == IF task[t].action = "retry" THEN "read" ELSE "prepare"
      <3>1. PICK x : x = [Idle EXCEPT !.pc = to, !.plan = task[t].plan]
        OBVIOUS
      <3>2. x.pc = to
        <4> HIDE DEF to
        <4> QED
          BY <1>3, <3>1, Zenon DEF TaskRecords
      <3>3. Continue(t, x) /\ UNCHANGED <<reconciler, pending>>
        BY <1>5, <2>4, <3>1, Zenon DEF Halt
      <3>4. TaskFits(x, record, listed, proc)
        BY <2>2, <3>2 DEF TaskFits
      <3>5. LoneTasks' /\ LoneQueue'
        BY <2>1, <3>2, <3>3, <3>4, LoneStep DEF ReconcilerPoints
      <3> QED
        BY <2>1, <3>5, SessionsStay DEF AloneInv
    <2> QED
      BY <2>3, <2>4
  <1>6. CASE Retry(t)
    <2>1. task[t].pc = "retry" /\ UNCHANGED <<record, reconciler, pending>>
      BY <1>6, Zenon DEF Retry, At
    <2>2. CASE listed # None
      <3>1. PICK k : k = [Idle EXCEPT !.pc = "halt", !.action = "retry"]
        OBVIOUS
      <3>2. "halt" \in Points /\ "retry" \in Actions
        BY DEF Points, Actions
      <3>3. k \in TaskRecords /\ k.pc = "halt"
        BY <1>3, <3>1, <3>2, Zenon DEF TaskRecords
      <3>4. Stop(t, listed, k)
        BY <1>6, <2>2, <3>1, Zenon DEF Retry
      <3> QED
        BY <2>1, <2>2, <3>3, <3>4, ListedSession, LoneStops
    <2>3. CASE listed = None
      <3>1. PICK x : x = [Idle EXCEPT !.pc = "read"]
        OBVIOUS
      <3>2. x.pc = "read"
        BY <3>1, Zenon DEF Idle
      <3>3. Continue(t, x) /\ UNCHANGED <<proc, listed>>
        BY <1>6, <2>3, <3>1, Zenon DEF Retry
      <3>4. LoneTasks' /\ LoneQueue'
        BY <2>1, <3>2, <3>3, FreePoints, LoneStep DEF ReconcilerPoints
      <3> QED
        BY <2>1, <3>3, <3>4, SessionsStay DEF AloneInv
    <2> QED
      BY <2>2, <2>3
  <1> QED
    BY <1>4, <1>5, <1>6

\* Lemma: a sidecar is started when none is listed.
LEMMA LoneSpawn ==
    ASSUME HashInv, AloneInv, NEW t \in Tasks, Spawn(t)
    PROVE  AloneInv'
  <1>1. task[t].pc = "prepare" /\ UNCHANGED <<record, reconciler, pending>>
    BY Zenon DEF Spawn, At
  <1>2. TaskFits(task[t], record, listed, proc) /\ proc \in [Procs -> Sessions]
    BY DEF AloneInv, LoneTasks, HashInv, SessionsOK
  <1>3. listed = None /\ record.state # "failed"
    BY <1>1, <1>2 DEF TaskFits
  <1>4. PICK p \in Procs :
           /\ proc' = [proc EXCEPT ![p] = [Unused EXCEPT !.life = "alive", !.hash = task[t].plan]]
           /\ listed' = p
           /\ Continue(t, [Idle EXCEPT !.pc = "await", !.proc = p])
    BY Zenon DEF Spawn
  <1>5. PICK s : s = [Unused EXCEPT !.life = "alive", !.hash = task[t].plan]
    OBVIOUS
  <1>6. s.life = "alive" /\ s.ready = FALSE /\ s.stopping = FALSE /\ s.crons = FALSE
    BY <1>5, Zenon DEF Unused
  <1>7. PICK x : x = [Idle EXCEPT !.pc = "await", !.proc = p]
    OBVIOUS
  <1>8. x.pc = "await" /\ x.proc = p
    BY <1>7, Zenon DEF Idle
  <1>9. proc' = [proc EXCEPT ![p] = s] /\ Continue(t, x)
    BY <1>4, <1>5, <1>7, Zenon
  <1>10. p # None /\ proc'[p] = s
    BY <1>2, <1>9, RuntimeAssumption
  <1>11. ASSUME NEW q \in Procs PROVE SessionFits(q, proc'[q], p)
    <2>1. CASE q = p
      BY <1>6, <1>10, <2>1 DEF SessionFits
    <2>2. CASE q # p
      <3>1. proc'[q] = proc[q] /\ SessionFits(q, proc[q], None)
        BY <1>2, <1>3, <1>9, <2>2 DEF AloneInv, LoneSessions
      <3> QED
        BY <2>2, <3>1, RuntimeAssumption DEF SessionFits
    <2> QED
      BY <2>1, <2>2
  <1>12. TaskFits(x, record', listed', proc')
    BY <1>1, <1>3, <1>4, <1>6, <1>8, <1>10 DEF TaskFits
  <1>13. LoneTasks' /\ LoneQueue'
    BY <1>1, <1>8, <1>9, <1>12, LoneStep DEF ReconcilerPoints
  <1> QED
    BY <1>1, <1>3, <1>4, <1>11, <1>13 DEF AloneInv, LoneSessions

\* Lemma: the sidecar that a task waits for is the listed one.
LEMMA AwaitedSession ==
    ASSUME HashInv, AloneInv, NEW t \in Tasks, task[t].pc = "await"
    PROVE  /\ listed \in Procs /\ task[t].proc = listed /\ record.state # "failed"
           /\ proc[listed] \in Sessions /\ SessionFits(listed, proc[listed], listed)
           /\ ~proc[listed].ready /\ ~proc[listed].stopping /\ ~proc[listed].crons
           /\ proc[listed].life \in {"alive", "dead"}
  <1>1. TaskFits(task[t], record, listed, proc)
    BY DEF AloneInv, LoneTasks
  <1>2. listed # None /\ task[t].proc = listed /\ ~proc[listed].ready /\ record.state # "failed"
    BY <1>1 DEF TaskFits
  <1>3. listed \in Procs /\ proc[listed] \in Sessions
    BY <1>2, ListedSession
  <1>4. SessionFits(listed, proc[listed], listed)
    BY <1>3 DEF AloneInv, LoneSessions
  <1> QED
    BY <1>2, <1>3, <1>4 DEF SessionFits, Sessions

\* Lemma: a start that is given up leaves nothing listed.
LEMMA LoneGivesUp ==
    ASSUME HashInv, AloneInv, NEW t \in Tasks, task[t].pc = "await", NEW s,
           GiveUp(t, listed, s), SessionFits(listed, s, None),
           UNCHANGED <<record, reconciler, pending>>
    PROVE  AloneInv'
  <1>1. proc' = [proc EXCEPT ![listed] = s] /\ listed' = None /\ listed \in Procs
    BY AwaitedSession DEF GiveUp
  <1>2. PICK x : x = [Idle EXCEPT !.pc = "fail"]
    OBVIOUS
  <1>3. x.pc = "fail"
    BY <1>2, Zenon DEF Idle
  <1>4. Continue(t, x)
    BY <1>2, Zenon DEF GiveUp
  <1>5. TaskFits(x, record', listed', proc')
    BY <1>1, <1>3 DEF TaskFits
  <1>6. LoneTasks' /\ LoneQueue'
    BY <1>3, <1>4, <1>5, LoneStep DEF ReconcilerPoints
  <1>7. LoneSessions'
    BY <1>1, LoneEnds
  <1> QED
    BY <1>6, <1>7 DEF AloneInv

\* Lemma: a start that succeeds or fails.
LEMMA LoneStarts ==
    ASSUME HashInv, AloneInv, NEW t \in Tasks,
           PrepareFails(t) \/ Ready(t) \/ StartFails(t)
    PROVE  AloneInv'
  <1>1. proc \in [Procs -> Sessions]
    BY DEF HashInv, SessionsOK
  <1>2. CASE PrepareFails(t)
    <2>1. PICK x : x = [Idle EXCEPT !.pc = "fail"]
      OBVIOUS
    <2>2. x.pc = "fail"
      BY <2>1, Zenon DEF Idle
    <2>3. task[t].pc = "prepare" /\ Continue(t, x)
          /\ UNCHANGED <<record, proc, listed, reconciler, pending>>
      BY <1>2, <2>1, Zenon DEF PrepareFails, At
    <2>4. TaskFits(task[t], record, listed, proc)
      BY DEF AloneInv, LoneTasks
    <2>5. TaskFits(x, record, listed, proc)
      BY <2>2, <2>3, <2>4 DEF TaskFits
    <2>6. LoneTasks' /\ LoneQueue'
      BY <2>2, <2>3, <2>5, LoneStep DEF ReconcilerPoints
    <2> QED
      BY <2>3, <2>6, SessionsStay DEF AloneInv
  <1>3. CASE Ready(t)
    <2>1. task[t].pc = "await" /\ UNCHANGED <<record, listed, reconciler, pending>>
      BY <1>3, Zenon DEF Ready, At
    <2>2. PICK p \in Procs : p = listed
      BY <2>1, AwaitedSession
    <2>3. PICK s : s = [proc[p] EXCEPT !.ready = TRUE, !.crons = TRUE]
      OBVIOUS
    <2>4. proc[p] \in Sessions
      BY <1>1
    <2>5. s.life = proc[p].life /\ s.stopping = proc[p].stopping /\ s.ready = TRUE
          /\ s.crons = TRUE
      BY <2>3, <2>4, Zenon DEF Sessions
    <2>6. task[t].proc = p
      BY <2>1, <2>2, AwaitedSession
    <2>7. proc' = [proc EXCEPT ![p].ready = TRUE, ![p].crons = TRUE]
      BY <1>3, <2>6, Zenon DEF Ready
    <2>8. proc' = [proc EXCEPT ![p] = s]
      BY <1>1, <2>3, <2>4, <2>7, Zenon DEF Sessions
    <2>9. SessionFits(p, s, p)
      BY <2>1, <2>2, <2>5, AwaitedSession DEF SessionFits
    <2>10. ASSUME NEW q \in Procs PROVE SessionFits(q, proc'[q], listed)
      BY <1>1, <2>2, <2>8, <2>9 DEF AloneInv, LoneSessions
    <2>11. PICK x : x = [Idle EXCEPT !.pc = "activate"]
      OBVIOUS
    <2>12. x.pc = "activate"
      BY <2>11, Zenon DEF Idle
    <2>13. Continue(t, x)
      BY <1>3, <2>11, Zenon DEF Ready
    <2>14. TaskFits(x, record', listed', proc')
      BY <2>1, <2>12, AwaitedSession DEF TaskFits
    <2>15. LoneTasks' /\ LoneQueue'
      BY <2>1, <2>12, <2>13, <2>14, LoneStep DEF ReconcilerPoints
    <2> QED
      BY <2>1, <2>10, <2>15, AwaitedSession DEF AloneInv, LoneSessions
  <1>4. CASE StartFails(t)
    <2>1. task[t].pc = "await" /\ UNCHANGED <<record, reconciler, pending>>
      BY <1>4, Zenon DEF StartFails, At
    <2>2. PICK p \in Procs : p = listed
      BY <2>1, AwaitedSession
    <2>3. PICK s : s = [proc[p] EXCEPT !.stopping = TRUE]
      OBVIOUS
    <2>4. proc[p] \in Sessions /\ task[t].proc = p /\ proc[p].life # "free"
      BY <1>1, <2>1, <2>2, AwaitedSession
    <2>5. s.life = proc[p].life /\ s.stopping = TRUE /\ s.ready = proc[p].ready
          /\ s.crons = proc[p].crons
      BY <2>3, <2>4, Zenon DEF Sessions
    <2>6. GiveUp(t, p, s)
      BY <1>4, <2>3, <2>4, Zenon DEF StartFails
    <2>7. /\ proc[p].life \in {"alive", "dead"} /\ ~proc[p].ready /\ ~proc[p].crons
          /\ proc[p].crons \in BOOLEAN /\ proc[p].ready \in BOOLEAN
      BY <2>1, <2>2, <2>4, AwaitedSession DEF Sessions
    <2>8. SessionFits(p, s, None)
      BY <2>5, <2>7, RuntimeAssumption DEF SessionFits
    <2> QED
      BY <2>1, <2>2, <2>6, <2>8, LoneGivesUp
  <1> QED
    BY <1>2, <1>3, <1>4

\* Lemma: a process ends, and its exit is noticed.
LEMMA LoneProcess ==
    ASSUME HashInv, AloneInv, ~overlapped', NEW p \in Procs, ProcessStep(p)
    PROVE  AloneInv'
  <1>1. proc \in [Procs -> Sessions] /\ proc[p] \in Sessions /\ task \in [Tasks -> TaskRecords]
    BY DEF HashInv, SessionsOK, TasksOK
  <1>2. SessionFits(p, proc[p], listed)
    BY DEF AloneInv, LoneSessions
  <1>3. CASE ProcessExits(p)
    <2>1. PICK s : s = [proc[p] EXCEPT !.life = "dead"]
      OBVIOUS
    <2>2. s.life = "dead" /\ s.stopping = proc[p].stopping /\ s.ready = proc[p].ready
          /\ s.crons = proc[p].crons
      BY <1>1, <2>1, Zenon DEF Sessions
    <2>3. proc[p].life = "alive" /\ proc' = [proc EXCEPT ![p].life = "dead"]
          /\ UNCHANGED <<record, listed, task, reconciler, pending>>
      BY <1>3, Zenon DEF ProcessExits, Running
    <2>4. proc' = [proc EXCEPT ![p] = s]
      BY <1>1, <2>1, <2>3, Zenon DEF Sessions
    <2>5. SessionFits(p, s, listed)
      BY <1>2, <2>2, <2>3 DEF SessionFits
    <2>6. LoneSessions'
      BY <1>1, <2>3, <2>4, <2>5 DEF AloneInv, LoneSessions
    <2>7. ASSUME NEW t \in Tasks PROVE TaskFits(task[t], record, listed, proc')
      <3>1. TaskFits(task[t], record, listed, proc)
        BY DEF AloneInv, LoneTasks
      <3>2. listed \in Procs \/ listed = None
        BY DEF HashInv, PlaceOK
      <3>3. listed \in Procs => proc'[listed].ready = proc[listed].ready
        BY <1>1, <2>2, <2>4
      <3> QED
        BY <3>1, <3>2, <3>3 DEF TaskFits
    <2> QED
      BY <2>3, <2>6, <2>7 DEF AloneInv, LoneTasks, LoneQueue
  <1>4. CASE StoppedExits(p)
    <2>1. proc[p].life = "dead" /\ proc[p].stopping /\ Unlist(p)
          /\ UNCHANGED <<record, task, reconciler, pending>>
      BY <1>4, Zenon DEF StoppedExits
    <2>2. listed # p /\ ~proc[p].crons
      BY <1>2, <2>1 DEF SessionFits
    <2>3. proc' = [proc EXCEPT ![p] = Unused] /\ listed' = listed
      BY <2>1, <2>2, Zenon DEF Unlist
    <2>4. SessionFits(p, Unused, listed)
      BY <2>2, UnusedFits, Zenon DEF SessionFits, Unused
    <2>5. LoneSessions'
      BY <1>1, <2>1, <2>3, <2>4 DEF AloneInv, LoneSessions
    <2>6. ASSUME NEW t \in Tasks PROVE TaskFits(task[t], record, listed, proc')
      <3>1. TaskFits(task[t], record, listed, proc)
        BY DEF AloneInv, LoneTasks
      <3>2. listed \in Procs \/ listed = None
        BY DEF HashInv, PlaceOK
      <3>3. listed \in Procs => proc'[listed].ready = proc[listed].ready
        BY <1>1, <2>2, <2>3
      <3> QED
        BY <3>1, <3>2, <3>3 DEF TaskFits
    <2> QED
      BY <2>1, <2>3, <2>5, <2>6 DEF AloneInv, LoneTasks, LoneQueue
  <1>5. CASE StartingExits(p)
    <2>1. PICK t \in Tasks : task[t].pc = "await" /\ task[t].proc = p /\ GiveUp(t, p, Unused)
      BY <1>5, Zenon DEF StartingExits, At
    <2>2. p = listed
      BY <2>1, AwaitedSession
    <2>3. UNCHANGED <<record, reconciler, pending>>
      BY <1>5, Zenon DEF StartingExits
    <2> QED
      BY <2>1, <2>2, <2>3, UnusedFits, LoneGivesUp
  <1>6. CASE Crashes(p)
    <2>1. proc[p].life = "dead" /\ ~proc[p].stopping /\ Unlist(p)
          /\ UNCHANGED <<record, reconciler, pending>>
      BY <1>6, Zenon DEF Crashes
    <2>2. p = listed
      BY <1>2, <2>1 DEF SessionFits
    <2>3. proc' = [proc EXCEPT ![p] = Unused] /\ listed' = None
      BY <2>1, <2>2, Zenon DEF Unlist
    <2>4. LoneSessions'
      BY <2>1, <2>2, <2>3, UnusedFits, LoneEnds
    <2>5. record.state # "failed"
      BY <2>2, RuntimeAssumption DEF AloneInv, LoneSessions
    <2>a. PICK t \in Tasks :
             \/ Begin(t, [Idle EXCEPT !.pc = "fail"])
             \/ Begin(t, [Idle EXCEPT !.pc = "prepare", !.plan = proc[p].hash])
      BY <1>6, Zenon DEF Crashes
    <2>6. PICK x :
             /\ Begin(t, x)
             /\ \/ x = [Idle EXCEPT !.pc = "fail"]
                \/ x = [Idle EXCEPT !.pc = "prepare", !.plan = proc[p].hash]
      BY <2>a, Zenon
    <2>7. x.pc = "fail" \/ x.pc = "prepare"
      <3>1. /\ [Idle EXCEPT !.pc = "fail"].pc = "fail"
            /\ [Idle EXCEPT !.pc = "prepare", !.plan = proc[p].hash].pc = "prepare"
        BY Zenon DEF Idle
      <3> QED
        BY <2>6, <3>1, Zenon
    <2>8. TaskFits(x, record', listed', proc')
      BY <2>1, <2>3, <2>5, <2>7 DEF TaskFits
    <2>9. LoneTasks' /\ LoneQueue'
      BY <2>1, <2>6, <2>8, LoneBegins
    <2> QED
      BY <2>4, <2>9 DEF AloneInv
  <1> QED
    BY <1>3, <1>4, <1>5, <1>6 DEF ProcessStep

\* Lemma: a new server has one task, and no sidecar.
LEMMA LoneStartup ==
    ASSUME NEW r \in Tasks, task' = Startup(r), reconciler' = r, pending' = NoRequest,
           proc' = [p \in Procs |-> Unused], listed' = None
    PROVE  AloneInv'
  <1>1. PICK x : x = [Idle EXCEPT !.pc = "read"]
    OBVIOUS
  <1>2. x.pc = "read" /\ Idle.pc = "idle"
    BY <1>1, Zenon DEF Idle
  <1>3. task' = [t \in Tasks |-> IF t = r THEN x ELSE Idle]
    BY <1>1, Zenon DEF Startup
  <1>4. LoneTasks'
    BY <1>2, <1>3, FreePoints DEF LoneTasks
  <1>5. LoneQueue'
    BY <1>2, <1>3 DEF LoneQueue, ReconcilerPoints
  <1>6. LoneSessions'
    BY UnusedFits DEF LoneSessions
  <1> QED
    BY <1>4, <1>5, <1>6 DEF AloneInv

\* The initial state satisfies the invariant.
LEMMA LoneInit == Init => LoneInv
  <1> SUFFICES ASSUME Init
               PROVE  AloneInv
    BY DEF LoneInv
  <1>1. PICK x : x = [Idle EXCEPT !.pc = "read"]
    OBVIOUS
  <1>2. x.pc = "read" /\ Idle.pc = "idle"
    BY <1>1, Zenon DEF Idle
  <1>3. /\ task = [t \in Tasks |-> IF t = reconciler THEN x ELSE Idle]
        /\ record = NoCopy /\ pending = NoRequest /\ listed = None
        /\ proc = [p \in Procs |-> Unused] /\ reconciler \in Tasks
    BY <1>1, Zenon DEF Init, Startup
  <1>4. LoneTasks
    BY <1>2, <1>3, FreePoints DEF LoneTasks
  <1>5. LoneQueue
    BY <1>2, <1>3 DEF LoneQueue, ReconcilerPoints
  <1>6. LoneSessions
    BY <1>3, UnusedFits DEF LoneSessions
  <1> QED
    BY <1>4, <1>5, <1>6 DEF AloneInv

\* Lemma: the history forgets an overlap only with the server.
LEMMA OverlapStays ==
    ASSUME HashInv, [Next]_vars, ~overlapped'
    PROVE  ~overlapped \/ HostRestarts
  <1>1. ASSUME NEW t \in Tasks, TaskStep(t) \/ OperatorStep(t)
        PROVE  ~overlapped
    BY <1>1, Zenon DEF TaskStep, OperatorStep, historyVars, Begin,
       Act, Refresh, RequestFresh, WriteOther, Look, Request, Acted, Retry, WroteOther,
       ReadRecord, Sync, Keep, Halt, Spawn, PrepareFails, Ready, StartFails, Activated, Failed
  <1>2. ASSUME NEW p \in Procs, ProcessStep(p)
        PROVE  ~overlapped
    BY <1>2, Zenon DEF ProcessStep, historyVars, Begin, ProcessExits, StoppedExits,
       StartingExits, Crashes
  <1>3. EditFiles \/ WindowPasses \/ UNCHANGED vars => ~overlapped
    BY Zenon DEF EditFiles, WindowPasses, vars, historyVars
  <1> QED
    BY <1>1, <1>2, <1>3, Zenon DEF Next

\* Every step keeps the invariant of the lone task.
LEMMA LoneInvStep == HashInv /\ LoneInv /\ [Next]_vars => LoneInv'
  <1> SUFFICES ASSUME HashInv, LoneInv, [Next]_vars, ~overlapped'
               PROVE  AloneInv'
    BY DEF LoneInv
  <1>1. CASE HostRestarts
    <2>1. PICK r \in Tasks : r = reconciler'
      BY <1>1, Zenon DEF HostRestarts
    <2> QED
      BY <1>1, <2>1, LoneStartup, Zenon DEF HostRestarts
  <1>2. CASE ~HostRestarts
    <2> AloneInv
      BY <1>2, OverlapStays DEF LoneInv
    <2>1. ASSUME NEW t \in Tasks, TaskStep(t) \/ OperatorStep(t)
          PROVE  AloneInv'
      BY <2>1, LoneRequests, LoneReads, LoneWrites, LoneSync, LoneHalts, LoneSpawn, LoneStarts
         DEF TaskStep
    <2>2. CASE EditFiles \/ WindowPasses \/ UNCHANGED vars
      <3>1. UNCHANGED <<record, proc, listed, task, reconciler, pending>>
        BY <2>2, Zenon DEF EditFiles, WindowPasses, vars
      <3> QED
        BY <3>1 DEF AloneInv, LoneTasks, LoneQueue, LoneSessions
    <2> QED
      BY <1>2, <2>1, <2>2, LoneProcess, Zenon DEF Next
  <1> QED
    BY <1>1, <1>2

-----------------------------------------------------------------------------
\* Theorem: exactly one sidecar runs for an activated plugin, and the schedules
\* are its own, as long as no two tasks of the manager ever overlapped (startPlugin,
\* stopSession and the exit handler keep one entry of the sessions map).
THEOREM OneSidecarWhenAlone == Spec => []OneSidecarAlone
  <1>1. HashInv /\ LoneInv => OneSidecarAlone
    <2> SUFFICES ASSUME HashInv, AloneInv, NEW p \in Procs,
                        (Running(p) /\ ~proc[p].stopping) \/ proc[p].crons
                 PROVE  listed = p
      BY DEF LoneInv, OneSidecarAlone, OneSidecar
    <2> QED
      BY DEF AloneInv, LoneSessions, SessionFits, Running, HashInv, SessionsOK, Sessions
  <1>2. Init => HashInv /\ LoneInv
    BY HashInit, LoneInit
  <1>3. HashInv /\ LoneInv /\ [Next]_vars => (HashInv /\ LoneInv)'
    BY HashStep, LoneInvStep
  <1> QED
    BY <1>1, <1>2, <1>3, PTL DEF Spec

\* Theorem: a plugin whose failure is on record has no sidecar once the tasks are
\* done (recordUnexpectedCrash and the catch block of startPlugin), without overlap.
THEOREM FailedStaysDown == Spec => []FailedIsDown
  <1>1. LoneInv => FailedIsDown
    BY DEF LoneInv, AloneInv, LoneSessions, FailedIsDown
  <1>2. Init => HashInv /\ LoneInv
    BY HashInit, LoneInit
  <1>3. HashInv /\ LoneInv /\ [Next]_vars => (HashInv /\ LoneInv)'
    BY HashStep, LoneInvStep
  <1> QED
    BY <1>1, <1>2, <1>3, PTL DEF Spec

\* Theorem: only the operator takes a failure off the record, never the runtime's own
\* activation (recordPluginRuntimeActivation), without overlap.
THEOREM FailureIsForTheOperator == Spec => FailureSticks
  <1>1. HashInv /\ LoneInv /\ [Next]_vars =>
            (record.state = "failed" /\ record' # record /\ ~overlapped => OperatorWrites)
    <2> SUFFICES ASSUME HashInv, AloneInv, Next, record.state = "failed", record' # record
                 PROVE  OperatorWrites
      BY DEF LoneInv, vars
    <2>1. ASSUME NEW t \in Tasks
          PROVE  TaskFits(task[t], record, listed, proc)
      BY DEF AloneInv, LoneTasks
    <2>2. ASSUME NEW t \in Tasks, TaskStep(t) \/ OperatorStep(t)
          PROVE  OperatorWrites
      <3>1. WroteOther(t) \/ Acted(t) \/ Activated(t) \/ Failed(t)
        BY <2>2, Zenon DEF TaskStep, OperatorStep,
           Act, Refresh, RequestFresh, WriteOther, Look, Request, Retry,
           ReadRecord, Sync, Keep, Halt, Spawn, PrepareFails, Ready, StartFails
      <3>2. ~WroteOther(t)
        <4>1. WroteOther(t) => task[t].pc = "othered" /\ record' = task[t].copy
          BY Zenon DEF WroteOther, At
        <4> QED
          BY <2>1, <4>1 DEF TaskFits
      <3>3. ~Activated(t)
        <4>1. Activated(t) => task[t].pc = "activated"
          BY Zenon DEF Activated, At
        <4> QED
          BY <2>1, <4>1 DEF TaskFits
      <3>4. ~Failed(t)
        <4>1. Failed(t) => task[t].pc = "failed" /\ record' = [task[t].copy EXCEPT !.state = "failed"]
          BY Zenon DEF Failed, At
        <4>2. task[t].pc = "failed" => task[t].copy = record
          BY <2>1 DEF TaskFits
        <4>3. record \in Records
          BY DEF HashInv, RecordOK
        <4>4. [record EXCEPT !.state = "failed"] = record
          BY <4>3, Zenon DEF Records
        <4> QED
          BY <4>1, <4>2, <4>4, Zenon
      <3>5. CASE Acted(t)
        <4>1. PICK x : /\ Continue(t, x)
                       /\ \/ x = [Idle EXCEPT !.pc = "read"]
                          \/ x = [Idle EXCEPT !.pc = "retry"]
                          \/ x = Idle
          BY <3>5, Zenon DEF Acted
        <4>2. /\ [Idle EXCEPT !.pc = "read"].pc = "read"
              /\ [Idle EXCEPT !.pc = "retry"].pc = "retry"
              /\ Idle.pc = "idle"
          BY Zenon DEF Idle
        <4>3. x.pc = "read" \/ x.pc = "retry" \/ x.pc = "idle"
          BY <4>1, <4>2, Zenon
        <4>4. task[t].pc = "acted" /\ At(t, "acted")
          BY <3>5, Zenon DEF Acted, At
        <4>5. task'[t] = x
          BY <4>1 DEF Continue, HashInv, TasksOK
        <4> QED
          BY <4>3, <4>4, <4>5 DEF OperatorWrites
      <3> QED
        BY <3>1, <3>2, <3>3, <3>4, <3>5
    <2>3. ~EditFiles /\ ~WindowPasses /\ ~HostRestarts /\ \A p \in Procs : ~ProcessStep(p)
      BY Zenon DEF EditFiles, WindowPasses, HostRestarts, ProcessStep, ProcessExits,
         StoppedExits, StartingExits, Crashes
    <2> QED
      BY <2>2, <2>3, Zenon DEF Next
  <1>2. Init => HashInv /\ LoneInv
    BY HashInit, LoneInit
  <1>3. HashInv /\ LoneInv /\ [Next]_vars => (HashInv /\ LoneInv)'
    BY HashStep, LoneInvStep
  <1> QED
    BY <1>1, <1>2, <1>3, PTL DEF Spec, FailureSticks
=============================================================================
