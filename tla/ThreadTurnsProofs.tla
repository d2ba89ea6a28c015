------------------------- MODULE ThreadTurnsProofs -------------------------
(***************************************************************************)
(* Theorems about ThreadTurns, for every set of threads, projects and      *)
(* turns.                                                                  *)
(*                                                                         *)
(* The many ways a turn may move come down to two: it advances to its next *)
(* wait, or it settles.  The first section shows that; the invariants are  *)
(* then shown for these two and for the requests.                          *)
(***************************************************************************)
EXTENDS ThreadTurns, TLAPS

-----------------------------------------------------------------------------
(* Steps of a turn *)

InProgressDates == {"none", "older", "current"}

\* The runtime that RuntimeReady may register.
RuntimeStep(u) ==
    \/ UNCHANGED runtime
    \/ runtime' = [runtime EXCEPT ![thread[u]] = u]

\* The turn goes on to another wait; the first time, its runtime is registered.
Advances(u) ==
    /\ Live(u)
    /\ \E p \in LivePoints \ {"starting"} : pc' = [pc EXCEPT ![u] = p]
    /\ IF pc[u] = "starting" /\ session[u] = u
       THEN runtime' = [runtime EXCEPT ![thread[u]] = u]
       ELSE UNCHANGED runtime
    /\ UNCHANGED <<rowVars, up, status, controller, completion, thread, session,
                   aborted, awaited, accessPending>>

\* The turn ends, with the same outcome in the row and in memory.  Only a turn
\* that was not aborted runs to its end, and only a tie of the clock dates what it
\* leaves in progress after its settlement.
Settles(u) ==
    /\ Live(u)
    /\ active' = [active EXCEPT ![thread[u]] = NoTurn]
    /\ \E o \in {"ran", "stopped", "failed"} :
          /\ outcome' = [outcome EXCEPT ![thread[u]] = o]
          /\ status' = [status EXCEPT ![thread[u]] = IF o = "ran" THEN "idle" ELSE o]
          /\ o = "ran" => u \notin aborted /\ Exists(thread[u])
    /\ \E i \in InProgressDates :
          /\ inProgress' = [inProgress EXCEPT ![thread[u]] = i]
          /\ i = "current" => "clock_tie" \in Faults
    /\ controller' = [controller EXCEPT ![thread[u]] = IF @ = u THEN NoTurn ELSE @]
    /\ completion' = [completion EXCEPT ![thread[u]] = NoTurn]
    /\ pc' = [pc EXCEPT ![u] = "done"]
    /\ RuntimeStep(u)
    /\ UNCHANGED <<deleted, up, thread, session, aborted, awaited, accessPending>>

\* A canceled turn settles.
LEMMA CanceledSettles ==
    ASSUME NEW u \in Turns, Live(u), SettleCanceled(u), RuntimeStep(u)
    PROVE  Settles(u)
BY DEF SettleCanceled, Release, Settles, Outcomes, InProgressDates

\* A failed turn settles.
LEMMA FailedSettles ==
    ASSUME NEW u \in Turns, Live(u), SettleFailed(u), RuntimeStep(u)
    PROVE  Settles(u)
BY DEF SettleFailed, SettleEnded, LeftInProgress, Release, Settles, Outcomes,
       InProgressDates

\* A turn that ran settles.
LEMMA RanSettles ==
    ASSUME NEW u \in Turns, Live(u), SettleRan(u), RuntimeStep(u), u \notin aborted
    PROVE  Settles(u)
<1>1. CASE Exists(thread[u])
  BY <1>1 DEF SettleRan, SettleEnded, LeftInProgress, Release, Settles, Outcomes,
              InProgressDates
<1>2. CASE ~Exists(thread[u])
  BY <1>2, FailedSettles DEF SettleRan
<1>3. QED  BY <1>1, <1>2

\* A turn whose run threw settles.
LEMMA ErrorSettles ==
    ASSUME NEW u \in Turns, Live(u), NEW e \in BOOLEAN, SettleError(u, e),
           RuntimeStep(u)
    PROVE  Settles(u)
BY CanceledSettles, FailedSettles DEF SettleError

\* However it ends, a turn settles.
LEMMA ConcludeSettles ==
    ASSUME NEW u \in Turns, Live(u), Conclude(u)
    PROVE  Settles(u)
<1>1. RuntimeStep(u)
  BY DEF Conclude, RuntimeStep
<1>2. QED
  BY <1>1, CanceledSettles, FailedSettles, RanSettles DEF Conclude

\* Whatever a turn does by itself, it advances or settles.
LEMMA TurnStepCases ==
    ASSUME NEW u \in Turns, TurnStep(u)
    PROVE  Advances(u) \/ Settles(u)
<1>1. CASE RuntimeReady(u)
  <2>1. Live(u) /\ RuntimeStep(u)
    BY <1>1 DEF RuntimeReady, Live, LivePoints, RuntimeStep
  <2>2. CASE u \in aborted
    BY <1>1, <2>1, <2>2, CanceledSettles DEF RuntimeReady
  <2>3. CASE u \notin aborted
    BY <1>1, <2>1, <2>3 DEF RuntimeReady, Advances, LivePoints
  <2>4. QED  BY <2>2, <2>3
<1>2. CASE RuntimeFails(u)
  <2>1. Live(u) /\ RuntimeStep(u)
    BY <1>2 DEF RuntimeFails, Live, LivePoints, RuntimeStep
  <2>2. QED
    BY <1>2, <2>1, ErrorSettles DEF RuntimeFails
<1>3. CASE InjectionDone(u)
  BY <1>3 DEF InjectionDone, Advances, Live, LivePoints, RuntimeStep, mapVars
<1>4. CASE InjectionFails(u)
  <2>1. Live(u) /\ RuntimeStep(u)
    BY <1>4 DEF InjectionFails, Live, LivePoints, RuntimeStep
  <2>2. QED
    BY <1>4, <2>1, ErrorSettles DEF InjectionFails
<1>5. CASE PromptEnds(u)
  <2>1. Live(u)
    BY <1>5 DEF PromptEnds, Live, LivePoints
  <2>2. CASE Conclude(u)
    BY <2>1, <2>2, ConcludeSettles
  <2>3. CASE /\ pc' = [pc EXCEPT ![u] = "grace"]
             /\ UNCHANGED <<rowVars, up, mapVars, thread, session, aborted, awaited,
                            accessPending>>
    BY <1>5, <2>1, <2>3 DEF PromptEnds, Advances, LivePoints, mapVars
  <2>4. ASSUME NEW e \in BOOLEAN, SettleError(u, e), UNCHANGED runtime
        PROVE  Settles(u)
    <3>1. RuntimeStep(u)
      BY <2>4 DEF RuntimeStep
    <3>2. QED
      BY <2>1, <2>4, <3>1, ErrorSettles
  <2>5. QED  BY <1>5, <2>2, <2>3, <2>4 DEF PromptEnds
<1>6. CASE GraceEnds(u)
  BY <1>6, ConcludeSettles DEF GraceEnds, Live, LivePoints
<1>7. QED
  BY <1>1, <1>2, <1>3, <1>4, <1>5, <1>6 DEF TurnStep

-----------------------------------------------------------------------------
(* Types *)

\* The initial state is well typed.
LEMMA TypeInit == Init => TypeOK
BY DEF Init, TypeOK, Outcomes

\* A launch keeps the types.
LEMMA LaunchTyped ==
    ASSUME TypeOK, NEW u \in Turns, Launch(u)
    PROVE  /\ active' \in [Threads -> Turns \cup {NoTurn}]
           /\ controller' \in [Threads -> Turns \cup {NoTurn}]
           /\ completion' \in [Threads -> Turns \cup {NoTurn}]
           /\ status' \in [Threads -> {"none", "working", "idle", "stopped", "failed"}]
           /\ pc' \in [Turns -> {"unsent", "retrying", "done"} \cup LivePoints]
           /\ session' \in [Turns -> Turns \cup {NoTurn}]
           /\ UNCHANGED <<deleted, outcome, inProgress, runtime, thread, aborted, awaited>>
<1> DEFINE t == thread[u]
<1>1. t \in Threads
  BY DEF TypeOK
<1>2. CASE Exists(t)
  BY <1>1, <1>2 DEF Launch, TypeOK, LivePoints
<1>3. CASE ~Exists(t)
  BY <1>1, <1>3 DEF Launch, TypeOK, LivePoints
<1>4. QED  BY <1>2, <1>3

\* Every step keeps the types.
LEMMA TypeStep == TypeOK /\ [Next]_vars => TypeOK'
<1> SUFFICES ASSUME TypeOK, [Next]_vars
             PROVE  TypeOK'
  OBVIOUS
<1>1. ASSUME NEW u \in Turns, Send(u) PROVE TypeOK'
  <2>1. CASE Launch(u) /\ UNCHANGED <<up, accessPending>>
    BY <2>1, LaunchTyped DEF TypeOK
  <2>2. CASE /\ pc' = [pc EXCEPT ![u] = "retrying"]
             /\ UNCHANGED <<rowVars, up, mapVars, thread, session, aborted, awaited,
                            accessPending>>
    BY <2>2 DEF TypeOK, rowVars, mapVars
  <2>3. QED  BY <1>1, <2>1, <2>2 DEF Send
<1>2. ASSUME NEW u \in Turns, Retry(u) PROVE TypeOK'
  <2>1. CASE Launch(u) /\ UNCHANGED <<up, accessPending>>
    BY <2>1, LaunchTyped DEF TypeOK
  <2>2. CASE /\ pc' = [pc EXCEPT ![u] = "done"]
             /\ UNCHANGED <<rowVars, up, mapVars, thread, session, aborted, awaited,
                            accessPending>>
    BY <2>2 DEF TypeOK, rowVars, mapVars
  <2>3. QED  BY <1>2, <2>1, <2>2 DEF Retry
<1>3. ASSUME NEW u \in Turns, TurnStep(u) PROVE TypeOK'
  <2>1. CASE Advances(u)
    BY <2>1 DEF Advances, RuntimeStep, TypeOK, rowVars
  <2>2. CASE Settles(u)
    BY <2>2 DEF Settles, RuntimeStep, TypeOK, InProgressDates, Outcomes
  <2>3. QED  BY <1>3, <2>1, <2>2, TurnStepCases
<1>4. ASSUME NEW u \in Turns, WriteActivity(u) PROVE TypeOK'
  BY <1>4 DEF WriteActivity, TypeOK, mapVars, turnVars
<1>5. ASSUME NEW t \in Threads, Stop(t) PROVE TypeOK'
  BY <1>5 DEF Stop, TypeOK, Outcomes
<1>6. ASSUME NEW S \in SUBSET Threads, Remove(S) PROVE TypeOK'
  BY <1>6 DEF Remove, TypeOK
<1>7. ASSUME NEW t \in Threads, UpdateModel(t) PROVE TypeOK'
  BY <1>7 DEF UpdateModel, TypeOK, rowVars, turnVars
<1>8. ASSUME NEW t \in Threads, BeginAccessUpdate(t) PROVE TypeOK'
  BY <1>8 DEF BeginAccessUpdate, TypeOK, rowVars, mapVars, turnVars
<1>9. ASSUME NEW t \in Threads, EndAccessUpdate(t) PROVE TypeOK'
  BY <1>9 DEF EndAccessUpdate, TypeOK, rowVars, turnVars
<1>10. CASE AbortAll
  BY <1>10 DEF AbortAll, TypeOK, rowVars, mapVars
<1>11. CASE Crash
  BY <1>11 DEF Crash, TypeOK, rowVars
<1>12. CASE Restart
  BY <1>12 DEF Restart, TypeOK, mapVars, turnVars, Outcomes
<1>13. CASE UNCHANGED vars
  BY <1>13 DEF vars, rowVars, mapVars, turnVars, TypeOK
<1>14. ASSUME NEW t \in Threads, DeleteThread(t) PROVE TypeOK'
  BY <1>6, <1>14 DEF DeleteThread
<1>15. ASSUME NEW p \in Projects, DeleteProject(p) PROVE TypeOK'
  BY <1>6, <1>15 DEF DeleteProject, ThreadsOf
<1>16. QED
  BY <1>1, <1>2, <1>3, <1>4, <1>5, <1>7, <1>8, <1>9, <1>10, <1>11, <1>12, <1>13,
     <1>14, <1>15 DEF Next

\* The variables of the turn machinery keep their types: in particular every
\* entry of the lifecycle maps names a turn, and every status is one that
\* threadRunStatusFromRecord can report.
THEOREM TypeCorrect == Spec => []TypeOK
<1>1. QED  BY TypeInit, TypeStep, PTL DEF Spec

-----------------------------------------------------------------------------
(* The registry of turns, under every fault *)

\* Nothing of a turn outlives the process.
DownIsEmpty ==
    ~up => /\ \A t \in Threads : status[t] = "none" /\ controller[t] = NoTurn
           /\ \A u \in Turns : ~Live(u) /\ pc[u] # "retrying"

\* A registered controller belongs to a turn of its thread that still runs.
ControllerIsLive ==
    \A t \in Threads : Exists(t) /\ controller[t] # NoTurn =>
        Live(controller[t]) /\ thread[controller[t]] = t

\* Memory shows a thread as working only while it has a controller.
WorkingHasController ==
    \A t \in Threads : Exists(t) /\ status[t] = "working" => controller[t] # NoTurn

\* The row shows a turn only while memory shows the same one.
ActiveIsRegistered ==
    \A t \in Threads : up /\ Exists(t) /\ active[t] # NoTurn =>
        status[t] = "working" /\ controller[t] = active[t]

RegistryInv ==
    /\ TypeOK
    /\ DownIsEmpty
    /\ ControllerIsLive
    /\ WorkingHasController
    /\ ActiveIsRegistered

-----------------------------------------------------------------------------
(* One turn at a time, as long as no message waits for the write lock *)

\* The guards of queueMessage and its writes are one step.
NobodyRetries == \A u \in Turns : pc[u] # "retrying"

\* A turn that runs is the registered turn of its thread, and the reverse.
LiveIsRegistered ==
    \A u \in Turns : Live(u) /\ Exists(thread[u]) =>
        completion[thread[u]] = u /\ controller[thread[u]] = u

CompletionIsLive ==
    \A t \in Threads : completion[t] # NoTurn =>
        Exists(t) /\ Live(completion[t]) /\ thread[completion[t]] = t

\* A thread stops being shown as working while its turn runs only through
\* stopTurn, which awaits the turn.
QuietIsAwaited ==
    \A u \in Turns : Live(u) /\ Exists(thread[u]) /\ status[thread[u]] # "working"
        => u \in awaited

TurnInv ==
    /\ RegistryInv
    /\ NobodyRetries
    /\ LiveIsRegistered
    /\ CompletionIsLive
    /\ QuietIsAwaited
    /\ SingleTurn
    /\ RunningTurnIsShown
    /\ OrphansAreAwaited

-----------------------------------------------------------------------------
(* RegistryInv is inductive *)

\* The initial state satisfies the invariant of the maps.
LEMMA RegistryInit == Init => RegistryInv
BY TypeInit DEF Init, RegistryInv, DownIsEmpty, ControllerIsLive,
   WorkingHasController, ActiveIsRegistered

\* The launch of a turn is the only step that gives a thread a turn.
LEMMA RegistryLaunch ==
    ASSUME RegistryInv, NEW u \in Turns, Launch(u), UNCHANGED up, up,
           pc[u] \in {"unsent", "retrying"}
    PROVE  /\ DownIsEmpty'
           /\ ControllerIsLive'
           /\ WorkingHasController'
           /\ ActiveIsRegistered'
<1> DEFINE t == thread[u]
<1>1. t \in Threads
  BY DEF RegistryInv, TypeOK
<1>2. ~Live(u)
  BY DEF Live, LivePoints
<1>3. \A v \in Turns : v # u => (Live(v)' <=> Live(v))
  <2>1. CASE Exists(t)
    BY <2>1 DEF Launch, Live, RegistryInv, TypeOK
  <2>2. CASE ~Exists(t)
    BY <2>2 DEF Launch, Live, RegistryInv, TypeOK
  <2>3. QED  BY <2>1, <2>2
<1>4. Exists(t) => Live(u)'
  BY DEF Launch, Live, LivePoints, RegistryInv, TypeOK
<1>5. /\ active' = [active EXCEPT ![t] = u]
      /\ controller' = [controller EXCEPT ![t] = u]
      /\ status' = [status EXCEPT ![t] = "working"]
      /\ UNCHANGED <<deleted, thread>>
  BY DEF Launch
<1>6. DownIsEmpty'
  BY DEF DownIsEmpty
<1>7. ControllerIsLive'
  <2> SUFFICES ASSUME NEW s \in Threads, Exists(s), controller'[s] # NoTurn
               PROVE  (Live(controller[s]) /\ thread[controller[s]] = s)'
    BY <1>5 DEF ControllerIsLive, Exists
  <2>1. CASE s = t
    BY <1>1, <1>4, <1>5, <2>1 DEF RegistryInv, TypeOK
  <2>2. CASE s # t
    <3>1. controller'[s] = controller[s]
      BY <1>5, <2>2
    <3>2. /\ controller[s] \in Turns
          /\ Live(controller[s])
          /\ thread[controller[s]] = s
      BY <3>1 DEF RegistryInv, TypeOK, ControllerIsLive
    <3>3. QED  BY <1>2, <1>3, <1>5, <3>1, <3>2 DEF Live
  <2>3. QED  BY <2>1, <2>2
<1>8. WorkingHasController'
  BY <1>1, <1>5, ConstantsAssumption
     DEF RegistryInv, TypeOK, WorkingHasController, Exists
<1>9. ActiveIsRegistered'
  BY <1>1, <1>5 DEF RegistryInv, TypeOK, ActiveIsRegistered, Exists
<1>10. QED  BY <1>6, <1>7, <1>8, <1>9

\* A settlement keeps what the maps say of other turns.
LEMMA RegistrySettles ==
    ASSUME RegistryInv, NEW u \in Turns, Settles(u)
    PROVE  /\ DownIsEmpty'
           /\ ControllerIsLive'
           /\ WorkingHasController'
           /\ ActiveIsRegistered'
<1> DEFINE t == thread[u]
<1>1. t \in Threads /\ up
  BY DEF RegistryInv, TypeOK, DownIsEmpty, Settles
<1>2. PICK s \in {"idle", "stopped", "failed"} : status' = [status EXCEPT ![t] = s]
  BY DEF Settles
<1>3. /\ active' = [active EXCEPT ![t] = NoTurn]
      /\ controller' = [controller EXCEPT ![t] = IF @ = u THEN NoTurn ELSE @]
      /\ pc' = [pc EXCEPT ![u] = "done"]
      /\ UNCHANGED <<deleted, up, thread>>
  BY DEF Settles
<1>4. \A v \in Turns : v # u => (Live(v)' <=> Live(v))
  BY <1>3 DEF Live, RegistryInv, TypeOK
<1>5. DownIsEmpty'
  BY <1>1, <1>3 DEF DownIsEmpty
<1>6. ControllerIsLive'
  <2> SUFFICES ASSUME NEW r \in Threads, Exists(r), controller'[r] # NoTurn
               PROVE  (Live(controller[r]) /\ thread[controller[r]] = r)'
    BY <1>3 DEF ControllerIsLive, Exists
  <2>1. controller'[r] = controller[r] /\ controller[r] # NoTurn
    BY <1>1, <1>3 DEF RegistryInv, TypeOK
  <2>2. /\ controller[r] \in Turns
        /\ Live(controller[r])
        /\ thread[controller[r]] = r
    BY <2>1 DEF RegistryInv, TypeOK, ControllerIsLive
  <2>3. controller[r] # u
    BY <1>1, <1>3, <2>1, <2>2 DEF RegistryInv, TypeOK
  <2>4. QED  BY <1>3, <1>4, <2>1, <2>2, <2>3 DEF Live
<1>7. WorkingHasController'
  BY <1>1, <1>2, <1>3 DEF RegistryInv, TypeOK, WorkingHasController, Exists
<1>8. ActiveIsRegistered'
  BY <1>1, <1>2, <1>3 DEF RegistryInv, TypeOK, ActiveIsRegistered, Exists
<1>9. QED  BY <1>5, <1>6, <1>7, <1>8

\* Every step keeps the invariant of the maps.
LEMMA RegistryStep == RegistryInv /\ [Next]_vars => RegistryInv'
<1> SUFFICES ASSUME RegistryInv, [Next]_vars
             PROVE  /\ DownIsEmpty'
                    /\ ControllerIsLive'
                    /\ WorkingHasController'
                    /\ ActiveIsRegistered'
  BY TypeStep DEF RegistryInv
<1> DEFINE Preserved ==
        /\ DownIsEmpty'
        /\ ControllerIsLive'
        /\ WorkingHasController'
        /\ ActiveIsRegistered'
\* Steps that touch neither the registry nor the liveness of a turn.
<1>1. ASSUME /\ \A u \in Turns : Live(u)' <=> Live(u)
             /\ \A u \in Turns : pc'[u] = "retrying" => pc[u] = "retrying" \/ up
             /\ UNCHANGED <<deleted, active, up, status, controller, thread>>
      PROVE  Preserved
  <2>1. DownIsEmpty'
    BY <1>1 DEF RegistryInv, DownIsEmpty
  <2>2. ControllerIsLive'
    BY <1>1 DEF RegistryInv, TypeOK, ControllerIsLive, Live, Exists
  <2>3. WorkingHasController' /\ ActiveIsRegistered'
    BY <1>1 DEF RegistryInv, WorkingHasController, ActiveIsRegistered, Exists
  <2>4. QED  BY <2>1, <2>2, <2>3
<1>2. ASSUME NEW u \in Turns, Send(u) PROVE Preserved
  <2>1. CASE Launch(u)
    BY <1>2, <2>1, RegistryLaunch DEF Send
  <2>2. CASE /\ pc' = [pc EXCEPT ![u] = "retrying"]
             /\ UNCHANGED <<rowVars, mapVars, thread, session, aborted, awaited>>
    <3>1. \A v \in Turns : Live(v)' <=> Live(v)
      BY <1>2, <2>2 DEF Send, Live, LivePoints, RegistryInv, TypeOK
    <3>2. QED  BY <1>1, <1>2, <2>2, <3>1 DEF Send, rowVars, mapVars
  <2>3. QED  BY <1>2, <2>1, <2>2 DEF Send
<1>3. ASSUME NEW u \in Turns, Retry(u) PROVE Preserved
  <2>1. up
    BY <1>3 DEF Retry, RegistryInv, TypeOK, DownIsEmpty
  <2>2. CASE Launch(u)
    BY <1>3, <2>1, <2>2, RegistryLaunch DEF Retry
  <2>3. CASE /\ pc' = [pc EXCEPT ![u] = "done"]
             /\ UNCHANGED <<rowVars, mapVars, thread, session, aborted, awaited>>
    <3>1. \A v \in Turns : Live(v)' <=> Live(v)
      BY <1>3, <2>3 DEF Retry, Live, LivePoints, RegistryInv, TypeOK
    <3>2. QED  BY <1>1, <1>3, <2>1, <2>3, <3>1 DEF Retry, rowVars, mapVars
  <2>4. QED  BY <1>3, <2>2, <2>3 DEF Retry
<1>4. ASSUME NEW u \in Turns, TurnStep(u) PROVE Preserved
  <2>1. CASE Advances(u)
    <3>1. \A v \in Turns : Live(v)' <=> Live(v)
      BY <2>1 DEF Advances, Live, RegistryInv, TypeOK
    <3>2. up
      BY <2>1 DEF Advances, RegistryInv, TypeOK, DownIsEmpty
    <3>3. QED  BY <1>1, <2>1, <3>1, <3>2 DEF Advances, rowVars
  <2>2. CASE Settles(u)
    BY <2>2, RegistrySettles
  <2>3. QED  BY <1>4, <2>1, <2>2, TurnStepCases
<1>5. ASSUME NEW u \in Turns, WriteActivity(u) PROVE Preserved
  BY <1>1, <1>5 DEF WriteActivity, mapVars, turnVars, Live
<1>6. ASSUME NEW t \in Threads, Stop(t) PROVE Preserved
  BY <1>6 DEF Stop, RegistryInv, TypeOK, DownIsEmpty, ControllerIsLive,
              WorkingHasController, ActiveIsRegistered, Live, Exists
<1>7. ASSUME NEW S \in SUBSET Threads, Remove(S), up PROVE Preserved
  BY <1>7 DEF Remove, RegistryInv, TypeOK, DownIsEmpty, ControllerIsLive,
              WorkingHasController, ActiveIsRegistered, Live, Exists
<1>8. ASSUME NEW t \in Threads, DeleteThread(t) PROVE Preserved
  BY <1>7, <1>8 DEF DeleteThread
<1>9. ASSUME NEW p \in Projects, DeleteProject(p) PROVE Preserved
  BY <1>7, <1>9 DEF DeleteProject, ThreadsOf
<1>10. ASSUME NEW t \in Threads,
              UpdateModel(t) \/ BeginAccessUpdate(t) \/ EndAccessUpdate(t)
       PROVE Preserved
  BY <1>1, <1>10 DEF UpdateModel, BeginAccessUpdate, EndAccessUpdate, rowVars,
                     mapVars, turnVars, Live
<1>11. CASE AbortAll
  BY <1>1, <1>11 DEF AbortAll, rowVars, mapVars, Live
<1>12. CASE Crash
  BY <1>12 DEF Crash, RegistryInv, TypeOK, DownIsEmpty, ControllerIsLive,
               WorkingHasController, ActiveIsRegistered, Live, LivePoints, rowVars
<1>13. CASE Restart
  BY <1>13 DEF Restart, RegistryInv, TypeOK, DownIsEmpty, ControllerIsLive,
               WorkingHasController, ActiveIsRegistered, Live, Exists, mapVars,
               turnVars, ShouldRecover
<1>14. CASE UNCHANGED vars
  BY <1>1, <1>14 DEF vars, rowVars, mapVars, turnVars, Live
<1>15. QED
  BY <1>2, <1>3, <1>4, <1>5, <1>6, <1>8, <1>9, <1>10, <1>11, <1>12, <1>13, <1>14
     DEF Next

\* What controller, completion and active name is a live turn of that thread,
\* whatever fails: the maps of ThreadRuntimeLifecycle never point to a ghost.
THEOREM RegistryCorrect == Spec => []RegistryInv
BY RegistryInit, RegistryStep, PTL DEF Spec

\* A thread that is shown as working can be stopped, whatever was retried,
\* deleted, updated or restarted before: stopTurn's "no active run was found"
\* is never raised on a thread that exists.
THEOREM WorkingThreadsCanBeStopped == Spec => []StopIsAvailable
<1>1. RegistryInv => StopIsAvailable
  BY DEF RegistryInv, StopIsAvailable, IsWorking, ControllerIsLive,
         WorkingHasController, ActiveIsRegistered, TypeOK
<1>2. QED  BY <1>1, RegistryCorrect, PTL

\* The row of a thread never claims a turn that does not run, once the process
\* is up: recovery leaves none behind, and no later step creates one.
THEOREM NoGhosts == Spec => []NoGhostTurn
<1>1. RegistryInv => NoGhostTurn
  BY DEF RegistryInv, NoGhostTurn, ControllerIsLive, ActiveIsRegistered, TypeOK
<1>2. QED  BY <1>1, RegistryCorrect, PTL

-----------------------------------------------------------------------------
(* TurnInv is inductive when BEGIN IMMEDIATE never has to wait *)

NoRetries == "sqlite_busy" \notin Faults

\* The initial state satisfies the invariant of the turns.
LEMMA TurnInit == Init => TurnInv
BY RegistryInit DEF Init, TurnInv, NobodyRetries, LiveIsRegistered,
   CompletionIsLive, QuietIsAwaited, SingleTurn, RunningTurnIsShown,
   OrphansAreAwaited, Live, LivePoints

\* The guards of queueMessage leave no live turn on the thread.
LEMMA TurnLaunch ==
    ASSUME TurnInv, NEW u \in Turns, Send(u), Launch(u)
    PROVE  /\ NobodyRetries'
           /\ LiveIsRegistered'
           /\ CompletionIsLive'
           /\ QuietIsAwaited'
           /\ SingleTurn'
           /\ RunningTurnIsShown'
           /\ OrphansAreAwaited'
<1> DEFINE t == thread[u]
<1>1. /\ t \in Threads
      /\ Exists(t)
      /\ completion[t] = NoTurn
  BY DEF Send, TurnInv, RegistryInv, TypeOK
<1>2. \A v \in Turns : Live(v) => thread[v] # t
  BY <1>1, ConstantsAssumption DEF TurnInv, LiveIsRegistered
<1>3. /\ active' = [active EXCEPT ![t] = u]
      /\ controller' = [controller EXCEPT ![t] = u]
      /\ completion' = [completion EXCEPT ![t] = u]
      /\ status' = [status EXCEPT ![t] = "working"]
      /\ pc' = [pc EXCEPT ![u] = "starting"]
      /\ UNCHANGED <<deleted, thread, aborted, awaited>>
  BY <1>1 DEF Launch
<1>4. Live(u)' /\ \A v \in Turns : v # u => (Live(v)' <=> Live(v))
  BY <1>3 DEF Live, LivePoints, TurnInv, RegistryInv, TypeOK
<1>5. \A v \in Turns : v # u /\ Live(v)' => thread[v] # t
  BY <1>2, <1>4
<1>6. NobodyRetries'
  BY <1>3 DEF TurnInv, RegistryInv, TypeOK, NobodyRetries
<1>7. LiveIsRegistered'
  BY <1>1, <1>3, <1>4, <1>5
     DEF TurnInv, RegistryInv, TypeOK, LiveIsRegistered, Exists
<1>8. CompletionIsLive'
  <2> SUFFICES ASSUME NEW s \in Threads, completion'[s] # NoTurn
               PROVE  (/\ Exists(s) /\ Live(completion[s])
                       /\ thread[completion[s]] = s)'
    BY DEF CompletionIsLive
  <2>1. CASE s = t
    BY <1>1, <1>3, <1>4, <2>1 DEF TurnInv, RegistryInv, TypeOK, Exists, Live
  <2>2. CASE s # t
    <3>1. completion'[s] = completion[s]
      BY <1>3, <2>2
    <3>2. /\ completion[s] \in Turns /\ Exists(s) /\ Live(completion[s])
          /\ thread[completion[s]] = s
      BY <3>1 DEF TurnInv, RegistryInv, TypeOK, CompletionIsLive
    <3>3. QED  BY <1>3, <1>4, <2>2, <3>1, <3>2 DEF Exists, Live
  <2>3. QED  BY <2>1, <2>2
<1>9. QuietIsAwaited'
  BY <1>1, <1>3, <1>4, <1>5
     DEF TurnInv, RegistryInv, TypeOK, QuietIsAwaited, Exists
<1>10. SingleTurn'
  BY <1>3, <1>4, <1>5 DEF TurnInv, SingleTurn
<1>11. RunningTurnIsShown'
  BY <1>1, <1>3, <1>4, <1>5
     DEF TurnInv, RegistryInv, TypeOK, RunningTurnIsShown, Exists
<1>12. OrphansAreAwaited'
  BY <1>1, <1>3, <1>4, <1>5 DEF TurnInv, OrphansAreAwaited, Exists
<1>13. QED  BY <1>6, <1>7, <1>8, <1>9, <1>10, <1>11, <1>12

\* A settlement keeps the parts of the invariant of the turns.
LEMMA TurnSettles ==
    ASSUME TurnInv, NEW u \in Turns, Settles(u)
    PROVE  /\ NobodyRetries'
           /\ LiveIsRegistered'
           /\ CompletionIsLive'
           /\ QuietIsAwaited'
           /\ SingleTurn'
           /\ RunningTurnIsShown'
           /\ OrphansAreAwaited'
<1> DEFINE t == thread[u]
<1>1. t \in Threads
  BY DEF TurnInv, RegistryInv, TypeOK
\* The turn was the only one of its thread.
<1>2. \A v \in Turns : v # u /\ Live(v) => thread[v] # t
  BY DEF TurnInv, SingleTurn, Settles
<1>3. /\ active' = [active EXCEPT ![t] = NoTurn]
      /\ controller' = [controller EXCEPT ![t] = IF @ = u THEN NoTurn ELSE @]
      /\ completion' = [completion EXCEPT ![t] = NoTurn]
      /\ \E s \in {"idle", "stopped", "failed"} : status' = [status EXCEPT ![t] = s]
      /\ pc' = [pc EXCEPT ![u] = "done"]
      /\ UNCHANGED <<deleted, thread, aborted, awaited>>
  BY DEF Settles
<1>4. ~Live(u)' /\ \A v \in Turns : v # u => (Live(v)' <=> Live(v))
  BY <1>3 DEF Live, LivePoints, TurnInv, RegistryInv, TypeOK
\* So the turns that still run are turns of other threads.
<1>5. \A v \in Turns : Live(v)' => Live(v) /\ v # u /\ thread[v] # t
  BY <1>2, <1>4
<1>6. NobodyRetries'
  BY <1>3 DEF TurnInv, RegistryInv, TypeOK, NobodyRetries
<1>7. LiveIsRegistered'
  BY <1>1, <1>3, <1>5 DEF TurnInv, RegistryInv, TypeOK, LiveIsRegistered, Exists
<1>8. CompletionIsLive'
  <2> SUFFICES ASSUME NEW s \in Threads, completion'[s] # NoTurn
               PROVE  (/\ Exists(s) /\ Live(completion[s])
                       /\ thread[completion[s]] = s)'
    BY DEF CompletionIsLive
  <2>1. s # t /\ completion'[s] = completion[s]
    BY <1>1, <1>3 DEF TurnInv, RegistryInv, TypeOK
  <2>2. /\ completion[s] \in Turns /\ Exists(s) /\ Live(completion[s])
        /\ thread[completion[s]] = s
    BY <2>1 DEF TurnInv, RegistryInv, TypeOK, CompletionIsLive
  <2>3. QED  BY <1>3, <1>4, <2>1, <2>2 DEF Exists, Live
<1>9. QuietIsAwaited'
  BY <1>1, <1>3, <1>5 DEF TurnInv, RegistryInv, TypeOK, QuietIsAwaited, Exists
<1>10. SingleTurn'
  BY <1>3, <1>5 DEF TurnInv, SingleTurn
<1>11. RunningTurnIsShown'
  BY <1>1, <1>3, <1>5 DEF TurnInv, RegistryInv, TypeOK, RunningTurnIsShown, Exists
<1>12. OrphansAreAwaited'
  BY <1>3, <1>5 DEF TurnInv, OrphansAreAwaited, Exists
<1>13. QED  BY <1>6, <1>7, <1>8, <1>9, <1>10, <1>11, <1>12

\* Without retries, every step keeps the invariant of the turns.
LEMMA TurnInvStep ==
    ASSUME NoRetries, TurnInv, [Next]_vars
    PROVE  TurnInv'
<1> DEFINE Preserved ==
        /\ NobodyRetries'
        /\ LiveIsRegistered'
        /\ CompletionIsLive'
        /\ QuietIsAwaited'
        /\ SingleTurn'
        /\ RunningTurnIsShown'
        /\ OrphansAreAwaited'
<1> SUFFICES Preserved
  BY RegistryStep DEF TurnInv
\* Steps after which the same turns run, shown and registered as before.
<1>1. ASSUME /\ \A u \in Turns : Live(u)' <=> Live(u)
             /\ \A u \in Turns : pc'[u] # "retrying"
             /\ aborted \subseteq aborted'
             /\ awaited \subseteq awaited'
             /\ UNCHANGED <<deleted, active, status, controller, completion, thread>>
      PROVE  Preserved
  BY <1>1 DEF TurnInv, RegistryInv, TypeOK, NobodyRetries, LiveIsRegistered,
              CompletionIsLive, QuietIsAwaited, SingleTurn, RunningTurnIsShown,
              OrphansAreAwaited, Exists, Live
<1>2. ASSUME NEW u \in Turns, Send(u) PROVE Preserved
  <2>1. Launch(u)
    BY <1>2 DEF Send, NoRetries
  <2>2. QED  BY <1>2, <2>1, TurnLaunch
<1>3. ASSUME NEW u \in Turns, Retry(u) PROVE Preserved
  BY <1>3 DEF Retry, TurnInv, NobodyRetries
<1>4. ASSUME NEW u \in Turns, TurnStep(u) PROVE Preserved
  <2>1. CASE Advances(u)
    <3>1. /\ \A v \in Turns : Live(v)' <=> Live(v)
          /\ \A v \in Turns : pc'[v] # "retrying"
      BY <2>1 DEF Advances, Live, LivePoints, TurnInv, RegistryInv, TypeOK,
                  NobodyRetries
    <3>2. QED  BY <1>1, <2>1, <3>1 DEF Advances, rowVars
  <2>2. CASE Settles(u)
    BY <2>2, TurnSettles
  <2>3. QED  BY <1>4, <2>1, <2>2, TurnStepCases
<1>5. ASSUME NEW u \in Turns, WriteActivity(u) PROVE Preserved
  BY <1>1, <1>5 DEF WriteActivity, mapVars, turnVars, Live, TurnInv, NobodyRetries
\* The turn that a stop silences is the one it aborts and waits for.
<1>6. ASSUME NEW t \in Threads, Stop(t) PROVE Preserved
  <2>1. /\ active' = [active EXCEPT ![t] = NoTurn]
        /\ status' = [status EXCEPT ![t] = "stopped"]
        /\ aborted' = aborted \cup {controller[t]}
        /\ awaited' = awaited \cup ({completion[t]} \ {NoTurn})
        /\ UNCHANGED <<deleted, controller, completion, pc, thread>>
    BY <1>6 DEF Stop
  <2>2. \A u \in Turns : Live(u) /\ thread[u] = t =>
            controller[t] = u /\ completion[t] = u
    BY <1>6 DEF Stop, TurnInv, LiveIsRegistered
  <2>3. \A u \in Turns : Live(u) /\ thread[u] = t => u \in aborted' /\ u \in awaited'
    BY <2>1, <2>2, ConstantsAssumption
  <2>4. NobodyRetries' /\ LiveIsRegistered' /\ CompletionIsLive' /\ SingleTurn'
    BY <2>1 DEF TurnInv, NobodyRetries, LiveIsRegistered, CompletionIsLive,
                SingleTurn, Exists, Live
  <2>5. QuietIsAwaited'
    BY <2>1, <2>3 DEF TurnInv, RegistryInv, TypeOK, QuietIsAwaited, Exists, Live
  <2>6. RunningTurnIsShown'
    BY <2>1, <2>3 DEF TurnInv, RegistryInv, TypeOK, RunningTurnIsShown, Exists, Live
  <2>7. OrphansAreAwaited'
    BY <2>1 DEF TurnInv, OrphansAreAwaited, Exists, Live
  <2>8. QED  BY <2>4, <2>5, <2>6, <2>7
\* Only threads that are not shown as working are removed: their turns were
\* stopped before.
<1>7. ASSUME NEW S \in SUBSET Threads, Remove(S),
             \A t \in S : Exists(t) /\ ~IsWorking(t)
      PROVE  Preserved
  <2>1. /\ aborted \subseteq aborted'
        /\ controller' = [t \in Threads |-> IF t \in S THEN NoTurn ELSE controller[t]]
        /\ completion' = [t \in Threads |-> IF t \in S THEN NoTurn ELSE completion[t]]
        /\ status' = [t \in Threads |-> IF t \in S THEN "none" ELSE status[t]]
        /\ deleted' = deleted \cup S
        /\ UNCHANGED <<active, pc, thread, awaited>>
    BY <1>7 DEF Remove
  <2>2. \A u \in Turns : Live(u) /\ thread[u] \in S => u \in aborted /\ u \in awaited
    BY <1>7 DEF TurnInv, RegistryInv, TypeOK, RunningTurnIsShown, QuietIsAwaited,
                IsWorking
  <2>3. NobodyRetries' /\ SingleTurn'
    BY <2>1 DEF TurnInv, NobodyRetries, SingleTurn, Live
  <2>4. LiveIsRegistered'
    BY <2>1 DEF TurnInv, RegistryInv, TypeOK, LiveIsRegistered, Exists, Live
  <2>5. CompletionIsLive'
    BY <2>1 DEF TurnInv, RegistryInv, TypeOK, CompletionIsLive, Exists, Live
  <2>6. QuietIsAwaited' /\ RunningTurnIsShown' /\ OrphansAreAwaited'
    BY <2>1, <2>2 DEF TurnInv, RegistryInv, TypeOK, QuietIsAwaited,
                      RunningTurnIsShown, OrphansAreAwaited, Exists, Live
  <2>7. QED  BY <2>3, <2>4, <2>5, <2>6
<1>8. ASSUME NEW t \in Threads, DeleteThread(t) PROVE Preserved
  BY <1>7, <1>8 DEF DeleteThread
<1>9. ASSUME NEW p \in Projects, DeleteProject(p) PROVE Preserved
  BY <1>7, <1>9 DEF DeleteProject, ThreadsOf
<1>10. ASSUME NEW t \in Threads,
              UpdateModel(t) \/ BeginAccessUpdate(t) \/ EndAccessUpdate(t)
       PROVE Preserved
  BY <1>1, <1>10 DEF UpdateModel, BeginAccessUpdate, EndAccessUpdate, rowVars,
                     mapVars, turnVars, Live, TurnInv, NobodyRetries
<1>11. CASE AbortAll
  BY <1>1, <1>11 DEF AbortAll, rowVars, mapVars, Live, TurnInv, NobodyRetries
<1>12. CASE Crash
  <2>1. \A u \in Turns : ~Live(u)' /\ pc'[u] # "retrying"
    BY <1>12 DEF Crash, Live, LivePoints
  <2>2. \A t \in Threads : completion'[t] = NoTurn
    BY <1>12 DEF Crash
  <2>3. QED
    BY <2>1, <2>2 DEF NobodyRetries, LiveIsRegistered, CompletionIsLive,
                      QuietIsAwaited, SingleTurn, RunningTurnIsShown,
                      OrphansAreAwaited
<1>13. CASE Restart
  <2>1. \A u \in Turns : ~Live(u)
    BY <1>13 DEF Restart, TurnInv, RegistryInv, DownIsEmpty
  <2>2. UNCHANGED <<deleted, completion, pc, thread>>
    BY <1>13 DEF Restart, mapVars, turnVars
  <2>3. QED
    BY <2>1, <2>2 DEF TurnInv, NobodyRetries, LiveIsRegistered, CompletionIsLive,
                      QuietIsAwaited, SingleTurn, RunningTurnIsShown,
                      OrphansAreAwaited, Live, Exists
<1>14. CASE UNCHANGED vars
  BY <1>1, <1>14 DEF vars, rowVars, mapVars, turnVars, Live, TurnInv, NobodyRetries
<1>15. QED
  BY <1>2, <1>3, <1>4, <1>5, <1>6, <1>8, <1>9, <1>10, <1>11, <1>12, <1>13, <1>14
     DEF Next

\* Without retries, the invariant of the turns holds in every state.
LEMMA TurnInvCorrect == ASSUME NoRetries PROVE Spec => []TurnInv
<1>1. TurnInv /\ [Next]_vars => TurnInv'
  BY TurnInvStep
<1>2. QED  BY <1>1, TurnInit, PTL DEF Spec

\* One turn per thread at any time.  The hypothesis is needed: the guards of
\* queueMessage and the launch are one step only while no message has to wait
\* for the write lock.
THEOREM OneTurnPerThread == ASSUME NoRetries PROVE Spec => []SingleTurn
<1>1. TurnInv => SingleTurn
  BY DEF TurnInv
<1>2. QED  BY <1>1, TurnInvCorrect, PTL

\* Every turn that nobody stopped is shown as working, in memory and in the
\* row, on a thread that exists: no request deletes or reuses its thread.
THEOREM RunningTurnsAreShown == ASSUME NoRetries PROVE Spec => []RunningTurnIsShown
<1>1. TurnInv => RunningTurnIsShown
  BY DEF TurnInv
<1>2. QED  BY <1>1, TurnInvCorrect, PTL

\* The rejection of a turn whose thread was deleted under it always finds
\* someone who waits for it.
THEOREM DeletionNeverExits == ASSUME NoRetries PROVE Spec => []OrphansAreAwaited
<1>1. TurnInv => OrphansAreAwaited
  BY DEF TurnInv
<1>2. QED  BY <1>1, TurnInvCorrect, PTL

\* A stopped turn never ends as a successful one.
THEOREM StopsNeverSucceed == ASSUME NoRetries PROVE Spec => StoppedNeverRan
<1>1. TurnInv /\ [Next]_vars
        => [\A t \in Threads : status[t] = "stopped" => status'[t] # "idle"]_vars
  <2> SUFFICES ASSUME TurnInv, [Next]_vars, NEW t \in Threads,
                      status[t] = "stopped", status'[t] = "idle"
               PROVE  FALSE
    OBVIOUS
  <2>1. PICK u \in Turns : Settles(u)
    <3>1. ASSUME NEW u \in Turns, Launch(u) PROVE FALSE
      BY <3>1 DEF Launch, TurnInv, RegistryInv, TypeOK
    <3>2. ASSUME UNCHANGED status PROVE FALSE
      BY <3>2
    <3>3. ASSUME NEW u \in Turns, Send(u) \/ Retry(u) PROVE FALSE
      BY <3>1, <3>2, <3>3 DEF Send, Retry, mapVars
    <3>4. ASSUME NEW u \in Turns, Advances(u) \/ WriteActivity(u) PROVE FALSE
      BY <3>2, <3>4 DEF Advances, WriteActivity, mapVars
    <3>5. ASSUME NEW s \in Threads, Stop(s) PROVE FALSE
      BY <3>5 DEF Stop, TurnInv, RegistryInv, TypeOK
    <3>6. ASSUME NEW S \in SUBSET Threads, Remove(S) PROVE FALSE
      BY <3>6 DEF Remove
    <3>7. ASSUME NEW s \in Threads, DeleteThread(s) PROVE FALSE
      BY <3>6, <3>7 DEF DeleteThread
    <3>8. ASSUME NEW p \in Projects, DeleteProject(p) PROVE FALSE
      BY <3>6, <3>8 DEF DeleteProject, ThreadsOf
    <3>9. ASSUME NEW s \in Threads,
                 UpdateModel(s) \/ BeginAccessUpdate(s) \/ EndAccessUpdate(s)
          PROVE  FALSE
      BY <3>2, <3>9 DEF UpdateModel, BeginAccessUpdate, EndAccessUpdate, mapVars
    <3>10. ASSUME AbortAll \/ Restart \/ UNCHANGED vars PROVE FALSE
      BY <3>2, <3>10 DEF AbortAll, Restart, vars, mapVars
    <3>11. ASSUME Crash PROVE FALSE
      BY <3>11 DEF Crash
    <3>12. QED
      BY <3>3, <3>4, <3>5, <3>7, <3>8, <3>9, <3>10, <3>11, TurnStepCases DEF Next
  <2>2. Live(u) /\ u \notin aborted /\ thread[u] = t
    BY <2>1 DEF Settles, TurnInv, RegistryInv, TypeOK
  <2>3. QED
    BY <2>2 DEF TurnInv, RunningTurnIsShown
<1>2. QED  BY <1>1, TurnInvCorrect, PTL DEF Spec, StoppedNeverRan

-----------------------------------------------------------------------------
(* The runtime a turn prompts *)

\* No access update waits for the plugin inventory.
NoSlowInventory == "slow_inventory" \notin Faults

NobodyUpdates == accessPending = {}

\* A turn nobody aborted has registered the runtime it was given, or is about to
\* register its own.
RuntimeIsRegistered ==
    \A u \in Turns : Live(u) /\ u \notin aborted =>
        \/ pc[u] = "starting" /\ session[u] = u
        \/ runtime[thread[u]] = session[u]

RuntimeInv == NobodyUpdates /\ RuntimeIsRegistered

\* A launch takes the registered runtime or none.
LEMMA RuntimeLaunch ==
    ASSUME TurnInv, RuntimeInv, NEW u \in Turns, Send(u), Launch(u)
    PROVE  RuntimeIsRegistered'
<1> DEFINE t == thread[u]
<1>1. t \in Threads /\ Exists(t)
  BY DEF Send, TurnInv, RegistryInv, TypeOK
<1>2. /\ pc' = [pc EXCEPT ![u] = "starting"]
      /\ session' = [session EXCEPT ![u] = IF runtime[t] # NoTurn THEN runtime[t] ELSE u]
      /\ UNCHANGED <<runtime, thread, aborted>>
  BY <1>1 DEF Launch
<1>3. ASSUME NEW v \in Turns, Live(v)', v \notin aborted
      PROVE  \/ pc'[v] = "starting" /\ session'[v] = v
             \/ runtime[thread[v]] = session'[v]
  <2>1. CASE v = u
    BY <1>2, <2>1 DEF TurnInv, RegistryInv, TypeOK
  <2>2. CASE v # u
    <3>1. Live(v) /\ pc'[v] = pc[v] /\ session'[v] = session[v]
      BY <1>2, <1>3, <2>2 DEF Live, TurnInv, RegistryInv, TypeOK
    <3>2. QED  BY <1>3, <3>1 DEF RuntimeInv, RuntimeIsRegistered
  <2>3. QED  BY <2>1, <2>2
<1>4. QED  BY <1>2, <1>3 DEF RuntimeIsRegistered

\* What a turn does to the map of runtimes concerns its own thread, where no
\* other turn runs.
LEMMA RuntimeTurnStep ==
    ASSUME TurnInv, RuntimeInv, NEW u \in Turns, Advances(u) \/ Settles(u)
    PROVE  RuntimeIsRegistered'
<1>1. \A v \in Turns : v # u /\ Live(v) => thread[v] # thread[u]
  BY DEF TurnInv, SingleTurn, Advances, Settles
<1>2. /\ RuntimeStep(u)
      /\ UNCHANGED <<thread, session, aborted>>
      /\ \E p \in LivePoints \cup {"done"} : pc' = [pc EXCEPT ![u] = p]
  BY DEF Advances, Settles, RuntimeStep
<1>3. ASSUME NEW v \in Turns, v # u, Live(v)', v \notin aborted
      PROVE  \/ pc'[v] = "starting" /\ session'[v] = v
             \/ runtime'[thread[v]] = session'[v]
  <2>1. Live(v) /\ pc'[v] = pc[v]
    BY <1>2, <1>3 DEF Live, TurnInv, RegistryInv, TypeOK
  <2>2. thread[v] \in Threads /\ thread[u] \in Threads /\ thread[v] # thread[u]
    BY <1>1, <1>3, <2>1 DEF TurnInv, RegistryInv, TypeOK
  <2>3. runtime'[thread[v]] = runtime[thread[v]]
    BY <1>2, <2>2 DEF RuntimeStep, TurnInv, RegistryInv, TypeOK
  <2>4. QED  BY <1>2, <1>3, <2>1, <2>3 DEF RuntimeInv, RuntimeIsRegistered
<1>4. ASSUME Live(u)', u \notin aborted
      PROVE  runtime'[thread[u]] = session'[u]
  <2>1. Advances(u)
    BY <1>4 DEF Settles, Live, LivePoints, TurnInv, RegistryInv, TypeOK
  <2>2. QED
    BY <1>2, <1>4, <2>1 DEF Advances, RuntimeInv, RuntimeIsRegistered, TurnInv,
                            RegistryInv, TypeOK
<1>5. QED  BY <1>2, <1>3, <1>4 DEF RuntimeIsRegistered

\* Without retries and a slow inventory, every step keeps runtimes registered.
LEMMA RuntimeInvStep ==
    ASSUME NoRetries, NoSlowInventory, TurnInv, RuntimeInv, [Next]_vars
    PROVE  RuntimeInv'
\* Steps that take neither a turn nor a runtime further.
<1>1. ASSUME /\ \A u \in Turns : Live(u)' => Live(u)
             /\ aborted \subseteq aborted'
             /\ UNCHANGED <<runtime, pc, thread, session, accessPending>>
      PROVE  RuntimeInv'
  BY <1>1 DEF RuntimeInv, NobodyUpdates, RuntimeIsRegistered
<1>2. ASSUME NEW u \in Turns, Send(u) PROVE RuntimeInv'
  <2>1. Launch(u) /\ UNCHANGED accessPending
    BY <1>2 DEF Send, NoRetries
  <2>2. QED  BY <1>2, <2>1, RuntimeLaunch DEF RuntimeInv, NobodyUpdates
<1>3. ASSUME NEW u \in Turns, Retry(u) PROVE RuntimeInv'
  BY <1>3 DEF Retry, TurnInv, NobodyRetries
<1>4. ASSUME NEW u \in Turns, TurnStep(u) PROVE RuntimeInv'
  <2>1. Advances(u) \/ Settles(u)
    BY <1>4, TurnStepCases
  <2>2. UNCHANGED accessPending
    BY <2>1 DEF Advances, Settles
  <2>3. QED  BY <2>1, <2>2, RuntimeTurnStep DEF RuntimeInv, NobodyUpdates
<1>5. ASSUME NEW u \in Turns, WriteActivity(u) PROVE RuntimeInv'
  BY <1>1, <1>5 DEF WriteActivity, mapVars, turnVars, Live
<1>6. ASSUME NEW t \in Threads, Stop(t) PROVE RuntimeInv'
  BY <1>1, <1>6 DEF Stop, Live
\* The runtimes go only with threads whose turns were stopped before.
<1>7. ASSUME NEW S \in SUBSET Threads, \A t \in S : Exists(t) /\ ~IsWorking(t),
             runtime' = [t \in Threads |-> IF t \in S THEN NoTurn ELSE runtime[t]],
             aborted \subseteq aborted',
             UNCHANGED <<pc, thread, session, accessPending>>
      PROVE  RuntimeInv'
  <2>1. \A u \in Turns : Live(u) /\ thread[u] \in S => u \in aborted
    BY <1>7 DEF TurnInv, RunningTurnIsShown, IsWorking
  <2>2. QED
    BY <1>7, <2>1 DEF RuntimeInv, NobodyUpdates, RuntimeIsRegistered, Live, TurnInv,
                      RegistryInv, TypeOK
<1>8. ASSUME NEW t \in Threads, DeleteThread(t) PROVE RuntimeInv'
  <2>1. Remove({t}) /\ Exists(t) /\ ~IsWorking(t)
    BY <1>8 DEF DeleteThread
  <2>2. /\ runtime' = [s \in Threads |-> IF s \in {t} THEN NoTurn ELSE runtime[s]]
        /\ aborted \subseteq aborted'
        /\ UNCHANGED <<pc, thread, session, accessPending>>
    BY <2>1 DEF Remove
  <2>3. QED  BY <1>7, <2>1, <2>2
<1>9. ASSUME NEW p \in Projects, DeleteProject(p) PROVE RuntimeInv'
  BY <1>7, <1>9 DEF DeleteProject, ThreadsOf, Remove
<1>10. ASSUME NEW t \in Threads, UpdateModel(t) PROVE RuntimeInv'
  <2>1. runtime' = [s \in Threads |-> IF s \in {t} THEN NoTurn ELSE runtime[s]]
    BY <1>10 DEF UpdateModel, TurnInv, RegistryInv, TypeOK
  <2>2. QED  BY <1>7, <1>10, <2>1 DEF UpdateModel, turnVars
<1>11. ASSUME NEW t \in Threads, BeginAccessUpdate(t) \/ EndAccessUpdate(t)
       PROVE  RuntimeInv'
  BY <1>11 DEF BeginAccessUpdate, EndAccessUpdate, NoSlowInventory, RuntimeInv,
               NobodyUpdates
<1>12. CASE AbortAll
  BY <1>1, <1>12 DEF AbortAll, mapVars, Live
<1>13. CASE Crash
  BY <1>13 DEF Crash, RuntimeInv, NobodyUpdates, RuntimeIsRegistered, Live, LivePoints
<1>14. CASE Restart
  BY <1>1, <1>14 DEF Restart, mapVars, turnVars, Live
<1>15. CASE UNCHANGED vars
  BY <1>1, <1>15 DEF vars, mapVars, turnVars, Live
<1>16. QED
  BY <1>2, <1>3, <1>4, <1>5, <1>6, <1>8, <1>9, <1>10, <1>11, <1>12, <1>13, <1>14,
     <1>15 DEF Next

\* While a turn that nobody aborted prompts, the map holds the runtime whose
\* session it prompts: a stop or a disposal reaches it.  Both hypotheses are
\* needed: a retried message may start a second turn on the thread, and an access
\* update that waited for the inventory disposes of the runtime without a look.
THEOREM StopsReachTheSession ==
    ASSUME NoRetries, NoSlowInventory PROVE Spec => []PromptedRuntimeIsRegistered
<1>1. Init => RuntimeInv
  BY DEF Init, RuntimeInv, NobodyUpdates, RuntimeIsRegistered, Live, LivePoints
<1>2. TurnInv /\ RuntimeInv /\ [Next]_vars => RuntimeInv'
  BY RuntimeInvStep
<1>3. RuntimeInv => PromptedRuntimeIsRegistered
  BY DEF RuntimeInv, RuntimeIsRegistered, PromptedRuntimeIsRegistered, Live, LivePoints
<1>4. QED  BY <1>1, <1>2, <1>3, TurnInvCorrect, PTL DEF Spec

-----------------------------------------------------------------------------
(* What the rows say of a turn that ended *)

\* No settlement gets the millisecond of the last activity write.
NoClockTies == "clock_tie" \notin Faults

\* A thread that memory shows as working has its turn in the row.
WorkingHasRow ==
    \A t \in Threads : Exists(t) /\ status[t] = "working" => active[t] # NoTurn

\* A turn that runs is the one in the row, unless stopTurn settled it there.
LiveIsOnRow ==
    \A u \in Turns : Live(u) /\ Exists(thread[u]) =>
        active[thread[u]] = u \/ outcome[thread[u]] = "stopped"

\* In-progress activity that no active turn accounts for is older than the
\* settlement of the thread, or belongs to a stopped one.
LeftoversAreOlder ==
    \A t \in Threads : Exists(t) /\ active[t] = NoTurn =>
        \/ inProgress[t] = "none"
        \/ inProgress[t] = "older" /\ outcome[t] # "none"
        \/ outcome[t] = "stopped"

RowInv == WorkingHasRow /\ LiveIsOnRow /\ LeftoversAreOlder

\* A launch keeps the invariant of the rows.
LEMMA RowLaunch ==
    ASSUME TurnInv, RowInv, NEW u \in Turns, Send(u), Launch(u)
    PROVE  RowInv'
<1> DEFINE t == thread[u]
<1>1. t \in Threads /\ Exists(t) /\ completion[t] = NoTurn
  BY DEF Send, TurnInv, RegistryInv, TypeOK
<1>2. \A v \in Turns : Live(v) => thread[v] # t
  BY <1>1, ConstantsAssumption DEF TurnInv, LiveIsRegistered
<1>3. /\ active' = [active EXCEPT ![t] = u]
      /\ status' = [status EXCEPT ![t] = "working"]
      /\ pc' = [pc EXCEPT ![u] = "starting"]
      /\ UNCHANGED <<deleted, outcome, inProgress, thread>>
  BY <1>1 DEF Launch
<1>4. \A v \in Turns : v # u => (Live(v)' <=> Live(v))
  BY <1>3 DEF Live, TurnInv, RegistryInv, TypeOK
<1>5. WorkingHasRow'
  BY <1>1, <1>3, ConstantsAssumption
     DEF WorkingHasRow, RowInv, Exists, TurnInv, RegistryInv, TypeOK
<1>6. LiveIsOnRow'
  BY <1>1, <1>2, <1>3, <1>4
     DEF LiveIsOnRow, RowInv, Exists, TurnInv, RegistryInv, TypeOK
<1>7. LeftoversAreOlder'
  BY <1>1, <1>3, ConstantsAssumption
     DEF LeftoversAreOlder, RowInv, Exists, TurnInv, RegistryInv, TypeOK
<1>8. QED  BY <1>5, <1>6, <1>7 DEF RowInv

\* A settlement keeps the invariant of the rows, if clocks do not tie.
LEMMA RowSettles ==
    ASSUME NoClockTies, TurnInv, RowInv, NEW u \in Turns, Settles(u)
    PROVE  RowInv'
<1> DEFINE t == thread[u]
<1>1. t \in Threads
  BY DEF TurnInv, RegistryInv, TypeOK
<1>2. \A v \in Turns : v # u /\ Live(v) => thread[v] # t
  BY DEF TurnInv, SingleTurn, Settles
<1>3. PICK o \in {"ran", "stopped", "failed"} :
          /\ outcome' = [outcome EXCEPT ![t] = o]
          /\ status' = [status EXCEPT ![t] = IF o = "ran" THEN "idle" ELSE o]
  BY DEF Settles
<1>4. PICK i \in {"none", "older"} : inProgress' = [inProgress EXCEPT ![t] = i]
  BY DEF Settles, InProgressDates, NoClockTies
<1>5. /\ active' = [active EXCEPT ![t] = NoTurn]
      /\ pc' = [pc EXCEPT ![u] = "done"]
      /\ UNCHANGED <<deleted, thread>>
  BY DEF Settles
<1>6. \A v \in Turns : Live(v)' => Live(v) /\ thread[v] # t
  BY <1>2, <1>5 DEF Live, LivePoints, TurnInv, RegistryInv, TypeOK
<1>7. WorkingHasRow'
  BY <1>1, <1>3, <1>5 DEF WorkingHasRow, RowInv, Exists, TurnInv, RegistryInv, TypeOK
<1>8. LiveIsOnRow'
  BY <1>1, <1>3, <1>5, <1>6
     DEF LiveIsOnRow, RowInv, Exists, TurnInv, RegistryInv, TypeOK
<1>9. LeftoversAreOlder'
  BY <1>1, <1>3, <1>4, <1>5
     DEF LeftoversAreOlder, RowInv, Exists, TurnInv, RegistryInv, TypeOK
<1>10. QED  BY <1>7, <1>8, <1>9 DEF RowInv

\* Every step keeps the invariant of the rows.
LEMMA RowInvStep ==
    ASSUME NoRetries, NoClockTies, TurnInv, RowInv, [Next]_vars
    PROVE  RowInv'
\* Steps that leave the rows alone and start nothing.
<1>1. ASSUME /\ \A u \in Turns : Live(u)' => Live(u)
             /\ \A t \in Threads : status'[t] = "working" => status[t] = "working"
             /\ deleted \subseteq deleted'
             /\ UNCHANGED <<active, outcome, inProgress, thread>>
      PROVE  RowInv'
  BY <1>1 DEF RowInv, WorkingHasRow, LiveIsOnRow, LeftoversAreOlder, Exists
<1>2. ASSUME NEW u \in Turns, Send(u) PROVE RowInv'
  <2>1. Launch(u)
    BY <1>2 DEF Send, NoRetries
  <2>2. QED  BY <1>2, <2>1, RowLaunch
<1>3. ASSUME NEW u \in Turns, Retry(u) PROVE RowInv'
  BY <1>3 DEF Retry, TurnInv, NobodyRetries
<1>4. ASSUME NEW u \in Turns, TurnStep(u) PROVE RowInv'
  <2>1. CASE Advances(u)
    <3>1. \A v \in Turns : Live(v)' => Live(v)
      BY <2>1 DEF Advances, Live, TurnInv, RegistryInv, TypeOK
    <3>2. QED  BY <1>1, <2>1, <3>1 DEF Advances, rowVars
  <2>2. CASE Settles(u)
    BY <2>2, RowSettles
  <2>3. QED  BY <1>4, <2>1, <2>2, TurnStepCases
\* Who writes activity is the turn in the row, or was stopped.
<1>5. ASSUME NEW u \in Turns, WriteActivity(u) PROVE RowInv'
  <2>1. Live(u)
    BY <1>5 DEF WriteActivity, Live, LivePoints
  <2>2. /\ inProgress' = [inProgress EXCEPT ![thread[u]] = "current"]
        /\ UNCHANGED <<deleted, active, outcome, status, pc, thread>>
    BY <1>5 DEF WriteActivity, mapVars, turnVars
  <2>3. WorkingHasRow' /\ LiveIsOnRow'
    BY <2>2 DEF RowInv, WorkingHasRow, LiveIsOnRow, Exists, Live
  <2>4. LeftoversAreOlder'
    BY <2>1, <2>2, ConstantsAssumption
       DEF RowInv, LiveIsOnRow, LeftoversAreOlder, Exists, TurnInv, RegistryInv, TypeOK
  <2>5. QED  BY <2>3, <2>4 DEF RowInv
<1>6. ASSUME NEW t \in Threads, Stop(t) PROVE RowInv'
  <2>1. /\ inProgress' = [inProgress EXCEPT ![t] = "none"]
        /\ active' = [active EXCEPT ![t] = NoTurn]
        /\ outcome' = [outcome EXCEPT ![t] = "stopped"]
        /\ status' = [status EXCEPT ![t] = "stopped"]
        /\ UNCHANGED <<deleted, pc, thread>>
    BY <1>6 DEF Stop
  <2>2. WorkingHasRow' /\ LeftoversAreOlder'
    BY <2>1 DEF RowInv, WorkingHasRow, LeftoversAreOlder, Exists, TurnInv, RegistryInv,
                TypeOK
  <2>3. LiveIsOnRow'
    BY <2>1 DEF RowInv, LiveIsOnRow, Exists, Live, TurnInv, RegistryInv, TypeOK
  <2>4. QED  BY <2>2, <2>3 DEF RowInv
<1>7. ASSUME NEW S \in SUBSET Threads, Remove(S) PROVE RowInv'
  <2>1. \A t \in Threads : status'[t] = "working" => status[t] = "working"
    BY <1>7 DEF Remove
  <2>2. QED  BY <1>1, <1>7, <2>1 DEF Remove, Live
<1>8. ASSUME NEW t \in Threads, DeleteThread(t) PROVE RowInv'
  BY <1>7, <1>8 DEF DeleteThread
<1>9. ASSUME NEW p \in Projects, DeleteProject(p) PROVE RowInv'
  BY <1>7, <1>9 DEF DeleteProject, ThreadsOf
<1>10. ASSUME NEW t \in Threads,
              UpdateModel(t) \/ BeginAccessUpdate(t) \/ EndAccessUpdate(t)
       PROVE RowInv'
  BY <1>1, <1>10 DEF UpdateModel, BeginAccessUpdate, EndAccessUpdate, rowVars,
                     mapVars, turnVars, Live
<1>11. CASE AbortAll
  BY <1>1, <1>11 DEF AbortAll, rowVars, mapVars, Live
<1>12. CASE Crash
  <2>1. /\ \A u \in Turns : ~Live(u)'
        /\ \A t \in Threads : status'[t] # "working"
    BY <1>12 DEF Crash, Live, LivePoints
  <2>2. QED  BY <1>1, <1>12, <2>1 DEF Crash, rowVars
<1>13. CASE Restart
  <2>1. /\ \A u \in Turns : ~Live(u)'
        /\ \A t \in Threads : status'[t] = "none"
    BY <1>13 DEF Restart, TurnInv, RegistryInv, DownIsEmpty, Live, mapVars, turnVars
  <2>2. \A t \in Threads : Exists(t) => inProgress'[t] = "none"
    BY <1>13 DEF Restart
  <2>3. deleted' = deleted
    BY <1>13 DEF Restart
  <2>4. QED
    BY <2>1, <2>2, <2>3 DEF RowInv, WorkingHasRow, LiveIsOnRow, LeftoversAreOlder, Exists
<1>14. CASE UNCHANGED vars
  BY <1>1, <1>14 DEF vars, rowVars, mapVars, turnVars, Live
<1>15. QED
  BY <1>2, <1>3, <1>4, <1>5, <1>6, <1>8, <1>9, <1>10, <1>11, <1>12, <1>13, <1>14
     DEF Next

\* The invariant of the rows holds in every state.
LEMMA RowInvCorrect == ASSUME NoRetries, NoClockTies PROVE Spec => []RowInv
<1>1. Init => RowInv
  BY DEF Init, RowInv, WorkingHasRow, LiveIsOnRow, LeftoversAreOlder, Live, LivePoints
<1>2. TurnInv /\ RowInv /\ [Next]_vars => RowInv'
  BY RowInvStep
<1>3. QED  BY <1>1, <1>2, TurnInvCorrect, PTL DEF Spec

\* Restart settles the turns in the rows as stopped and rewrites no other outcome.
LEMMA RestartOutcomes ==
    ASSUME TurnInv, RowInv, Restart, NEW t \in Threads
    PROVE  outcome'[t] = IF Exists(t) /\ active[t] # NoTurn THEN "stopped" ELSE outcome[t]
<1>1. outcome'[t] = IF Exists(t) /\ ShouldRecover(t) THEN "stopped" ELSE outcome[t]
  BY DEF Restart
<1>2. CASE active[t] # NoTurn
  BY <1>1, <1>2 DEF ShouldRecover
<1>3. CASE active[t] = NoTurn /\ Exists(t)
  <2>1. CASE outcome[t] = "stopped"
    BY <1>1, <1>3, <2>1
  <2>2. CASE outcome[t] # "stopped"
    BY <1>1, <1>3, <2>2 DEF ShouldRecover, RowInv, LeftoversAreOlder
  <2>3. QED  BY <2>1, <2>2
<1>4. CASE ~Exists(t)
  BY <1>1, <1>4
<1>5. QED  BY <1>2, <1>3, <1>4

\* Recovery keeps what the turns of the process before settled.  A tie of the clock
\* makes a settled thread look interrupted, so it is excluded.
THEOREM RecoveryIsFaithful ==
    ASSUME NoRetries, NoClockTies PROVE Spec => RecoveryKeepsSettlements
<1>1. TurnInv /\ RowInv /\ [Next]_vars
        => [~up /\ up' => \A t \in Threads :
              active[t] = NoTurn /\ outcome[t] # "none" => outcome'[t] = outcome[t]]_vars
  <2> SUFFICES ASSUME TurnInv, RowInv, [Next]_vars, ~up, up', NEW t \in Threads,
                      active[t] = NoTurn, outcome'[t] # outcome[t]
               PROVE  FALSE
    OBVIOUS
  <2>1. Restart
    <3>1. ASSUME NEW u \in Turns, Send(u) \/ Retry(u) \/ WriteActivity(u) PROVE FALSE
      BY <3>1 DEF Send, Retry, WriteActivity
    <3>2. ASSUME NEW u \in Turns, TurnStep(u) PROVE FALSE
      BY <3>2, TurnStepCases DEF Advances, Settles
    <3>3. ASSUME NEW s \in Threads,
                 \/ Stop(s) \/ DeleteThread(s) \/ UpdateModel(s)
                 \/ BeginAccessUpdate(s) \/ EndAccessUpdate(s)
          PROVE  FALSE
      BY <3>3 DEF Stop, DeleteThread, UpdateModel, BeginAccessUpdate, EndAccessUpdate
    <3>4. ASSUME \/ \E p \in Projects : DeleteProject(p)
                 \/ AbortAll \/ Crash \/ UNCHANGED vars
          PROVE  FALSE
      BY <3>4 DEF DeleteProject, AbortAll, Crash, vars
    <3>5. QED  BY <3>1, <3>2, <3>3, <3>4 DEF Next
  <2>2. QED  BY <2>1, RestartOutcomes
<1>2. QED
  BY <1>1, TurnInvCorrect, RowInvCorrect, PTL DEF Spec, RecoveryKeepsSettlements

-----------------------------------------------------------------------------
(* ThreadTurns implements ThreadTurnContract *)

\* The phase of a thread that the contract sees, case by case.
LEMMA PhaseCases ==
    ASSUME TurnInv, NEW t \in Threads
    PROVE  /\ ~Exists(t) => phaseOf[t] = "gone"
           /\ Exists(t) /\ ~up /\ active[t] # NoTurn => phaseOf[t] = "lost"
           /\ Exists(t) /\ ~up /\ active[t] = NoTurn => phaseOf[t] = "quiet"
           /\ Exists(t) /\ up /\ status[t] = "working" => phaseOf[t] = "working"
           /\ Exists(t) /\ up /\ status[t] # "working" /\ completion[t] # NoTurn
                => phaseOf[t] = "stopping"
           /\ Exists(t) /\ up /\ status[t] # "working" /\ completion[t] = NoTurn
                => phaseOf[t] = "quiet"
           /\ lastOf[t] = IF Exists(t) THEN outcome[t] ELSE "none"
<1>1. Exists(t) /\ up => (IsWorking(t) <=> status[t] = "working")
  BY DEF IsWorking, TurnInv, RegistryInv, ActiveIsRegistered
<1>2. QED  BY <1>1 DEF phaseOf, lastOf

\* The same, in the next state.
LEMMA NextPhaseCases ==
    ASSUME TurnInv', NEW t \in Threads
    PROVE  /\ ~Exists(t)' => phaseOf'[t] = "gone"
           /\ Exists(t)' /\ ~up' /\ active'[t] # NoTurn => phaseOf'[t] = "lost"
           /\ Exists(t)' /\ ~up' /\ active'[t] = NoTurn => phaseOf'[t] = "quiet"
           /\ Exists(t)' /\ up' /\ status'[t] = "working" => phaseOf'[t] = "working"
           /\ Exists(t)' /\ up' /\ status'[t] # "working" /\ completion'[t] # NoTurn
                => phaseOf'[t] = "stopping"
           /\ Exists(t)' /\ up' /\ status'[t] # "working" /\ completion'[t] = NoTurn
                => phaseOf'[t] = "quiet"
           /\ lastOf'[t] = IF Exists(t)' THEN outcome'[t] ELSE "none"
<1>1. Exists(t)' /\ up' => (IsWorking(t)' <=> status'[t] = "working")
  BY DEF IsWorking, TurnInv, RegistryInv, ActiveIsRegistered
<1>2. QED  BY <1>1 DEF phaseOf, lastOf

\* A step that leaves what the contract reads of a thread alone.
LEMMA SameThread ==
    ASSUME NEW t \in Threads,
           Exists(t)' <=> Exists(t),
           Exists(t) => /\ up' = up
                        /\ status'[t] = status[t]
                        /\ active'[t] = active[t]
                        /\ completion'[t] = completion[t]
                        /\ outcome'[t] = outcome[t]
    PROVE  phaseOf'[t] = phaseOf[t] /\ lastOf'[t] = lastOf[t]
<1>1. CASE Exists(t)
  BY <1>1 DEF phaseOf, lastOf, IsWorking
<1>2. CASE ~Exists(t)
  BY <1>2 DEF phaseOf, lastOf
<1>3. QED  BY <1>1, <1>2

\* A step that changes nothing the contract reads.
LEMMA ContractStutter ==
    ASSUME UNCHANGED <<deleted, up, status, active, completion, outcome>>
    PROVE  UNCHANGED Contract!vars
BY DEF Contract!vars, phaseOf, lastOf, Exists, IsWorking

\* A step that moves one thread.
LEMMA OneThreadMoves ==
    ASSUME NEW t \in Threads,
           \A s \in Threads : s # t => phaseOf'[s] = phaseOf[s] /\ lastOf'[s] = lastOf[s]
    PROVE  /\ phaseOf' = [phaseOf EXCEPT ![t] = phaseOf'[t]]
           /\ lastOf' = [lastOf EXCEPT ![t] = lastOf'[t]]
<1>1. phaseOf' = [s \in Threads |-> phaseOf'[s]] /\ phaseOf = [s \in Threads |-> phaseOf[s]]
  BY DEF phaseOf
<1>2. lastOf' = [s \in Threads |-> lastOf'[s]] /\ lastOf = [s \in Threads |-> lastOf[s]]
  BY DEF lastOf
<1>3. QED  BY <1>1, <1>2

\* A launch is the contract's Start.
LEMMA LaunchStarts ==
    ASSUME TurnInv, TurnInv', NEW u \in Turns, Send(u), Launch(u)
    PROVE  Contract!Start(thread[u])
<1> PICK t \in Threads : t = thread[u]
  BY DEF TurnInv, RegistryInv, TypeOK
<1>1. Exists(t) /\ up /\ completion[t] = NoTurn /\ status[t] # "working"
  BY DEF Send, IsWorking, TurnInv, RegistryInv, TypeOK
<1>2. /\ active' = [active EXCEPT ![t] = u]
      /\ status' = [status EXCEPT ![t] = "working"]
      /\ completion' = [completion EXCEPT ![t] = u]
      /\ UNCHANGED <<deleted, up, outcome>>
  BY <1>1 DEF Launch, Send
<1>3. phaseOf[t] = "quiet"
  BY <1>1, PhaseCases
<1>4. /\ status'[t] = "working" /\ up' /\ Exists(t)'
      /\ outcome'[t] = outcome[t]
  BY <1>1, <1>2 DEF TurnInv, RegistryInv, TypeOK, Exists
<1>5. phaseOf'[t] = "working" /\ lastOf'[t] = lastOf[t]
  BY <1>1, <1>4, PhaseCases, NextPhaseCases
<1>6. \A s \in Threads : s # t => phaseOf'[s] = phaseOf[s] /\ lastOf'[s] = lastOf[s]
  <2> SUFFICES ASSUME NEW s \in Threads, s # t
               PROVE  phaseOf'[s] = phaseOf[s] /\ lastOf'[s] = lastOf[s]
    OBVIOUS
  <2>1. QED  BY <1>2, SameThread DEF Exists
<1>7. phaseOf' = [phaseOf EXCEPT ![t] = "working"]
  BY <1>1, <1>5, <1>6, OneThreadMoves
<1>8. lastOf' = lastOf
  <2>1. lastOf' = [lastOf EXCEPT ![t] = lastOf[t]]
    BY <1>1, <1>5, <1>6, OneThreadMoves
  <2>2. QED  BY <2>1 DEF lastOf
<1>9. QED  BY <1>3, <1>7, <1>8 DEF Contract!Start, Contract!Move

\* A settlement finishes a turn that is shown as working, lets go of a thread whose
\* turn was stopped, and says nothing about a thread that is gone.
LEMMA SettlementEnds ==
    ASSUME TurnInv, TurnInv', NEW u \in Turns, Settles(u)
    PROVE  \/ Contract!Finish(thread[u])
           \/ Contract!LetGo(thread[u])
           \/ UNCHANGED Contract!vars
<1> PICK t \in Threads : t = thread[u]
  BY DEF TurnInv, RegistryInv, TypeOK
<1>1. up /\ up'
  BY DEF TurnInv, RegistryInv, TypeOK, DownIsEmpty, Settles
<1>2. PICK o \in {"ran", "stopped", "failed"} :
          /\ outcome' = [outcome EXCEPT ![t] = o]
          /\ status' = [status EXCEPT ![t] = IF o = "ran" THEN "idle" ELSE o]
          /\ o = "ran" => u \notin aborted /\ Exists(t)
  BY DEF Settles
<1>3. /\ active' = [active EXCEPT ![t] = NoTurn]
      /\ completion' = [completion EXCEPT ![t] = NoTurn]
      /\ UNCHANGED <<deleted, up>>
  BY DEF Settles
<1>4. \A s \in Threads : s # t => phaseOf'[s] = phaseOf[s] /\ lastOf'[s] = lastOf[s]
  <2> SUFFICES ASSUME NEW s \in Threads, s # t
               PROVE  phaseOf'[s] = phaseOf[s] /\ lastOf'[s] = lastOf[s]
    OBVIOUS
  <2>1. QED  BY <1>2, <1>3, SameThread DEF Exists
<1>5. CASE ~Exists(t)
  <2>1. phaseOf'[t] = phaseOf[t] /\ lastOf'[t] = lastOf[t]
    BY <1>1, <1>3, <1>5, SameThread DEF Exists
  <2>2. \A s \in Threads : phaseOf'[s] = phaseOf[s] /\ lastOf'[s] = lastOf[s]
    BY <1>4, <2>1
  <2>3. phaseOf' = phaseOf /\ lastOf' = lastOf
    BY <2>2 DEF phaseOf, lastOf
  <2>4. QED  BY <2>3 DEF Contract!vars
<1>6. CASE Exists(t)
  <2>1. /\ Exists(t)' /\ status'[t] # "working" /\ completion'[t] = NoTurn
        /\ outcome'[t] = o
    BY <1>1, <1>2, <1>3, <1>6 DEF TurnInv, RegistryInv, TypeOK, Exists
  <2>2. phaseOf'[t] = "quiet" /\ lastOf'[t] = o
    BY <1>1, <2>1, NextPhaseCases
  <2>3. /\ phaseOf' = [phaseOf EXCEPT ![t] = "quiet"]
        /\ lastOf' = [lastOf EXCEPT ![t] = o]
    BY <1>1, <1>4, <2>2, OneThreadMoves
  <2>4. CASE status[t] = "working"
    <3>1. phaseOf[t] = "working"
      BY <1>1, <1>6, <2>4, PhaseCases
    <3>2. QED
      BY <2>3, <3>1 DEF Contract!Finish, Contract!Move, Contract!End
  <2>5. CASE status[t] # "working"
    <3>1. completion[t] # NoTurn
      BY <1>6, ConstantsAssumption DEF Settles, TurnInv, LiveIsRegistered
    <3>2. phaseOf[t] = "stopping"
      BY <1>1, <1>6, <2>5, <3>1, PhaseCases
    <3>3. o # "ran"
      BY <1>2, <2>5 DEF Settles, TurnInv, RunningTurnIsShown
    <3>4. QED
      BY <2>3, <3>2, <3>3 DEF Contract!LetGo, Contract!Move, Contract!End
  <2>6. QED  BY <2>4, <2>5
<1>7. QED  BY <1>5, <1>6

\* A stop is the contract's Stop.
LEMMA StopStops ==
    ASSUME TurnInv, TurnInv', NEW t \in Threads, Stop(t)
    PROVE  Contract!Stop(t)
<1>1. /\ up /\ Exists(t) /\ IsWorking(t) /\ controller[t] # NoTurn
      /\ active' = [active EXCEPT ![t] = NoTurn]
      /\ outcome' = [outcome EXCEPT ![t] = "stopped"]
      /\ status' = [status EXCEPT ![t] = "stopped"]
      /\ UNCHANGED <<deleted, up, completion>>
  BY DEF Stop
<1>2. status[t] = "working"
  BY <1>1 DEF IsWorking, TurnInv, RegistryInv, ActiveIsRegistered
<1>3. completion[t] # NoTurn
  BY <1>1, ConstantsAssumption
     DEF TurnInv, RegistryInv, TypeOK, ControllerIsLive, LiveIsRegistered
<1>4. phaseOf[t] = "working"
  BY <1>1, <1>2, PhaseCases
<1>5. /\ Exists(t)' /\ up' /\ status'[t] = "stopped" /\ completion'[t] # NoTurn
      /\ outcome'[t] = "stopped"
  BY <1>1, <1>3 DEF Exists, TurnInv, RegistryInv, TypeOK
<1>6. phaseOf'[t] = "stopping" /\ lastOf'[t] = "stopped"
  BY <1>5, NextPhaseCases
<1>7. \A s \in Threads : s # t => phaseOf'[s] = phaseOf[s] /\ lastOf'[s] = lastOf[s]
  <2> SUFFICES ASSUME NEW s \in Threads, s # t
               PROVE  phaseOf'[s] = phaseOf[s] /\ lastOf'[s] = lastOf[s]
    OBVIOUS
  <2>1. QED  BY <1>1, SameThread DEF Exists
<1>8. /\ phaseOf' = [phaseOf EXCEPT ![t] = "stopping"]
      /\ lastOf' = [lastOf EXCEPT ![t] = "stopped"]
  BY <1>6, <1>7, OneThreadMoves
<1>9. QED  BY <1>4, <1>8 DEF Contract!Stop, Contract!Move, Contract!End

\* A deletion is the contract's Remove.
LEMMA RemoveRemoves ==
    ASSUME TurnInv, TurnInv', NEW S \in SUBSET Threads, Remove(S), up,
           \A t \in S : Exists(t) /\ ~IsWorking(t)
    PROVE  Contract!Remove(S)
<1>1. ASSUME NEW t \in S PROVE phaseOf[t] \in {"quiet", "stopping"}
  <2>1. status[t] # "working"
    BY DEF IsWorking
  <2>2. QED  BY <2>1, PhaseCases
<1>2. ASSUME NEW t \in S PROVE phaseOf'[t] = "gone" /\ lastOf'[t] = "none"
  <2>1. ~Exists(t)'
    BY DEF Remove, Exists
  <2>2. QED  BY <2>1, NextPhaseCases
<1>3. ASSUME NEW t \in Threads, t \notin S
      PROVE  phaseOf'[t] = phaseOf[t] /\ lastOf'[t] = lastOf[t]
  <2>1. /\ Exists(t)' <=> Exists(t)
        /\ status'[t] = status[t] /\ completion'[t] = completion[t]
        /\ UNCHANGED <<up, active, outcome>>
    BY <1>3 DEF Remove, Exists
  <2>2. QED  BY <2>1, SameThread
<1>4. /\ phaseOf' = [t \in Threads |-> IF t \in S THEN "gone" ELSE phaseOf[t]]
      /\ lastOf' = [t \in Threads |-> IF t \in S THEN "none" ELSE lastOf[t]]
  <2>1. phaseOf' = [t \in Threads |-> phaseOf'[t]] /\ lastOf' = [t \in Threads |-> lastOf'[t]]
    BY DEF phaseOf, lastOf
  <2>2. QED  BY <1>2, <1>3, <2>1
<1>5. QED  BY <1>1, <1>4 DEF Contract!Remove

\* A crash is the contract's Die: what is lost is what was working.
LEMMA CrashLoses ==
    ASSUME TurnInv, TurnInv', RowInv, Crash
    PROVE  Contract!Die
<1>1. up /\ ~up' /\ UNCHANGED <<deleted, active, outcome>>
  BY DEF Crash, rowVars, TurnInv, RegistryInv, TypeOK
<1>2. ASSUME NEW t \in Threads
      PROVE  /\ phaseOf'[t] = CASE phaseOf[t] = "working" -> "lost"
                                [] phaseOf[t] = "stopping" -> "quiet"
                                [] OTHER -> phaseOf[t]
             /\ lastOf'[t] = lastOf[t]
  <2>1. CASE ~Exists(t)
    BY <1>1, <2>1, PhaseCases, NextPhaseCases DEF Exists
  <2>2. CASE Exists(t) /\ status[t] = "working"
    <3>1. active[t] # NoTurn
      BY <2>2 DEF RowInv, WorkingHasRow
    <3>2. QED  BY <1>1, <2>2, <3>1, PhaseCases, NextPhaseCases DEF Exists
  <2>3. CASE Exists(t) /\ status[t] # "working"
    <3>1. active[t] = NoTurn
      BY <1>1, <2>3 DEF TurnInv, RegistryInv, ActiveIsRegistered
    <3>2. phaseOf[t] \in {"quiet", "stopping"} /\ phaseOf'[t] = "quiet"
      BY <1>1, <2>3, <3>1, PhaseCases, NextPhaseCases DEF Exists
    <3>3. lastOf'[t] = lastOf[t]
      BY <1>1, PhaseCases, NextPhaseCases DEF Exists
    <3>4. QED  BY <3>2, <3>3
  <2>4. QED  BY <2>1, <2>2, <2>3
<1>3. phaseOf' = [t \in Threads |-> phaseOf'[t]] /\ lastOf' = [t \in Threads |-> lastOf'[t]]
      /\ lastOf = [t \in Threads |-> lastOf[t]]
  BY DEF phaseOf, lastOf
<1>4. QED  BY <1>2, <1>3 DEF Contract!Die

\* A restart is the contract's Recover: the rows name exactly what was lost.
LEMMA RestartRecovers ==
    ASSUME TurnInv, TurnInv', RowInv, Restart
    PROVE  Contract!Recover
<1>1. ~up /\ up' /\ UNCHANGED <<deleted, status, completion>>
  BY DEF Restart, mapVars
<1>2. ASSUME NEW t \in Threads
      PROVE  /\ phaseOf'[t] = IF phaseOf[t] = "lost" THEN "quiet" ELSE phaseOf[t]
             /\ lastOf'[t] = IF phaseOf[t] = "lost" THEN "stopped" ELSE lastOf[t]
  <2>1. outcome'[t] = IF Exists(t) /\ active[t] # NoTurn THEN "stopped" ELSE outcome[t]
    BY RestartOutcomes
  <2>2. CASE ~Exists(t)
    BY <1>1, <2>2, PhaseCases, NextPhaseCases DEF Exists
  <2>3. CASE Exists(t)
    <3>1. status'[t] # "working" /\ completion'[t] = NoTurn
      BY <1>1 DEF TurnInv, RegistryInv, TypeOK, DownIsEmpty, CompletionIsLive
    <3>2. Exists(t)' /\ phaseOf'[t] = "quiet" /\ lastOf'[t] = outcome'[t]
      BY <1>1, <2>3, <3>1, NextPhaseCases DEF Exists
    <3>3. CASE active[t] # NoTurn
      BY <1>1, <2>1, <2>3, <3>2, <3>3, PhaseCases
    <3>4. CASE active[t] = NoTurn
      BY <1>1, <2>1, <2>3, <3>2, <3>4, PhaseCases
    <3>5. QED  BY <3>3, <3>4
  <2>4. QED  BY <2>2, <2>3
<1>3. phaseOf' = [t \in Threads |-> phaseOf'[t]] /\ lastOf' = [t \in Threads |-> lastOf'[t]]
  BY DEF phaseOf, lastOf
<1>4. QED  BY <1>2, <1>3 DEF Contract!Recover

\* Every step is a step of the contract or a stutter.
LEMMA ContractStep ==
    ASSUME NoRetries, TurnInv, TurnInv', RowInv, [Next]_vars
    PROVE  [Contract!Next]_(Contract!vars)
<1>1. ASSUME NEW u \in Turns, Send(u) PROVE Contract!Next
  <2>1. Launch(u) /\ thread[u] \in Threads
    BY <1>1 DEF Send, NoRetries, TurnInv, RegistryInv, TypeOK
  <2>2. Contract!Start(thread[u])
    BY <1>1, <2>1, LaunchStarts
  <2>3. QED  BY <2>1, <2>2 DEF Contract!Next
<1>2. ASSUME NEW u \in Turns, Retry(u) PROVE FALSE
  BY <1>2 DEF Retry, TurnInv, NobodyRetries
<1>3. ASSUME NEW u \in Turns, TurnStep(u) PROVE Contract!Next \/ UNCHANGED Contract!vars
  <2>1. CASE Advances(u)
    BY <2>1, ContractStutter DEF Advances, rowVars
  <2>2. CASE Settles(u)
    <3>1. thread[u] \in Threads
      BY DEF TurnInv, RegistryInv, TypeOK
    <3>2. \/ Contract!Finish(thread[u]) \/ Contract!LetGo(thread[u])
          \/ UNCHANGED Contract!vars
      BY <2>2, SettlementEnds
    <3>3. QED  BY <3>1, <3>2 DEF Contract!Next
  <2>3. QED  BY <1>3, <2>1, <2>2, TurnStepCases
<1>4. ASSUME NEW u \in Turns, WriteActivity(u) PROVE UNCHANGED Contract!vars
  BY <1>4, ContractStutter DEF WriteActivity, mapVars
<1>5. ASSUME NEW t \in Threads, Stop(t) PROVE Contract!Next
  BY <1>5, StopStops DEF Contract!Next
<1>6. ASSUME NEW t \in Threads, DeleteThread(t) PROVE Contract!Next
  <2>1. Contract!Remove({t})
    BY <1>6, RemoveRemoves DEF DeleteThread
  <2>2. QED  BY <2>1 DEF Contract!Next
<1>7. ASSUME NEW p \in Projects, DeleteProject(p) PROVE Contract!Next
  <2>1. Contract!Remove(ThreadsOf(p)) /\ ThreadsOf(p) \in SUBSET Threads
    BY <1>7, RemoveRemoves DEF DeleteProject, ThreadsOf
  <2>2. QED  BY <2>1 DEF Contract!Next
<1>8. ASSUME NEW t \in Threads,
             UpdateModel(t) \/ BeginAccessUpdate(t) \/ EndAccessUpdate(t)
      PROVE  UNCHANGED Contract!vars
  BY <1>8, ContractStutter DEF UpdateModel, BeginAccessUpdate, EndAccessUpdate, rowVars,
                               mapVars
<1>9. CASE AbortAll \/ UNCHANGED vars
  BY <1>9, ContractStutter DEF AbortAll, vars, rowVars, mapVars
<1>10. CASE Crash
  BY <1>10, CrashLoses DEF Contract!Next
<1>11. CASE Restart
  BY <1>11, RestartRecovers DEF Contract!Next
<1>12. QED
  BY <1>1, <1>2, <1>3, <1>4, <1>5, <1>6, <1>7, <1>8, <1>9, <1>10, <1>11 DEF Next

\* The initial states map to initial states of the contract.
LEMMA ContractInit == Init => Contract!Init
<1> SUFFICES ASSUME Init PROVE Contract!Init
  OBVIOUS
<1>1. \A t \in Threads : Exists(t) /\ up /\ ~IsWorking(t) /\ completion[t] = NoTurn
                         /\ outcome[t] = "none"
  BY DEF Init, Exists, IsWorking
<1>2. \A t \in Threads : phaseOf[t] = "quiet" /\ lastOf[t] = "none"
  BY <1>1 DEF phaseOf, lastOf
<1>3. phaseOf = [t \in Threads |-> phaseOf[t]] /\ lastOf = [t \in Threads |-> lastOf[t]]
  BY DEF phaseOf, lastOf
<1>4. QED  BY <1>2, <1>3 DEF Contract!Init

\* The turns with their controllers, promises, maps and rows do what
\* ThreadTurnContract says, whatever is stopped, deleted, aborted, lost or
\* recovered: the code that starts turns may rely on the contract alone.
THEOREM TurnsKeepTheContract ==
    ASSUME NoRetries, NoClockTies PROVE Spec => ContractSpec
<1>1. TurnInv /\ TurnInv' /\ RowInv /\ [Next]_vars => [Contract!Next]_(Contract!vars)
  BY ContractStep
<1>2. QED
  BY <1>1, ContractInit, TurnInvCorrect, RowInvCorrect, PTL
     DEF Spec, ContractSpec, Contract!Spec
=============================================================================
