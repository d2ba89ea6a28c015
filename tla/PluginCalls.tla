---------------------------- MODULE PluginCalls ----------------------------
(***************************************************************************)
(* Host calls into plugin sidecars (plugin/sidecar-manager.ts) and the     *)
(* sidecar's side of them (plugin/sidecar-main.ts, sidecar-worker.ts).     *)
(*                                                                         *)
(* A call is registered in the session's inFlight map with a timer, its    *)
(* frame goes through the session's bounded write queue into the sidecar's *)
(* stdin; the sidecar handles its frames strictly one after the other and  *)
(* answers on stdout.  Callers withdraw, timers fire, writes break, the    *)
(* process crashes or is stopped at any point of that way.  A new session  *)
(* of the plugin is opened when none is listed; the old process may still  *)
(* be alive.                                                               *)
(***************************************************************************)
EXTENDS Naturals, Sequences, FiniteSets

CONSTANTS
    Calls,            \* request ids
    MaxSessions,      \* sessions opened
    MaxInFlight,      \* PLUGIN_SIDECAR_MAX_IN_FLIGHT_REQUESTS
    MaxQueuedWrites,  \* PLUGIN_SIDECAR_MAX_QUEUED_WRITES
    None

ASSUME CallsAssumption ==
    /\ MaxSessions \in Nat \ {0}
    /\ MaxInFlight \in Nat \ {0} /\ MaxQueuedWrites \in Nat \ {0}
    /\ None \notin Calls \cup (1..MaxSessions)

VARIABLES
    call,      \* what became of each call
    owner,     \* the session it was registered with
    session,   \* PluginSidecarSession
    sidecar,   \* the process behind it
    listed     \* the one in the sessions map, ready and not stopping

vars == <<call, owner, session, sidecar, listed>>

Sessions == 1..MaxSessions

\* "wrong_id" is wrong_response_id; "failed" stands for the codes of a session
\* that is missing, full or lost.
Outcomes == {"idle", "pending", "answered", "cancelled", "timeout", "failed", "wrong_id"}

\* ends: what the host does once the frame is written, or once that failed.
Frames == [type : {"request", "cancel", "shutdown"}, call : Calls \cup {None}, ends : BOOLEAN]
Request(c) == [type |-> "request", call |-> c, ends |-> FALSE]
Cancel(c, ends) == [type |-> "cancel", call |-> c, ends |-> ends]
Shutdown == [type |-> "shutdown", call |-> None, ends |-> TRUE]

\* life: "dead" until the exit is noticed; killed: SIGTERM was sent.
Processes == [life : {"none", "alive", "dead", "gone"}, killed : BOOLEAN, closed : BOOLEAN,
              inbox : Seq(Frames), running : Calls \cup {None}, answers : Seq(Calls)]

TypeOK ==
    /\ call \in [Calls -> Outcomes]
    /\ owner \in [Calls -> Sessions \cup {None}]
    /\ session \in [Sessions -> [stopping : BOOLEAN, writes : Seq(Frames)]]
    /\ sidecar \in [Sessions -> Processes]
    /\ listed \in Sessions \cup {None}
    /\ \A s \in Sessions : Len(session[s].writes) <= MaxQueuedWrites

Init ==
    /\ call = [c \in Calls |-> "idle"]
    /\ owner = [c \in Calls |-> None]
    /\ session = [s \in Sessions |-> [stopping |-> FALSE, writes |-> <<>>]]
    /\ sidecar = [s \in Sessions |-> [life |-> "none", killed |-> FALSE, closed |-> FALSE,
                                      inbox |-> <<>>, running |-> None, answers |-> <<>>]]
    /\ listed = None

InFlight(s) == {c \in Calls : call[c] = "pending" /\ owner[c] = s}

\* failInFlightOperations
Fail(s, outcome) == [c \in Calls |-> IF c \in InFlight(s) THEN outcome ELSE call[c]]

Room(s) == Len(session[s].writes) < MaxQueuedWrites
Enqueue(s, frame) == session' = [session EXCEPT ![s].writes = Append(@, frame)]

(***************************************************************************)
(* The host                                                                *)
(***************************************************************************)
\* startPlugin, up to sidecar.ready, when the plugin has no session.
Open ==
    /\ listed = None
    /\ \E s \in Sessions :
          /\ sidecar[s].life = "none"
          /\ \A r \in 1..(s - 1) : sidecar[r].life # "none"
          /\ sidecar' = [sidecar EXCEPT ![s].life = "alive"]
          /\ listed' = s
    /\ UNCHANGED <<call, owner, session>>

\* invokeSidecarRequest without a ready session, or at the cap.
Refuse(c) ==
    /\ call[c] = "idle"
    /\ listed = None \/ (listed # None /\ Cardinality(InFlight(listed)) >= MaxInFlight)
    /\ call' = [call EXCEPT ![c] = "failed"]
    /\ UNCHANGED <<owner, session, sidecar, listed>>

\* invokeSidecarRequest: registered first, then written.
Invoke(c) ==
    /\ call[c] = "idle"
    /\ listed # None
    /\ Cardinality(InFlight(listed)) < MaxInFlight
    /\ Room(listed)
    /\ call' = [call EXCEPT ![c] = "pending"]
    /\ owner' = [owner EXCEPT ![c] = listed]
    /\ Enqueue(listed, Request(c))
    /\ UNCHANGED <<sidecar, listed>>

\* ... and writeSessionFrame rejects because the write queue is full:
\* handleSessionWriteFailure ends the session.
Overrun(c) ==
    /\ call[c] = "idle"
    /\ listed # None
    /\ Cardinality(InFlight(listed)) < MaxInFlight
    /\ ~Room(listed)
    /\ owner' = [owner EXCEPT ![c] = listed]
    /\ session' = [session EXCEPT ![listed].stopping = TRUE]
    /\ call' = [Fail(listed, "failed") EXCEPT ![c] = "failed"]
    /\ sidecar' = [sidecar EXCEPT ![listed].killed = TRUE]
    /\ listed' = None

\* Variant: a request that was not written is dropped without a word.
WriteEndsSilently(s, delivered, ok) ==
    LET frame == Head(session[s].writes) IN
    /\ session[s].writes # <<>>
    /\ delivered => sidecar[s].life = "alive" /\ ~sidecar[s].closed
    /\ ok => delivered
    /\ session' = [session EXCEPT ![s].writes = Tail(@)]
    /\ sidecar' = [sidecar EXCEPT ![s].inbox = IF delivered THEN Append(@, frame) ELSE @,
                                  ![s].killed = @ \/ frame.ends]
    /\ UNCHANGED <<call, owner, listed>>

\* Variant: the process is not killed after a shutdown frame it did not get.
WriteEndsTrusting(s, delivered, ok) ==
    LET frame == Head(session[s].writes)
        ending == ~session[s].stopping /\ (frame.ends \/ (frame.type = "request" /\ ~ok))
    IN
    /\ session[s].writes # <<>>
    /\ delivered => sidecar[s].life = "alive" /\ ~sidecar[s].closed
    /\ ok => delivered
    /\ session' = [session EXCEPT ![s] = [stopping |-> @.stopping \/ ending, writes |-> Tail(@.writes)]]
    /\ call' = IF ending THEN Fail(s, IF frame.ends THEN "timeout" ELSE "failed") ELSE call
    /\ listed' = IF ending /\ listed = s THEN None ELSE listed
    /\ sidecar' = [sidecar EXCEPT ![s].inbox = IF delivered THEN Append(@, frame) ELSE @,
                                  ![s].killed = @ \/ ending \/ (ok /\ frame.type = "shutdown")]
    /\ UNCHANGED owner

\* The write at the head of the queue is over: delivered, failed or timed out.
\* A request that was not written ends the session (handleSessionWriteFailure),
\* a cancellation that a timer sent ends it either way
\* (terminateSessionForRequestTimeout), stopSession kills after its shutdown frame.
WriteEnds(s, delivered, ok) ==
    LET frame == Head(session[s].writes)
        rest == Tail(session[s].writes)
        received == IF delivered THEN [sidecar EXCEPT ![s].inbox = Append(@, frame)] ELSE sidecar
    IN
    /\ session[s].writes # <<>>
    /\ delivered => sidecar[s].life = "alive" /\ ~sidecar[s].closed
    /\ ok => delivered
    /\ IF ~session[s].stopping /\ (frame.ends \/ (frame.type = "request" /\ ~ok))
       THEN /\ session' = [session EXCEPT ![s] = [stopping |-> TRUE, writes |-> rest]]
            /\ call' = Fail(s, IF frame.ends THEN "timeout" ELSE "failed")
            /\ listed' = IF listed = s THEN None ELSE listed
            /\ sidecar' = [received EXCEPT ![s].killed = TRUE]
       ELSE /\ session' = [session EXCEPT ![s].writes = rest]
            /\ sidecar' = IF frame.type = "shutdown" THEN [received EXCEPT ![s].killed = TRUE]
                          ELSE received
            /\ UNCHANGED <<call, listed>>
    /\ UNCHANGED owner

\* The caller's signal aborts: rejected at once, the sidecar is told.
CallerAborts(c) ==
    /\ call[c] = "pending"
    /\ call' = [call EXCEPT ![c] = "cancelled"]
    /\ IF Room(owner[c]) THEN Enqueue(owner[c], Cancel(c, FALSE)) ELSE UNCHANGED session
    /\ UNCHANGED <<owner, sidecar, listed>>

\* The call's timer: rejected at once, the sidecar is told, and once it was told
\* (or could not be) the session is terminated.
TimerFires(c) ==
    LET s == owner[c] IN
    /\ call[c] = "pending"
    /\ IF Room(s)
       THEN /\ call' = [call EXCEPT ![c] = "timeout"]
            /\ Enqueue(s, Cancel(c, TRUE))
            /\ UNCHANGED <<sidecar, listed>>
       ELSE /\ call' = Fail(s, "timeout")
            /\ session' = [session EXCEPT ![s].stopping = TRUE]
            /\ sidecar' = [sidecar EXCEPT ![s].killed = TRUE]
            /\ listed' = IF listed = s THEN None ELSE listed
    /\ UNCHANGED owner

\* stopSession: disable, retry, new settings, shutdown.
StopSession ==
    LET s == listed IN
    /\ listed # None
    /\ call' = Fail(s, "failed")
    /\ listed' = None
    /\ session' = [session EXCEPT ![s] =
          [stopping |-> TRUE, writes |-> IF Room(s) THEN Append(@.writes, Shutdown) ELSE @.writes]]
    /\ sidecar' = IF Room(s) THEN sidecar ELSE [sidecar EXCEPT ![s].killed = TRUE]
    /\ UNCHANGED owner

\* handleSidecarEnvelope: an answer settles its call; one that matches no call in
\* flight fails all of them (handleUnknownCorrelationId).
HostReads(s) ==
    LET c == Head(sidecar[s].answers) IN
    /\ sidecar[s].answers # <<>>
    /\ sidecar' = [sidecar EXCEPT ![s].answers = Tail(@)]
    /\ call' = IF c \in InFlight(s) THEN [call EXCEPT ![c] = "answered"] ELSE Fail(s, "wrong_id")
    /\ UNCHANGED <<owner, session, listed>>

\* The exit handler; whether the plugin is restarted is Open's business.  Writes
\* still queued will fail and find nothing left to end.
ExitNoticed(s) ==
    /\ sidecar[s].life = "dead"
    /\ sidecar' = [sidecar EXCEPT ![s].life = "gone", ![s].answers = <<>>]
    /\ session' = [session EXCEPT ![s].writes = <<>>]
    /\ call' = Fail(s, "failed")
    /\ listed' = IF listed = s THEN None ELSE listed
    /\ UNCHANGED owner

(***************************************************************************)
(* The sidecar                                                             *)
(***************************************************************************)
\* dispatchFrame: requests, cancellations and the shutdown share one queue.  A
\* cancellation is therefore seen when the request it aims at has been answered:
\* handleHostCancel finds no controller to abort and only leaves the id behind.
TakeFrame(s) ==
    LET frame == Head(sidecar[s].inbox) IN
    /\ sidecar[s].life = "alive" /\ ~sidecar[s].closed
    /\ sidecar[s].running = None
    /\ sidecar[s].inbox # <<>>
    /\ sidecar' = [sidecar EXCEPT
          ![s].inbox = IF frame.type = "shutdown" THEN <<>> ELSE Tail(@),
          ![s].closed = (frame.type = "shutdown"),
          ![s].running = IF frame.type = "request" THEN frame.call ELSE None]
    /\ UNCHANGED <<call, owner, session, listed>>

\* withActiveHostRequest: a result or an error.
Answer(s) ==
    LET c == sidecar[s].running IN
    /\ sidecar[s].life = "alive" /\ c # None
    /\ sidecar' = [sidecar EXCEPT ![s].running = None, ![s].answers = Append(@, c)]
    /\ UNCHANGED <<call, owner, session, listed>>

\* The process ends: killed, after a shutdown frame, or by itself.
Exits(s) ==
    /\ sidecar[s].life = "alive"
    /\ sidecar' = [sidecar EXCEPT ![s].life = "dead", ![s].inbox = <<>>, ![s].running = None]
    /\ UNCHANGED <<call, owner, session, listed>>

(***************************************************************************)
(* Specification                                                           *)
(***************************************************************************)
HostStep ==
    \/ Open \/ StopSession
    \/ \E c \in Calls :
          Refuse(c) \/ Invoke(c) \/ Overrun(c) \/ CallerAborts(c) \/ TimerFires(c)
    \/ \E s \in Sessions : HostReads(s) \/ ExitNoticed(s)

WriteStep(s) == \E delivered, ok \in BOOLEAN : WriteEnds(s, delivered, ok)
SidecarStep(s) == TakeFrame(s) \/ Answer(s)

Next ==
    \/ HostStep
    \/ \E s \in Sessions : WriteStep(s) \/ SidecarStep(s) \/ Exits(s)

Spec == Init /\ [][Next]_vars

\* Every write ends (sidecarWriteTimeoutMs), a killed process ends and its exit
\* is noticed.  A sidecar need not answer, nor a caller withdraw.
Fairness ==
    /\ \A s \in Sessions : WF_vars(WriteStep(s)) /\ WF_vars(ExitNoticed(s))
                           /\ WF_vars(sidecar[s].killed /\ Exits(s))

FairSpec == Spec /\ Fairness

(***************************************************************************)
(* Properties                                                              *)
(***************************************************************************)
\* Where the request of a call is: in the write queue, in the sidecar's queue,
\* running, or answered and not yet read.
Places(c) ==
    LET Count(seq, frame) == Cardinality({i \in 1..Len(seq) : seq[i] = frame})
        In(s) == Count(session[s].writes, Request(c)) + Count(sidecar[s].inbox, Request(c))
                   + (IF sidecar[s].running = c THEN 1 ELSE 0)
                   + Count(sidecar[s].answers, c)
    IN IF owner[c] = None THEN 0 ELSE In(owner[c])

\* A pending call is on its way in exactly one place, or its process is dead and
\* the exit handler about to fail it; its session is the listed one.  No call is
\* left waiting for an answer nobody will give, and none is sent twice.
PendingIsTracked ==
    \A c \in Calls :
        /\ Places(c) <= 1
        /\ call[c] = "pending" =>
              /\ listed = owner[c] /\ ~session[owner[c]].stopping
              /\ Places(c) = 1 \/ sidecar[owner[c]].life = "dead"

\* "Timed-out operations attempt sidecar cancellation and then terminate the
\* session", "kill below still guarantees teardown": the process of a session that
\* is stopped or that owes a timed-out call ends, whatever becomes of the frames
\* that announce it and although both may happen at once.
DoomedSessionsEnd ==
    \A s \in Sessions :
        (session[s].stopping \/ \E c \in Calls : owner[c] = s /\ call[c] = "timeout")
            ~> sidecar[s].life = "gone"

\* A call fails for a reason of its own or of its sidecar, never because another
\* call was withdrawn.
OwnFailuresOnly ==
    [][\A c \in Calls : call[c] = "pending" => call'[c] # "wrong_id"]_vars
=============================================================================
