----------------------------- MODULE RpcClient -----------------------------
(***************************************************************************)
(* The page's end: the connection management and sendRequest of            *)
(* mainview/index.ts, and its RpcRequestQueue (rpc-request-queue.ts).      *)
(*                                                                         *)
(* A page runs one task at a time, and before the next one every promise   *)
(* continuation that is due (Wake).  A caller that waits for the           *)
(* connection and finds it ready without an open socket asks again in the  *)
(* same breath: then no task ever runs again.                              *)
(***************************************************************************)
EXTENDS RpcWire, FiniteSets, SequencesExt

CONSTANTS
    MaxInFlight,   \* MAX_IN_FLIGHT_RPC_REQUESTS
    Priority,      \* RPC_PRIORITY_RANK of each call
    PageFaults     \* which of AllPageFaults this instance has

AllPageFaults == {"closing", "overlap"}

ASSUME ClientAssumption ==
    /\ MaxInFlight \in Nat \ {0}
    /\ Priority \in [Calls -> Nat]
    /\ PageFaults \subseteq AllPageFaults

VARIABLES
    phase,          \* how far sendRequest is with each call
    socketOf,       \* requestSocket: the socket that was open when it asked
    queue,          \* rpcRequestQueue, in order of arrival
    activeCount,
    enabled,        \* rpcTransportEnabled
    socket,
    attempt,        \* rpcSocketConnectPromise: the connection being opened
    initial,        \* the attempts made by enableRpcTransport
    ready,          \* connectionReady
    reconnectTimer

clientVars == <<phase, socketOf, queue, activeCount, enabled, socket, attempt, initial,
                ready, reconnectTimer>>
connectionVars == <<enabled, socket, attempt, initial, ready, reconnectTimer>>

\* A "stranded" caller waits for a connectionReady that was replaced before it
\* was settled.
Settled == {"answered", "failed", "aborted"}
Phases == {"idle", "waiting", "stranded", "queued", "pending"} \cup Settled

ClientTypeOK ==
    /\ phase \in [Calls -> Phases]
    /\ socketOf \in [Calls -> Sockets \cup {None}]
    /\ queue \in Seq(Calls)
    /\ activeCount \in 0..MaxInFlight
    /\ enabled \in BOOLEAN /\ reconnectTimer \in BOOLEAN
    /\ socket \in Sockets \cup {None} /\ attempt \in Sockets \cup {None}
    /\ initial \subseteq Sockets
    /\ ready \in {"unsettled", "resolved", "rejected"}

ClientInit ==
    /\ phase = [c \in Calls |-> "idle"]
    /\ socketOf = [c \in Calls |-> None]
    /\ queue = <<>>
    /\ activeCount = 0
    /\ enabled = FALSE /\ reconnectTimer = FALSE
    /\ socket = None /\ attempt = None /\ initial = {}
    /\ ready = "unsettled"

In(p) == {c \in Calls : phase[c] = p}
Open(s) == s # None /\ readyState[s] = "open"

\* No continuation is due: the next task may run.
Idle == ready = "unsettled" \/ In("waiting") = {}

(***************************************************************************)
(* RpcRequestQueue                                                         *)
(***************************************************************************)
\* #nextQueueIndex: by priority, then by arrival.
Precedes(i, j) ==
    LET p == Priority[queue[i]]
        q == Priority[queue[j]]
    IN p > q \/ (p = q /\ i < j)

\* What is left of the queue when the given calls are taken out, in its order.
Without(calls) ==
    LET kept == {i \in DOMAIN queue : queue[i] \notin calls}
    IN [n \in 1..Cardinality(kept) |->
           queue[CHOOSE i \in kept : Cardinality({j \in kept : j < i}) = n - 1]]

\* #drain: the calls that n freed permits go to.
Granted(n) ==
    {queue[i] : i \in {j \in DOMAIN queue :
                         Cardinality({k \in DOMAIN queue : Precedes(k, j)}) < n}}

\* A request goes out on the socket its caller found open, whatever became of
\* that socket; what is sent on one that is no longer open is lost.
Sent(frames, calls, states) ==
    [s \in Sockets |->
        IF states[s] = "open"
        THEN frames[s] \o SetToSeq({Request(c) : c \in {d \in calls : socketOf[d] = s}})
        ELSE frames[s]]

\* finalize of the given pending calls: their permits are released and the
\* queue drained, and the calls that get a permit register and send.
Finalize(calls, outcome, phases, frames, states) ==
    LET next == Granted(Cardinality(calls)) IN
    /\ phase' = [c \in Calls |-> CASE c \in calls -> outcome
                                   [] c \in next  -> "pending"
                                   [] OTHER       -> phases[c]]
    /\ queue' = Without(next)
    /\ activeCount' = activeCount - Cardinality(calls) + Cardinality(next)
    /\ up' = Sent(frames, next, states)

(***************************************************************************)
(* sendRequest                                                             *)
(***************************************************************************)
\* waitForConnection
SendRequest(c) ==
    /\ Idle
    /\ phase[c] = "idle"
    /\ phase' = [phase EXCEPT ![c] = IF enabled THEN "waiting" ELSE "failed"]
    /\ UNCHANGED <<wireVars, socketOf, queue, activeCount, connectionVars>>

\* The connection is ready and its socket open: acquire, and with a permit
\* register and send.
Acquire(c) ==
    /\ phase[c] = "waiting" /\ ready = "resolved" /\ Open(socket)
    /\ socketOf' = [socketOf EXCEPT ![c] = socket]
    /\ IF activeCount < MaxInFlight
       THEN /\ phase' = [phase EXCEPT ![c] = "pending"]
            /\ activeCount' = activeCount + 1
            /\ up' = [up EXCEPT ![socket] = Append(@, Request(c))]
            /\ UNCHANGED queue
       ELSE /\ phase' = [phase EXCEPT ![c] = "queued"]
            /\ queue' = Append(queue, c)
            /\ UNCHANGED <<activeCount, up>>
    /\ UNCHANGED <<readyState, client, down, connectionVars>>

NotReady(c) ==
    /\ phase[c] = "waiting" /\ ready = "rejected"
    /\ phase' = [phase EXCEPT ![c] = "failed"]
    /\ UNCHANGED <<wireVars, socketOf, queue, activeCount, connectionVars>>

Wake(c) == Acquire(c) \/ NotReady(c)

\* The caller's signal, or the timeout of buildRequestSignal.
AbortUnsent(c) ==
    /\ Idle
    /\ phase[c] \in {"waiting", "stranded", "queued"}
    /\ phase' = [phase EXCEPT ![c] = "aborted"]
    /\ queue' = Without({c})
    /\ UNCHANGED <<wireVars, socketOf, activeCount, connectionVars>>

\* Variant: the backend is not told.
AbortPendingQuietly(c) ==
    /\ Idle
    /\ phase[c] = "pending"
    /\ Finalize({c}, "aborted", phase, up, readyState)
    /\ UNCHANGED <<readyState, client, down, socketOf, connectionVars>>

AbortPending(c) ==
    LET s == socketOf[c] IN
    /\ Idle
    /\ phase[c] = "pending"
    /\ Finalize({c}, "aborted", phase,
                IF Open(s) THEN [up EXCEPT ![s] = Append(@, Cancel(c))] ELSE up, readyState)
    /\ UNCHANGED <<readyState, client, down, socketOf, connectionVars>>

(***************************************************************************)
(* Opening and closing                                                     *)
(***************************************************************************)
\* connectRpcSocket, which does nothing while an attempt or a socket is there;
\* the next attempt is the next socket.
Connected == socket # None /\ readyState[socket] \in {"connecting", "open"}
Unused == {s \in Sockets : readyState[s] = "unused"}
NextSocket == CHOOSE s \in Unused : \A r \in Unused : s <= r

Connect ==
    /\ Unused # {}
    /\ readyState' = [readyState EXCEPT ![NextSocket] = "ticket"]
    /\ attempt' = NextSocket

\* resetConnectionReady: whoever waits for the old promise, waits for nothing.
Stranded == [c \in Calls |-> IF phase[c] = "waiting" THEN "stranded" ELSE phase[c]]

EnableRpcTransport ==
    /\ Idle
    /\ enabled' = TRUE
    /\ IF Connected \/ attempt # None
       THEN UNCHANGED <<phase, ready, readyState, attempt, initial, reconnectTimer>>
       ELSE /\ phase' = Stranded
            /\ ready' = "unsettled"
            /\ Connect
            /\ initial' = initial \cup {NextSocket}
            /\ reconnectTimer' = FALSE
    /\ UNCHANGED <<client, up, down, socketOf, queue, activeCount, socket>>

ReconnectTimerFires ==
    /\ Idle
    /\ reconnectTimer
    /\ reconnectTimer' = FALSE
    /\ IF Connected \/ attempt # None THEN UNCHANGED <<readyState, attempt>> ELSE Connect
    /\ UNCHANGED <<client, up, down, phase, socketOf, queue, activeCount, enabled, socket,
                   initial, ready>>

\* disableRpcTransport, with what becomes of the calls that wait.
Disable(phases, states) ==
    LET closed == IF socket = None THEN states ELSE [states EXCEPT ![socket] = "closing"] IN
    /\ Finalize(In("pending"), "failed", phases, up, closed)
    /\ readyState' = closed
    /\ enabled' = FALSE /\ reconnectTimer' = FALSE
    /\ socket' = None /\ attempt' = None
    /\ ready' = "unsettled"
    /\ UNCHANGED <<socketOf, initial>>

\* handleRpcAuthFailure: they are told, and the transport is disabled.
AuthFails(states) ==
    Disable([c \in Calls |-> IF phase[c] = "waiting" THEN "failed" ELSE phase[c]], states)

\* The shell gives up on a connection that takes too long, or the user leaves.
DisableRpcTransport ==
    /\ Idle
    /\ enabled
    /\ "overlap" \in PageFaults \/ attempt = None
    /\ Disable(Stranded, readyState)
    /\ UNCHANGED <<client, down>>

(***************************************************************************)
(* Tasks of an attempt and of its socket                                   *)
(***************************************************************************)
TicketIssued(s) ==
    /\ Idle
    /\ readyState[s] = "ticket"
    /\ readyState' = [readyState EXCEPT ![s] = "connecting"]
    /\ socket' = s
    /\ attempt' = None
    /\ UNCHANGED <<client, up, down, phase, socketOf, queue, activeCount, enabled, initial,
                   ready, reconnectTimer>>

TicketFails(s) ==
    /\ Idle
    /\ readyState[s] = "ticket"
    /\ readyState' = [readyState EXCEPT ![s] = "closed"]
    /\ attempt' = None
    /\ IF s \in initial
       THEN /\ ready' = IF ready = "unsettled" THEN "rejected" ELSE ready
            /\ UNCHANGED reconnectTimer
       ELSE /\ reconnectTimer' = enabled
            /\ UNCHANGED ready
    /\ UNCHANGED <<client, up, down, phase, socketOf, queue, activeCount, enabled, socket, initial>>

TicketRefused(s) ==
    /\ Idle
    /\ readyState[s] = "ticket"
    /\ AuthFails([readyState EXCEPT ![s] = "closed"])
    /\ UNCHANGED <<client, down>>

\* The listeners act on the current socket only.
OpenEvent(s) ==
    /\ Idle
    /\ readyState[s] = "connecting" /\ client[s] # "unused"
    /\ readyState' = [readyState EXCEPT ![s] = "open"]
    /\ ready' = IF socket = s /\ enabled /\ ready = "unsettled" THEN "resolved" ELSE ready
    /\ UNCHANGED <<client, up, down, phase, socketOf, queue, activeCount, enabled, socket,
                   attempt, initial, reconnectTimer>>

MessageEvent(s) ==
    LET response == Head(down[s])
        c == response.call
    IN
    /\ Idle
    /\ readyState[s] = "open"
    /\ down[s] # <<>>
    /\ down' = [down EXCEPT ![s] = Tail(@)]
    /\ CASE socket # s \/ phase[c] # "pending" ->
              UNCHANGED <<readyState, up, clientVars>>
         [] socket = s /\ phase[c] = "pending" /\ response.kind = "auth" ->
              AuthFails(readyState)
         [] socket = s /\ phase[c] = "pending" /\ response.kind # "auth" ->
              /\ Finalize({c}, IF response.kind = "result" THEN "answered" ELSE "failed",
                          phase, up, readyState)
              /\ UNCHANGED <<readyState, socketOf, connectionVars>>
    /\ UNCHANGED client

\* The backend's Close frame arrives before the connection is closed.
ClosingTask(s) ==
    /\ Idle
    /\ "closing" \in PageFaults
    /\ readyState[s] = "open" /\ client[s] = "closed" /\ down[s] = <<>>
    /\ readyState' = [readyState EXCEPT ![s] = "closing"]
    /\ UNCHANGED <<client, up, down, clientVars>>

\* The connection is closed, by either end or because it is lost.
CloseEvent(s) ==
    LET states == [readyState EXCEPT ![s] = "closed"] IN
    /\ Idle
    /\ readyState[s] \in {"connecting", "open", "closing"}
    /\ readyState' = states
    /\ down' = [down EXCEPT ![s] = <<>>]
    /\ IF socket = s
       THEN /\ Finalize(In("pending"), "failed", phase, up, states)
            /\ socket' = None
            /\ ready' = IF enabled /\ ready = "resolved" THEN "unsettled" ELSE ready
            /\ reconnectTimer' = (reconnectTimer \/ enabled)
            /\ UNCHANGED <<socketOf, enabled, attempt, initial>>
       ELSE UNCHANGED <<up, clientVars>>
    /\ UNCHANGED client

ClientStep ==
    \/ \E c \in Calls : SendRequest(c) \/ Wake(c) \/ AbortUnsent(c) \/ AbortPending(c)
    \/ EnableRpcTransport \/ DisableRpcTransport \/ ReconnectTimerFires
    \/ \E s \in Sockets :
          \/ TicketIssued(s) \/ TicketFails(s) \/ TicketRefused(s)
          \/ OpenEvent(s) \/ MessageEvent(s) \/ ClosingTask(s) \/ CloseEvent(s)
=============================================================================
