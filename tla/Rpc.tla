-------------------------------- MODULE Rpc --------------------------------
(***************************************************************************)
(* A page and the backend over their connections.                          *)
(***************************************************************************)
EXTENDS RpcClient, RpcTransport

vars == <<wireVars, clientVars, transportVars>>

TypeOK == WireTypeOK /\ ClientTypeOK /\ TransportTypeOK

Init == WireInit /\ ClientInit /\ TransportInit

Next ==
    \/ ClientStep /\ UNCHANGED transportVars
    \/ TransportStep /\ UNCHANGED clientVars

Spec == Init /\ [][Next]_vars

\* Continuations run, responses that arrived are heard, a connection that one
\* end closed is closed on the other; frames are read and the timers of the
\* requests fire at the backend.  Nobody needs to call, abort, connect or answer,
\* and a handler may take for ever.
Fairness ==
    /\ \A c \in Calls : WF_vars(Wake(c) /\ UNCHANGED transportVars)
                        /\ WF_vars(RequestTimesOut(c) /\ UNCHANGED clientVars)
    /\ \A s \in Sockets :
          /\ WF_vars(MessageEvent(s) /\ UNCHANGED transportVars)
          /\ WF_vars(client[s] = "closed" /\ CloseEvent(s) /\ UNCHANGED transportVars)
          /\ WF_vars(ReadStep(s) /\ UNCHANGED clientVars)
          /\ WF_vars(NoticeClose(s) /\ UNCHANGED clientVars)

FairSpec == Spec /\ Fairness

(***************************************************************************)
(* Properties                                                              *)
(***************************************************************************)
\* The counter that guards the backend's capacity counts exactly the requests
\* pending, none of them of a connection that is gone, and each permit of the page
\* belongs to one pending call, with no call queueing while one is free:
\* cancelling, timing out, failing sends and closing never subtract one twice or
\* not at all.
CountsAreExact ==
    /\ pendingRequestCount = Cardinality({x \in Sockets \X Calls : x[2] \in pendingRequests[x[1]]})
    /\ \A s \in Sockets : client[s] # "open" => pendingRequests[s] = {}
    /\ activeCount = Cardinality(In("pending"))
    /\ queue # <<>> => activeCount = MaxInFlight
    /\ ToSet(queue) = In("queued") /\ Len(queue) = Cardinality(In("queued"))

\* Where a call is on a connection.
Places(c) ==
    LET Count(seq, x) == Cardinality({i \in DOMAIN seq : seq[i] = x})
        s == socketOf[c]
    IN Count(up[s], Request(c)) + (IF c \in pendingRequests[s] THEN 1 ELSE 0)
         + Cardinality({i \in DOMAIN down[s] : down[s][i].call = c})

\* A pending call whose connection is the page's own and stands is in exactly one
\* place: its request under way, at the backend, or its response under way.
LiveCallsAreTracked ==
    \A c \in In("pending") :
        socketOf[c] = socket /\ Open(socket) /\ client[socket] = "open" => Places(c) = 1

\* A connection that another attempt of the page has replaced while it was open.
Superseded(s) == readyState[s] = "open" /\ socket # s

\* What the page gave up, the backend gives up: no request stays pending there
\* after its call was aborted or failed, even one without a timeout, unless its
\* connection was superseded.
AbandonedRequestsEnd ==
    \A c \in Calls, s \in Sockets :
        phase[c] \in {"aborted", "failed"} ~> (c \notin pendingRequests[s] \/ Superseded(s))

Frozen == In("waiting") # {} /\ ready = "resolved" /\ ~Open(socket)

\* A timed call on the page's connection is settled, by an answer or because the
\* connection is lost, unless the page takes another one meanwhile, or froze.
LiveCallsSettle ==
    \A c \in Timed, s \in Sockets :
        (phase[c] = "pending" /\ socketOf[c] = s /\ socket = s /\ Open(s))
            ~> (phase[c] \in Settled \/ socket \notin {s, None} \/ Frozen)

\* "Fail and clear every in-flight request when transport is dropped": nothing
\* waits for an answer on a connection that is gone.
PendingIsOnLiveSocket ==
    \A c \in In("pending") : socketOf[c] = socket

\* "new requests await reconnection": no caller asks for the connection over and
\* over while the page is kept from opening it.
NeverFrozen == ~Frozen
=============================================================================
