---------------------------- MODULE RpcTransport ----------------------------
(***************************************************************************)
(* The backend's end: createRpcTransport (rpc-transport.ts).               *)
(*                                                                         *)
(* Parsing a frame and encoding a response await promises that are already *)
(* resolved, so a frame is handled, and a handler's end answered, in one   *)
(* step; what takes time is the handler.  Cancelling, timing out and       *)
(* closing end the transport's wait for a handler; that the handler itself *)
(* may go on is nothing the transport sees.                                *)
(***************************************************************************)
EXTENDS RpcWire, FiniteSets

CONSTANTS
    MaxPendingPerClient,   \* MAX_PENDING_RPC_REQUESTS_PER_CLIENT
    MaxPending,            \* MAX_PENDING_RPC_REQUESTS
    Timed                  \* the calls that carry a timeoutMs

ASSUME TransportAssumption ==
    /\ MaxPendingPerClient \in Nat \ {0} /\ MaxPending \in Nat \ {0}
    /\ Timed \subseteq Calls

VARIABLES
    pendingRequests,       \* pendingRequestsByClient
    pendingRequestCount

transportVars == <<pendingRequests, pendingRequestCount>>

TransportTypeOK ==
    /\ pendingRequests \in [Sockets -> SUBSET Calls]
    /\ pendingRequestCount \in Nat

TransportInit ==
    /\ pendingRequests = [s \in Sockets |-> {}]
    /\ pendingRequestCount = 0

\* websocket.open
Accept(s) ==
    /\ readyState[s] = "connecting" /\ client[s] = "unused"
    /\ client' = [client EXCEPT ![s] = "open"]
    /\ UNCHANGED <<readyState, up, down, transportVars>>

\* close and abortAllPendingRequests; frames not yet read are lost.  The finally
\* blocks of the requests find their map empty and subtract nothing more.
CloseClient(s) ==
    /\ client' = [client EXCEPT ![s] = "closed"]
    /\ pendingRequests' = [pendingRequests EXCEPT ![s] = {}]
    /\ pendingRequestCount' = pendingRequestCount - Cardinality(pendingRequests[s])
    /\ up' = [up EXCEPT ![s] = <<>>]
    /\ UNCHANGED down

\* The finally block of executeRegisteredRpcRequest.
CleanUp(s, c) ==
    /\ pendingRequests' = [pendingRequests EXCEPT ![s] = @ \ {c}]
    /\ pendingRequestCount' = pendingRequestCount - 1

\* sendWebSocketMessage went through.
Respond(s, c, kind) == down' = [down EXCEPT ![s] = Append(@, [call |-> c, kind |-> kind])]

(***************************************************************************)
(* Frames of the page (handleMessageAsync)                                 *)
(***************************************************************************)
Reads(s, frame) ==
    /\ client[s] = "open"
    /\ up[s] # <<>> /\ Head(up[s]) = frame
    /\ UNCHANGED readyState

Taken(s) == up' = [up EXCEPT ![s] = Tail(@)]

HasCapacity(s) ==
    /\ Cardinality(pendingRequests[s]) < MaxPendingPerClient
    /\ pendingRequestCount < MaxPending

Register(s, c) ==
    /\ Reads(s, Request(c))
    /\ HasCapacity(s)
    /\ pendingRequests' = [pendingRequests EXCEPT ![s] = @ \cup {c}]
    /\ pendingRequestCount' = pendingRequestCount + 1
    /\ Taken(s)
    /\ UNCHANGED <<client, down>>

\* Variant: a request that is refused gets no answer.
TurnAwayQuietly(s, c) ==
    /\ Reads(s, Request(c))
    /\ Taken(s)
    /\ UNCHANGED <<client, down, transportVars>>

\* assertRateLimit, which may refuse any request, or assertCapacity; the answer
\* may fail to be sent.
TurnAway(s, c) ==
    /\ Reads(s, Request(c))
    /\ \/ /\ Respond(s, c, "error")
          /\ Taken(s)
          /\ UNCHANGED <<client, transportVars>>
       \/ CloseClient(s)

\* abortPendingRequest: the handler's wait ends without a response.
CancelRequest(s, c) ==
    /\ Reads(s, Cancel(c))
    /\ IF c \in pendingRequests[s] THEN CleanUp(s, c)
       ELSE UNCHANGED <<pendingRequests, pendingRequestCount>>
    /\ Taken(s)
    /\ UNCHANGED <<client, down>>

(***************************************************************************)
(* Handlers (executeRegisteredRpcRequest)                                  *)
(***************************************************************************)
\* Variant: after a failed send the finally block subtracts the request again.
CompletesAfterClose(s, c, kind) ==
    \/ /\ Respond(s, c, kind)
       /\ CleanUp(s, c)
       /\ UNCHANGED <<client, up>>
    \/ /\ client' = [client EXCEPT ![s] = "closed"]
       /\ pendingRequests' = [pendingRequests EXCEPT ![s] = {}]
       /\ pendingRequestCount' = pendingRequestCount - Cardinality(pendingRequests[s]) - 1
       /\ up' = [up EXCEPT ![s] = <<>>]
       /\ UNCHANGED down

\* A response, or a send that failed and closed the socket.
Completes(s, c, kind) ==
    \/ /\ Respond(s, c, kind)
       /\ CleanUp(s, c)
       /\ UNCHANGED <<client, up>>
    \/ CloseClient(s)

HandlerEnds(c) ==
    /\ \E s \in Sockets, kind \in Kinds : c \in pendingRequests[s] /\ Completes(s, c, kind)
    /\ UNCHANGED readyState

\* Variant: a request that timed out is only removed.
RequestTimesOutQuietly(c) ==
    /\ c \in Timed
    /\ \E s \in Sockets : c \in pendingRequests[s] /\ CleanUp(s, c)
    /\ UNCHANGED <<readyState, client, up, down>>

\* The timer of buildRequestSignal.
RequestTimesOut(c) ==
    /\ c \in Timed
    /\ \E s \in Sockets : c \in pendingRequests[s] /\ Completes(s, c, "error")
    /\ UNCHANGED readyState

(***************************************************************************)
(* Connections that end                                                    *)
(***************************************************************************)
\* closeSession, closeUser, a session that is no longer valid, a message too
\* large or one too many, a push that was not sent.
EvictClient(s) ==
    /\ client[s] = "open"
    /\ CloseClient(s)
    /\ UNCHANGED readyState

\* websocket.close
NoticeClose(s) ==
    /\ client[s] = "open"
    /\ readyState[s] \in {"closing", "closed"}
    /\ CloseClient(s)
    /\ UNCHANGED readyState

TransportStep ==
    \/ \E s \in Sockets : Accept(s) \/ EvictClient(s) \/ NoticeClose(s)
    \/ \E s \in Sockets, c \in Calls : Register(s, c) \/ TurnAway(s, c) \/ CancelRequest(s, c)
    \/ \E c \in Calls : HandlerEnds(c) \/ RequestTimesOut(c)

ReadStep(s) == \E c \in Calls : Register(s, c) \/ TurnAway(s, c) \/ CancelRequest(s, c)
=============================================================================
