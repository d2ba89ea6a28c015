------------------------------ MODULE RpcWire ------------------------------
(***************************************************************************)
(* The WebSocket connections between a page of the main view and the       *)
(* backend: what each end thinks of a connection and the frames under way. *)
(* RpcClient and RpcTransport are its two ends; Rpc puts them together.    *)
(***************************************************************************)
EXTENDS Naturals, Sequences

CONSTANTS
    Calls,        \* RPC calls of the page; a call's id is used once
    MaxSockets,   \* connections the page opens
    None

ASSUME WireAssumption ==
    /\ MaxSockets \in Nat \ {0}
    /\ None \notin Calls \cup (1..MaxSockets)

VARIABLES
    readyState,   \* the page's end; "ticket": the upgrade ticket is being asked for
    client,       \* the backend's end: whether the socket is registered
    up,           \* frames to the backend
    down          \* frames to the page

wireVars == <<readyState, client, up, down>>

Sockets == 1..MaxSockets
ReadyStates == {"unused", "ticket", "connecting", "open", "closing", "closed"}
ClientStates == {"unused", "open", "closed"}

Requests == [type : {"request", "cancel"}, call : Calls]
Request(c) == [type |-> "request", call |-> c]
Cancel(c) == [type |-> "cancel", call |-> c]

\* Every response other than a result or an authentication failure is an error.
Kinds == {"result", "error", "auth"}
Responses == [call : Calls, kind : Kinds]

WireTypeOK ==
    /\ readyState \in [Sockets -> ReadyStates]
    /\ client \in [Sockets -> ClientStates]
    /\ up \in [Sockets -> Seq(Requests)]
    /\ down \in [Sockets -> Seq(Responses)]

WireInit ==
    /\ readyState = [s \in Sockets |-> "unused"]
    /\ client = [s \in Sockets |-> "unused"]
    /\ up = [s \in Sockets |-> <<>>]
    /\ down = [s \in Sockets |-> <<>>]
=============================================================================
