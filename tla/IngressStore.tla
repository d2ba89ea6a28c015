---------------------------- MODULE IngressStore ----------------------------
(***************************************************************************)
(* The tables of plugin/ingress-store.ts for one plugin source: the record *)
(* of each external message, the bindings of external users, one link code *)
(* and the cursor of the source.                                           *)
(*                                                                         *)
(* An external message is its position in the stream of the source, and a  *)
(* cursor is the position of the last message it covers.  A link message   *)
(* carries the link code.  The text of an "empty" message is one that      *)
(* validateInput refuses (no text, or too much of it).  Audit events and   *)
(* the retention sweep (a day and more) are left out.                      *)
(***************************************************************************)
EXTENDS Naturals, Sequences, FiniteSets

CONSTANTS
    Inbox,              \* the stream: records with a user and a kind
    UnverifiedLimit     \* PLUGIN_INGRESS_UNVERIFIED_WINDOW_LIMIT

Kinds == {"link", "text", "empty"}

Messages == DOMAIN Inbox
Users == {Inbox[m].user : m \in Messages}
Sender(m) == Inbox[m].user
Kind(m) == Inbox[m].kind

ASSUME IngressAssumption ==
    /\ UnverifiedLimit \in Nat
    /\ Inbox \in Seq([user : Users, kind : Kinds])

VARIABLES
    status,     \* the record of each message, "none" when there is none
    limited,    \* messages that only left a rate limit marker
    binding,    \* the binding of each external user
    code,       \* the link code
    consumer,   \* the users who consumed it
    cursor      \* the stored cursor of the source, 0 when there is none

storeVars == <<status, limited, binding, code, consumer, cursor>>
linkVars == <<binding, code, consumer>>

StoreTypeOK ==
    /\ status \in [Messages -> {"none", "unverified", "verified", "processed", "failed"}]
    /\ limited \subseteq Messages
    /\ binding \in [Users -> {"none", "enabled", "disabled"}]
    /\ code \in {"none", "active", "expired", "consumed"}
    /\ consumer \subseteq Users
    /\ cursor \in Messages \cup {0}

StoreInit ==
    /\ status = [m \in Messages |-> "none"]
    /\ limited = {}
    /\ binding = [u \in Users |-> "none"]
    /\ code = "none"
    /\ consumer = {}
    /\ cursor = 0

-----------------------------------------------------------------------------
\* persistPluginIngressMessage: the INSERT keeps the record it conflicts with.
Persist(m, s) == [status EXCEPT ![m] = IF @ = "none" THEN s ELSE @]

\* persistPluginIngressMessage of an unverified message.  Past the limit only
\* the marker is written, unless the older records have left the window.
PersistUnverified(m) ==
    \/ /\ status' = Persist(m, "unverified")
       /\ UNCHANGED limited
    \/ /\ Cardinality({x \in Messages : Sender(x) = Sender(m) /\ status[x] = "unverified"})
            >= UnverifiedLimit
       /\ limited' = limited \cup {m}
       /\ UNCHANGED status

\* consumePluginIngressLinkCodeForExternalUser, when it succeeds.
Consume(u) ==
    /\ code = "active"
    /\ code' = "consumed"
    /\ consumer' = consumer \cup {u}
    /\ binding' = [binding EXCEPT ![u] = "enabled"]

\* createPluginIngressLinkCode
CreateLinkCode ==
    /\ code = "none"
    /\ code' = "active"
    /\ UNCHANGED <<status, limited, binding, consumer, cursor>>

\* PLUGIN_INGRESS_LINK_CODE_TTL_MS passes.
ExpireLinkCode ==
    /\ code = "active"
    /\ code' = "expired"
    /\ UNCHANGED <<status, limited, binding, consumer, cursor>>

\* setPluginIngressExternalBindingEnabled and deletePluginIngressExternalBinding
ChangeBinding(u) ==
    /\ binding[u] # "none"
    /\ \E b \in {"none", "enabled", "disabled"} \ {binding[u]} :
          binding' = [binding EXCEPT ![u] = b]
    /\ UNCHANGED <<status, limited, code, consumer, cursor>>
=============================================================================
