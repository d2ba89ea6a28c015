----------------------------- MODULE MCIngress -----------------------------
(***************************************************************************)
(* A stream for Ingress.                                                   *)
(***************************************************************************)
EXTENDS Ingress

Item(user, kind) == [user |-> user, kind |-> kind]

\* A user links and writes, and something comes that no record can hold.
LinkTalkRefused == <<Item("ann", "link"), Item("ann", "text"), Item("bob", "empty")>>
=============================================================================
