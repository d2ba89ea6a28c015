-------------------------- MODULE MCThreadActivity --------------------------
(* ThreadActivity with the constants of its configuration. *)
EXTENDS ThreadActivity
=============================================================================
