--------------------------- MODULE MCPluginCalls ---------------------------
(* PluginCalls with the constants of its configuration. *)
EXTENDS PluginCalls
=============================================================================
