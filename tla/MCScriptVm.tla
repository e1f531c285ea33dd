----------------------------- MODULE MCScriptVm -----------------------------
(* Constants for TLC *)
EXTENDS ScriptVm
CONSTANTS d1, d2, d3
MCDevices == {d1, d2, d3}
MCCallbacks == {d1, d2}
=============================================================================
