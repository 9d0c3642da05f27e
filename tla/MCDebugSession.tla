--------------------------- MODULE MCDebugSession ---------------------------
(* A debug session with two threads and two stops for each launch, for TLC. *)
EXTENDS DebugSession
=============================================================================
