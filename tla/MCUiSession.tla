---------------------------- MODULE MCUiSession ----------------------------
(* The session in the UI, the program stopping twice at the most, for TLC. *)
EXTENDS UiSession
=============================================================================
