-------------------------- MODULE MCLayoutGestures --------------------------
(* The layout with its three default panels and the gestures that change   *)
(* it, for TLC: enough to have panes and tabs to move and swap, containers *)
(* in containers, and a menu or a drag that could outlive its pane.        *)
EXTENDS LayoutGestures

CONSTANTS Scopes, Repl

ThePanels == {Source, Scopes, Repl}
TheDefaults == [d \in Docks |-> CASE d = "left" -> {Scopes}
                                  [] d = "center" -> {Source}
                                  [] d = "bottom" -> {Repl}]
=============================================================================
