------------------------------ MODULE MCParts ------------------------------
(* The parts of the program, each on a small instance. *)
EXTENDS Parts

(* An rr session, with three of the commands. *)
ThreeCommands == {"continue", "finish", "next --reverse"}

(* The tabs of the panes: one in each, those two can be added. *)
OneTabEach == <<<<"variables">>, <<"source">>, <<"repl">>>>

(* Two memory panels, and one among listings. *)
TwoPanels == <<"memory", "memory">>
WithListings == <<"memory", "disassembly", "runtime">>

(* The answers an adapter gives: no label, or two of which one is a letter. *)
TwoReplies == {<<>>, <<<<"a", "b">>, <<"c">>>>}

(* kMockLines *)
MockLines == <<1, 3, 4, 8, 9, 12, 13, 17, 22>>

(* What the proofs suppose of the constants. *)
ASSUME PartsAssumption == PartsAreSound
=============================================================================
