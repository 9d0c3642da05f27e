----------------------------- MODULE MockSession -----------------------------
(* The session that stands in for a debugger (mock_session_backend.cpp): it  *)
(* moves over a fixed list of lines of a program that it never runs.  It     *)
(* remembers breakpoints and exception filters but never looks at them, so   *)
(* they are not modelled.                                                    *)
EXTENDS Naturals, Sequences, FiniteSets

CONSTANTS
    Lines,        \* kMockLines
    DemoLine,     \* where the program that demonstrates step-in starts
    Programs,     \* the programs, "demo" being that one
    JumpLines,    \* the lines of the source with code: mock_line_is_jump_target
    Values,       \* values given to the variable
    MaxLaunches   \* bound on the launches and restarts

VARIABLES
    program,      \* program_path_
    launched,     \* launched_
    state,        \* session_state_
    stopped,      \* stopped_
    line,         \* current_line_
    step,         \* step_index_
    value,        \* what variable_overrides_ has for the variable, or "own"
    console,      \* console_pending_
    launches

vars == <<program, launched, state, stopped, line, step, value, console, launches>>
rest == <<program, launched, value, console, launches>>

(* mock_line_index *)
Places(l) == {n \in DOMAIN Lines : Lines[n] = l}
LineIndex(l) == IF Places(l) = {} THEN 1 ELSE CHOOSE n \in Places(l) : TRUE

Ended == state \in {"exited", "disconnected"}

----------------------------------------------------------------------------
(* The life of the session. *)

Begin(p) ==
    /\ line' = (IF p = "demo" THEN DemoLine ELSE 1)
    /\ step' = (IF p = "demo" THEN LineIndex(DemoLine) ELSE 1)
    /\ stopped' = TRUE /\ state' = "stopped"
    /\ launches < MaxLaunches /\ launches' = launches + 1

(* The variables keep the values of the session before. *)
Launch(p) ==
    /\ Begin(p) /\ program' = p /\ launched' = TRUE /\ console' = 1
    /\ UNCHANGED value

Shutdown ==
    /\ launched' = FALSE /\ state' = "disconnected"
    /\ UNCHANGED <<program, stopped, line, step, value, console, launches>>

(* send_command for a session that has ended. *)
Relaunch == launched /\ Ended /\ Launch(program)

EndIn(s) ==
    /\ launched /\ state' = s /\ stopped' = TRUE
    /\ UNCHANGED <<line, step, rest>>
Terminate == EndIn("exited")
Disconnect == EndIn("disconnected")

----------------------------------------------------------------------------
(* send_command for a session that goes on. *)

Live == launched /\ ~Ended

StopAt(n) == step' = n /\ line' = Lines[n] /\ stopped' = TRUE /\ state' = "stopped"

(* continue and play_pause are the same: while it runs they stop it. *)
PlayPause ==
    /\ Live
    /\ IF stopped
       THEN step' = Len(Lines) /\ line' = Lines[Len(Lines)] /\ stopped' = FALSE /\ state' = "running"
       ELSE stopped' = TRUE /\ state' = "stopped" /\ UNCHANGED <<line, step>>
    /\ UNCHANGED rest

Pause == Live /\ stopped' = TRUE /\ state' = "stopped" /\ UNCHANGED <<line, step, rest>>

(* step_over, and the other steps forward. *)
StepOver ==
    /\ Live
    /\ IF step < Len(Lines) THEN StopAt(step + 1)
       ELSE state' = "exited" /\ stopped' = TRUE /\ UNCHANGED <<line, step>>
    /\ UNCHANGED rest

(* The steps back are refused at the first line. *)
StepBack == Live /\ step > 1 /\ StopAt(step - 1) /\ UNCHANGED rest
ReverseContinueKeepingLine ==
    Live /\ step > 1 /\ step' = 1 /\ stopped' = TRUE /\ state' = "stopped" /\ UNCHANGED <<line, rest>>
ReverseContinue == Live /\ step > 1 /\ StopAt(1) /\ UNCHANGED rest

(* restart keeps the console and the values. *)
Restart == Live /\ Begin(program) /\ UNCHANGED <<program, launched, value, console>>

(* goto, to the target of a list that was fetched at this stop or before. *)
Goto(l) ==
    /\ Live /\ stopped /\ line' = l /\ step' = LineIndex(l)
    /\ stopped' = TRUE /\ state' = "stopped" /\ UNCHANGED rest

----------------------------------------------------------------------------
(* The requests: what they answer, "refused" for an error.  What is asked of *)
(* a session that has ended is answered like at a stop.                      *)

AtStop(answer) == IF launched /\ stopped THEN answer ELSE "refused"
Launched(answer) == IF launched THEN answer ELSE "refused"

StepInTargets == AtStop("targets")
GotoTargets(l) == AtStop(IF l = line \/ l \notin JumpLines THEN "none" ELSE "targets")
Completions == AtStop("labels")
Evaluate == Launched("result")
Breakpoints == Launched("done")
Listing == Launched("data")
Variables == Launched(value)

SetVariable(v) ==
    /\ AtStop("set") = "set" /\ value' = v
    /\ UNCHANGED <<program, launched, state, stopped, line, step, console, launches>>

(* drain_console_json: what the launch wrote. *)
Drain ==
    /\ console # 0 /\ console' = 0
    /\ UNCHANGED <<program, launched, state, stopped, line, step, value, launches>>

(* sync_snapshot_json *)
Snapshot ==
    IF ~launched THEN "none"
    ELSE IF Ended THEN state
    ELSE IF stopped THEN "stopped" ELSE "running"

----------------------------------------------------------------------------
Init ==
    /\ program = "plain" /\ launched = FALSE /\ state = "disconnected" /\ stopped = TRUE
    /\ line = 1 /\ step = 1 /\ value = "own" /\ console = 0 /\ launches = 0

Command == PlayPause \/ Pause \/ StepOver \/ StepBack \/ ReverseContinue \/ Restart
End == Shutdown \/ Terminate \/ Disconnect \/ Relaunch

Next ==
    \/ Command \/ End \/ Drain
    \/ \E p \in Programs : Launch(p)
    \/ \E l \in JumpLines : Goto(l)
    \/ \E v \in Values : SetVariable(v)

Spec == Init /\ [][Next]_vars

----------------------------------------------------------------------------
(* Correctness. *)
TypeOK ==
    /\ program \in Programs \cup {"plain"} /\ launched \in BOOLEAN /\ stopped \in BOOLEAN
    /\ state \in {"disconnected", "stopped", "running", "exited"}
    /\ step \in DOMAIN Lines /\ line \in Nat \ {0}
    /\ value \in Values \cup {"own"} /\ console \in 0..1 /\ launches \in 0..MaxLaunches

(* Wherever it goes, the place a step goes on from is that of the line it    *)
(* shows, a line off the list counting as the first; the snapshot tells the  *)
(* state it is in; while the program runs it answers no request that needs a *)
(* stop, and before the launch none at all.                                  *)
Steady ==
    /\ step = LineIndex(line)
    /\ launched => Snapshot = state
    /\ ~launched \/ state = "running" => {StepInTargets, Completions} = {"refused"}
    /\ ~launched \/ state = "running" => \A l \in JumpLines : GotoTargets(l) = "refused"
    /\ ~launched => {Evaluate, Breakpoints, Listing, Variables} = {"refused"}
=============================================================================
