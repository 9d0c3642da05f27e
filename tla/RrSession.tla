------------------------------ MODULE RrSession ------------------------------
(* A session on a recording of rr: RrDebugSession (session/rr_session.rs)    *)
(* drives gdb over its machine interface (mi/client.rs), and gdb the replay  *)
(* server that rr/launcher.rs starts.  The session is synchronous: it writes *)
(* a line with a token and reads gdb's lines until the answer is there, for  *)
(* an execution command until a *stopped record is.  What makes it hard is   *)
(* that gdb is not: it prints notes of its own, and it goes on with a        *)
(* command the session stopped waiting for.                                  *)
EXTENDS Integers, Sequences

CONSTANTS
    Commands,      \* the execution commands given, a subset of Execs
    LastLine,      \* the program has the places 1..LastLine, then it has exited
    MaxTokens,     \* bound on the lines written to gdb
    MaxLaunches,   \* bound on the launches and restarts
    MaxNotes       \* bound on gdb's notes

VARIABLES
    life,          \* "none", "launching", "relaunching" (restart) or "open"
    state,         \* SessionState: "Stopped", "Exited" or "Disconnected"
    reason,        \* the reason of the stop, as map_stop_reason names it
    doing,         \* the MI command in flight, "idle" between two calls
    token,         \* MiClient.token
    snapshot,      \* the place the last snapshot shows, 0 before there is one
    initial,       \* a first snapshot is kept for snapshot_for_sync
    leaked,        \* replay servers left running by a launch that failed
    launches,
    args,          \* the recording was made with the arguments of the launch
    pipe,          \* gdb's lines not yet read
    inbox,         \* the lines gdb has not yet read
    gdb,           \* "none", "ready", "gone" or the command it is running
    place,         \* where the replay is: 0 before main, LastLine + 1 after the exit
    late,          \* the session once gave up waiting for a stop
    notes          \* how many notes gdb printed

session == <<life, state, reason, doing, token, snapshot, initial, leaked, launches, args>>
target == <<pipe, inbox, gdb, place, late, notes>>
vars == <<session, target>>

Places == 0..LastLine + 1
Forward == {"continue", "next", "step", "finish"}
Reverse == {"next --reverse", "step --reverse", "continue --reverse"}
Execs == Forward \cup Reverse
Launching == {"connect", "sysroot", "break main", "run", "run on"}
Refreshing == {"frames", "locals"}
Others == {"evaluate", "list breakpoints", "delete", "insert"}
Waits == Launching \cup {"launch frames", "launch locals"} \cup Refreshing \cup Execs \cup Others

(* The commands that wait for *stopped; the others wait for their token. *)
AwaitsStop(command) == command \in Execs \cup {"run", "run on"}

Line(kind, tok, what) == [kind |-> kind, token |-> tok, what |-> what]

----------------------------------------------------------------------------
(* Writing a line and waiting: MiClient::command and exec_until_stopped. *)

Send(command) ==
    /\ gdb # "gone" /\ token < MaxTokens
    /\ token' = token + 1
    /\ inbox' = Append(inbox, [token |-> token + 1, command |-> command])
    /\ doing' = command

(* rr record, the replay server, gdb, and the first line to it. *)
Begin(how, withArgs) ==
    /\ launches < MaxLaunches
    /\ launches' = launches + 1
    /\ life' = how
    /\ args' = withArgs
    /\ gdb' = "ready" /\ pipe' = <<>> /\ place' = 0 /\ late' = FALSE
    /\ token' = 1 /\ inbox' = <<[token |-> 1, command |-> "connect"]>>
    /\ doing' = "connect"
    /\ UNCHANGED <<state, reason, snapshot, initial, leaked, notes>>

Launch == life = "none" /\ Begin("launching", TRUE)

(* The same program is recorded again, without its arguments, after gdb and  *)
(* the replay server of the session are gone.                                *)
Restart == life = "open" /\ doing = "idle" /\ ~initial /\ Begin("relaunching", FALSE)

(* A launch that fails leaves the replay server it started running; one of a *)
(* restart leaves the session open, with its state and without its gdb.      *)
LaunchFails ==
    /\ life' = IF life = "relaunching" THEN "open" ELSE "none"
    /\ gdb' = IF life = "relaunching" THEN "gone" ELSE "none"
    /\ leaked' = leaked + 1
    /\ doing' = "idle" /\ pipe' = <<>> /\ inbox' = <<>>
    /\ UNCHANGED <<state, reason, token, snapshot, initial, launches, args, place, late, notes>>

(* shutdown: gdb is told to exit and killed, then the replay server is. *)
Shutdown ==
    /\ life = "open" /\ doing = "idle"
    /\ life' = "none" /\ gdb' = "none"
    /\ pipe' = <<>> /\ inbox' = <<>>
    /\ UNCHANGED <<state, reason, doing, token, snapshot, initial, leaked, launches, args, place, late, notes>>

(* The calls of an open session; the worker takes the first snapshot before  *)
(* it passes a command on.                                                   *)
Ready == life = "open" /\ doing = "idle"

Execute ==
    /\ Ready /\ ~initial
    /\ \E op \in Commands : Send(op)
    /\ UNCHANGED <<life, state, reason, snapshot, initial, leaked, launches, args, pipe, gdb, place, late, notes>>

Evaluate ==
    /\ Ready /\ ~initial /\ Send("evaluate")
    /\ UNCHANGED <<life, state, reason, snapshot, initial, leaked, launches, args, pipe, gdb, place, late, notes>>

(* set_source_breakpoints lists what is there, deletes it, inserts anew. *)
SetBreakpoints ==
    /\ Ready /\ ~initial /\ Send("list breakpoints")
    /\ UNCHANGED <<life, state, reason, snapshot, initial, leaked, launches, args, pipe, gdb, place, late, notes>>

(* terminate and disconnect change the state and leave gdb as it is. *)
End(to) ==
    /\ Ready /\ ~initial
    /\ state' = to
    /\ UNCHANGED <<life, reason, doing, token, snapshot, initial, leaked, launches, args, target>>

Sync ==
    /\ Ready
    /\ \/ /\ initial /\ initial' = FALSE
          /\ UNCHANGED <<snapshot, token, doing, inbox>>
       \/ /\ ~initial /\ state \in {"Exited", "Disconnected"}    \* an empty snapshot
          /\ snapshot' = 0
          /\ UNCHANGED <<initial, token, doing, inbox>>
       \/ /\ ~initial /\ state = "Stopped"
          /\ Send("frames")
          /\ UNCHANGED <<initial, snapshot>>
    /\ UNCHANGED <<life, state, reason, leaked, launches, args, pipe, gdb, place, late, notes>>

----------------------------------------------------------------------------
(* Reading gdb's lines. *)

Told(reasonOfGdb) ==
    CASE reasonOfGdb = "breakpoint-hit" -> "breakpoint"
      [] reasonOfGdb = "signal-received" -> "entry"
      [] reasonOfGdb \in {"end-stepping-range", "function-finished"} -> "step"
      [] OTHER -> "exited_normally"

(* apply_stop: every *stopped record makes the state Stopped, that of the    *)
(* exit of the program too.                                                  *)
ApplyStop(line) == state' = "Stopped" /\ reason' = Told(line.what)

(* What follows an answer that satisfies the call in flight. *)
NextLaunchStep ==
    CASE doing = "connect" -> "sysroot"
      [] doing = "sysroot" -> "break main"
      [] doing = "break main" -> "run"
      [] doing \in {"run", "run on"} -> "launch frames"
      [] doing = "launch frames" -> "launch locals"

Proceeds(line) ==
    \/ /\ doing \in {"connect", "sysroot"}                    \* ^error goes unnoticed
       /\ Send(NextLaunchStep)
       /\ UNCHANGED <<life, state, reason, snapshot, initial>>
    \/ /\ doing = "break main" /\ line.kind = "done"
       /\ Send(NextLaunchStep)
       /\ UNCHANGED <<life, state, reason, snapshot, initial>>
    \/ /\ doing \in {"run", "run on"}
       /\ ApplyStop(line)
       /\ Send(IF line.what = "breakpoint-hit" THEN NextLaunchStep ELSE "run on")
       /\ UNCHANGED <<life, snapshot, initial>>
    \/ /\ doing = "launch frames"
       /\ snapshot' = IF line.kind = "done" THEN line.what ELSE 0
       /\ Send(NextLaunchStep)
       /\ UNCHANGED <<life, state, reason, initial>>
    \/ /\ doing = "launch locals" /\ line.kind = "done"
       /\ life' = "open" /\ initial' = TRUE /\ doing' = "idle"
       /\ UNCHANGED <<state, reason, snapshot, token, inbox>>
    \/ /\ doing \in Execs
       /\ ApplyStop(line) /\ doing' = "idle"
       /\ UNCHANGED <<life, snapshot, initial, token, inbox>>
    \/ /\ doing = "frames"
       /\ snapshot' = IF line.kind = "done" THEN line.what ELSE 0
       /\ IF line.kind = "done" THEN Send("locals") ELSE doing' = "idle" /\ UNCHANGED <<token, inbox>>
       /\ UNCHANGED <<life, state, reason, initial>>
    \/ /\ doing = "list breakpoints"
       /\ \E next \in {"delete", "insert"} : Send(next)       \* neither answer is looked at
       /\ UNCHANGED <<life, state, reason, snapshot, initial>>
    \/ /\ doing = "delete" /\ Send("insert")
       /\ UNCHANGED <<life, state, reason, snapshot, initial>>
    \/ /\ doing \in {"list breakpoints", "delete", "evaluate", "insert", "locals"}
       /\ doing' = "idle"
       /\ UNCHANGED <<life, state, reason, snapshot, initial, token, inbox>>

(* Bug: an execution command is answered as soon as the program runs.        *)
AnswersAtRunning(line) ==
    IF doing \in Execs THEN line.kind \in {"running", "stopped"}
    ELSE IF AwaitsStop(doing) THEN line.kind = "stopped"
    ELSE line.kind \in {"done", "error"} /\ line.token = token

(* The line that ends the wait of the call in flight. *)
Answers(line) ==
    IF AwaitsStop(doing) THEN line.kind = "stopped" ELSE line.kind \in {"done", "error"} /\ line.token = token

(* An error ends the wait for a stop, and fails a launch that needs the      *)
(* answer.                                                                   *)
Refuses(line) ==
    \/ AwaitsStop(doing) /\ line.kind = "error" /\ line.token = token
    \/ line.kind = "error" /\ line.token = token /\ doing \in {"break main", "launch locals"}

ReadLine ==
    /\ doing # "idle" /\ pipe # <<>>
    /\ LET line == Head(pipe) IN
       IF Refuses(line)
       THEN IF life # "open"
            THEN LaunchFails
            ELSE /\ doing' = "idle" /\ pipe' = Tail(pipe)
                 /\ UNCHANGED <<life, state, reason, token, snapshot, initial, leaked, launches, args, inbox, gdb, place, late, notes>>
       ELSE IF Answers(line)
       THEN /\ Proceeds(line)
            /\ pipe' = Tail(pipe)
            /\ UNCHANGED <<leaked, launches, args, gdb, place, late, notes>>
       ELSE /\ pipe' = Tail(pipe)                             \* any other line is skipped
            /\ UNCHANGED <<session, inbox, gdb, place, late, notes>>

(* The deadline is looked at between two lines: a wait times out when a line *)
(* that does not answer it comes after the deadline.                         *)
TimeOut ==
    /\ doing # "idle" /\ pipe # <<>>
    /\ ~Answers(Head(pipe)) /\ ~Refuses(Head(pipe))
    /\ IF life # "open" THEN LaunchFails
       ELSE /\ doing' = "idle"
            /\ pipe' = Tail(pipe)
            /\ late' = (late \/ doing \in Execs)
            /\ UNCHANGED <<life, state, reason, token, snapshot, initial, leaked, launches, args, inbox, gdb, place, notes>>

(* gdb's pipe is closed, for reading or for the next line of the same call:  *)
(* the call fails and the session keeps its state.                           *)
Closed ==
    /\ doing # "idle" /\ gdb = "gone"
    /\ pipe = <<>> \/ doing \notin Execs
    /\ IF life # "open" THEN LaunchFails
       ELSE /\ doing' = "idle"
            /\ UNCHANGED <<life, state, reason, token, snapshot, initial, leaked, launches, args, target>>

----------------------------------------------------------------------------
(* gdb on the replay server. *)

Moved(command) ==
    IF command = "run" THEN 1
    ELSE IF command \in Reverse THEN IF place > 1 THEN place - 1 ELSE place
    ELSE IF place <= LastLine THEN place + 1 ELSE place

StopReasons(command, to) ==
    IF to = LastLine + 1 THEN {"exited-normally"}
    ELSE IF command = "run" THEN {"breakpoint-hit", "signal-received"}
    ELSE IF command \in {"run on", "continue", "continue --reverse"} THEN {"breakpoint-hit"}
    ELSE IF command = "finish" THEN {"function-finished"} ELSE {"end-stepping-range"}

GdbStarts ==
    /\ gdb = "ready" /\ inbox # <<>> /\ AwaitsStop(Head(inbox).command)
    /\ place <= LastLine
    /\ gdb' = Head(inbox).command
    /\ pipe' = Append(pipe, Line("running", Head(inbox).token, ""))
    /\ inbox' = Tail(inbox)
    /\ UNCHANGED <<session, place, late, notes>>

GdbStops ==
    /\ gdb \in Execs \cup {"run", "run on"}
    /\ place' = Moved(gdb)
    /\ \E r \in StopReasons(gdb, place') : pipe' = Append(pipe, Line("stopped", 0, r))
    /\ gdb' = "ready"
    /\ UNCHANGED <<session, inbox, late, notes>>

(* It refuses what it cannot do while the program runs or after its exit. *)
GdbAnswers ==
    /\ gdb \notin {"none", "gone"} /\ inbox # <<>>
    /\ \E kind \in {"done", "error"} :
         /\ kind = "done" => gdb = "ready" /\ place <= LastLine /\ ~AwaitsStop(Head(inbox).command)
         /\ pipe' = Append(pipe, Line(kind, Head(inbox).token, place))
    /\ inbox' = Tail(inbox)
    /\ UNCHANGED <<session, gdb, place, late, notes>>

GdbNotes ==
    /\ gdb \notin {"none", "gone"} /\ notes < MaxNotes
    /\ notes' = notes + 1
    /\ pipe' = Append(pipe, Line("note", 0, ""))
    /\ UNCHANGED <<session, inbox, gdb, place, late>>

GdbDies ==
    /\ gdb \notin {"none", "gone"}
    /\ gdb' = "gone" /\ inbox' = <<>>
    /\ UNCHANGED <<session, pipe, place, late, notes>>

Init ==
    /\ life = "none" /\ state = "Stopped" /\ reason = "breakpoint" /\ doing = "idle"
    /\ token = 0 /\ snapshot = 0 /\ initial = FALSE /\ leaked = 0 /\ launches = 0 /\ args = TRUE
    /\ pipe = <<>> /\ inbox = <<>> /\ gdb = "none" /\ place = 0 /\ late = FALSE /\ notes = 0

Next ==
    \/ Launch \/ Restart \/ Shutdown
    \/ Execute \/ Evaluate \/ SetBreakpoints \/ Sync
    \/ End("Exited") \/ End("Disconnected")
    \/ ReadLine \/ TimeOut \/ Closed
    \/ GdbStarts \/ GdbStops \/ GdbAnswers \/ GdbNotes \/ GdbDies

(* The commands are execution commands, and the bounds are numbers. *)
ParametersAreSound ==
    /\ Commands \subseteq Execs
    /\ LastLine \in Nat /\ MaxTokens \in Nat \ {0} /\ MaxLaunches \in Nat /\ MaxNotes \in Nat

TypeOK ==
    /\ life \in {"none", "launching", "relaunching", "open"}
    /\ state \in {"Stopped", "Exited", "Disconnected"}
    /\ reason \in {"breakpoint", "step", "entry", "exited_normally"}
    /\ doing \in Waits \cup {"idle"}
    /\ token \in 0..MaxTokens /\ snapshot \in Places /\ initial \in BOOLEAN
    /\ leaked \in 0..MaxLaunches /\ launches \in 0..MaxLaunches /\ args \in BOOLEAN
    /\ gdb \in Execs \cup {"none", "ready", "gone", "run", "run on"}
    /\ place \in Places /\ late \in BOOLEAN /\ notes \in 0..MaxNotes

(* The session keeps step with gdb: between two execution commands no stop   *)
(* is under way and a snapshot gdb answered shows where the replay is, as    *)
(* long as no wait for a stop was given up.                                  *)
Steady ==
    life = "open" /\ ~late /\ doing \notin Execs =>
       /\ gdb \in {"ready", "gone"}
       /\ \A i \in DOMAIN pipe : pipe[i].kind # "stopped"
       /\ initial \/ doing = "locals" => snapshot \in {0, place}

Spec == Init /\ [][Next]_vars
=============================================================================
