---------------------------- MODULE DebugSession ----------------------------
(***************************************************************************)
(* A debug session over DAP (crates/daptor-core/src/session/mod.rs): what  *)
(* DebugSession knows of the program it debugs, and how it comes to know   *)
(* it.  One caller at a time is inside the session (the worker of the UI   *)
(* holds it), and a call sends its requests one after the other: pc names  *)
(* the request that is out, or the loop that reads events.  The transport  *)
(* below is the queue of events only; module DapTransport has its inside.  *)
(*                                                                         *)
(* The adapter and the program are the environment.  A request is answered *)
(* with success or with an error, or it times out; a request to resume     *)
(* that timed out may still be carried out.  A stop need not say of which  *)
(* thread it is (DAP makes threadId optional), and a program may go on     *)
(* without a request of the session, as after an expression it was given   *)
(* to evaluate.                                                            *)
(***************************************************************************)
EXTENDS Naturals, Sequences

CONSTANTS
    Threads, NoThread,  \* threads of the program
    Paths,              \* source files with breakpoints
    Adapters,           \* kinds of adapter: "Debugpy", "Lldb", "Generic"
    Capabilities,       \* what the adapter supports when it starts
    Chatter,            \* events that do not tell of a stop or an end
    MaxStops,           \* bound on the stops of one launch
    MaxChatter,         \* bound on the other events, stops that do not name a thread
                        \* and resumes nobody asked for among them
    MaxLaunches,        \* bound on the launches
    MaxEvents           \* events one poll reads, 64 in the code

ASSUME SessionAssumption ==
    /\ NoThread \notin Threads
    /\ Adapters \subseteq {"Debugpy", "Lldb", "Generic"}
    /\ Chatter \subseteq {"capabilities", "restart", "other"}
    /\ MaxStops \in Nat /\ MaxChatter \in Nat /\ MaxLaunches \in Nat
    /\ MaxEvents \in Nat \ {0}

VARIABLES
    \* The session.
    open,       \* the caller holds a session
    live,       \* adapter_live_ of the worker, which polls and commands as long as it is set
    state, activeThread, activeFrame, initialSnapshot, caps, requests,
    adapter,    \* fixed by the launch
    queue,      \* events the transport holds
    pc,         \* the request that is out, or the loop that reads events
    call,       \* the call of the caller
    todo,       \* paths whose hit counts are still to be asked for
    left,       \* events this poll may still read
    draft,      \* the snapshot in the making
    kept,       \* what a relaunch has shut down and not replaced yet
    \* The environment.
    up,         \* the adapter process runs
    prog, at,   \* the program, and the thread whose stop stopped it
    named,      \* the last stop said so
    alive, made, chatter, launches,
    late,       \* a resume timed out that may still be carried out
    \* History, read by no action of the code.
    taken,      \* stops of this launch the session has read
    crossed,    \* the program went on while a stop was unread, after a call, or by itself
    shown       \* the snapshot the last call gave to the UI

sessionVars == <<open, live, state, activeThread, activeFrame, initialSnapshot, caps, requests,
                 adapter>>
callVars == <<pc, call, todo, left, draft, kept>>
envVars == <<up, prog, at, named, alive, made, chatter, launches, late>>
historyVars == <<taken, crossed, shown>>
vars == <<sessionVars, queue, callVars, envVars, historyVars>>

Lives == {"Disconnected", "Running", "Stopped", "Exited"}
Resumes == {"continue", "next", "stepIn", "stepOut", "goto", "reverseContinue",
            "stepBack", "pause"}

NoSnapshot == [life |-> "Disconnected", frame |-> 0]
NoSession == [queue |-> <<>>, requests |-> {}, caps |-> {}, taken |-> 0, made |-> 0]

\* The events of the adapter; a stop carries its number within the launch.
StoppedEvent(t, n) == [kind |-> "stopped", thread |-> t, n |-> n]
ContinuedEvent == [kind |-> "continued", thread |-> NoThread, n |-> 0]
ThreadEvent(t) == [kind |-> "thread", thread |-> t, n |-> 0]
TerminatedEvent == [kind |-> "terminated", thread |-> NoThread, n |-> 0]
ChatterEvent(k) == [kind |-> k, thread |-> NoThread, n |-> made]

Says(kind) == \E i \in 1..Len(queue) : queue[i].kind = kind

-----------------------------------------------------------------------------
(* The requests that change nothing in the session, with their guards.     *)

Query(stopped, cap) == [stopped |-> stopped, cap |-> cap]

Queries ==
    [evaluate       |-> Query(TRUE, "none"),
     setVariable    |-> Query(TRUE, "none"),
     completions    |-> Query(TRUE, "completions"),
     exceptionInfo  |-> Query(TRUE, "exceptionInfo"),
     variables      |-> Query(FALSE, "none"),
     source         |-> Query(FALSE, "none"),
     gotoTargets    |-> Query(FALSE, "none"),
     stepInTargets  |-> Query(FALSE, "stepInTargets"),
     readMemory     |-> Query(FALSE, "readMemory"),
     writeMemory    |-> Query(FALSE, "writeMemory"),
     disassemble    |-> Query(FALSE, "disassemble"),
     dataBreakpointInfo      |-> Query(FALSE, "dataBreakpoints"),
     setDataBreakpoints      |-> Query(FALSE, "dataBreakpoints"),
     setExceptionBreakpoints |-> Query(FALSE, "exceptionFilters"),
     setFunctionBreakpoints  |-> Query(FALSE, "functionBreakpoints")]

\* An adapter of the built-in lldb launch takes function breakpoints unasked.
Supports(cap) ==
    cap \in caps \cup {"none"} \cup
        (IF adapter = "Lldb" THEN {"functionBreakpoints"} ELSE {})

MayAsk(q) ==
    /\ Queries[q].stopped => state = "Stopped"
    /\ Supports(Queries[q].cap)

-----------------------------------------------------------------------------
Event ==
    [kind : {"stopped", "continued", "thread", "terminated"} \cup Chatter,
     thread : Threads \cup {NoThread}, n : 0..MaxStops]
Snapshot == [life : Lives, frame : 0..MaxStops]
Session ==
    [queue : Seq(Event), requests : SUBSET Paths, caps : SUBSET Capabilities,
     taken : 0..MaxStops, made : 0..MaxStops]

SessionOK ==
    /\ open \in BOOLEAN /\ live \in BOOLEAN
    /\ state \in Lives
    /\ activeThread \in Threads \cup {NoThread}
    /\ activeFrame \in 0..MaxStops
    /\ initialSnapshot \in Snapshot
    /\ caps \subseteq Capabilities
    /\ requests \subseteq Paths
    /\ adapter \in Adapters

CallOK ==
    /\ pc \in {"idle", "initialize", "configure", "poll", "untilStop", "threadExit",
               "resume", "terminate", "query", "setBreakpoints", "hits", "threads",
               "stacks", "variables", "breakList", "exception"}
    /\ call \in {"none", "launch", "restart", "again", "poll", "sync", "resume", "pause",
                 "stepBack", "terminate", "query", "setBreakpoints"}
    /\ todo \subseteq Paths
    /\ left \in 0..MaxEvents
    /\ draft \in Snapshot
    /\ kept \in Session

EnvironmentOK ==
    /\ up \in BOOLEAN
    /\ prog \in {"unborn", "running", "stopped", "gone"}
    /\ at \in Threads \cup {NoThread} /\ named \in BOOLEAN
    /\ alive \subseteq Threads
    /\ made \in 0..MaxStops
    /\ chatter \in 0..MaxChatter
    /\ launches \in 0..MaxLaunches
    /\ late \in BOOLEAN

HistoryOK == taken \in 0..MaxStops /\ crossed \in BOOLEAN /\ shown \in Snapshot

TypeOK == SessionOK /\ queue \in Seq(Event) /\ CallOK /\ EnvironmentOK /\ HistoryOK

Init ==
    /\ open = FALSE /\ live = FALSE /\ state = "Disconnected"
    /\ activeThread = NoThread /\ activeFrame = 0
    /\ initialSnapshot = NoSnapshot
    /\ caps = {} /\ requests = {}
    /\ adapter \in Adapters
    /\ queue = <<>>
    /\ pc = "idle" /\ call = "none"
    /\ todo = {} /\ left = 0 /\ draft = NoSnapshot /\ kept = NoSession
    /\ up = FALSE /\ prog = "unborn" /\ at = NoThread /\ named = TRUE /\ alive = {}
    /\ made = 0 /\ chatter = 0 /\ launches = 0 /\ late = FALSE
    /\ taken = 0 /\ crossed = FALSE /\ shown = NoSnapshot

-----------------------------------------------------------------------------
(* The adapter and the program.                                            *)

\* The program runs into a breakpoint, ends a step, is paused or starts; the event
\* may leave out the thread.
ProgramStops(t, told) ==
    /\ prog = "running" /\ up /\ t \in alive /\ made < MaxStops
    /\ told \/ chatter < MaxChatter
    /\ prog' = "stopped" /\ at' = t /\ named' = told /\ made' = made + 1
    /\ chatter' = IF told THEN chatter ELSE chatter + 1
    /\ queue' = Append(queue, StoppedEvent(IF told THEN t ELSE NoThread, made + 1))
    /\ UNCHANGED <<sessionVars, callVars, historyVars, up, alive, launches, late>>

\* The program goes on though nobody resumed it.
ProgramContinues ==
    /\ prog = "stopped" /\ up /\ chatter < MaxChatter
    /\ prog' = "running" /\ at' = NoThread /\ chatter' = chatter + 1 /\ crossed' = TRUE
    /\ queue' = Append(queue, ContinuedEvent)
    /\ UNCHANGED <<sessionVars, callVars, up, named, alive, made, launches, late, taken,
                   shown>>

ThreadExits(t) ==
    /\ prog = "running" /\ up /\ t \in alive
    /\ alive' = alive \ {t}
    /\ prog' = IF alive' = {} THEN "gone" ELSE prog
    /\ queue' = IF alive' = {} THEN queue \o <<ThreadEvent(t), TerminatedEvent>>
                               ELSE Append(queue, ThreadEvent(t))
    /\ UNCHANGED <<sessionVars, callVars, historyVars, up, at, named, made, chatter,
                   launches, late>>

\* Events that are about something else than the life of the program.
AdapterChatters(k) ==
    /\ up /\ prog # "unborn" /\ chatter < MaxChatter
    /\ chatter' = chatter + 1
    /\ queue' = Append(queue, ChatterEvent(k))
    /\ UNCHANGED <<sessionVars, callVars, historyVars, up, prog, at, named, alive, made,
                   launches, late>>

\* A resume that timed out is carried out after all.
LateResume ==
    /\ late /\ up /\ prog = "stopped"
    /\ prog' = "running" /\ at' = NoThread /\ late' = FALSE /\ crossed' = TRUE
    /\ UNCHANGED <<sessionVars, callVars, queue, up, named, alive, made, chatter, launches,
                   taken, shown>>

\* The adapter dies, and the program with it: no event tells.
AdapterDies ==
    /\ up
    /\ up' = FALSE /\ prog' = "gone"
    /\ UNCHANGED <<sessionVars, callVars, queue, historyVars, at, named, alive, made,
                   chatter, launches, late>>

Environment ==
    \/ \E t \in Threads : ThreadExits(t) \/ \E told \in BOOLEAN : ProgramStops(t, told)
    \/ \E k \in Chatter : AdapterChatters(k)
    \/ ProgramContinues \/ LateResume \/ AdapterDies

-----------------------------------------------------------------------------
(* How a call ends.                                                        *)

Return ==
    pc' = "idle" /\ call' = "none" /\ draft' = NoSnapshot /\ todo' = {} /\ left' = 0

EmptySnapshot(s) == [NoSnapshot EXCEPT !.life = s]

\* With a snapshot: a launch keeps it, a poll and a sync hand it to the UI.
Give(snapshot) ==
    /\ Return
    /\ initialSnapshot' = IF call \in {"launch", "restart", "again"} THEN snapshot
                                                                     ELSE initialSnapshot
    /\ shown' = IF call \in {"poll", "sync"} THEN snapshot ELSE shown
    /\ open' = (open \/ call \in {"launch", "restart"})
    /\ live' = (live \/ call \in {"launch", "restart", "again"})
    /\ kept' = NoSession

\* With an error, after the stops up to the nth: a launch that fails leaves what it
\* shut down.
GiveUpAfter(n, events) ==
    /\ Return
    /\ kept' = NoSession
    /\ IF call \in {"launch", "restart"}
       THEN /\ state' = "Disconnected" /\ activeThread' = NoThread /\ activeFrame' = 0
            /\ initialSnapshot' = NoSnapshot
            /\ open' = (call = "restart") /\ live' = (live /\ call = "restart")
            /\ queue' = kept.queue /\ requests' = kept.requests
            /\ caps' = kept.caps
            /\ up' = FALSE /\ prog' = "gone" /\ late' = FALSE
            /\ taken' = kept.taken /\ made' = kept.made
       ELSE /\ queue' = events /\ taken' = n
            /\ UNCHANGED <<sessionVars, up, prog, late, made>>
    /\ UNCHANGED <<adapter, at, named, alive, chatter, launches, crossed, shown>>

GiveUp == GiveUpAfter(taken, queue)

\* A program that ended before it stopped: a restart waits again, and then gives up.
Ended ==
    /\ state' = "Exited"
    /\ IF call = "restart"
       THEN /\ call' = "again" /\ pc' = "untilStop" /\ open' = TRUE
            /\ UNCHANGED <<live, draft, todo, left, shown>>
       ELSE /\ Return
            /\ shown' = IF call = "poll" THEN EmptySnapshot("Exited") ELSE shown
            /\ open' = TRUE /\ live' = (live \/ call = "launch")
    /\ kept' = NoSession

-----------------------------------------------------------------------------
(* Events, one at a time.                                                  *)

Loops == {"poll", "untilStop"}
Head1 == queue[1]

\* Bug: the bound on the events of one poll is gone.
ReadsEventsUnbounded == pc \in Loops /\ queue # <<>>

\* Bug: nothing is read any more once the program counts as gone.
ReadsEventsUnlessExited ==
    pc \in Loops /\ queue # <<>> /\ (pc = "poll" => left > 0) /\ state # "Exited"

ReadsEvents == pc \in Loops /\ queue # <<>> /\ (pc = "poll" => left > 0)
Consumed == queue' = Tail(queue) /\ left' = IF pc = "poll" THEN left - 1 ELSE left
Skipped == Consumed /\ UNCHANGED <<pc, call, todo, draft, kept>>

\* enrich_stopped_snapshot: ask for the hit counts again, then for the stack.
Enrich(life) ==
    /\ draft' = [NoSnapshot EXCEPT !.life = life]
    /\ todo' = IF life = "Stopped" THEN requests ELSE {}
    /\ pc' = IF todo' # {} THEN "hits" ELSE "threads"

\* Bug: the thread of the first stop stays the active one.
ReadStoppedKeepingThread ==
    /\ ReadsEvents /\ Head1.kind = "stopped" /\ Head1.thread # NoThread
    /\ state' = "Stopped" /\ taken' = Head1.n
    /\ activeThread' = IF activeThread = NoThread THEN Head1.thread ELSE activeThread
    /\ queue' = Tail(queue) /\ left' = 0
    /\ Enrich("Stopped")
    /\ UNCHANGED <<open, live, activeFrame, initialSnapshot, caps, requests, adapter,
                   call, kept, envVars, crossed, shown>>

\* The state and the thread are set before anything that can fail.
ReadStopped ==
    /\ ReadsEvents /\ Head1.kind = "stopped" /\ Head1.thread # NoThread
    /\ state' = "Stopped" /\ activeThread' = Head1.thread /\ taken' = Head1.n
    /\ queue' = Tail(queue) /\ left' = 0
    /\ Enrich("Stopped")
    /\ UNCHANGED <<open, live, activeFrame, initialSnapshot, caps, requests, adapter,
                   call, kept, envVars, crossed, shown>>

\* A stop that names no thread cannot be parsed: it is gone, and the call fails.
ReadUnreadableStop ==
    /\ ReadsEvents /\ Head1.kind = "stopped" /\ Head1.thread = NoThread
    /\ GiveUpAfter(Head1.n, Tail(queue))

ReadTerminated ==
    /\ ReadsEvents /\ Head1.kind = "terminated"
    /\ queue' = Tail(queue)
    /\ Ended
    /\ UNCHANGED <<activeThread, activeFrame, initialSnapshot, caps, requests,
                   adapter, envVars, taken, crossed>>

\* Only while running does a thread's exit say anything: the thread that stopped
\* last stands for the program; for another one the threads are asked for.
ReadThread ==
    /\ ReadsEvents /\ Head1.kind = "thread"
    /\ \/ /\ state # "Running" /\ Skipped
          /\ UNCHANGED <<sessionVars, shown>>
       \/ /\ state = "Running" /\ Head1.thread = activeThread
          /\ queue' = Tail(queue) /\ Ended
          /\ UNCHANGED <<activeThread, activeFrame, initialSnapshot, caps, requests,
                         adapter>>
       \/ /\ state = "Running" /\ Head1.thread # activeThread
          /\ Consumed /\ pc' = "threadExit"
          /\ UNCHANGED <<sessionVars, shown, call, todo, draft, kept>>
    /\ UNCHANGED <<envVars, taken, crossed>>

\* A restart's "terminated", a "continued" and an unknown event are skipped.
ReadOther ==
    /\ ReadsEvents /\ Head1.kind \in Chatter \cup {"continued"}
    /\ Skipped
    /\ \/ /\ Head1.kind = "capabilities"
          /\ caps' \in SUBSET Capabilities
       \/ Head1.kind # "capabilities" /\ UNCHANGED caps
    /\ UNCHANGED <<open, live, state, activeThread, activeFrame, initialSnapshot, requests,
                   adapter, envVars, historyVars>>

\* The threads that are left, asked for while an event is read.
ThreadsAfterExit(answered) ==
    /\ pc = "threadExit"
    /\ answered => up
    /\ IF answered /\ prog # "gone"
       THEN /\ pc' = IF call = "poll" THEN "poll" ELSE "untilStop"
            /\ UNCHANGED <<sessionVars, call, todo, left, draft, kept, shown>>
       ELSE /\ Ended
            /\ UNCHANGED <<activeThread, activeFrame, initialSnapshot, caps,
                           requests, adapter>>
    /\ UNCHANGED <<queue, envVars, taken, crossed>>

PollEnds ==
    /\ pc = "poll" /\ (queue = <<>> \/ left = 0)
    /\ Return
    /\ UNCHANGED <<sessionVars, queue, kept, envVars, historyVars>>

\* Sixty seconds without a stop.
UntilStopTimesOut == pc = "untilStop" /\ queue = <<>> /\ GiveUp

ReadEvent == ReadStopped \/ ReadUnreadableStop \/ ReadTerminated \/ ReadThread \/ ReadOther

-----------------------------------------------------------------------------
(* The requests that make a snapshot.                                      *)

Later(next) ==
    /\ pc' = next
    /\ UNCHANGED <<open, live, initialSnapshot, call, left, kept, shown>>

\* After the variables: the counts of lldb's breakpoint list, then the exception.
AfterVariables(snapshot) ==
    \/ /\ adapter = "Lldb" /\ snapshot.life = "Stopped" /\ pc = "variables"
       /\ Later("breakList") /\ draft' = snapshot /\ UNCHANGED todo
    \/ /\ adapter # "Lldb" \/ snapshot.life # "Stopped" \/ pc # "variables"
       /\ call # "sync" /\ "exceptionInfo" \in caps /\ pc # "exception"
       /\ Later("exception") /\ draft' = snapshot /\ UNCHANGED todo
    \/ /\ adapter # "Lldb" \/ snapshot.life # "Stopped" \/ pc # "variables"
       /\ Give(snapshot)

\* An error of one path is ignored.
HitsAnswered(answered) ==
    /\ pc = "hits" /\ (answered => up)
    /\ \E p \in todo :
          /\ todo' = todo \ {p}
    /\ Later(IF todo' = {} THEN "threads" ELSE "hits")
    /\ UNCHANGED draft
    /\ UNCHANGED <<state, activeThread, activeFrame, caps, requests, adapter,
                   queue, envVars, taken, crossed>>

ThreadsAnswered(answered) ==
    /\ pc = "threads"
    /\ \/ /\ answered /\ up /\ activeThread # NoThread
          /\ Later("stacks")
          /\ UNCHANGED <<state, activeThread, activeFrame, caps, requests,
                         adapter, queue, todo, draft, envVars, taken, crossed>>
       \/ ~answered /\ GiveUp

\* Bug: the snapshot takes the frame before the new one is set.
StacksAnsweredWithOldFrame(answered) ==
    /\ pc = "stacks"
    /\ \/ /\ answered /\ up /\ prog = "stopped" /\ activeThread \in alive
          /\ activeFrame' = made
          /\ draft' = [draft EXCEPT !.frame = activeFrame]
          /\ Later("variables")
          /\ UNCHANGED <<state, activeThread, caps, requests, adapter, queue,
                         todo, envVars, taken, crossed>>
       \/ ~answered /\ GiveUp

\* A thread that does not answer has no frames; without frames there is no snapshot.
StacksAnswered(answered) ==
    /\ pc = "stacks"
    /\ \/ /\ answered /\ up /\ prog = "stopped" /\ activeThread \in alive
          /\ activeFrame' = made
          /\ draft' = [draft EXCEPT !.frame = made]
          /\ Later("variables")
          /\ UNCHANGED <<state, activeThread, caps, requests, adapter, queue,
                         todo, envVars, taken, crossed>>
       \/ ~answered /\ GiveUp

VariablesAnswered(answered) ==
    /\ pc = "variables"
    /\ \/ /\ answered /\ up /\ prog = "stopped"
          /\ AfterVariables(draft)
          /\ UNCHANGED <<state, activeThread, activeFrame, caps, requests, adapter,
                         queue, envVars, taken, crossed>>
       \/ ~answered /\ GiveUp

\* lldb lists every breakpoint with its count; a failure is only logged.
BreakListAnswered(answered) ==
    /\ pc = "breakList" /\ (answered => up /\ prog = "stopped")
    /\ AfterVariables(draft)
    /\ UNCHANGED <<state, activeThread, activeFrame, caps, requests, adapter, queue,
                   envVars, taken, crossed>>

ExceptionAnswered ==
    /\ pc = "exception"
    /\ AfterVariables(draft)
    /\ UNCHANGED <<state, activeThread, activeFrame, caps, requests, adapter, queue,
                   envVars, taken, crossed>>

SnapshotRequest(answered) ==
    \/ HitsAnswered(answered) \/ ThreadsAnswered(answered) \/ StacksAnswered(answered)
    \/ VariablesAnswered(answered) \/ BreakListAnswered(answered)

-----------------------------------------------------------------------------
(* The calls.  A call whose guard fails returns an error and changes       *)
(* nothing, so it is no step.                                              *)

Enter(c, p) == pc = "idle" /\ call' = c /\ pc' = p /\ shown' = NoSnapshot

\* The worker syncs after a launch before it passes on a command, and passes none on
\* after a disconnect.
Synced == open /\ live /\ initialSnapshot = NoSnapshot

\* A new session: the old one, if any, is shut down first, and its parts wait in
\* kept until the new one takes its place.
Launch(c) ==
    /\ Enter(c, "initialize") /\ launches < MaxLaunches
    /\ IF c = "restart" THEN Synced ELSE open => initialSnapshot = NoSnapshot
    /\ launches' = launches + 1
    /\ kept' = IF c = "restart"
               THEN [queue |-> queue, requests |-> requests, caps |-> caps,
                     taken |-> taken, made |-> made]
               ELSE NoSession
    /\ open' = FALSE /\ state' = "Disconnected" /\ UNCHANGED live
    /\ activeThread' = NoThread /\ activeFrame' = 0 /\ initialSnapshot' = NoSnapshot
    /\ caps' = {} /\ requests' = {}
    /\ adapter' \in IF c = "restart" THEN {adapter} ELSE Adapters
    /\ queue' = <<>>
    /\ up' = TRUE /\ prog' = "unborn" /\ at' = NoThread /\ named' = TRUE /\ alive' = {}
    /\ made' = 0 /\ late' = FALSE
    /\ taken' = 0 /\ crossed' = FALSE
    /\ UNCHANGED <<todo, left, draft, chatter>>

Initialized(answered) ==
    /\ pc = "initialize"
    /\ \/ /\ answered /\ up
          /\ caps' = Capabilities
          /\ pc' = "configure"
          /\ UNCHANGED <<open, live, state, activeThread, activeFrame, initialSnapshot,
                         requests, adapter, queue, call, todo, left, draft, kept, envVars,
                         historyVars>>
       \/ ~answered /\ GiveUp

\* launch and configurationDone: the program runs, and the launch waits for its stop.
Configured(answered) ==
    /\ pc = "configure"
    /\ \/ /\ answered /\ up
          /\ prog' = "running" /\ alive' = Threads
          /\ pc' = "untilStop"
          /\ UNCHANGED <<sessionVars, queue, call, todo, left, draft, kept, up, at, named,
                         made, chatter, launches, late, historyVars>>
       \/ ~answered /\ GiveUp

Poll ==
    /\ open /\ live /\ Enter("poll", "poll")
    /\ left' = MaxEvents
    /\ UNCHANGED <<sessionVars, queue, todo, draft, kept, envVars, taken, crossed>>

\* The snapshot of the launch first, once; then what the state calls for.
Sync ==
    /\ open /\ pc = "idle"
    /\ \/ /\ initialSnapshot # NoSnapshot
          /\ shown' = initialSnapshot /\ initialSnapshot' = NoSnapshot
          /\ UNCHANGED <<callVars>>
       \/ /\ initialSnapshot = NoSnapshot /\ state \in {"Exited", "Disconnected"}
          /\ shown' = EmptySnapshot(state)
          /\ UNCHANGED <<callVars, initialSnapshot>>
       \/ /\ initialSnapshot = NoSnapshot /\ state \in {"Stopped", "Running"}
          /\ call' = "sync" /\ Enrich(state)
          /\ shown' = NoSnapshot /\ UNCHANGED <<left, kept, initialSnapshot>>
    /\ UNCHANGED <<open, live, state, activeThread, activeFrame, caps, requests, adapter,
                   queue, envVars, taken, crossed>>

\* Every command that makes the program go on needs a thread, and going back a
\* capability; pause needs neither.
MayResume(r) ==
    /\ r # "pause" => activeThread # NoThread
    /\ r \in {"stepBack", "reverseContinue"} => "stepBack" \in caps

Resume(r) ==
    /\ Synced /\ MayResume(r) /\ Enter(IF r \in {"pause", "stepBack"} THEN r ELSE "resume", "resume")
    /\ UNCHANGED <<sessionVars, queue, todo, left, draft, kept, envVars, taken, crossed>>

\* Bug: a pause, too, sets the state to Running.
ResumedByPause ==
    /\ pc = "resume" /\ up /\ prog \in {"running", "stopped"}
    /\ state' = "Running"
    /\ IF call = "pause"
       THEN UNCHANGED <<prog, at, crossed>>
       ELSE /\ prog' = "running" /\ at' = NoThread
            /\ crossed' = (crossed \/ Says("stopped"))
    /\ IF call \in {"pause", "stepBack"}
       THEN pc' = "untilStop" /\ UNCHANGED <<call, todo, left, draft>>
       ELSE Return
    /\ UNCHANGED <<open, live, activeThread, activeFrame, initialSnapshot, caps, requests,
                   adapter, queue, kept, up, named, alive, made, chatter, launches, late,
                   taken, shown>>

\* The adapter resumes the program, if it is stopped; then stepBack and pause wait
\* for the stop, and the others return.
Resumed ==
    /\ pc = "resume" /\ up /\ prog \in {"running", "stopped"}
    /\ IF call = "pause"
       THEN UNCHANGED <<state, prog, at, crossed>>
       ELSE /\ state' = "Running" /\ prog' = "running" /\ at' = NoThread
            /\ crossed' = (crossed \/ Says("stopped"))
    /\ IF call \in {"pause", "stepBack"}
       THEN pc' = "untilStop" /\ UNCHANGED <<call, todo, left, draft>>
       ELSE Return
    /\ UNCHANGED <<open, live, activeThread, activeFrame, initialSnapshot, caps, requests,
                   adapter, queue, kept, up, named, alive, made, chatter, launches, late,
                   taken, shown>>

ResumeRefused == pc = "resume" /\ GiveUp

ResumeTimesOut ==
    /\ pc = "resume" /\ up
    /\ Return
    /\ late' = (late \/ call # "pause")
    /\ UNCHANGED <<sessionVars, queue, kept, up, prog, at, named, alive, made, chatter,
                   launches, historyVars>>

\* Of a session that is over it only sets the state.
Terminate ==
    /\ Synced /\ pc = "idle"
    /\ IF state \in {"Disconnected", "Exited"}
       THEN /\ state' = "Exited" /\ activeThread' = NoThread /\ activeFrame' = 0
            /\ shown' = NoSnapshot /\ UNCHANGED <<pc, call>>
       ELSE Enter("terminate", "terminate") /\ UNCHANGED <<state, activeThread, activeFrame>>
    /\ UNCHANGED <<open, live, initialSnapshot, caps, requests, adapter, queue, todo, left,
                   draft, kept, envVars, taken, crossed>>

Terminated ==
    /\ pc = "terminate" /\ up
    /\ prog' = "gone"
    /\ queue' = Append(queue, TerminatedEvent)
    /\ state' = "Exited" /\ activeThread' = NoThread /\ activeFrame' = 0
    /\ Return
    /\ UNCHANGED <<open, live, initialSnapshot, caps, requests, adapter, kept, up, at, named,
                   alive, made, chatter, launches, late, historyVars>>

TerminateFails == pc = "terminate" /\ GiveUp

\* disconnect: the transport is shut down, its queue stays, and no poll comes any more.
Disconnect ==
    /\ Synced /\ pc = "idle"
    /\ live' = FALSE /\ shown' = NoSnapshot
    /\ IF state = "Disconnected"
       THEN UNCHANGED <<up, prog, late, state, activeThread, activeFrame>>
       ELSE /\ up' = FALSE /\ prog' = "gone" /\ late' = FALSE
            /\ state' = "Disconnected" /\ activeThread' = NoThread /\ activeFrame' = 0
    /\ UNCHANGED <<open, initialSnapshot, caps, requests, adapter, queue, callVars, at,
                   named, alive, made, chatter, launches, taken, crossed>>

Ask(q) ==
    /\ open /\ MayAsk(q) /\ Enter("query", "query")
    /\ UNCHANGED <<sessionVars, queue, todo, left, draft, kept, envVars, taken, crossed>>

Answered == pc = "query" /\ GiveUp

\* The request is remembered before it is sent.
SetBreakpoints(p, some) ==
    /\ open /\ Enter("setBreakpoints", "setBreakpoints")
    /\ requests' = IF some THEN requests \cup {p} ELSE requests \ {p}
    /\ todo' = {p}
    /\ UNCHANGED <<open, live, state, activeThread, activeFrame, initialSnapshot, caps,
                   adapter, queue, left, draft, kept, envVars, taken, crossed>>

BreakpointsSet(answered) ==
    /\ pc = "setBreakpoints" /\ (answered => up)
    /\ Return
    /\ UNCHANGED <<open, live, state, activeThread, activeFrame, initialSnapshot, caps,
                   requests, adapter, queue, kept, envVars, historyVars>>

-----------------------------------------------------------------------------
Caller ==
    \/ \E c \in {"launch", "restart"} : Launch(c)
    \/ Sync \/ Terminate \/ Disconnect
    \/ \E r \in Resumes : Resume(r)
    \/ \E q \in DOMAIN Queries : Ask(q)
    \/ \E p \in Paths, some \in BOOLEAN : SetBreakpoints(p, some)

\* A call goes on by itself: every wait has a deadline.
Proceed ==
    \/ ReadEvent \/ PollEnds \/ UntilStopTimesOut
    \/ Resumed \/ ResumeRefused \/ ResumeTimesOut \/ Terminated \/ TerminateFails \/ Answered
    \/ ExceptionAnswered
    \/ \E answered \in BOOLEAN :
          \/ Initialized(answered) \/ Configured(answered) \/ BreakpointsSet(answered)
          \/ ThreadsAfterExit(answered) \/ SnapshotRequest(answered)

Next == Environment \/ Caller \/ Poll \/ Proceed

\* The worker polls in every round as long as the adapter lives, whatever else it is
\* asked to do: calls come between, so a poll is not enabled all the time.
Spec == Init /\ [][Next]_vars /\ WF_vars(Proceed) /\ SF_vars(Poll)

-----------------------------------------------------------------------------
(* Properties.                                                             *)

News == \E i \in 1..Len(queue) : queue[i].kind \in {"stopped", "terminated"}
AtRest == open /\ pc = "idle" /\ up /\ ~crossed

\* A session that says "Running" while nothing is queued is right: the program runs.
\* No stop is lost between the requests, the polls and the waits, but one that does
\* not name its thread.
RunningHasNews ==
    open /\ pc = "idle" /\ up /\ state = "Running" /\ ~News =>
        prog = "running" \/ (prog = "stopped" /\ ~named)

\* A session that says "Stopped" while nothing is queued is right about the program
\* and about the thread, however the calls before it failed; only a resume that
\* went out before a stop was read, that took effect after its call, or that the
\* session did not ask for (it skips "continued" events) can deceive it.
StoppedIsTrue ==
    AtRest /\ ~late /\ state = "Stopped" /\ ~News => prog = "stopped" /\ at = activeThread

\* What the UI sees of a stop belongs to that stop: the frames are those of the
\* stop read last.
SnapshotIsCurrent ==
    [][ shown' # shown /\ shown'.life = "Stopped" /\ ~crossed' /\ ~late'
        => shown'.frame = taken' ]_vars

\* The debuggee has exited when a thread exit says so (session/mod.rs:1202).
ExitedMeansGone == state = "Exited" /\ open /\ pc = "idle" /\ ~crossed => prog = "gone"

\* Seen from the UI a launch happens at once.
launching == call \in {"launch", "restart"}

\* The threads whose stop is not read: those of the stops after the first `from` ones.
StopIn(events, n) ==
    CHOOSE t \in Threads \cup {NoThread} : \E i \in 1..Len(events) : events[i] = StoppedEvent(t, n)
ThreadsOf(events, from, to) == [i \in 1..(to - from) |-> StopIn(events, from + i)]

Lifecycle == INSTANCE SessionLifecycle WITH
    life <- IF launching THEN "Disconnected" ELSE state,
    known <- ~launching /\ activeThread # NoThread,
    unread <- IF launching THEN ThreadsOf(kept.queue, kept.taken, kept.made)
                           ELSE ThreadsOf(queue, taken, made)

\* The session keeps the promise of SessionLifecycle: no stop is lost but one that
\* cannot be read, none is reordered, and as long as the session is connected none is
\* left unread for ever by failing requests, full polls, restarts or timeouts.
Implements == Lifecycle!Spec
=============================================================================
