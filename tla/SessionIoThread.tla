-------------------------- MODULE SessionIoThread --------------------------
(***************************************************************************)
(* The worker thread between the terminal UI and the debug session         *)
(* (cpp/src/ui/session_io_thread.cpp).                                     *)
(*                                                                         *)
(* The UI posts requests.  Nearly every kind of request has a mailbox of   *)
(* one slot, so a newer request replaces one the worker has not taken yet. *)
(* The worker walks the kinds in a fixed cycle, takes a request out of its *)
(* mailbox, lets go of the mutex, calls the backend and pushes an event.   *)
(* An execution command (step, continue, disconnect, ...) makes everything *)
(* else stale and goes first: posting it empties some mailboxes, the       *)
(* worker yields to it between two calls, and taking it empties them       *)
(* again.  A third thread, the launch worker, starts the session; the      *)
(* destructor, on the UI's thread, and the worker both join it.            *)
(*                                                                         *)
(* A request is a ticket, numbered in the order of posting.  The backend   *)
(* is the environment: a call succeeds or fails, and returns.              *)
(***************************************************************************)
EXTENDS Naturals, Sequences, FiniteSets

CONSTANTS
    Jobs,      \* the kinds of request the UI posts, besides commands
    Subjects,  \* source files and variable paths that requests are about
    MaxPosts   \* bound on the requests the UI posts

Fetches == {"source", "memory", "disassembly", "runtimeSource", "writeMemory"}
Debounced == {"sourceBps", "dataBps", "functionBps", "exceptionBps"}
LiveOnly == Debounced \cup {"dataInfo", "scope", "children", "stepIn", "goto"}
Console == {"setVariable", "evaluate", "completions"}
AllJobs == Fetches \cup LiveOnly \cup Console \cup {"highlight", "compose", "terminal"}

ASSUME JobsAssumption == Jobs \subseteq AllJobs
ASSUME PostsAssumption == MaxPosts \in Nat

\* Every mailbox of one slot.
Slots == (Jobs \ {"terminal", "children"}) \cup {"command", "setVariable", "evaluate",
                                                 "completions", "scope"}
Tickets == 1..MaxPosts
Commands == {"step", "disconnect", "restart"}
Fates == {"unposted", "open", "answered", "replaced", "cancelled", "refused", "dropped"}

VARIABLES
    stage,      \* where in its cycle the worker is
    phase,      \* what it does there
    hand,       \* the tickets the worker took out and holds
    order,      \* the command it took out and holds, 0 if none
    box,        \* the mailboxes: a ticket, 0 when empty
    children,   \* variable_children_fetch_queue_
    typed,      \* pending_terminal_input_
    ripe,       \* mailboxes posted to longer ago than kBreakpointDebounce
    aborted,    \* scope_fetch_aborted_
    live,       \* adapter_live_
    active,     \* backend_active_
    launch,     \* the launch worker
    closing,    \* how far the destructor is
    joined,     \* launch_worker_ was joined
    \* History, read by no action of the code.
    posted,     \* how many requests were posted
    request,    \* what each was
    fate,       \* what became of each
    resumedAt   \* posted, when the worker last took a command to dispatch

workerVars == <<stage, phase, hand, order>>
endVars == <<closing, joined>>
flagVars == <<live, active, launch, endVars>>
postVars == <<posted, request>>
vars == <<workerVars, box, children, typed, ripe, aborted, flagVars, postVars, fate,
          resumedAt>>

Init ==
    /\ stage = "launch" /\ phase = "look" /\ hand = {} /\ order = 0
    /\ box = [k \in Slots |-> 0] /\ children = <<>> /\ typed = {} /\ ripe = {}
    /\ aborted = FALSE /\ live = FALSE /\ active = FALSE /\ launch = "unset"
    /\ closing = "open" /\ joined = FALSE
    /\ posted = 0 /\ request = [t \in Tickets |-> [kind |-> "none", about |-> "none"]]
    /\ fate = [t \in Tickets |-> "unposted"] /\ resumedAt = 0

\* has_pending_execution_command: every command the UI posts is one.
CommandPending == box["command"] # 0
In(ks) == {box[k] : k \in ks \cap Slots} \ {0}
Queued(s) == {s[i] : i \in DOMAIN s}
stop == closing # "open"
Emptied(ks) == [k \in Slots |-> IF k \in ks THEN 0 ELSE box[k]]
Mark(ts, f) == [t \in Tickets |-> IF t \in ts THEN f ELSE fate[t]]

-----------------------------------------------------------------------------
(* The UI thread.                                                          *)

Ticket == posted + 1

\* The UI asks these without a look at is_active(); the others need a session.
Anytime == {"highlight", "compose", "terminal", "memory"}

Post(k, x) ==
    /\ ~stop /\ posted < MaxPosts /\ (active \/ k \in Anytime)
    /\ posted' = Ticket
    /\ request' = [request EXCEPT ![Ticket] = [kind |-> k, about |-> x]]

Stale == {"evaluate", "completions", "scope"}

PostCommand(op) ==
    /\ Post("command", op)
    /\ box' = [Emptied(Stale) EXCEPT !["command"] = Ticket]
    /\ children' = <<>>
    /\ aborted' = TRUE
    /\ fate' = [t \in Tickets |-> CASE t = Ticket -> "open"
                                    [] t = box["command"] -> "replaced"
                                    [] t \in In(Stale) \cup Queued(children) -> "cancelled"
                                    [] OTHER -> fate[t]]
    /\ UNCHANGED <<workerVars, typed, ripe, flagVars, resumedAt>>

Subject(k) == IF k \in {"sourceBps", "children"} THEN Subjects ELSE {"none"}

\* post_evaluate and post_completions give up behind a command.
PostRefused(k) ==
    /\ k \in {"evaluate", "completions"} /\ CommandPending
    /\ Post(k, "none")
    /\ fate' = Mark({Ticket}, "refused")
    /\ UNCHANGED <<workerVars, box, children, typed, ripe, aborted, flagVars, resumedAt>>

PostSlot(k, x) ==
    /\ k \in Slots /\ ~(k \in {"evaluate", "completions"} /\ CommandPending)
    /\ Post(k, x)
    /\ box' = [box EXCEPT ![k] = Ticket]
    /\ ripe' = ripe \ {k}
    /\ fate' = [Mark(In({k}), "replaced") EXCEPT ![Ticket] = "open"]
    /\ UNCHANGED <<workerVars, children, typed, aborted, flagVars, resumedAt>>

PostTerminalInput ==
    /\ Post("terminal", "none")
    /\ typed' = typed \cup {Ticket}
    /\ fate' = Mark({Ticket}, "open")
    /\ UNCHANGED <<workerVars, box, children, ripe, aborted, flagVars, resumedAt>>

RequestVariableChildren(x) ==
    /\ Post("children", x)
    /\ IF \E t \in Queued(children) : request[t].about = x
       THEN /\ fate' = Mark({Ticket}, "refused")
            /\ UNCHANGED children
       ELSE /\ fate' = Mark({Ticket}, "open")
            /\ children' = Append(children, Ticket)
    /\ UNCHANGED <<workerVars, box, typed, ripe, aborted, flagVars, resumedAt>>

StartLaunch ==
    /\ ~stop /\ launch = "unset"
    /\ launch' = "requested"
    /\ UNCHANGED <<workerVars, box, children, typed, ripe, aborted, live, active, endVars,
                   postVars, fate, resumedAt>>

\* The destructor sets stop_ ...
Close ==
    /\ closing = "open"
    /\ closing' = "closing"
    /\ UNCHANGED <<workerVars, box, children, typed, ripe, aborted, live, active, launch,
                   joined, postVars, fate, resumedAt>>

UI ==
    \/ \E op \in Commands : PostCommand(op)
    \/ \E k \in Jobs : PostRefused(k) \/ (\E x \in Subject(k) : PostSlot(k, x))
    \/ "terminal" \in Jobs /\ PostTerminalInput
    \/ "children" \in Jobs /\ \E x \in Subjects : RequestVariableChildren(x)
    \/ StartLaunch \/ Close

\* kBreakpointDebounce runs out.
Ripen(k) ==
    /\ k \in Slots \ ripe /\ box[k] # 0
    /\ ripe' = ripe \cup {k}
    /\ UNCHANGED <<workerVars, box, children, typed, aborted, flagVars, postVars, fate,
                   resumedAt>>

-----------------------------------------------------------------------------
(* The launch worker.  It publishes backend_active_ before adapter_live_,  *)
(* and reads the initial state from the backend after both.                *)

LaunchSucceeds ==
    /\ launch = "launching"
    /\ launch' = "activating" /\ active' = TRUE
    /\ UNCHANGED <<workerVars, box, children, typed, ripe, aborted, live, endVars, postVars,
                   fate, resumedAt>>

LaunchFails ==
    /\ launch = "launching"
    /\ launch' = "finished"
    /\ UNCHANGED <<workerVars, box, children, typed, ripe, aborted, live, active, endVars,
                   postVars, fate, resumedAt>>

LaunchGoesLive ==
    /\ launch = "activating"
    /\ launch' = "syncing" /\ live' = TRUE
    /\ UNCHANGED <<workerVars, box, children, typed, ripe, aborted, active, endVars, postVars,
                   fate, resumedAt>>

SyncInitialState ==
    /\ launch = "syncing"
    /\ launch' = "finished"
    /\ UNCHANGED <<workerVars, box, children, typed, ripe, aborted, live, active, endVars,
                   postVars, fate, resumedAt>>

LaunchWorker == LaunchSucceeds \/ LaunchFails \/ LaunchGoesLive \/ SyncInitialState

-----------------------------------------------------------------------------
(* The worker's cycle.                                                     *)

Order == <<"launch", "highlight", "liveGate", "source", "memory", "disassembly",
           "runtimeSource", "writeMemory", "compose", "activeGate", "terminal", "preempt",
           "poll", "preemptAgain", "setVariable", "evaluate", "completions", "sourceBps",
           "dataBps", "functionBps", "exceptionBps", "dataInfo", "scope", "children",
           "stepIn", "goto", "wait">>

Stages == {Order[i] : i \in DOMAIN Order} \ (AllJobs \ Jobs)

Successor ==
    [i \in 1..(Len(Order) - 1) |->
        Order[CHOOSE j \in (i + 1)..Len(Order) :
                  Order[j] \in Stages /\ \A h \in (i + 1)..(j - 1) : Order[h] \notin Stages]]

After(s) == Successor[CHOOSE i \in DOMAIN Order : Order[i] = s]

\* process_pending_command serves one console request and returns.
Done(k) == IF k \in Console THEN After("completions") ELSE After(k)

Goto(s) == stage' = s /\ phase' = "look"

BeginCycle ==
    /\ stage = "launch" /\ phase = "look"
    /\ IF stop THEN Goto("joining") ELSE phase' = "begin" /\ UNCHANGED stage
    /\ UNCHANGED <<hand, order, box, children, typed, ripe, aborted, flagVars, postVars,
                   fate, resumedAt>>

\* The UI may have closed since.
MaybeBeginLaunch ==
    /\ stage = "launch" /\ phase = "begin"
    /\ Goto(After("launch"))
    /\ launch' = IF launch = "requested" THEN "launching" ELSE launch
    /\ UNCHANGED <<hand, order, box, children, typed, ripe, aborted, live, active, endVars,
                   postVars, fate, resumedAt>>

PassGate ==
    /\ \/ stage = "liveGate" /\ Goto(IF live THEN After(stage) ELSE After("writeMemory"))
       \/ stage = "activeGate" /\ Goto(IF active THEN After(stage) ELSE "wait")
       \/ stage = "wait" /\ Goto("launch")
    /\ UNCHANGED <<hand, order, box, children, typed, ripe, aborted, flagVars, postVars,
                   fate, resumedAt>>

Poll ==
    /\ stage = "poll"
    /\ IF phase = "look" /\ live THEN phase' = "call" /\ UNCHANGED stage
                                 ELSE Goto(After("poll"))
    /\ UNCHANGED <<hand, order, box, children, typed, ripe, aborted, flagVars, postVars,
                   fate, resumedAt>>

-----------------------------------------------------------------------------
(* The end.  The destructor and the worker each join the launch worker if  *)
(* they find it joinable, without a lock: both may.  To join a thread that *)
(* is being joined or was joined is undefined; it ends the process by an   *)
(* exception that nothing catches, or returns like the other join.         *)

Begun == launch \notin {"unset", "requested"}
Joinable == Begun /\ ~joined

DestructorJoins ==
    /\ \/ closing = "closing" /\ UNCHANGED joined
          /\ closing' = IF Joinable THEN "joiningLaunch" ELSE "joiningWorker"
       \/ closing = "joiningLaunch" /\ launch = "finished"
          /\ closing' = "joiningWorker" /\ joined' = TRUE
       \/ closing = "joiningWorker" /\ stage = "ended"
          /\ closing' = "returned" /\ UNCHANGED joined
    /\ UNCHANGED <<workerVars, box, children, typed, ripe, aborted, live, active, launch,
                   postVars, fate, resumedAt>>

EndWorkerAfterLaunch ==
    /\ \/ stage = "joining" /\ launch = "finished" /\ stage' = "shutdown" /\ UNCHANGED <<active, joined>>
       \/ stage = "shutdown" /\ stage' = "ended" /\ active' = FALSE /\ UNCHANGED joined
    /\ UNCHANGED <<phase, hand, order, box, children, typed, ripe, aborted, live, launch,
                   closing, postVars, fate, resumedAt>>

EndWorker ==
    /\ \/ stage = "joining" /\ UNCHANGED <<active, joined>>
          /\ stage' = IF Joinable THEN "joiningLaunch" ELSE "shutdown"
       \/ stage = "joiningLaunch" /\ launch = "finished"
          /\ stage' = "shutdown" /\ joined' = TRUE /\ UNCHANGED active
       \/ stage = "shutdown"
          /\ stage' = "ended" /\ active' = FALSE /\ UNCHANGED joined
    /\ UNCHANGED <<phase, hand, order, box, children, typed, ripe, aborted, live, launch,
                   closing, postVars, fate, resumedAt>>

JoinedTwice ==
    \/ closing = "joiningLaunch" /\ stage = "joiningLaunch"
    \/ joined /\ "joiningLaunch" \in {closing, stage}

Terminate ==
    /\ closing # "terminated" /\ JoinedTwice
    /\ closing' = "terminated"
    /\ UNCHANGED <<workerVars, box, children, typed, ripe, aborted, live, active, launch,
                   joined, postVars, fate, resumedAt>>

-----------------------------------------------------------------------------
(* One request.                                                            *)

Yields(k) == k \in Fetches \cup LiveOnly \cup {"setVariable"}

MayTake(k) ==
    /\ Yields(k) => ~CommandPending
    /\ k \in LiveOnly => live
    /\ k = "evaluate" => box["scope"] = 0

LookFor(k) ==
    /\ stage = k /\ phase = "look"
    /\ IF MayTake(k) THEN phase' = "take" /\ UNCHANGED stage ELSE Goto(Done(k))
    /\ UNCHANGED <<hand, order, box, children, typed, ripe, aborted, flagVars, postVars,
                   fate, resumedAt>>

NothingUnchecked(k) ==
    CASE k = "terminal" -> typed = {}
      [] k = "children" -> children = <<>>
      [] OTHER -> k \in Debounced /\ k \notin ripe

Nothing(k) ==
    CASE k = "terminal" -> typed = {}
      [] k = "children" -> children = <<>>
      [] OTHER -> box[k] = 0 \/ (k \in Debounced /\ k \notin ripe)

TakeNothing(k) ==
    /\ stage = k /\ phase = "take" /\ Nothing(k)
    /\ Goto(After(k))
    /\ UNCHANGED <<hand, order, box, children, typed, ripe, aborted, flagVars, postVars,
                   fate, resumedAt>>

Take(k) ==
    /\ stage = k /\ phase = "take" /\ ~Nothing(k)
    /\ CASE k = "terminal" -> hand' = typed /\ typed' = {} /\ UNCHANGED <<box, children>>
         [] k = "children" -> /\ hand' = {Head(children)} /\ children' = Tail(children)
                              /\ UNCHANGED <<box, typed>>
         [] OTHER -> hand' = {box[k]} /\ box' = Emptied({k}) /\ UNCHANGED <<children, typed>>
    /\ phase' = IF k = "scope" THEN "reset" ELSE "test"
    /\ UNCHANGED <<stage, order, ripe, aborted, flagVars, postVars, fate, resumedAt>>

ResetAbortedNever ==
    /\ phase = "reset"
    /\ phase' = "test"
    /\ UNCHANGED <<stage, hand, order, box, children, typed, ripe, aborted, flagVars, postVars,
                   fate, resumedAt>>

ResetAborted ==
    /\ phase = "reset"
    /\ aborted' = FALSE /\ phase' = "test"
    /\ UNCHANGED <<stage, hand, order, box, children, typed, ripe, flagVars, postVars, fate,
                   resumedAt>>

\* A console request looks again before the call, a variable fetch before and after.
Interrupted(k) ==
    \/ k \in {"evaluate", "completions"} /\ phase = "test" /\ CommandPending
    \/ k \in {"scope", "children"} /\ phase \in {"test", "call"} /\ (CommandPending \/ aborted)

PutBackLosingIt(k) ==
    /\ stage = k /\ Interrupted(k)
    /\ hand' = {} /\ Goto(Done(k))
    /\ UNCHANGED <<order, box, children, fate, typed, ripe, aborted, flagVars, postVars,
                   resumedAt>>

PutBack(k) ==
    /\ stage = k /\ Interrupted(k)
    /\ hand' = {} /\ Goto(Done(k))
    /\ IF k = "children"
       THEN /\ children' = <<CHOOSE t \in hand : TRUE>> \o children
            /\ UNCHANGED <<box, fate>>
       ELSE /\ box' = [box EXCEPT ![k] = CHOOSE t \in hand : TRUE]
            /\ fate' = Mark(In({k}), "replaced")
            /\ UNCHANGED children
    /\ UNCHANGED <<order, typed, ripe, aborted, flagVars, postVars, resumedAt>>

OfflineForFetches(k) == k \in Fetches /\ ~live

Offline(k) == k \in Fetches \cup Console \cup {"terminal"} /\ ~live

\* The adapter is gone: an error, or nothing for the terminal.
FailOffline(k) ==
    /\ stage = k /\ phase = "test" /\ ~Interrupted(k) /\ Offline(k)
    /\ fate' = Mark(hand, IF k = "terminal" THEN "dropped" ELSE "answered")
    /\ hand' = {} /\ Goto(Done(k))
    /\ UNCHANGED <<order, box, children, typed, ripe, aborted, flagVars, postVars, resumedAt>>

CallBackend(k) ==
    /\ stage = k /\ phase = "test" /\ ~Interrupted(k) /\ ~Offline(k)
    /\ phase' = "call"
    /\ UNCHANGED <<stage, hand, order, box, children, typed, ripe, aborted, flagVars,
                   postVars, fate, resumedAt>>

\* The call returned, one way or the other, and an event says so.
Return(k) ==
    /\ stage = k /\ phase = "call" /\ ~Interrupted(k)
    /\ fate' = Mark(hand, "answered")
    /\ hand' = {} /\ Goto(Done(k))
    /\ UNCHANGED <<order, box, children, typed, ripe, aborted, flagVars, postVars, resumedAt>>

Serve(k) == \/ LookFor(k) \/ TakeNothing(k) \/ Take(k) \/ PutBack(k)
            \/ FailOffline(k) \/ CallBackend(k) \/ Return(k)

-----------------------------------------------------------------------------
(* An execution command, before and after the poll.                        *)

AtPreempt == stage \in {"preempt", "preemptAgain"}

NoCommand ==
    /\ AtPreempt /\ phase = "look" /\ ~CommandPending
    /\ Goto(After(stage))
    /\ UNCHANGED <<hand, order, box, children, typed, ripe, aborted, flagVars, postVars,
                   fate, resumedAt>>

TakeCommandOnly ==
    /\ AtPreempt /\ phase = "look" /\ CommandPending /\ live
    /\ order' = box["command"] /\ phase' = "edit"
    /\ box' = Emptied({"command"})
    /\ resumedAt' = posted
    /\ UNCHANGED <<stage, hand, children, typed, ripe, aborted, flagVars, postVars, fate>>

TakeCommandBeforeTheEdit ==
    /\ AtPreempt /\ phase = "look" /\ CommandPending /\ live
    /\ order' = box["command"] /\ phase' = "dispatch"
    /\ box' = Emptied(Stale \cup {"command"})
    /\ fate' = Mark(In(Stale), "cancelled")
    /\ resumedAt' = posted
    /\ UNCHANGED <<stage, hand, children, typed, ripe, aborted, flagVars, postVars>>

TakeCommand ==
    /\ AtPreempt /\ phase = "look" /\ CommandPending /\ live
    /\ order' = box["command"] /\ phase' = "edit"
    /\ box' = Emptied(Stale \cup {"command"})
    /\ fate' = Mark(In(Stale), "cancelled")
    /\ resumedAt' = posted
    /\ UNCHANGED <<stage, hand, children, typed, ripe, aborted, flagVars, postVars>>

RejectCommandSilently ==
    /\ AtPreempt /\ phase = "look" /\ CommandPending /\ ~live
    /\ Goto(After(stage))
    /\ UNCHANGED <<hand, order, box, children, typed, ripe, aborted, flagVars, postVars,
                   fate, resumedAt>>

RejectCommand ==
    /\ AtPreempt /\ phase = "look" /\ CommandPending /\ ~live
    /\ box' = Emptied(Stale \cup {"command"})
    /\ fate' = [Mark(In(Stale), "cancelled") EXCEPT ![box["command"]] = "answered"]
    /\ Goto(After(stage))
    /\ UNCHANGED <<hand, order, children, typed, ripe, aborted, flagVars, postVars,
                   resumedAt>>

\* A variable edited before the command is set before it.
ApplyEdit ==
    /\ phase = "edit" /\ box["setVariable"] # 0
    /\ hand' = In({"setVariable"}) /\ box' = Emptied({"setVariable"}) /\ phase' = "editCall"
    /\ UNCHANGED <<stage, order, children, typed, ripe, aborted, flagVars, postVars, fate,
                   resumedAt>>

EditReturns ==
    /\ phase = "editCall"
    /\ fate' = Mark(hand, "answered") /\ hand' = {} /\ phase' = "dispatch"
    /\ UNCHANGED <<stage, order, box, children, typed, ripe, aborted, flagVars, postVars,
                   resumedAt>>

NoEdit ==
    /\ phase = "edit" /\ box["setVariable"] = 0
    /\ phase' = "dispatch"
    /\ UNCHANGED <<stage, hand, order, box, children, typed, ripe, aborted, flagVars,
                   postVars, fate, resumedAt>>

\* clear_pending_adapter_work: neither the command nor every kind of request.
AdapterWork == {"evaluate", "completions", "setVariable", "sourceBps", "scope", "highlight"}
                   \cup Fetches

DispatchFails ==
    /\ phase = "dispatch"
    /\ fate' = Mark({order}, "answered") /\ order' = 0 /\ Goto(After(stage))
    /\ UNCHANGED <<hand, box, children, typed, ripe, aborted, flagVars, postVars, resumedAt>>

DispatchCommand ==
    /\ phase = "dispatch"
    /\ IF request[order].about = "step"
       THEN /\ fate' = Mark({order}, "answered")
            /\ UNCHANGED <<box, children, live>>
       ELSE /\ fate' = [Mark(In(AdapterWork) \cup Queued(children), "cancelled")
                            EXCEPT ![order] = "answered"]
            /\ box' = Emptied(AdapterWork) /\ children' = <<>>
            /\ live' = (request[order].about = "restart")
    /\ order' = 0 /\ Goto(After(stage))
    /\ UNCHANGED <<hand, typed, ripe, aborted, active, launch, endVars, postVars, resumedAt>>

Preempt == \/ NoCommand \/ TakeCommand \/ RejectCommand \/ ApplyEdit \/ EditReturns \/ NoEdit
           \/ DispatchFails \/ DispatchCommand

-----------------------------------------------------------------------------
Alive == closing # "terminated"

Worker ==
    /\ Alive
    /\ \/ BeginCycle \/ MaybeBeginLaunch \/ PassGate \/ Poll \/ EndWorker \/ ResetAborted
       \/ Preempt \/ \E k \in Jobs : Serve(k)

Debounce == Alive /\ \E k \in Jobs \cap Debounced : Ripen(k)

Next == UI \/ DestructorJoins \/ Terminate \/ (Alive /\ LaunchWorker) \/ Debounce \/ Worker

Spec == Init /\ [][Next]_vars

\* Threads run and backend calls return; the user need not do anything.
Fairness ==
    /\ WF_vars(Worker) /\ WF_vars(Alive /\ LaunchWorker) /\ WF_vars(Debounce)
    /\ WF_vars(DestructorJoins)

FairSpec == Spec /\ Fairness

-----------------------------------------------------------------------------
(* Correctness.                                                            *)

Phases == {"look", "begin", "take", "reset", "test", "call", "edit", "editCall", "dispatch"}

\* Every variable has its type.
TypeOK ==
    /\ stage \in Stages \cup {"joining", "joiningLaunch", "shutdown", "ended"} /\ phase \in Phases
    /\ hand \subseteq Tickets /\ order \in {0} \cup Tickets
    /\ box \in [Slots -> {0} \cup Tickets]
    /\ children \in Seq(Tickets) /\ typed \subseteq Tickets
    /\ ripe \subseteq Debounced
    /\ aborted \in BOOLEAN /\ live \in BOOLEAN /\ active \in BOOLEAN
    /\ closing \in {"open", "closing", "joiningLaunch", "joiningWorker", "returned",
                    "terminated"}
    /\ joined \in BOOLEAN
    /\ launch \in {"unset", "requested", "launching", "activating", "syncing", "finished"}
    /\ posted \in 0..MaxPosts /\ resumedAt \in 0..MaxPosts
    /\ fate \in [Tickets -> Fates]

Holders(t) ==
    Cardinality({k \in Slots : box[k] = t}) + Cardinality({i \in DOMAIN children : children[i] = t})
        + Cardinality({s \in {<<"typed", typed>>, <<"hand", hand>>, <<"order", {order}>>} :
                           t \in s[2]})

\* A request is in one place while it is open and nowhere when it is not: however
\* the UI posts while the worker holds a request without the mutex and puts it
\* back, none is lost without a trace, none is served twice.
RequestsAccounted == \A t \in Tickets : Holders(t) = IF fate[t] = "open" THEN 1 ELSE 0

\* An evaluation, a completion or a scope fetch that was asked for before the worker
\* resumed the program is not answered after it (process_preempting_commands clears
\* again what post_command has cleared: a fetch may have put itself back between).
AnswersAreFresh ==
    [][\A t \in Tickets :
           fate[t] = "open" /\ fate'[t] = "answered" /\ request[t].kind \in Stale
               => t > resumedAt]_vars

\* A variable the user edited before stepping is set before the step.
EditsPrecedeCommand ==
    phase = "dispatch" =>
        \A t \in Tickets : t < order /\ request[t].kind = "setVariable" => fate[t] # "open"

\* From a disconnect on no call for a mailbox or a command begins, though requests
\* are posted on and the launch worker may have just gone live.  (The command that
\* disconnected still asks for its snapshot and drains the console, lines 936-943.)
NoCallWhenDisconnected ==
    phase \in {"call", "editCall", "dispatch"} /\ stage \notin {"highlight", "compose"}
        => live

\* A command is answered, by success, failure or "debug session disconnected", or
\* gives way to a newer one.
CommandsSettle ==
    \A t \in Tickets :
        request[t].kind = "command" /\ fate[t] = "open" /\ active ~> fate[t] # "open" \/ stop

\* While the adapter lives every request is settled.  (Requests for children are
\* not: after a command they wait for the next scope fetch to clear the abort flag.)
FetchesSettle ==
    \A t \in Tickets :
        fate[t] = "open" /\ live /\ request[t].kind # "children"
            ~> fate[t] # "open" \/ ~live \/ stop

\* What the UI waits for comes: the end of a command, and the answer to a request.
RequestsSettle == CommandsSettle /\ FetchesSettle

\* A close ends, whatever is pending and however far the launch is: the destructor
\* returns, once both threads are through with the object, or the process ends at
\* a second join of the launch worker, which takes a launch that had begun.
ClosedSafely ==
    /\ closing = "returned" => stage = "ended" /\ (Begun => launch = "finished")
    /\ closing = "terminated" => Begun

WorkerEnds == []ClosedSafely /\ (stop ~> closing \in {"returned", "terminated"})

\* What the code claims and does not keep: the breakpoints of every file reach the
\* session, so the list of one file only gives way to a newer list of that file
\* (flush_breakpoints_to_session posts file after file into one mailbox).
BreakpointsReachBackend ==
    \A t \in Tickets :
        request[t].kind = "sourceBps" /\ fate[t] = "replaced" =>
            \E u \in Tickets : u > t /\ request[u] = request[t]

InSession == phase \in {"call", "editCall", "dispatch"} /\ stage # "highlight"

\* What the code claims and does not keep: a worker thread owns the backend, so
\* no other thread is inside the session while it is.
BackendExclusive == ~(InSession /\ launch \in {"launching", "syncing"})
=============================================================================
