---------------------------- MODULE DapTransport ----------------------------
(***************************************************************************)
(* The DAP transport of the Rust core (crates/daptor-core/src/dap).        *)
(*                                                                         *)
(* Two threads share it.  The reader thread takes messages off the         *)
(* adapter's stdout: a response goes into the map pending, an event or a   *)
(* request of the adapter into the unbounded channel inbound.  The session *)
(* thread (the client) sends requests, waits for their responses in a loop *)
(* that meanwhile pumps the messages it did not wait for, polls events,    *)
(* drains the console output and shuts the transport down.                 *)
(*                                                                         *)
(* The adapter is the environment: it answers a request once, late or      *)
(* never, emits messages of its own, and may die at any moment.  The       *)
(* public wait_for_event is left out: nothing in the repository calls it.  *)
(***************************************************************************)
EXTENDS Naturals, Sequences

CONSTANTS
    MaxRequests,  \* bound on the requests the session sends
    MaxMessages,  \* bound on the messages the adapter emits unasked
    WaitBudgets   \* how many loop iterations may fit before a deadline

ASSUME BoundsAssumption == MaxRequests \in Nat /\ MaxMessages \in Nat
ASSUME BudgetAssumption == WaitBudgets \subseteq Nat

VARIABLES
    alive,         \* the adapter process runs
    wire,          \* what the adapter wrote to stdout and nobody read yet
    reader,        \* the reader thread: "running" or "exited"
    pending,       \* the seqs whose response is in the pending map
    inbound,       \* the channel from the reader to the client
    backlog,       \* event_backlog: events set aside by a wait loop
    outputBuffer,  \* output_buffer: console output not yet taken
    nextSeq,       \* SEQ, the next request seq
    shutDown,      \* shut_down
    pc,            \* where the client is in its current call
    waiting,       \* the request_seq wait_response waits for
    budget,        \* iterations left before the deadline of the call
    \* History, read by no action of the code.
    sent,          \* seqs of the requests the adapter received
    replied,       \* seqs the adapter has answered
    awaited,       \* seqs some wait_response was called for
    taken,         \* seqs whose response a wait returned
    emitted,       \* how many messages the adapter has emitted unasked
    delivered,     \* the events handed to the session, in order
    handled,       \* ids of the requests given to on_adapter_request
    dropped,       \* ids of the messages thrown away
    console,       \* the outputs drained for the console, in order
    queuedAtWait   \* adapter requests in the channel when the wait began

adapterVars == <<alive, wire, sent, replied, emitted>>
readerVars == <<reader, pending>>
queueVars == <<inbound, backlog, outputBuffer, delivered, handled, dropped, console>>
callVars == <<pc, waiting, budget, nextSeq, shutDown, awaited, taken, queuedAtWait>>
vars == <<adapterVars, readerVars, queueVars, callVars>>

Seqs == 1..(MaxRequests + 1)
Ids == 1..MaxMessages
EventKinds == {"output", "event"}
Kinds == EventKinds \cup {"request", "malformed", "badframe"}
Inbound == [kind : EventKinds \cup {"request"}, id : Ids]
Response == [kind : {"response"}, id : Seqs]
WireMessage == [kind : Kinds, id : Ids] \cup Response

Init ==
    /\ alive = TRUE /\ wire = <<>> /\ sent = {} /\ replied = {} /\ emitted = 0
    /\ reader = "running" /\ pending = {}
    /\ inbound = <<>> /\ backlog = <<>> /\ outputBuffer = <<>>
    /\ delivered = <<>> /\ handled = {} /\ dropped = {} /\ console = <<>>
    /\ pc = "idle" /\ waiting = 0 /\ budget = 0 /\ nextSeq = 1
    /\ shutDown = FALSE /\ awaited = {} /\ taken = {} /\ queuedAtWait = {}

-----------------------------------------------------------------------------
(* The adapter.                                                            *)

AdapterRespond(s) ==
    /\ alive /\ s \in sent \ replied
    /\ wire' = Append(wire, [kind |-> "response", id |-> s])
    /\ replied' = replied \cup {s}
    /\ UNCHANGED <<alive, sent, emitted, readerVars, queueVars, callVars>>

AdapterEmit(k) ==
    /\ alive /\ emitted < MaxMessages
    /\ emitted' = emitted + 1
    /\ wire' = Append(wire, [kind |-> k, id |-> emitted + 1])
    /\ UNCHANGED <<alive, sent, replied, readerVars, queueVars, callVars>>

AdapterExit ==
    /\ alive
    /\ alive' = FALSE
    /\ UNCHANGED <<wire, sent, replied, emitted, readerVars, queueVars, callVars>>

-----------------------------------------------------------------------------
(* The reader thread.  A JSON value that is no DAP message is logged and   *)
(* skipped.  A bad frame and the end of the stream end the thread, and     *)
(* nobody is told.                                                         *)

ReadResponse ==
    /\ reader = "running" /\ wire # <<>> /\ Head(wire).kind = "response"
    /\ wire' = Tail(wire)
    /\ pending' = pending \cup {Head(wire).id}
    /\ UNCHANGED <<alive, sent, replied, emitted, reader, queueVars, callVars>>

ReadUnasked ==
    /\ reader = "running" /\ wire # <<>>
    /\ Head(wire).kind \in EventKinds \cup {"request"}
    /\ wire' = Tail(wire)
    /\ inbound' = Append(inbound, Head(wire))
    /\ UNCHANGED <<alive, sent, replied, emitted, readerVars, backlog, outputBuffer,
                   delivered, handled, dropped, console, callVars>>

SkipMalformed ==
    /\ reader = "running" /\ wire # <<>> /\ Head(wire).kind = "malformed"
    /\ wire' = Tail(wire)
    /\ dropped' = dropped \cup {Head(wire).id}
    /\ UNCHANGED <<alive, sent, replied, emitted, readerVars, inbound, backlog,
                   outputBuffer, delivered, handled, console, callVars>>

StreamEnded == wire = <<>> /\ ~alive

ReaderExit ==
    /\ reader = "running"
    /\ StreamEnded \/ (wire # <<>> /\ Head(wire).kind = "badframe")
    /\ reader' = "exited"
    /\ UNCHANGED <<adapterVars, pending, queueVars, callVars>>

Reader == ReadResponse \/ ReadUnasked \/ SkipMalformed \/ ReaderExit

-----------------------------------------------------------------------------
(* Requests and their responses.  The seq is consumed even when the write  *)
(* fails because the adapter is gone.                                      *)

Transmit ==
    /\ nextSeq' = nextSeq + 1
    /\ sent' = IF alive THEN sent \cup {nextSeq} ELSE sent

SendRequest ==
    /\ pc = "idle" /\ nextSeq <= MaxRequests
    /\ Transmit
    /\ UNCHANGED <<alive, wire, replied, emitted, readerVars, queueVars, pc, waiting,
                   budget, shutDown, awaited, taken, queuedAtWait>>

\* The ids of the messages in a queue that are of some kinds.
IdsOf(s, kinds) == {s[i].id : i \in {j \in DOMAIN s : s[j].kind \in kinds}}
RequestsIn(s) == IdsOf(s, {"request"})

BeginWait(s, b) ==
    /\ pc = "idle" /\ s \in sent \ awaited
    /\ pc' = "check" /\ waiting' = s /\ budget' = b
    /\ awaited' = awaited \cup {s}
    /\ queuedAtWait' = RequestsIn(inbound)
    /\ UNCHANGED <<adapterVars, readerVars, queueVars, nextSeq, shutDown, taken>>

\* The call is over, and with it what it kept for itself.
EndWait == pc' = "idle" /\ waiting' = 0 /\ budget' = 0 /\ queuedAtWait' = {}

\* The head of the loop: past the deadline the call fails, whatever the map holds.
WaitTimeout ==
    /\ pc = "check" /\ budget = 0
    /\ EndWait
    /\ UNCHANGED <<adapterVars, readerVars, queueVars, nextSeq, shutDown, awaited, taken>>

TakeResponseKeepingIt ==
    /\ pc = "check" /\ budget > 0 /\ waiting \in pending
    /\ taken' = taken \cup {waiting}
    /\ EndWait
    /\ UNCHANGED <<adapterVars, readerVars, queueVars, nextSeq, shutDown, awaited>>

TakeResponse ==
    /\ pc = "check" /\ budget > 0 /\ waiting \in pending
    /\ pending' = pending \ {waiting}
    /\ taken' = taken \cup {waiting}
    /\ EndWait
    /\ UNCHANGED <<adapterVars, reader, queueVars, nextSeq, shutDown, awaited>>

NoResponseYetForever ==
    /\ pc = "check" /\ budget > 0 /\ waiting \notin pending
    /\ pc' = "pump"
    /\ UNCHANGED <<adapterVars, readerVars, queueVars, waiting, budget, nextSeq, shutDown,
                   awaited, taken, queuedAtWait>>

NoResponseYet ==
    /\ pc = "check" /\ budget > 0 /\ waiting \notin pending
    /\ pc' = "pump" /\ budget' = budget - 1
    /\ UNCHANGED <<adapterVars, readerVars, queueVars, waiting, nextSeq, shutDown,
                   awaited, taken, queuedAtWait>>

\* try_recv_event: the backlog first, the channel only when it is empty.
Available == IF backlog # <<>> THEN backlog ELSE inbound

PopAvailable ==
    IF backlog # <<>> THEN backlog' = Tail(backlog) /\ UNCHANGED inbound
                      ELSE inbound' = Tail(inbound) /\ UNCHANGED backlog

Buffer(m) == IF m.kind = "output" THEN Append(outputBuffer, m.id) ELSE outputBuffer

PumpEventLosingIt ==
    /\ pc = "pump" /\ Available # <<>> /\ Head(Available).kind # "request"
    /\ PopAvailable
    /\ outputBuffer' = Buffer(Head(Available))
    /\ pc' = "check"
    /\ UNCHANGED <<adapterVars, readerVars, delivered, handled, dropped, console, waiting,
                   budget, nextSeq, shutDown, awaited, taken, queuedAtWait>>

PumpAnything ==
    /\ pc = "pump" /\ Available # <<>>
    /\ IF backlog # <<>>
       THEN backlog' = Append(Tail(backlog), Head(backlog)) /\ UNCHANGED inbound
       ELSE backlog' = <<Head(inbound)>> /\ inbound' = Tail(inbound)
    /\ outputBuffer' = Buffer(Head(Available))
    /\ pc' = "check"
    /\ UNCHANGED <<adapterVars, readerVars, delivered, handled, dropped, console, waiting,
                   budget, nextSeq, shutDown, awaited, taken, queuedAtWait>>

PumpEventFromTheChannel ==
    /\ pc = "pump" /\ inbound # <<>> /\ Head(inbound).kind # "request"
    /\ inbound' = Tail(inbound) /\ backlog' = Append(backlog, Head(inbound))
    /\ outputBuffer' = Buffer(Head(inbound))
    /\ pc' = "check"
    /\ UNCHANGED <<adapterVars, readerVars, delivered, handled, dropped, console, waiting,
                   budget, nextSeq, shutDown, awaited, taken, queuedAtWait>>

\* An event: enqueue_event puts it at the back of the backlog, an output event
\* into the console buffer as well.
PumpEvent ==
    /\ pc = "pump" /\ Available # <<>> /\ Head(Available).kind # "request"
    /\ IF backlog # <<>>
       THEN backlog' = Append(Tail(backlog), Head(backlog)) /\ UNCHANGED inbound
       ELSE backlog' = <<Head(inbound)>> /\ inbound' = Tail(inbound)
    /\ outputBuffer' = Buffer(Head(Available))
    /\ pc' = "check"
    /\ UNCHANGED <<adapterVars, readerVars, delivered, handled, dropped, console, waiting,
                   budget, nextSeq, shutDown, awaited, taken, queuedAtWait>>

\* A request of the adapter: on_adapter_request answers it, or fails (it cannot
\* be parsed, spawned or answered) and ends the wait.
PumpRequest ==
    /\ pc = "pump" /\ Available # <<>> /\ Head(Available).kind = "request"
    /\ PopAvailable
    /\ handled' = handled \cup {Head(Available).id}
    /\ \/ pc' = "check" /\ UNCHANGED <<waiting, budget, queuedAtWait>>
       \/ EndWait
    /\ UNCHANGED <<adapterVars, readerVars, outputBuffer, delivered, dropped, console,
                   nextSeq, shutDown, awaited, taken>>

PumpNothing ==
    /\ pc = "pump" /\ Available = <<>>
    /\ pc' = "check"
    /\ UNCHANGED <<adapterVars, readerVars, queueVars, waiting, budget, nextSeq, shutDown,
                   awaited, taken, queuedAtWait>>

WaitStep == \/ WaitTimeout \/ TakeResponse \/ NoResponseYet
            \/ PumpEvent \/ PumpRequest \/ PumpNothing

-----------------------------------------------------------------------------
(* Polling: poll_events and poll_until_stopped take one message at a time. *)
(* An output event goes to the console buffer; a request of the adapter is *)
(* matched by their catch-all arm and ignored.                             *)

PollEventUnbuffered ==
    /\ pc = "idle" /\ Available # <<>> /\ Head(Available).kind # "request"
    /\ PopAvailable
    /\ delivered' = Append(delivered, Head(Available))
    /\ UNCHANGED <<adapterVars, readerVars, outputBuffer, handled, dropped, console,
                   callVars>>

PollEventChannelFirst ==
    /\ pc = "idle"
    /\ \/ inbound # <<>> /\ Head(inbound).kind # "request"
          /\ delivered' = Append(delivered, Head(inbound))
          /\ outputBuffer' = Buffer(Head(inbound))
          /\ inbound' = Tail(inbound) /\ UNCHANGED backlog
       \/ inbound = <<>> /\ backlog # <<>>
          /\ delivered' = Append(delivered, Head(backlog))
          /\ outputBuffer' = Buffer(Head(backlog))
          /\ backlog' = Tail(backlog) /\ UNCHANGED inbound
    /\ UNCHANGED <<adapterVars, readerVars, handled, dropped, console, callVars>>

PollEvent ==
    /\ pc = "idle" /\ Available # <<>> /\ Head(Available).kind # "request"
    /\ PopAvailable
    /\ delivered' = Append(delivered, Head(Available))
    /\ outputBuffer' = Buffer(Head(Available))
    /\ UNCHANGED <<adapterVars, readerVars, handled, dropped, console, callVars>>

PollRequest ==
    /\ pc = "idle" /\ Available # <<>> /\ Head(Available).kind = "request"
    /\ PopAvailable
    /\ dropped' = dropped \cup {Head(Available).id}
    /\ UNCHANGED <<adapterVars, readerVars, outputBuffer, delivered, handled, console,
                   callVars>>

TakeOutput ==
    /\ pc = "idle" /\ outputBuffer # <<>>
    /\ console' = console \o outputBuffer
    /\ outputBuffer' = <<>>
    /\ UNCHANGED <<adapterVars, readerVars, inbound, backlog, delivered, handled, dropped,
                   callVars>>

-----------------------------------------------------------------------------
(* Shutting down: a disconnect request nobody waits for, the adapter is    *)
(* killed, the reader thread joined.                                       *)

BeginShutdown ==
    /\ pc = "idle" /\ ~shutDown
    /\ shutDown' = TRUE /\ pc' = "killing"
    /\ Transmit
    /\ UNCHANGED <<alive, wire, replied, emitted, readerVars, queueVars, waiting, budget,
                   awaited, taken, queuedAtWait>>

ForgetToKillAdapter ==
    /\ pc = "killing"
    /\ pc' = "joining"
    /\ UNCHANGED <<adapterVars, readerVars, queueVars, waiting, budget, nextSeq, shutDown,
                   awaited, taken, queuedAtWait>>

KillAdapter ==
    /\ pc = "killing"
    /\ alive' = FALSE /\ pc' = "joining"
    /\ UNCHANGED <<wire, sent, replied, emitted, readerVars, queueVars, waiting, budget,
                   nextSeq, shutDown, awaited, taken, queuedAtWait>>

JoinReader ==
    /\ pc = "joining" /\ reader = "exited"
    /\ pc' = "idle"
    /\ UNCHANGED <<adapterVars, readerVars, queueVars, waiting, budget, nextSeq, shutDown,
                   awaited, taken, queuedAtWait>>

ShutdownStep == KillAdapter \/ JoinReader

-----------------------------------------------------------------------------
Adapter ==
    \/ \E s \in Seqs : AdapterRespond(s)
    \/ \E k \in Kinds : AdapterEmit(k)
    \/ AdapterExit

Client ==
    \/ SendRequest \/ (\E s \in Seqs, b \in WaitBudgets : BeginWait(s, b)) \/ WaitStep
    \/ PollEvent \/ PollRequest \/ TakeOutput
    \/ BeginShutdown \/ ShutdownStep

Next == Adapter \/ Reader \/ Client

Spec == Init /\ [][Next]_vars

\* A thread that can run does run; the adapter and the user owe nothing.
Fairness == WF_vars(Reader) /\ WF_vars(WaitStep) /\ WF_vars(ShutdownStep)

FairSpec == Spec /\ Fairness

-----------------------------------------------------------------------------
(* Correctness.                                                            *)

\* Every variable has its type.
TypeOK ==
    /\ alive \in BOOLEAN /\ reader \in {"running", "exited"} /\ shutDown \in BOOLEAN
    /\ wire \in Seq(WireMessage) /\ pending \subseteq Seqs
    /\ inbound \in Seq(Inbound) /\ backlog \in Seq([kind : EventKinds, id : Ids])
    /\ outputBuffer \in Seq(Ids) /\ console \in Seq(Ids)
    /\ delivered \in Seq([kind : EventKinds, id : Ids])
    /\ pc \in {"idle", "check", "pump", "killing", "joining"}
    /\ waiting \in {0} \cup Seqs /\ budget \in Nat /\ nextSeq \in 1..(MaxRequests + 2)
    /\ sent \subseteq Seqs /\ replied \subseteq Seqs
    /\ awaited \subseteq Seqs /\ taken \subseteq Seqs
    /\ emitted \in 0..MaxMessages
    /\ handled \subseteq Ids /\ dropped \subseteq Ids /\ queuedAtWait \subseteq Ids

IdsIn(s) == IdsOf(s, Kinds)
ResponsesOnWire == IdsOf(wire, {"response"})

\* However the reader, a wait loop and a poll interleave, a message the adapter
\* emitted is on its way or has reached its one destination: none vanishes
\* between the channel, the backlog and the session.
NoMessageLost ==
    IdsIn(wire) \cup IdsIn(inbound) \cup IdsIn(backlog) \cup IdsIn(delivered)
        \cup handled \cup dropped = 1..emitted

IncreasingIds(s) == \A i, j \in DOMAIN s : i < j => s[i].id < s[j].id

\* Events reach the session in the order the adapter emitted them, though a wait
\* sets some aside in a second queue (try_recv_event, enqueue_event).
DeliveredInOrder == IncreasingIds(delivered)

\* A wait sets at most one event aside: as long as there is one, the loop takes
\* it out and puts it back and does not read the channel.
BacklogAtMostOne == Len(backlog) <= 1

\* A response is in one place only, and is given to a wait that asked for it.
ResponseAccounting ==
    /\ replied = ResponsesOnWire \cup pending \cup taken
    /\ ResponsesOnWire \cap pending = {} /\ (ResponsesOnWire \cup pending) \cap taken = {}
    /\ taken \subseteq awaited /\ replied \subseteq sent

OutputsIn(s) == IdsOf(s, {"output"})
Elements(s) == {s[i] : i \in DOMAIN s}

\* An output event that left the channel is in the console buffer or shown.
OutputReachesConsole ==
    OutputsIn(delivered) \cup OutputsIn(backlog) \subseteq
        Elements(outputBuffer) \cup Elements(console)

\* wait_response returns, whatever the adapter does: it has no step that blocks.
WaitReturns == pc \in {"check", "pump"} ~> pc = "idle"

\* shutdown returns: "Kill the adapter so stdout closes and the reader thread can
\* exit" (client.rs), also when the adapter ignores the disconnect request.
ShutdownCompletes == pc = "killing" ~> pc = "idle"

\* What the code claims and does not keep: it tells the adapter that it supports
\* runInTerminal requests, so a wait that runs into its deadline has not left
\* unserved a request that was in the channel when it began.
AdapterRequestsServed ==
    [][WaitTimeout => queuedAtWait \cap RequestsIn(inbound) = {}]_vars
=============================================================================
