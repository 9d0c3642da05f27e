# Verification of Daptor

Daptor is a debugger for the terminal: a UI in C++ (`src/cpp`), a core in Rust
that speaks the Debug Adapter Protocol to an adapter process
(`src/crates/daptor-core`), and a C API between the two. This directory holds
TLA+ models of its concurrent and stateful parts, TLC configurations that check
them on small instances, and theorems checked by TLAPS.

## 1. Inventory

### Threads and how they interact

    adapter process --stdout--> reader thread --channel, pending map--> session
    session --stdin--> adapter process
    UI thread --mailboxes--> worker thread --C API--> session
    launch worker --C API--> session
    worker thread, launch worker --event queue--> UI thread

The session in Rust has no lock and is called from one C++ object,
`SessionIoThread`, which means to call it from one thread. The DAP transport is
shared by the session's caller and the reader thread through a channel and a
map with a mutex.

### Components

| Component | State | Operations | What makes it correct |
|---|---|---|---|
| DAP transport (`dap/`) | pending responses, channel, event backlog, console buffer, next seq, `shut_down` | send, wait for a response while pumping events, poll, drain the console, shut down | no event lost or reordered, a response given once, waits and the shutdown return, requests of the adapter answered |
| Debug session (`session/mod.rs`) | `Stopped`/`Running`/`Exited`, active thread and frame, breakpoint ids and hits, capabilities, the first snapshot | launch, poll, continue, step, evaluate, set breakpoints, disconnect, terminate, relaunch | stops are taken one at a time and in order; with nothing queued the state is that of the program; a snapshot shows one stop |
| rr session, MI client (`session/rr_session.rs`, `mi/`) | MI token, state, last and first snapshot, gdb and replay server | execution commands, breakpoints, evaluation by GDB/MI lines; restart | an answer goes to its command; between two commands nothing is under way |
| Debuggee terminal (`terminal/`) | pty, output buffer, reader thread | write, take output, resize, drop | output not lost, drop ends |
| Network capture (`network/`) | the request whose response is awaited, the exchanges not drained | record, drain, send a composed request | an exchange is a request with its own response, recorded once; a result is shown |
| C API (`c_api/`), backend (`rust_session_backend.cpp`) | session handle, last error | poll and the calls of the session | the error is that of the caller's own call; a result that fits is delivered |
| Launch resolution (`launch/`) | none (pure) | config to adapter and launch arguments | precedence of profile, extension and default |
| UI worker thread (`session_io_thread.cpp`) | a mailbox for each kind of request, child queue, abort flag, launch state, live and active flags | post, serve, preempt, dispatch, poll, launch, close | every request settled once, none answered when stale, nothing called after a disconnect, one caller of the session |
| Layout tree (`layout_tree.cpp`) | nodes, parent links, root, next id | delete, extract, insert, swap | a tree, all of it on the screen |
| Pane handlers (`app.cpp`), menus and drags (`context_menu.cpp`, `layout_drag.cpp`) | panels in the leaves, the open menu, the drag | delete, swap, move and add panes and tabs | no panel lost or shown twice; what a menu or a drag remembers is still there |
| Session events in the UI (`app.cpp`, `debug_ui_model.cpp`) | state shown, scopes and their variables, pending flags, signatures, generations | apply an event, send a command, expand, edit | the UI shows the state of the session; a stale answer is not kept, a pending flag is cleared |
| Breakpoints in the UI (`app.cpp`, `breakpoints_panel.cpp`) | breakpoints by file, other lists, hit counts | toggle, edit, push, flush, count | what the user sees is what the adapter has; counts are real |
| Memory panels (`app.cpp`, `memory_panel.cpp`) | dump, place, search, row edit | look up, search, edit, write | the match and the edited row are those of the dump shown |
| Panes and the keyboard (`app.cpp`, `stacked_pane.cpp`) | active tabs, focus, focused pane, focused memory panel | switch, click, cycle, add, move, delete, resize | keys go to a panel that is seen, and to the one the user chose |
| REPL input (`app.cpp`, `repl_panel.cpp`) | text, cursor, candidates, ghost, pending request | type, move, submit, complete, cycle, accept | what is offered is for what is typed |
| Mock session (`mock_session_backend.cpp`) | state, line, place in a list of lines | commands and requests of a session | the place is that of the line shown |
| Network panel (`network_panel.cpp`, `compose_templates.cpp`) | view, selections, offsets, templates, backup of an edit, file | select, scroll, edit, add, delete, send | an edit changes the template it began on and no other |
| Other widgets and panels, files, highlighting, launcher | drawing and file state | | not concurrent; see `PROJECT.json` |

### What is hard here

* A wait loop and a poll loop read the same two queues in turn while the reader
  thread fills one of them; a response may come late or never, the adapter may
  die in any state.
* The UI thread posts into mailboxes the worker empties without holding the mutex
  while it serves; work is put back when a command arrives; flags are read at one
  moment and acted on later.
* A second thread launches the session and goes on using it.
* The UI keeps flags (asked, pending, in flight, restarting) that some event must
  reset, and a command may throw away the request whose answer would.
* Lists are posted whole into mailboxes of one slot, and positions in one list are
  applied to a later one.
* The layout keeps children and parent links in two maps by hand.

`PROJECT.json` lists every such hazard at its line, with the properties that
cover it, or the reason that none does.

## 2. Modules

Each model is one module; the `MC` module beside it fixes the values TLC needs,
and each `.cfg` asks one question. Mutated operators (named for what a bug would
do, such as `PumpEventLosingIt`) stand right before the definition they mutate
and are used by no specification.

### DapTransport

The transport of `dap/client.rs` between the adapter process and the session
thread. The variables are the fields of `DapTransport` (`pending`, `inbound`,
`backlog` for `event_backlog`, `outputBuffer`, `nextSeq`, `shutDown`), the two
ends of stdout (`wire`, `alive`, `reader`), the position of the client in its
present call (`pc`, `waiting`, `budget`), and history variables for what was
emitted, delivered and taken.

`wait_response` is three steps for each round: look at the deadline and the map
(`WaitTimeout`, `TakeResponse`, `NoResponseYet`) and then take one message
(`PumpEvent`, `PumpRequest`, `PumpNothing`). The reader thread
(`ReadResponse`, `ReadUnasked`, `SkipMalformed`, `ReaderExit`) runs between any
two of them. Polling is `PollEvent` and `PollRequest`, draining `TakeOutput`,
shutting down `BeginShutdown`, `KillAdapter`, `JoinReader`. Bodies of messages
are a kind and a number. The adapter (`AdapterRespond`, `AdapterEmit`,
`AdapterExit`) is external: it answers a request at most once, in any order,
late or never, and emits what it likes, including JSON that is no message and
frames that cannot be read. Its being alive stands for its stdout being open.

A deadline is a number of rounds (`budget`), chosen from `WaitBudgets`: real time
only matters by how many rounds it leaves room for.

Left out: `wait_for_event`, which nothing calls, and the write of a request that
fails half-way.

### LayoutTree

`LayoutTree` of `layout_tree.cpp` as functions from a tree to a tree, and the
handlers of `app.cpp` that apply them as actions. A tree is the record of the
four members; `parents` is kept apart from `nodes` exactly as the code does, so
that the two can disagree. `Graft` puts a leaf beside another (`insert_adjacent`),
`Remove` takes one out (`delete_leaf`, `extract_leaf`). `Rebuild` is the end of
every handler, which refills empty docked panes with their default panels. A leaf
the user may act on is a leaf on the screen.

`split_leaf` drops the parent link of a pane that fills the screen. Nothing calls
it any more (`show_pane_add_menu` and `split_layout_pane` have no caller), so it
is described here and not modelled.

### LayoutGestures

How the user gets to those handlers: the menus of a pane and of a tab, the preview
of what a menu item would do, and drags of panes and tabs (`context_menu.cpp`,
`layout_drag.cpp`, `app.cpp`). A menu keeps the pane and tab it was opened for,
a drag the one it began on, and both act later. Each step of the layout is an
operation of LayoutTree (`RearrangesLayout`), which makes the gestures a
refinement of it. What a drop means for a place on a pane is a choice of the model.

### SessionIoThread

The worker of `session_io_thread.cpp`. A request is a ticket with a number in
the order of posting; a mailbox of one slot holds a ticket or 0. `stage` is the
place in the fixed cycle of `thread_main`, `phase` the place within one
`process_*` function: look at the flags, take the request under the mutex,
test again, call the backend without the mutex, answer. The UI and the launch
worker run between any two of these. `fate` records what became of a ticket.

`Order` is the cycle. For a kind of request `LookFor`, `TakeNothing`, `Take`,
`PutBack`, `FailOffline`, `CallBackend` and `Return` are the steps of its
function; operators such as `MayTake`, `Interrupted` and `Offline` say in what
the kinds differ. `Preempt` is `process_preempting_commands`: taking a command,
applying an edited variable first, dispatching. The launch worker is the four
steps of the thread that `maybe_begin_launch` starts. The session behind the C
API is the environment: a call returns, with success or not.

The destructor is an actor of its own. `Close` sets `stop_`; `DestructorJoins` joins
the launch worker if it finds it joinable (line 26) and then the worker, which
joins the launch worker too when its loop is over (`EndWorker`, line 1212). No
lock guards the two: if a launch is under way both may be inside `join` of one
`std::thread`, or one joins what the other has joined (`JoinedTwice`). That is
undefined; in the model the second join returns like the first or ends the process
(`Terminate`), as the `std::system_error` that nothing catches does.

Debouncing is `Ripen`: a mailbox becomes ripe at any time after it was filled.

### DebugSession and SessionLifecycle

`DebugSession` of `session/mod.rs`. One caller is inside the session at a time; a
call sends its requests one after the other, and `pc` names the request that is
out, or the loop that reads events (`"poll"`, `"untilStop"`). The transport is
only its queue of events here. Each request is answered, refused or times out,
and a resume that timed out may still be carried out (`late`, `LateResume`). `Poll`
and the loop `ReadEvent` with `ReadStopped`, `ReadUnreadableStop`, `ReadTerminated`,
`ReadThread`, `ReadOther` are `poll_events` and `poll_until_stopped`. A stop that
names no thread cannot be parsed, because `thread_id` is required (`protocol.rs:138`),
though DAP makes it optional: `ReadUnreadableStop` consumes it, and the call ends
with the error (`mod.rs:1098`). A `continued` event is skipped (`mod.rs:1131`). `live`
is `adapter_live_` of the worker: after a disconnect there is no poll. `SnapshotRequest` goes
through the requests behind a snapshot (`HitsAnswered`, `ThreadsAnswered`,
`StacksAnswered`, `VariablesAnswered`, `BreakListAnswered`, `ExceptionAnswered`);
`Launch` is both the launch and the restart, which replaces the whole session.
`Query` lists the calls that ask and change nothing, with their guards.

The program and its adapter are the environment: it stops and says of which thread
or not (`named`), threads end, it may run on after a lost answer or by itself
(`ProgramContinues`, as after an expression it was given to evaluate), the adapter
may die. `crossed` remembers that the program went on while a stop was unread, after
the call that asked for it, or unasked; after that the session may show a stop that
is over, because it does not listen to `continued`.

`SessionLifecycle` says what the UI may rely on, in three variables: the state,
whether a stop was taken since the launch, and the threads of the stops not yet
taken. Stops are taken in their order, and while the session is connected each in
the end, whatever the adapter does; one that names no thread is passed over. `Implements` maps the queue to the stops in it, and a launch or restart to
one step at its end.

Assumed: the first snapshot is read before the first poll (the window in which
it is not is the run `backend_shared`). Every session is launched with the
generic adapter profile, as `launch_from_resolved` does. Hit counts are left out.

### CApi

The functions of `c_api/` and the backend that calls them. `LAST_ERROR` is one
for the process; `Answer` clears it on entry and sets it on failure, `Point` and
`Copy` are the two steps of fetching it. Three threads call: the session worker,
the launch worker and the UI thread, which asks about source text
(`AskAboutSource`). The functions are grouped by what they check before they
reach the session (`NeedsSession`, `TakesText`, `TakesJson`), by what an rr
session refuses (`NotInRr`, `EmptyInRr`), and by the size of the buffer
(`Capacity`). What the session holds for a poll and cannot deliver is gone
(`Takes`). `BeginHighlight` and `TryHighlight` are the four attempts with growing
buffers.

### RrSession

`RrDebugSession` on `MiClient`: a line with a token is written (`Send`) and lines
are read (`ReadLine`) until the answer is there (`Answers`), an error ends the
wait (`Refuses`), or a line that is neither comes after the deadline (`TimeOut`).
A launch is the sequence of `NextLaunchStep`; a restart records the program again
without its arguments. gdb (`GdbStarts`, `GdbStops`, `GdbAnswers`, `GdbNotes`,
`GdbDies`) works on its own: it goes on with what the session gave up waiting for.

### NetworkCapture

The proxy pairs requests and responses through one slot: `HandleRequest` fills
it, `HandleResponse` takes it before it reads the body, `PushExchange` records
what it took. `Drain` is the poll of the worker, `BeginSend` and `EndSend` the
composed request, which the same worker sends. Both come back as the same kind of
event, and `HandleEvent` takes an event for a result while one is awaited.

### NetworkPanel

The panel's two views with one list and one detail pane, the keys, the mouse, the
editing of a template with its backup, and the file of templates. `Synced` is
`sync_detail_scroll`, which ends every handler. The fields of a template are one
number, and the timeout is edited through a text of its own as in the code.
`Rebuild` is `build_ui`: a new size of the terminal, and Alt with an arrow, which
`app.cpp:6984` looks for before an edit gets its keys, make a new panel with the
demonstration and the templates of the file. A composed request that is awaited
then stays awaited, and its result goes to the new panel (`ShowResult`).

### UiSession

The debug session as `DebugApp` follows it: launch, snapshots, commands, scopes
with the children the user expanded, variable edits, step-in targets. A stop has a number; the
snapshots, scopes and children carry the number of the stop they are of, so what
the UI shows can be compared with what the session is at. `HandleSessionEvent`
and `PollSession` are the loop of `poll_session`, and the keyboard has its turn
between two polls (`AtKeyboard`). The worker is cut down to one task at a time
with the mailboxes, the abort flag and the clearing of requests of
`SessionIoThread`. An answer for the scopes has all of them, some or none, since
`process_scope_fetch` leaves out those whose request failed and reports success
(`partial`). A poll that fails may have taken a stop, for `snapshot_after_stop` sets
the state before it asks for what there is to see. `unsure` and `dropped` name the ways in which the code leaves
the UI with a state nothing confirms or with requests nothing repeats; the
properties exclude them and section 3 lists them.

### UiBreakpoints

The lists of breakpoints of all four kinds, the edit of conditions, the push of a
list, the flush at the first stop and the hit counts, with the worker, the
session (which counts) and the adapter behind. `Find` is the search for a file
with its fallback to files of the same name, `ByPlace` and `ByLine` match counts
to breakpoints as `apply_breakpoint_hit_counts` does, `CountedSite` and
`AlreadyCounted` are `record_breakpoint_hit`. `SkipToCatch` and `AfterSkip` are
the breakpoint set for one stop to reach a catch clause. `lost` holds the lists
that were overwritten in the mailbox, posted under the name of another file or
refused, and those of a restart the UI no longer waits for; `misled` that a count
was given to another breakpoint, or made a second time. `passes` counts what the
program really did, and an event carries the passes there were when it was made
(`seen` of the one handled last), so that the counts shown have something to be
compared with.

### MemoryView

Memory panels beside disassembly and runtime-source panels. `Stop` is the
snapshot with `maybe_request_dap_panel_data` (`PanelsAsk`: each panel asks and
the mailbox keeps one request of a kind); `Serve` answers a request, `HandleEvent`
applies it. `Redumped` searches the new dump for the text again and `IndexIn`
clamps the match. Toolbar inputs, search, address (which is evaluated when it is
no number), row edit and write follow the key and mouse handlers; `disowned` is a
row the list still edits after its panel has forgotten it. `began` remembers the
place a row edit began at: the properties compare it with where the bytes go.

### PaneFocus

Which tab a pane shows and which widget gets the keys. The active tab is kept in
the layout (`panes`) and in the widget (`shown`); the focus is a kind of panel,
and `apply_focus` derives the rest: it turns the panes that stand for a dock to a
tab for the focus (`SyncedShown`), finds the pane (`PaneFor`) and the widget
(`Target`). `PressTab`, `PressCtrlTab`, `PressBracket`, `GoTo`, `ClickTab` and
`ClickPanel` are the keys and the mouse; `AddPanel`, `MoveTab`, `MovePane`,
`MoveTabAdjacent`, `SwapPanes` and `DeletePane` the handlers that change the panes,
which are modelled with their tree in LayoutTree and here with what they do to the
focus. Four panels exist once and are hosted by whichever tab is there (`Shared`).
`Given` is external: what the widget library gives the keyboard to in new widgets.

### ReplCompletion

The input of the REPL with its cursor, and the completion behind it: the timer
(`age` and `Wait` stand for the 200 and 500 ms), the request (`Request`), the
worker and its mailbox (`Work`, `Preempt`), the answer (`Receive`), the ghost and
what Tab and the arrows do with it. A character is a letter of a name or not, and
`strayed` remembers that the input or the cursor changed by one of the ways that
leave the candidates as they are; the property excludes them and section 3 lists
them.

### MockSession

The session for demonstrations, which moves over a fixed list of lines. The line
shown and the index of the next step are two fields that each command sets;
`Snapshot` and the requests are operators that give the answer.

### Parts

Eight parts that share nothing in the program but the worker and the focus, of which
each has its own cut, are checked side by side in one run and proved about in one
module: `part` in the initial state says which runs. Parts extends RrSession and
PaneFocus and has instances of CApi, NetworkCapture, NetworkPanel, ReplCompletion,
MockSession and, for two lists of panels, MemoryView. The instances share the
variables `x1` to `x17`, of which a part that needs fewer leaves the rest at 0, so
that the state does not grow with the number of parts. `PartsAreSound` says what the
constants are; MCParts gives them values and assumes it.

## 3. Runs

| Run | Question | Bounds | Result |
|---|---|---|---|
| `dap_transport` | messages, responses, output and waits | 2 requests, 2 unasked messages, deadline after 2 rounds | holds |
| `dap_served` | are requests of the adapter served in a wait? | 1 request, 2 messages, 6 rounds | violated |
| `gestures` | is the layout one tree with every panel, and are the panes and tabs that menus and drags remember still there? | 3 panels, `MaxId` 8 | holds |
| `session_io` | accounting, freshness and order of requests; does everything settle and end? | 10 kinds and commands, 2 posts | holds |
| `breakpoints_lost` | do the breakpoints of each file arrive? | 2 files, 2 posts | violated |
| `backend_shared` | is there one caller of the session? | 1 kind, 1 post | violated |
| `debug_session` | is the session right about the program, and does it implement SessionLifecycle? | 2 threads, 2 stops, 2 launches, 1 other event, stop without a thread or resume by the program itself | holds |
| `exited_early` | is an exited debuggee gone? | 2 threads, 1 launch | violated |
| `parts` | each of eight parts by itself | see below | holds |
| `ui_session` | does the UI show the state and the variables the session has? | 2 commands, 2 stops, 1 variable, 2 events waiting | holds |
| `ui_breakpoints` | does the adapter have what the UI shows, and are the counts real? | 2 files of one name, 3 sites, 2 stops, 2 edits, 1 command | holds |
| `refreshed_by_snapshot` | does the UI show what became of a step? | 1 command, 2 stops | violated |

Why the bounds suffice. In the transport two messages are what it takes to have
one in the backlog and one in the channel, the only situation in which the two
queues can get out of order; with two rounds a wait can pump both. Two requests
are what it takes for a late response to meet another wait; the disconnect is a
third. `MaxId` bounds the ids: the tree starts with five
nodes and an id is not used twice, so with 8 one move fits (each takes two new ids), with any number
of deletions, swaps and moves of tabs before and after it. The operations look at a node, its parent and its grandparent,
and trees of four and five panes have all three in every position. In the worker, two posts are a request in the hand and
the command that interrupts it, or its replacement in the mailbox; the ten kinds are one for each way in which the worker
treats a request. For layout and worker the safety properties are proved for all values (section 4), so the
bounds matter only to liveness.

In the session two stops let one be unread while the next happens, two threads
let the one that stops differ from the one that exits, and the second launch
meets what the first left. A poll reads one event (64 in the code), so that a
poll can end with events left.

The parts: `c_api` has a size that fits every buffer for JSON, one too large for most, one
with which a viewport takes a second attempt, and one that no attempt suffices for; `rr` three places, two launches, and
eight lines written to gdb, which is a launch and two commands more; `capture`
two requests on the wire, two sends and one launch; `network` one row, so that
two templates scroll, and one exchange; `memory` two panels,
two places and four actions of the user, which is what a search and an edit in
one panel take, `listings` one action and all three kinds of panel; `focus` one panel in
each dock and two changes, which make panes of several tabs, two panels of a type and
panes that stand for no dock; `repl` one character, two labels, of which one
continues it, and two requests, so that one is answered while the other waits;
`mock` the list of lines of the code, and jumps to a line on it and one off it.

In `ui_session` a command meets the snapshot of the one before, and the variables of
the second stop those of the first. In `ui_breakpoints` the two files of one name are
what `find_breakpoints_path` can confuse, and the two lines what a count can go astray
between; two edits let one list replace another in the mailbox.

Deadlock is not checked where the system may stop: a closed worker, a transport
with nothing to do, and a layout of one pane at the id bound.

### Fairness

`dap_transport` assumes weak fairness of the reader thread, of a wait in
progress and of a shutdown in progress: operating system threads that can run do
run, and none of their steps waits for anything but the condition in its guard
(`recv_timeout` returns). Nothing is assumed of the adapter, which may be silent
for ever, nor of the user. `session_io` assumes it of the worker, of the
launch worker, of the debounce clock and of the destructor once it has begun. This
includes that a call of the backend returns, which holds as each waits with a
deadline. Nothing is assumed of the UI, nor that a second join ends the process.

`debug_session` assumes weak fairness of a call in progress, as every wait has a
deadline, and strong fairness of the poll: the worker polls in every cycle
(`session_io_thread.cpp:1150` to `1196`), whatever calls come between. The poll is
enabled only while `live` is set, so nothing is assumed after a disconnect, where
`run_poll_cycle` returns at once (line 1110). With it `Implements` includes that every
stop is taken, or passed over if it names no thread, as long as the session is
connected. Nothing is assumed of the program or the adapter. The other runs check no liveness and assume no fairness.

### What the runs show

* No message is lost or reordered between the channel, the backlog and the
  session, and every output event reaches the console. That an output event
  reaches it once is not so: `enqueue_event` copies the event to the console
  buffer each time a round of a wait puts it back into the backlog, so a line may
  be shown several times. No text of the repository promises otherwise, so this
  is described here and not listed as a finding.
* In the tree every operation keeps `parents` and `nodes` in step, and no swap or
  move loses a panel.
* An interrupted fetch may put itself back after `post_command` has emptied its
  mailbox. `AnswersAreFresh` holds because `process_preempting_commands` empties
  it again when it takes the command: the mutant that leaves this out is caught.
* A close ends (`WorkerEnds`): the destructor returns with neither thread left in the
  object, or, if it came during a launch, the process ends at the second join of the
  launch worker. That a close during a launch may end the process is what the code does
  (lines 26 and 1212 of `session_io_thread.cpp`); no text of the repository says
  otherwise.
* Nothing is called for a mailbox or a command after a disconnect
  (`NoCallWhenDisconnected`). The command that disconnected still asks for its own
  snapshot and drains the console (`dispatch_command`, lines 936 to 943).

* The session implements its lifecycle under failing requests, restarts, timeouts
  and polls that end early. With nothing unread it is right about the program, but
  for a resume that took effect after its call gave up or while a stop was unread:
  then the next stop read is one behind. It goes on to say "stopped" of a program that
  continued by itself, until the next stop, and "running" of one whose stop did not
  name its thread.
* `StateAgrees` and `VariablesFollow` hold up to the cases that `unsure` and
  `dropped` name, each of which the run reaches: a step that fails while the program runs sets
  the UI to "stopped" (`app.cpp:2043`); a goto is shown as running before it is
  sent and stays so if it fails; a command posted over another one takes its place
  though the UI already shows the first; a command that fails throws away the
  scopes request and leaves `scope_variables_fetch_pending_` set, so the variables
  of that stop never come (`app.cpp:2579`); scopes that arrive during an edit do not
  bring back the expanded children (`app.cpp:1847`); a poll that took a stop and
  failed leaves "running" on the screen (`session_io_thread.cpp:1126`, `app.cpp:1868`).
  An answer that lacks a scope is taken for complete: the variables of that scope do
  not come before the next stop, but none of another stop are shown.
* `AdapterHas` holds but for lists lost on the way: a list posted over another
  in the mailbox; the breakpoints of two files of the same name, which
  `find_breakpoints_path` takes for one file; a list the adapter refused; and, of
  other kinds, those of a restart that was asked for while one that failed was under
  way, because the report of the failure ends the waiting for both
  (`restart_pending_`). A list that was lost may be at the adapter all the same, and
  is lost still: `enrich_stopped_snapshot` makes the last request again at the next
  stop, so what counts is the list and the request together (`Agrees`). The last two
  came out of the attempt to prove the property, at bounds no run had.
* `CountIsReal` holds where counts find their breakpoint. A stop is counted twice
  when the snapshot brings the count of that very stop, or when a second snapshot of
  it comes after the UI forgot to have counted it (`misled`); a count that is given
  to the nearest breakpoint may be one of another, which is told by the site it is
  of and not by the place it names.
* In the proxy a request that overlaps another may be recorded with its response, or
  not at all; alone it is recorded once. A composed result crossed by traffic, by
  the announcement of the proxy or by another send may be taken for traffic and
  stay pending.
* Of an edit in the network panel Escape restores the selected template, so a click
  during the edit makes it overwrite another one (`network_panel.cpp:1361`). Alt with an
  arrow or a resize of the terminal during an edit ends it without a word: what was
  typed is gone, with a template that was just added and every change that could not
  be saved. `EditIsLocal` says that the templates are then those of the file when
  the edit began.
* In the memory panels a row edit outlives the dump it began in, if a step during
  the edit brings another: Enter then writes at the new place. `EditInDump` compares
  with where the edit began among the dumps shown since. Of several memory panels
  only the last one is fetched at a stop.
* `KeyboardIsSeen` holds but for the cases it names: a memory panel that was hidden
  keeps the keyboard (nothing resets `memory_focus_slot_id_`), the focus on the
  resources gives it to the source, and the keys that go to the REPL reach it in a
  hidden tab of a pane that is no dock. `FocusFollows` needs each panel to have a
  focus of its own: with two panels of one type Ctrl+Tab starts from the first pane
  that has one and so may not get past it. After a resize `build_ui` leaves the
  keyboard to the library and does not call `apply_focus`. Of Tab it says what the code
  does, which is not what the repository says (disagreement 6): another tab of the same
  pane gets the keyboard, if the pane has one.
* A completion is offered for what is typed (`ShownIsCurrent`), but for what the
  candidates outlive: Enter empties the input and keeps them, so Up offers a
  continuation of the expression before and Tab inserts it; a click that moves the
  cursor keeps the ghost. A request that a command preempts is not repeated before
  the next edit.
* The mock session is at the line it shows. A jump to a line off its list counts as
  the first line for the next step; what was set of a variable outlives a restart;
  "continue" while it runs stops it.
* An rr session that gave up waiting for a stop is one answer behind from then on
  (`late`); all else is in step.

### Disagreements with the repository's own words

1. *Requests of the adapter wait behind an event* (`dap_served`). `wait_response`
   reads the backlog before the channel and puts an event back, so after the
   first event it never reads the channel. A `runInTerminal` request behind it
   is not served in that wait, although the session declares
   `supportsRunInTerminalRequest`.
2. *Breakpoints of several files* (`breakpoints_lost`). They are posted file after
   file into a mailbox of one slot; the last file wins.
3. *Two callers of the session* (`backend_shared`). The launch worker publishes the
   session as live and then goes on to read its first snapshot, while the worker
   may already poll.
4. *An exit that is none* (`exited_early`). `handle_thread_event` takes the end of
   the thread that stopped last for the end of the debuggee and marks the session
   as exited while other threads run on.
5. *A step without a snapshot* (`refreshed_by_snapshot`). When a step is reported
   finished, the UI relies on a snapshot having come before. Of a program that
   still runs there is none, because the stack of a running thread cannot be
   read, and the UI goes on to show "stopped".
6. *Tab does not leave the pane*. `src/README.md:141` lists `Tab` as "Cycle focus
   between areas". The code cycles the tabs of the focused pane (`FocusFollows`, run
   `parts`, shows that Tab goes to another tab of the pane and never to another pane);
   `cycle_focus_next` has no caller, and it is Ctrl+Tab that goes from pane to pane.
   This one has no run of its own: `parts` shows it by the opposite property.

## 4. Proofs

Eight modules of proofs. Every theorem holds
for all values of the constants: any number of requests, messages, panes, panels,
threads and stops. The assumptions are those the modules name in an `ASSUME`
(`BoundsAssumption`, `PanelsAssumption`, `SessionAssumption` and the like: bounds
are numbers, defaults are panels, no event has two kinds), and TLC evaluates them
in every run. RrSession, PaneFocus and Parts name theirs (`ParametersAreSound`,
`ConfigIsSound`, `PartsAreSound`) and have them as the hypothesis of their theorems;
MCParts, which extends all three, assumes them (`PartsAssumption`).

Each proof has the same form: `Inv` is a conjunction of named parts, `Init => Inv`
and `Inv /\ [Next]_vars => Inv'` with one step for each action and one below it
for each part it may disturb, and a last temporal step.

### DapTransportProofs

The module starts with lemmas about queues: what the head, the tail and an
appended message do to the ids in one (`IdsOfTail`, `IdsOfAppend`) and to their
order (`RisingTail`, `RisingAppend`).

| Theorem | Property | Inductive invariant |
|---|---|---|
| `TypeCorrect` | `TypeOK` | with `SeqLeftForShutdown`: until the shutdown there is a seq left for its disconnect request |
| `BacklogBounded` | `BacklogAtMostOne` | itself, given the types |
| `ResponsesAccounted` | `ResponseAccounting` | with `DistinctResponses` (no seq has two responses on the wire, or reading one would leave the other) and `WaitingIsAwaited` (a wait in progress was begun) |
| `MessagesAccounted` | `NoMessageLost` | itself, given the types |
| `EventsInOrder` | `DeliveredInOrder` | `OrderInv`: each of the four queues is in order, and everything in one comes before everything in the next. It needs `BacklogAtMostOne`, or putting an event back would reorder the backlog, and `NoMessageLost`, by which no id in a queue exceeds the last emitted |
| `OutputIsShown` | `OutputReachesConsole` | itself, given the types: the two loops that take an event out of the channel both copy its text |

The types say that the backlog holds events only, which is why a request of the
adapter is never set aside.

### SessionIoThreadProofs

| Theorem | Property | Inductive invariant |
|---|---|---|
| `TypeCorrect` | `TypeOK` | with `WorkerAt`: where the worker may be and what it may hold there |
| `SilentWhenDisconnected` | `NoCallWhenDisconnected` | `CallsAreLive`: a phase behind the test of `live` is only entered while the adapter lives, and only the worker lowers the flag |
| `EveryRequestAccounted` | `RequestsAccounted` | `Places`: an open request lies in a place that fits its kind (a mailbox, the queue of children, the typed input, the hand of the worker or of a command) and in one only |
| `EditsComeFirst` | `EditsPrecedeCommand` | `EditFirst`: while an edit is applied for a command, an open edit older than the command is the one in hand |
| `AnswersStayFresh` | `AnswersAreFresh` | `Fresh`: an open request of a kind that goes stale was posted after the program was last resumed, whatever place it lies in |

### LayoutProofs

First LayoutTree. The lemmas are about the operators. `Sound(t)` says of a tree, without recursion,
what makes it one: `parents` and the children in `nodes` agree, and a set of nodes
that has the root and the children of its containers has every node (`Whole`).
`Grafted` and `Removed` say what putting a leaf in and taking one out do to each
field; both keep a tree sound, and every handler is made of these two and of
changes to the content of leaves.

| Theorem | Property | Why |
|---|---|---|
| `TypeCorrect` | `TypeOK` | |
| `AlwaysOneTree` | `OneTree` | `Sound` is kept by each operator and says what `OneTree` says of reachable nodes (`SoundShows`); a leaf other than the root has a parent with two children, so `delete_leaf` refuses no pane but the last (`OthersCanBeDeleted`) |
| `PanelsStayInOnePane` | `PanelsInOnePane` | the panels of the leaves stay disjoint through every move. A pane is refilled with its default panels only when it is empty, and the defaults are apart from one another (`DefaultsApart`, which `DefaultPanels` of the code satisfies and the theorem names as its hypothesis) |
| `NoPanelIsLost` | `PanelsSurvive` | an action property: what a step removes from one leaf it puts in another, or the step deletes the pane |

Then LayoutGestures.

| Theorem | Property | Why |
|---|---|---|
| `GestureTypeCorrect` | `GestureTypeOK` | |
| `NothingRememberedIsGone` | `GesturesAreLive` | no handler changes the layout while a menu or a drag is up except the one it leads to, and this ends it |
| `GesturesOnlyRearrange` | `RearrangesLayout` | each step of the gestures is a step of the layout or leaves it alone |
| `GesturesImplementLayout` | | the refinement as a whole, from which the invariants of LayoutTree carry over |
| `GesturesKeepPanels` | | the properties of the run, of the gestures: no panel in two panes, none lost |

### DebugSessionProofs

`Inv` has nine parts. `NumberedInv` ties the numbers of the stops to the
history, `CallInv` the position of the caller to what it has asked for, `EndsInv`
the threads that ended to the events of it. On these rest `RunningInv`,
`OneStopInv`, `StoppedInv` and `SnapshotInv`, the four that are about
what the session believes.

| Theorem | Property | Why |
|---|---|---|
| `TypeCorrect` | `TypeOK` | |
| `RunningIsTrue` | `RunningHasNews` | a session that says "running" of a stopped program has the stop in its queue, unless the stop named no thread: `RunningInv`, with `NamedInv` for the stop that did |
| `StoppedWhereItSays` | `StoppedIsTrue` | at most one stop is unread unless a resume crossed one (`OneStopInv`), so the last read is the last that was |
| `GivenSnapshotIsCurrent` | `SnapshotIsCurrent` | an action property: the parts of a snapshot were all answered at one stop |

`SessionKeepsPromise` is `Spec => Lifecycle!Safety`: DebugSession implements
SessionLifecycle, step by step. The queue maps to the sequence of threads of its
unread stops (`ThreadsOf`, whose lemmas say what reading, appending and
discarding do to it; an unread stop without a thread is in it as `NoThread`, and reading it
is `DropStop`); `LaunchInv` adds that a launch in progress has not yet shown
anything. `Implements`, the property of the run, also has the fairness of the
abstract specification; that half stays with TLC.

### RrAndPanesProofs

First RrSession. The session reads lines until one answers the command it sent. A stop carries no
token, so a stop that is left over from an earlier command would be taken for the
answer to the next. The proof is that there is never one left over.

| Theorem | Property | Why |
|---|---|---|
| `TypeCorrect` | `TypeOK` | with `LinesInv` (no line has a token that was not given out, and a gdb that is gone reads nothing) and `LifeInv` (what a session may be doing in each part of its life) |
| `SessionIsSteady` | `Steady` | `InOnePlace`: a command that waits for a stop is among the lines gdb has not read, with gdb, or in the pipe as its stop or as its refusal, and in one of these only. Each line the session takes for the answer is the last of it (`AnswerClears`), and what follows is `Quiet`. `ShowsInv` says which place the half of a snapshot shows |

A wait that was given up leaves its command behind; `late` marks it, and until the
next launch nothing is claimed. Both theorems have the hypothesis
`ParametersAreSound`: the commands are execution commands and the bounds are numbers.

Then PaneFocus. `apply_focus` is proved about once, for whatever panes it is given: if every pane
has a tab and its two copies of the active tab agree (`Sound`), this stays so
(`FocusKeepsTypes`), the keyboard is on what can be seen (`FocusIsSeen`), and a
panel that is alone gets it (`FocusGoes`). What remains of each key, click and
change is that the panes it hands over are sound; `rebuild_layout_ui` makes them so
from panes that only have tabs (`Plain`, `RebuiltIsSound`).

| Theorem | Property | Why |
|---|---|---|
| `FocusTypeCorrect` | `FocusTypeOK` | no change leaves a pane without a tab; a pane is only deleted where there is another (`AnotherPane`) |
| `KeysAreSeen` | `KeyboardIsSeen` | the widget is picked after the panes were turned, so the first tab for the focus in a pane that shows one is the one that gets the keyboard |
| `KeysGoWhereSent` | `FocusFollows` | an action property. The panel that has the keyboard is the one Tab and Ctrl+Tab start from, because no other pane holds its focus; the order of the ids is a cycle through all panes (`OneBefore`), which needs a first and a last of them (`FirstOf`, `LastOf`) |

The hypothesis `ConfigIsSound` says that each dock has some panels, as
the `init_default_*_slots` of the code give it.

### UiSessionProofs

A UI at rest shows what the session is at only because of what was on its way before.
The inductive invariant says where the news is.

| Theorem | Property | Why |
|---|---|---|
| `Typing` | `TypeOK` | |
| `StateIsShown` | `StateAgrees` | `NewsSince`: a snapshot of the session is in the queue and no event behind it contradicts it (`Keeps`), or the state shown agrees already (`Told`), or a command that was shown at once is still to have its effect or to fail, or `unsure` says why nothing is certain |
| `VariablesAreShown` | `VariablesFollow` | `ScopesFollow`: at a stop the scopes are there or were asked for, or the poll that goes on will ask (`ScopesComing`); a child that was asked for is in the queue, in the hand of the worker or in an event (`ChildrenComing`). `RequestsSound` ties a generation to a stop: an answer for the last generation is for the last stop, whole or not (`partial`) |

### UiBreakpointsProofs

The first half of the module is about operators: what the edits, the removal for a catch
and the counts do to the lists (`WithTypes`, `RemovedTypes`, `EntryChanges`,
`ApplyHitsTypes`) and to what is told of them (`Listing`: it changes with a breakpoint
or its conditions and never with a count, `CountsAreNotTold`); that a place means a
breakpoint there is, though the nearest line is a choice (`MeantIsThere`,
`NearestLine`); and what one post, or all of them, do to the mailbox (`PushSound`,
`FlushSound`). The second half has one lemma for each action.

| Theorem | Property | Inductive invariant |
|---|---|---|
| `BreakpointTypes` | `TypeOK` | |
| `AdapterHasWhatIsShown` | `AdapterHas` | `FileSound`: the list of a file is at the adapter, with the request that would be repeated; or in the mailbox; or lost; or it is not empty and a flush is due (`FlushIsDue`: the launch is not handled, its flush has not happened, or a stop is on its way). `KindSound` is the same of the other kinds, which a stop sends again only to a new adapter. `FlushComes` and `RunningIsFirst` say that the flush does come: only a launch tells of a running program, before anything else |
| `CountsAreReal` | `CountIsReal` | a count is at most the passes that had been made when the event was that the UI handled last (`CountsSound`), those never decrease from one event in the queue to the next (`Earlier`), and no event tells more than there were (`EventSound`). With `passes` in place of `seen` it is not inductive: an event that waits would be allowed to bring a count back |

This proof found the model wrong before it held: four of the exceptions that section 3
names were missing, each of them a behaviour of the code that takes larger bounds than a
run has. The site a count is of (`of` in a hit), `seen` and the request in `Agrees` came
into the module for them.

### PartsProofs

One section for each part, with its inductive invariant and one lemma for each step
or group of steps, and at the end `PartsInv`: the part that runs is in its invariant.
Every theorem is of the form `PartsAreSound => (PartsSpec => ...)` and so holds for
all lists of panels, requests, replies, lines and sizes, and for all bounds.

| Theorem | Property | Why |
|---|---|---|
| `PartsTypeCorrect` | `PartsTypeOK` | the types are part of each invariant below |
| `ShownStaysCurrent` | `ShownIsCurrent` | three invariants, below |
| `RecordsAreKept` | `CapturedOnce` | `CaptureInv` |
| `ResultsAreShown` | `ResultShown` | an action property, from `SendIsAlone` of `CaptureInv` |
| `CallersAreToldTheirs` | `CallersAreTold` | an action property, from `ErrorInv` |
| `EditsStayLocal` | `EditIsLocal` | an action property, from `EditInv` |
| `RrStaysSteady`, `KeysStaySeen`, `KeysStayWhereSent` | `Steady`, `KeyboardIsSeen`, `FocusFollows` | the theorems of RrAndPanesProofs, of this composition |

The invariants, and why the properties alone are not inductive:

* `ErrorInv` (CApi): a caller that failed and has not fetched its error finds it in
  `LAST_ERROR` unless another call came between; the error of a viewport says "too
  small" only if the attempt's buffer was.
* `EditInv` (NetworkPanel): while a template is edited, the backup is the template as
  the edit found it, the selection is still on it and all others are untouched, unless a click
  led the edit away; and the file has what it had when the edit began. Escape, Enter and a
  new panel follow from it.
* `CaptureInv` (NetworkCapture): a request alone in flight has the slot to itself, and
  its response finds it there (`SlotIsRight`); the record of a finished request lies
  at one place of all the lists (`RecordedOnce`). What a step does to the lists is said by
  a map of places to places (`Leads`): the lemma shows that `apply_network_json`, which
  may split an event between the shown and the lost, moves each record and makes none.
  If nothing crossed the last send, its result is in the mailbox, with the worker or the only
  event (`SendIsAlone`), so the panel cannot take anything else for it.
* `ViewInv` (MemoryView): of each memory panel, the number of matches is that of the text it
  searched in the dump it has, and the match it is on is one of them (`CachedIsRight`);
  each request and answer names a panel of its kind (`IsFor`), or an answer might be
  applied to another; and the row that is edited began in the dump
  at the place the panel has (`ViewEdits`).
* `ReplInv` (ReplCompletion): while an answer is awaited nothing is offered, and
  candidates there are were asked for the text and the cursor there are, unless one of
  the ways of `strayed` left them (`OfferInv`). That the n-th match exists and is one
  (`ByRank`) is counted with the theorems on finite sets.
* `MockInv` (MockSession): the index is that of the line shown, and "stopped" is said
  in both of its fields.

Two definitions were changed for these proofs, with the same meaning: what matches in
the REPL is a set with its n-th member (`Matches`, `Nth`) and the places of an exchange a set
(`Places`), where there were sequences built by recursion.

### Only model-checked

* Liveness under fairness, which this prover does not reach: `WaitReturns`,
  `ShutdownCompletes`, `RequestsSettle` (of which `CommandsSettle` is a part), `WorkerEnds`, and the
  fairness in `Implements`.
* The first five disagreements of section 3, whose properties are false.

Every invariant and every action property of a passing run is a theorem.

## 5. Plan

Modelled in this order: transport, worker, layout, session, UI, the smaller parts; each
was proved about once its runs held. What could come next are the parts listed in
section 6 that keep state, of which the watches panels, with their shared index, come first.

## 6. Not modelled

* The debuggee terminal: one reader thread and one list; what may hang in it (a
  write to a full pipe, a join before the debuggee has gone) is up to the
  operating system and the debuggee.
* Launch resolution: a pure function of a configuration, without state.
* The list and split widgets, drawing, highlighting, parsing of files and configuration, the launcher: sequential and without
  shared state.
* Of the UI: console, watches (several panels share one index of the active list and of
  the edit: `wire_watches_panel` does not look at its slot), source text, goto targets, themes and
  workspace files. Of the session: hit counts, process events and ids.
* The bodies of messages, wherever no property tells them apart.

The parts are not composed with each other beyond what each module says of its
neighbours: a composition of the worker with the UI and the session is out of
TLC's reach, which is why UiSession, UiBreakpoints and MemoryView each carry a
cut of the worker.

## 7. Running

    tlc -workers 2 -config MCDapTransport.cfg MCDapTransport
    tlc -workers 2 -config MCParts.cfg MCParts
    tlapm DapTransportProofs.tla      # and the other seven modules of proofs
