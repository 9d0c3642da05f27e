----------------------------- MODULE UiSession -----------------------------
(* The debug session as the user interface shows it (DebugApp of app.cpp):   *)
(* the launch, the events of the session worker, the commands of the user,   *)
(* the variables of the scopes with the children the user expanded, the      *)
(* editing of a variable and the choice of a step-in target.  The worker and *)
(* the session behind it are kept to what the UI can tell: one command at a  *)
(* time, requests that a command throws away, answers and snapshots in the   *)
(* order they were made.                                                     *)
EXTENDS Integers, Sequences, FiniteSets, SequencesExt

CONSTANTS
    Paths,         \* the variables of a scope that can be expanded
    MaxStops,      \* bound on the stops of the program
    MaxCommands,   \* bound on the commands of the user
    MaxTouches,    \* bound on the variables the user expands, collapses or edits
    MaxEvents      \* bound on the events the UI has not handled when the worker goes on

ASSUME ParametersAssumption ==
    /\ IsFiniteSet(Paths)
    /\ MaxStops \in Nat \ {0} /\ {MaxCommands, MaxTouches, MaxEvents} \subseteq Nat

VARIABLES
    \* the user interface
    ui,            \* "idle" or "draining": whether poll_session is at the events
    launch,        \* "none", "posted", "finished" or "handled"
    connection,    \* model_.connection_state
    state,         \* model_.session_state
    at,            \* the stop whose scopes are in model_.scopes, or NoStop
    generation,    \* snapshot_generation_
    fetched,       \* the generation of scope_variables_fetch_signature_, 0 when it is empty
    fetching,      \* scope_variables_fetch_pending_
    variables,     \* the stop whose scopes are in model_.scope_variables, or NoStop
    partial,       \* whether some of them are not: the worker was refused them
    children,      \* by path: the stops whose children of it are there, too
    rows,          \* the stop of which the panel shows rows, or NoStop
    expanded,      \* expanded_scope_paths_
    asking,        \* pending_scope_paths_
    setting,       \* variable_set_in_flight_
    choice,        \* "none", "asked" (step_in_targets_pending_) or "choosing"
    restarting,    \* restart_pending_
    commands,      \* how many commands the user has given
    touches,       \* how many variables the user has touched
    \* the worker
    command,       \* pending_command_, or NoCommand
    scopeBox,      \* the generation and stop of the scope request, or NoRequest
    childQueue,    \* variable_children_fetch_queue_
    editBox, stepInBox,
    aborted,       \* scope_fetch_aborted_
    task,          \* what the worker is busy with
    events,        \* what it has pushed and the UI has not handled
    \* the session
    session,       \* its state
    stop,          \* the number of its last stop
    live,          \* adapter_live_
    active,        \* backend_active_
    unsure,        \* the last command left the UI with a state nothing confirms
    dropped        \* what was thrown away, or came during an edit, is not asked for again

launchVars == <<launch, connection, active>>
scopeVars == <<at, generation, fetched, fetching, variables, partial, children, rows, expanded, asking>>
editVars == <<setting, touches>>
boxVars == <<command, scopeBox, childQueue, editBox, stepInBox, aborted>>
sessionVars == <<session, stop, live>>
ghostVars == <<unsure, dropped>>
vars == <<ui, launchVars, state, scopeVars, editVars, choice, restarting, commands, boxVars, task,
          events, sessionVars, ghostVars>>

NoStop == 0
Stops == 1..MaxStops
NoCommand == "none"
NoName == "nothing"      \* an empty string
Answers == {"all", "some", "none"}   \* how many of the scopes an answer has
NoRequest == [generation |-> 0, stop |-> NoStop]
NoTask == [kind |-> "none", name |-> NoName, generation |-> 0, stop |-> NoStop]
Task(kind, name, request) == [kind |-> kind, name |-> name, generation |-> request.generation, stop |-> request.stop]

(* An event: its kind, whether it succeeded, a name (a state, a command, a   *)
(* path, how many scopes or targets) and the request or stop it is about.    *)
Event(kind, ok, name, g, s) == [kind |-> kind, ok |-> ok, name |-> name, generation |-> g, stop |-> s]
Snapshot(name, s) == Event("snapshot", TRUE, name, 0, s)
Finished(ok, op) == Event("finished", ok, op, 0, NoStop)

(* A step stands for every command that lets the program run and whose       *)
(* result the UI takes from a snapshot.                                      *)
UserOps == {"step", "pause", "goto", "restart", "terminate", "disconnect"}
ExecutionControl == {"step", "step_into", "pause"}
SyncedViaSnapshot == ExecutionControl
Resuming == {"step", "step_into", "goto"}

IsStopped == state = "stopped"
HasActiveSession == connection = "Connected" /\ active

----------------------------------------------------------------------------
(* Requests of the UI. *)

(* build_scope_variables_signature: the generation tells the snapshots apart. *)
MaybeRequestScopeVariables(connected) ==
    IF connected /\ active /\ IsStopped /\ at # NoStop /\ fetched # generation /\ ~fetching
    THEN fetching' = TRUE /\ scopeBox' = [generation |-> generation, stop |-> at]
    ELSE UNCHANGED <<fetching, scopeBox>>

(* restore_expanded_scope_children: what is expanded, not asked for and not  *)
(* there is asked for, if the scope that holds it is there, as some may not  *)
(* be when not whole; a path that waits in the queue is not put there again. *)
Queued(queue) == {queue[i].path : i \in DOMAIN queue}
ToRestore(loaded, have, waiting) ==
    {p \in expanded \ waiting : at # NoStop /\ loaded = at /\ at \notin have[p]}

RestoreExpandedScopeChildren(loaded, have, waiting, whole) ==
    \E wanted \in SUBSET ToRestore(loaded, have, waiting) :
    /\ whole => wanted = ToRestore(loaded, have, waiting)
    /\ asking' = waiting \cup wanted
    /\ childQueue' = childQueue \o SetToSeq({[path |-> p, stop |-> at] : p \in wanted \ Queued(childQueue)})

(* Bug: the snapshots are counted anew although an answer is under way. *)
InvalidateAndCountAnew ==
    /\ generation' = 0 /\ fetched' = 0 /\ fetching' = FALSE /\ variables' = NoStop /\ partial' = FALSE
    /\ children' = [p \in Paths |-> {}]
    /\ rows' = NoStop /\ expanded' = {} /\ asking' = {}
    /\ UNCHANGED at

(* invalidate_scope_variables *)
InvalidateScopeVariables ==
    /\ fetched' = 0 /\ fetching' = FALSE /\ variables' = NoStop /\ partial' = FALSE
    /\ children' = [p \in Paths |-> {}]
    /\ rows' = NoStop /\ expanded' = {} /\ asking' = {}
    /\ UNCHANGED <<at, generation>>

(* post_command: the last command wins, and what waits behind it is dropped. *)
PostCommand(op) ==
    /\ command' = op
    /\ scopeBox' = NoRequest /\ childQueue' = <<>> /\ aborted' = TRUE
    /\ UNCHANGED <<editBox, stepInBox>>

(* apply_execution_command_started, for the commands that are shown at once. *)
ApplyStarted(op) ==
    CASE op \in Resuming -> state' = "running" /\ UNCHANGED scopeVars
      [] op = "restart" -> UNCHANGED state /\ InvalidateScopeVariables
      [] op = "disconnect" -> state' = "disconnected" /\ InvalidateScopeVariables
      [] op = "terminate" -> state' = "exited" /\ InvalidateScopeVariables
      [] OTHER -> UNCHANGED <<state, scopeVars>>

(* A command that is shown at once but overwrites another one, or is         *)
(* overwritten, leaves the UI with a state nothing confirms.                 *)
ShownAtOnce == {"goto", "restart", "terminate", "disconnect", "step_into"}
Overwrites == command \in ShownAtOnce

----------------------------------------------------------------------------
(* The launch. *)

(* maybe_start_launch *)
MaybeStartLaunch ==
    /\ ui = "idle" /\ launch = "none"
    /\ launch' = "posted"
    /\ UNCHANGED <<ui, connection, active, state, scopeVars, editVars, choice, restarting, commands,
                   boxVars, task, events, sessionVars, ghostVars>>

(* sync_snapshot_json of the session as it is now: a program that runs may   *)
(* have no stack to show, and then there is no snapshot.                     *)
PushSnapshot ==
    \/ events' = Append(events, Snapshot(session', IF session' = "stopped" THEN stop' ELSE NoStop)) /\ unsure' = FALSE
    \/ session' = "running" /\ unsure' = TRUE /\ UNCHANGED events

(* The launch worker: a session that stopped, still runs or ended at once, or *)
(* none.                                                                      *)
LaunchWorker ==
    /\ launch = "posted"
    /\ launch' = "finished"
    /\ \/ /\ session' \in {"stopped", "running", "exited"}
          /\ stop' = IF session' = "stopped" THEN 1 ELSE NoStop
          /\ PushSnapshot
          /\ live' = TRUE /\ active' = TRUE
       \/ UNCHANGED <<sessionVars, active, events, unsure>>
    /\ UNCHANGED <<ui, connection, state, scopeVars, editVars, choice, restarting, commands, boxVars, task, dropped>>

(* handle_launch_complete, once the events of this round are handled. *)
HandleLaunchComplete ==
    /\ launch' = "handled"
    /\ connection' = IF active THEN "Connected" ELSE "Failed"
    /\ MaybeRequestScopeVariables(active)

----------------------------------------------------------------------------
(* The events. *)

(* Bug: the answer under way is still waited for after a new stop. *)
WaitsAfterStop(stopped) == fetching

StillFetching(stopped) == fetching /\ ~stopped

(* apply_snapshot_json_payload *)
ApplySnapshot(event) ==
    /\ state' = event.name
    /\ at' = event.stop
    /\ generation' = generation + 1
    /\ fetched' = 0
    /\ fetching' = StillFetching(event.name = "stopped")
    /\ asking' = IF event.name = "stopped" THEN {} ELSE asking
    /\ choice' = "none"
    /\ restarting' = (restarting /\ event.name # "stopped")
    /\ UNCHANGED <<variables, partial, children, rows, expanded, connection, editVars, boxVars>>

(* A poll that failed. *)
PollFailed ==
    /\ connection' = IF state = "disconnected" THEN connection ELSE "Failed"
    /\ UNCHANGED <<state, scopeVars, editVars, choice, restarting, boxVars>>

(* apply_scope_variables_payload: whatever was asked last is taken to be     *)
(* answered, with whatever scopes came; the signature of the answer is what  *)
(* is compared later.                                                        *)
ApplyScopeVariables(event) ==
    /\ variables' = IF event.name = "none" THEN NoStop ELSE event.stop
    /\ partial' = (event.name # "all")
    /\ fetched' = event.generation /\ fetching' = FALSE
    /\ children' = [p \in Paths |-> {}]
    /\ IF setting THEN UNCHANGED <<asking, childQueue>>
       ELSE RestoreExpandedScopeChildren(variables', children', asking, ~partial')
    /\ UNCHANGED <<state, at, generation, rows, expanded, connection, editVars, choice, restarting,
                   command, scopeBox, editBox, stepInBox, aborted>>

(* apply_variable_children_payload *)
ApplyVariableChildren(event) ==
    LET p == event.name IN
    /\ children' = IF event.ok THEN [children EXCEPT ![p] = @ \cup {event.stop}] ELSE children
    /\ RestoreExpandedScopeChildren(variables, children', asking \ {p}, ~partial)
    /\ UNCHANGED <<state, at, generation, fetched, fetching, variables, partial, rows, expanded, connection, editVars,
                   choice, restarting, command, scopeBox, editBox, stepInBox, aborted>>

(* Bug: only the other commands are taken back when they fail. *)
TakenBackUnlessStepInto(op) == op \in ExecutionControl \ {"step_into"}

TakenBack(op) == op \in ExecutionControl

(* CommandFinished *)
CommandFinished(event) ==
    /\ restarting' = (restarting /\ event.name # "restart")
    /\ IF ~event.ok
       THEN /\ state' = IF TakenBack(event.name) /\ state = "running" THEN "stopped" ELSE state
            /\ UNCHANGED scopeVars
       ELSE IF event.name \in SyncedViaSnapshot \cup {"restart", "disconnect"}
            THEN UNCHANGED <<state, scopeVars>>
            ELSE ApplyStarted(event.name)
    /\ UNCHANGED <<connection, editVars, choice, boxVars>>

(* SetVariableFinished *)
SetVariableFinished ==
    /\ setting' = FALSE
    /\ UNCHANGED <<state, scopeVars, connection, touches, choice, restarting, boxVars>>

(* send_step_into_command *)
SendStepIntoCommand ==
    IF active THEN ApplyStarted("step_into") /\ PostCommand("step_into")
    ELSE UNCHANGED <<state, scopeVars, boxVars>>

(* begin_step_in_selection *)
BeginStepInSelection == choice' = "choosing" /\ UNCHANGED <<state, scopeVars, boxVars>>

(* handle_step_in_targets_payload: with no choice to make, the step is sent. *)
StepInTargetsReady(event) ==
    /\ IF event.name = "many" THEN BeginStepInSelection
       ELSE choice' = "none" /\ SendStepIntoCommand
    /\ UNCHANGED <<connection, editVars, restarting>>

(* The next event of this round of poll_session. *)
HandleSessionEvent ==
    /\ launch # "none" /\ events # <<>>
    /\ ui' = "draining"
    /\ LET event == Head(events) IN
       \/ event.kind = "snapshot" /\ event.ok /\ ApplySnapshot(event)
       \/ event.kind = "snapshot" /\ ~event.ok /\ PollFailed
       \/ event.kind = "scopes" /\ ApplyScopeVariables(event)
       \/ event.kind = "children" /\ ApplyVariableChildren(event)
       \/ event.kind = "finished" /\ CommandFinished(event)
       \/ event.kind = "set" /\ SetVariableFinished
       \/ event.kind = "targets" /\ StepInTargetsReady(event)
    /\ events' = Tail(events)
    /\ unsure' = (unsure \/ (Head(events).kind = "targets" /\ command' = "step_into" /\ Overwrites))
    /\ dropped' = (dropped \/ (Head(events).kind = "scopes" /\ setting))
    /\ UNCHANGED <<launch, active, commands, task, sessionVars>>

(* sync_ui_from_model: rows that lost their values are kept while new ones   *)
(* may still come.                                                           *)
Rows(wait) ==
    IF variables = at /\ at # NoStop THEN at
    ELSE IF wait \/ ~IsStopped \/ variables # NoStop THEN rows
    ELSE NoStop

(* The rest of a round of poll_session.  The launch may finish after the last *)
(* look at the events: its snapshot is then handled in the next round.       *)
PollSession ==
    /\ \/ ui = "draining" /\ events = <<>>
       \/ launch = "finished"
    /\ ui' = "idle"
    /\ IF launch = "finished" THEN HandleLaunchComplete
       ELSE /\ MaybeRequestScopeVariables(launch = "handled" /\ connection = "Connected" /\ ~setting)
            /\ UNCHANGED <<launch, connection>>
    /\ rows' = IF setting THEN rows ELSE Rows(fetching')
    /\ UNCHANGED <<active, state, at, generation, fetched, variables, partial, children, expanded, asking, editVars,
                   choice, restarting, commands, command, childQueue, editBox, stepInBox, aborted, task,
                   events, sessionVars, ghostVars>>

----------------------------------------------------------------------------
(* The user. *)

AtKeyboard == ui = "idle" /\ launch = "handled"

(* send_command *)
SendCommand(op) ==
    /\ AtKeyboard /\ active /\ commands < MaxCommands
    /\ commands' = commands + 1
    /\ unsure' = (unsure \/ Overwrites)
    /\ IF op = "step" THEN UNCHANGED <<state, scopeVars, restarting>>
       ELSE /\ restarting' = (restarting \/ op = "restart")
            /\ ApplyStarted(op)
    /\ PostCommand(op)
    /\ UNCHANGED <<ui, launchVars, editVars, choice, task, events, sessionVars, dropped>>

StepIntoUnchanged ==
    UNCHANGED <<ui, launchVars, editVars, restarting, task, events, sessionVars, dropped>>

StepIntoUnsure == unsure' = (unsure \/ (command' = "step_into" /\ Overwrites))

(* send_command("step_into"): handle_step_in_request, or the command itself  *)
(* when a request is pending or the program runs.                            *)
StepInto ==
    /\ AtKeyboard /\ active /\ commands < MaxCommands /\ choice # "choosing"
    /\ commands' = commands + 1
    /\ IF choice = "none" /\ IsStopped
       THEN /\ choice' = "asked" /\ stepInBox' = TRUE
            /\ UNCHANGED <<state, scopeVars, command, scopeBox, childQueue, editBox, aborted>>
       ELSE PostCommand("step_into") /\ UNCHANGED <<choice, state, scopeVars>>
    /\ StepIntoUnsure
    /\ StepIntoUnchanged

(* confirm_step_in_selection *)
ConfirmStepIn ==
    /\ AtKeyboard /\ choice = "choosing"
    /\ choice' = "none"
    /\ SendStepIntoCommand
    /\ StepIntoUnsure
    /\ UNCHANGED commands
    /\ StepIntoUnchanged

(* Escape: cancel_step_in_selection *)
CancelStepIn ==
    /\ AtKeyboard /\ choice = "choosing"
    /\ choice' = "none"
    /\ UNCHANGED <<ui, launchVars, state, scopeVars, editVars, restarting, commands, boxVars, task, events,
                   sessionVars, ghostVars>>

(* toggle_scope_row_expand, of a row the panel shows. *)
ToggleScopeRowExpand(p) ==
    /\ AtKeyboard /\ rows # NoStop /\ touches < MaxTouches
    /\ touches' = touches + 1
    /\ IF p \in expanded
       THEN expanded' = expanded \ {p} /\ UNCHANGED <<asking, childQueue>>
       ELSE /\ expanded' = expanded \cup {p}
            /\ IF rows \in children[p] THEN UNCHANGED <<asking, childQueue>>
               ELSE /\ asking' = asking \cup {p}
                    /\ childQueue' = IF p \in Queued(childQueue) THEN childQueue
                                     ELSE Append(childQueue, [path |-> p, stop |-> rows])
    /\ UNCHANGED <<ui, launchVars, state, at, generation, fetched, fetching, variables, partial, children, rows, setting,
                   choice, restarting, commands, command, scopeBox, editBox, stepInBox, aborted, task, events,
                   sessionVars, ghostVars>>

(* begin_edit_variable, at a stop, and submit_variable_value, whenever the    *)
(* user is done.                                                             *)
SubmitVariableValue ==
    /\ AtKeyboard /\ at # NoStop /\ ~setting /\ touches < MaxTouches
    /\ setting' = TRUE /\ editBox' = TRUE /\ touches' = touches + 1
    /\ UNCHANGED <<ui, launchVars, state, scopeVars, choice, restarting, commands, command,
                   scopeBox, childQueue, stepInBox, aborted, task, events, sessionVars, ghostVars>>

----------------------------------------------------------------------------
(* The worker. *)

Free == active /\ task = NoTask /\ Len(events) < MaxEvents
FreeForRequests == Free /\ live /\ command = NoCommand

Take(kind, name, request) == task' = Task(kind, name, request)

(* process_preempting_commands: an edit goes first, and what a command would *)
(* have thrown away when it was posted is thrown away again.                 *)
TakeCommand ==
    /\ Free /\ command # NoCommand
    /\ ~(editBox /\ live)
    /\ Take("command", command, NoRequest)
    /\ command' = NoCommand
    /\ scopeBox' = NoRequest
    /\ UNCHANGED <<ui, launchVars, state, scopeVars, editVars, choice, restarting, commands, childQueue,
                   editBox, stepInBox, aborted, events, sessionVars, ghostVars>>

(* process_pending_set_variable, before a command or without one. *)
SetVariable ==
    /\ Free /\ editBox /\ (live \/ command = NoCommand)
    /\ editBox' = FALSE
    /\ \E ok \in BOOLEAN : (ok => live) /\ events' = Append(events, Event("set", ok, NoName, 0, NoStop))
    /\ UNCHANGED <<ui, launchVars, state, scopeVars, editVars, choice, restarting, commands, command, scopeBox,
                   childQueue, stepInBox, aborted, task, sessionVars, ghostVars>>

(* process_scope_fetch *)
TakeScopeFetch ==
    /\ FreeForRequests /\ scopeBox # NoRequest
    /\ Take("scopes", NoName, scopeBox)
    /\ scopeBox' = NoRequest /\ aborted' = FALSE
    /\ UNCHANGED <<ui, launchVars, state, scopeVars, editVars, choice, restarting, commands, command, childQueue,
                   editBox, stepInBox, events, sessionVars, ghostVars>>

Interrupted == command # NoCommand \/ aborted

(* A scope whose request fails is left out, and the answer says nothing of it. *)
ScopeFetchEnds ==
    /\ task.kind = "scopes"
    /\ IF Interrupted
       THEN scopeBox' = [generation |-> task.generation, stop |-> task.stop] /\ UNCHANGED events
       ELSE /\ \E found \in Answers :
                  events' = Append(events, Event("scopes", TRUE, found, task.generation, task.stop))
            /\ UNCHANGED scopeBox
    /\ task' = NoTask
    /\ UNCHANGED <<ui, launchVars, state, scopeVars, editVars, choice, restarting, commands, command, childQueue,
                   editBox, stepInBox, aborted, sessionVars, ghostVars>>

(* process_variable_children_fetch *)
TakeChildrenFetch ==
    /\ FreeForRequests /\ childQueue # <<>> /\ ~aborted
    /\ Take("children", Head(childQueue).path, [generation |-> 0, stop |-> Head(childQueue).stop])
    /\ childQueue' = Tail(childQueue)
    /\ UNCHANGED <<ui, launchVars, state, scopeVars, editVars, choice, restarting, commands, command, scopeBox,
                   editBox, stepInBox, aborted, events, sessionVars, ghostVars>>

(* An answer with no child is, to the UI, as good as none. *)
ChildrenFetchEnds ==
    /\ task.kind = "children"
    /\ IF Interrupted
       THEN childQueue' = <<[path |-> task.name, stop |-> task.stop]>> \o childQueue /\ UNCHANGED events
       ELSE /\ \E ok \in BOOLEAN : events' = Append(events, Event("children", ok, task.name, 0, task.stop))
            /\ UNCHANGED childQueue
    /\ task' = NoTask
    /\ UNCHANGED <<ui, launchVars, state, scopeVars, editVars, choice, restarting, commands, command, scopeBox,
                   editBox, stepInBox, aborted, sessionVars, ghostVars>>

(* process_step_in_targets_fetch *)
StepInTargetsFetch ==
    /\ FreeForRequests /\ stepInBox
    /\ stepInBox' = FALSE
    /\ \E n \in {"few", "many"} : events' = Append(events, Event("targets", TRUE, n, 0, NoStop))
    /\ UNCHANGED <<ui, launchVars, state, scopeVars, editVars, choice, restarting, commands, command, scopeBox,
                   childQueue, editBox, aborted, task, sessionVars, ghostVars>>

Stopped == session' = "stopped" /\ stop < MaxStops /\ stop' = stop + 1

(* run_poll_cycle: the program stopped or ended, or the session is broken.   *)
(* A poll that fails may have taken a stop: snapshot_after_stop sets the     *)
(* state before it asks for what there is to see.                            *)
Poll ==
    /\ Free /\ live
    /\ \/ /\ session = "running"
          /\ \/ Stopped
             \/ session' = "exited" /\ stop' = stop
          /\ events' = Append(events, Snapshot(session', IF session' = "stopped" THEN stop' ELSE NoStop))
          /\ unsure' = FALSE
          /\ dropped' = (dropped /\ session' # "stopped")
       \/ /\ connection = "Connected" /\ \A i \in DOMAIN events : events[i].ok
          /\ events' = Append(events, Event("snapshot", FALSE, NoName, 0, NoStop))
          /\ \/ UNCHANGED <<session, stop, unsure>>
             \/ session = "running" /\ Stopped /\ unsure' = TRUE
          /\ UNCHANGED dropped
    /\ UNCHANGED <<ui, launchVars, state, scopeVars, editVars, choice, restarting, commands, boxVars, task, live>>

(* dispatch_command: what an operation that succeeds makes of the session. *)
Effect(op) ==
    CASE op \in Resuming -> /\ session \in {"running", "stopped"}
                            /\ \/ session' = "running" /\ UNCHANGED stop
                               \/ op = "step" /\ Stopped
      [] op = "pause" -> IF session = "running" THEN Stopped ELSE UNCHANGED <<session, stop>>
      [] op = "restart" -> Stopped
      [] op = "terminate" -> session' = "exited" /\ UNCHANGED stop
      [] op = "disconnect" -> session' = "disconnected" /\ UNCHANGED stop

(* clear_pending_adapter_work *)
ClearPendingAdapterWork ==
    /\ scopeBox' = NoRequest /\ childQueue' = <<>> /\ editBox' = FALSE
    /\ UNCHANGED <<command, stepInBox, aborted>>

CommandSucceeds ==
    /\ task.kind = "command" /\ live
    /\ Effect(task.name)
    /\ live' = (task.name # "disconnect")
    /\ IF task.name \in {"restart", "disconnect"} THEN ClearPendingAdapterWork ELSE UNCHANGED boxVars
    /\ \E pushed \in BOOLEAN :
          /\ pushed \/ session' = "running"
          /\ events' = events \o (IF pushed THEN <<Snapshot(session', IF session' = "stopped" THEN stop' ELSE NoStop)>>
                                  ELSE <<>>) \o <<Finished(TRUE, task.name)>>
          /\ unsure' = ~pushed
          /\ dropped' = (dropped /\ ~(pushed /\ session' = "stopped"))
    /\ task' = NoTask
    /\ UNCHANGED <<ui, launchVars, state, scopeVars, editVars, choice, restarting, commands>>

(* A command that fails, or comes after the disconnect.  A restart may have  *)
(* ended the session by then.                                                *)
CommandFails ==
    /\ task.kind = "command"
    /\ session' \in {session} \cup (IF live /\ task.name = "restart" THEN {"disconnected"} ELSE {})
    /\ events' = Append(events, Finished(FALSE, task.name))
    /\ unsure' = (unsure \/ session # "stopped" \/ task.name \notin ExecutionControl)
    /\ dropped' = TRUE
    /\ task' = NoTask
    /\ UNCHANGED <<ui, launchVars, state, scopeVars, editVars, choice, restarting, commands, boxVars, stop, live>>

----------------------------------------------------------------------------
Init ==
    /\ ui = "idle" /\ launch = "none" /\ connection = "Connecting" /\ state = NoName
    /\ at = NoStop /\ generation = 0 /\ fetched = 0 /\ fetching = FALSE /\ variables = NoStop /\ partial = FALSE
    /\ children = [p \in Paths |-> {}] /\ rows = NoStop /\ expanded = {} /\ asking = {}
    /\ setting = FALSE /\ touches = 0
    /\ choice = "none" /\ restarting = FALSE /\ commands = 0
    /\ command = NoCommand /\ scopeBox = NoRequest /\ childQueue = <<>> /\ editBox = FALSE /\ stepInBox = FALSE
    /\ aborted = FALSE /\ task = NoTask /\ events = <<>>
    /\ session = "disconnected" /\ stop = NoStop /\ live = FALSE /\ active = FALSE
    /\ unsure = FALSE /\ dropped = FALSE

User ==
    \/ \E op \in UserOps : SendCommand(op)
    \/ StepInto \/ ConfirmStepIn \/ CancelStepIn
    \/ \E p \in Paths : ToggleScopeRowExpand(p)
    \/ SubmitVariableValue

Ui == MaybeStartLaunch \/ HandleSessionEvent \/ PollSession

Worker ==
    \/ LaunchWorker \/ TakeCommand \/ CommandSucceeds \/ CommandFails \/ SetVariable
    \/ TakeScopeFetch \/ ScopeFetchEnds \/ TakeChildrenFetch \/ ChildrenFetchEnds
    \/ StepInTargetsFetch \/ Poll

Next == User \/ Ui \/ Worker

Spec == Init /\ [][Next]_vars

SessionStates == {"running", "stopped", "exited", "disconnected"}
Commands == UserOps \cup {"step_into"}
Bound == Stops \cup {NoStop}
Requests == {NoRequest} \cup [generation : Nat \ {0}, stop : Stops]
ChildRequests == [path : Paths, stop : Stops]
Tasks ==
    {NoTask} \cup {Task("command", c, NoRequest) : c \in Commands}
    \cup [kind : {"scopes"}, name : {NoName}, generation : Nat \ {0}, stop : Stops]
    \cup [kind : {"children"}, name : Paths, generation : {0}, stop : Stops]
Snapshots == {Snapshot("stopped", s) : s \in Stops} \cup {Snapshot(n, NoStop) : n \in SessionStates \ {"stopped"}}
Events ==
    Snapshots \cup {Event("snapshot", FALSE, NoName, 0, NoStop)}
    \cup [kind : {"scopes"}, ok : {TRUE}, name : Answers, generation : Nat \ {0}, stop : Stops]
    \cup [kind : {"children"}, ok : BOOLEAN, name : Paths, generation : {0}, stop : Stops]
    \cup [kind : {"finished"}, ok : BOOLEAN, name : Commands, generation : {0}, stop : {NoStop}]
    \cup [kind : {"set"}, ok : BOOLEAN, name : {NoName}, generation : {0}, stop : {NoStop}]
    \cup [kind : {"targets"}, ok : {TRUE}, name : {"few", "many"}, generation : {0}, stop : {NoStop}]

TypeOK ==
    /\ ui \in {"idle", "draining"} /\ launch \in {"none", "posted", "finished", "handled"}
    /\ connection \in {"Connecting", "Connected", "Failed"}
    /\ state \in SessionStates \cup {NoName} /\ session \in SessionStates
    /\ {at, stop, variables, rows} \subseteq Bound /\ (session = "stopped" => stop # NoStop)
    /\ generation \in Nat /\ fetched \in 0..generation
    /\ children \in [Paths -> SUBSET Stops]
    /\ expanded \subseteq Paths /\ asking \subseteq Paths
    /\ choice \in {"none", "asked", "choosing"} /\ commands \in 0..MaxCommands /\ touches \in 0..MaxTouches
    /\ {fetching, partial, setting, restarting, editBox, stepInBox, aborted, live, active, unsure, dropped} \subseteq BOOLEAN
    /\ command \in Commands \cup {NoCommand}
    /\ scopeBox \in Requests /\ childQueue \in Seq(ChildRequests) /\ task \in Tasks /\ events \in Seq(Events)

(* Nothing is under way between the UI and the worker. *)
Settled ==
    /\ ui = "idle" /\ launch = "handled" /\ events = <<>> /\ task = NoTask
    /\ command = NoCommand /\ scopeBox = NoRequest /\ ~editBox

(* Once nothing is under way, the UI shows the state the session is in,      *)
(* unless the last command of the session went wrong in one of these ways:   *)
(* it failed while the program was not stopped, it was shown at once and     *)
(* failed or was overwritten, or it succeeded and had no snapshot to show;   *)
(* or a poll took a stop and failed, for then the UI still shows running.    *)
StateAgrees == Settled /\ active /\ ~unsure => state = session

(* Once nothing is under way at a stop, the panel has the variables of that  *)
(* very stop, and the children of every variable the user expanded are there *)
(* or still asked for, unless a command failed and took the requests with it.*)
(* An answer that lacks a scope the adapter refused is taken for complete:   *)
(* nothing is asked for again, but nothing of another stop is there either.  *)
VariablesFollow ==
    Settled /\ ~unsure /\ ~dropped /\ HasActiveSession /\ IsStopped /\ ~setting
    => /\ variables = at \/ (partial /\ variables = NoStop)
       /\ fetched = generation
       /\ \A p \in expanded : at \in children[p] \/ (p \in Queued(childQueue) /\ ~aborted) \/ partial

(* The snapshot of a command refreshed the state by the time the command is  *)
(* reported finished.                                                        *)
RefreshedBySnapshot ==
    [][\A op \in SyncedViaSnapshot :
          /\ events # <<>> /\ events' = Tail(events) /\ Head(events) = Finished(TRUE, op)
          => state' # "stopped" \/ session = "stopped"]_vars
=============================================================================
