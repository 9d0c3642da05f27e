--------------------------- MODULE UiBreakpoints ---------------------------
(* The breakpoints as the user interface keeps them (app.cpp), the way they  *)
(* take to the debug adapter, and the hit counts that come back.  The UI     *)
(* owns the lists and posts a whole list whenever it changed and at every    *)
(* stop; the session worker has one place for the list of a file and one     *)
(* for each of the other kinds.  An adapter starts without breakpoints.      *)
EXTENDS Integers, Sequences, FiniteSets, FiniteSetsExt, SequencesExt, Functions

CONSTANTS
    Sites,         \* the pairs of a file and a line where a breakpoint can be
    Namesakes,     \* the files that have the same name, in other directories
    Items,         \* exception filters, function names and data ids
    Defaults,      \* the exception filters an adapter turns on by default
    MaxStops,      \* bound on the times the program reaches a breakpoint, or stops elsewhere
    MaxEdits,      \* bound on the changes of the user
    MaxCommands,   \* bound on the commands of the user
    MaxEvents      \* bound on the events the UI has not handled when the worker goes on

VARIABLES
    \* the user interface
    launch,        \* "none", "up" or "handled"
    state,         \* model_.session_state: nothing, "stopped" or "running"
    breakpoints,   \* breakpoints_by_path_: by file, and there by line
    exceptions,    \* exception_breakpoints_
    functions,     \* the names of function_breakpoints_
    data,          \* the ids of data_breakpoints_
    resolving,     \* pending_data_breakpoint_: none or one id
    known,         \* the first snapshot told what the adapter supports
    flushed,       \* breakpoints_flushed_after_launch_
    restarting,    \* restart_pending_
    lastCounted,   \* last_counted_breakpoint_stop_: none or one site
    catchSkip,     \* ephemeral_catch_skip_: none or one
    inCatch,       \* the stop shown is in the runtime, on its way to a catch
    editing,       \* editing_breakpoint_path_, _line_ and _hit_: none or one
    editingFilter, \* editing_exception_filter_: none or one
    edits, commands,
    \* the session worker
    command,       \* pending_command_
    sourceBox,     \* pending_breakpoints_path_ and _json_: none or one
    boxes,         \* the lists of the other kinds that wait: none or one
    infoBox,       \* data_breakpoint_info_request_: none or one
    events,
    \* the session, the adapter and the program
    session,       \* "none", "running" or "stopped"
    stopped,       \* where and why it stopped last
    requests,      \* last_breakpoint_requests
    hits,          \* breakpoint_hit_counts
    adapter,       \* by file: the breakpoints the adapter has
    adapterLists,  \* by other kind: what the adapter has
    passes,        \* by site: how often the program reached a breakpoint there
    stops,
    \* what went wrong on the way
    lost,          \* the files and kinds whose last list did not reach the adapter
    seen,          \* the passes when the event was made that the UI handled last
    misled         \* a count went to another breakpoint, or was made a second time

sessionVars == <<session, stopped, requests, hits, adapter, adapterLists, passes, stops>>
listVars == <<breakpoints, exceptions, functions, data>>
promptVars == <<editing, editingFilter>>
boxVars == <<sourceBox, boxes>>
launchVars == <<launch, known, flushed, restarting>>
countVars == <<lastCounted, catchSkip>>
vars == <<launchVars, state, listVars, resolving, countVars, inCatch, promptVars, edits, commands, command,
          boxVars, infoBox, events, sessionVars, lost, seen, misled>>

Files == {site[1] : site \in Sites}
Lines == {site[2] : site \in Sites}
Kinds == {"exception", "function", "data"}
NoSite == <<"none", 0>>
NoFile == "none"
NoState == "nothing"     \* an empty string

ASSUME ParametersAssumption ==
    /\ IsFiniteSet(Sites) /\ Sites \subseteq Files \X Lines /\ Lines \subseteq Nat \ {0}
    /\ Files \cap (Kinds \cup {NoFile}) = {}
    /\ MaxStops \in Nat

(* A source breakpoint: whether it has a condition and a hit condition, and  *)
(* the hits the UI shows; what the adapter is told of it; how it is when it  *)
(* is new.                                                                   *)
New == [condition |-> FALSE, hit |-> FALSE, count |-> 0]
Told(b, l) == [line |-> l, condition |-> b[l].condition, hit |-> b[l].hit]

Bucket(all, f) == IF f \in DOMAIN all THEN all[f] ELSE <<>>
Listing(all, f) == {Told(Bucket(all, f), l) : l \in DOMAIN Bucket(all, f)}

With(all, f, b) == [g \in DOMAIN all \cup {f} |-> IF g = f THEN b ELSE all[g]]
WithLine(b, l, entry) == [m \in DOMAIN b \cup {l} |-> IF m = l THEN entry ELSE b[m]]

IsStopped == state = "stopped"
IsActive == launch # "none"

----------------------------------------------------------------------------
(* What is posted to the worker. *)

(* find_breakpoints_path: a file without breakpoints is taken for another    *)
(* one of the same name.                                                     *)
Find(all, f) ==
    IF f \in DOMAIN all THEN f
    ELSE IF f \in Namesakes /\ DOMAIN all \cap Namesakes # {}
         THEN CHOOSE g \in DOMAIN all \cap Namesakes : TRUE
         ELSE NoFile

(* The adapter has what the UI shows of a file, and a stop, which repeats    *)
(* the last request, leaves it so.                                           *)
Agrees(all, f) == adapter[f] = Listing(all, f) /\ requests[f] \in {{}, Listing(all, f)}

(* push_breakpoints_to_session, of several files one after the other: the    *)
(* last one posted, under the name it was found by, is the one that stays.   *)
Target(all, f) == IF Find(all, f) = NoFile THEN f ELSE Find(all, f)

Push(all, files) ==
    IF files = {} \/ ~IsActive THEN UNCHANGED <<sourceBox, lost>>
    ELSE \E last \in files :
            /\ sourceBox' = {[file |-> Target(all, last), list |-> Listing(all, Target(all, last))]}
            /\ lost' = {x \in lost \cup files \cup {post.file : post \in sourceBox} :
                           /\ x # Target(all, last)
                           /\ x \in Files => ~Agrees(all, x)}

(* What the adapter is told of the other kinds. *)
ToldExceptions(entries) ==
    {[filter |-> x, condition |-> entries[x].condition] : x \in {y \in Items : entries[y].enabled}}

(* push_exception_breakpoints_to_session and its kin *)
PushKind(k, list) ==
    IF IsActive /\ (known \/ k = "function")
    THEN boxes' = [boxes EXCEPT ![k] = {list}] /\ lost' = lost \ {k}
    ELSE UNCHANGED <<boxes, lost>>

(* flush_breakpoints_to_session, after some files were posted already.       *)
Flush(all, filters, before) ==
    /\ IF DOMAIN all = {} THEN Push(all, before)
       ELSE \E last \in DOMAIN all :
               /\ sourceBox' = {[file |-> last, list |-> Listing(all, last)]}
               /\ lost' = {x \in lost \cup before \cup DOMAIN all \cup {post.file : post \in sourceBox} :
                              x \in Files \ {last} /\ ~Agrees(all, x)}
    /\ boxes' = [k \in Kinds |->
                    CASE k = "exception" -> {ToldExceptions(filters)}
                      [] k = "function" -> {functions}
                      [] k = "data" -> {data}]

----------------------------------------------------------------------------
(* Hit counts. *)

(* find_breakpoint_line_at_stop: the line itself, or a near one, rather one  *)
(* with a hit condition.                                                     *)
Near(lines, line) == {l \in lines : l - line \in -3..3}
Distance(l, line) == IF l < line THEN line - l ELSE l - line
Nearest(lines, line) == CHOOSE l \in lines : \A m \in lines : Distance(l, line) <= Distance(m, line)

LineAtStop(b, line) ==
    LET conditional == Near({l \in DOMAIN b : b[l].hit}, line)
        near == Near(DOMAIN b, line)
    IN IF line \in DOMAIN b THEN line
       ELSE IF conditional # {} THEN Nearest(conditional, line)
       ELSE IF near # {} THEN Nearest(near, line)
       ELSE 0

(* The breakpoint that is meant by a place, or NoSite.                       *)
Meant(all, f, line) ==
    LET g == Find(all, f)
        l == IF g = NoFile THEN 0 ELSE LineAtStop(all[g], line)
    IN IF l = 0 THEN NoSite ELSE <<g, l>>

(* A count that came back: the place it is given for, and the site it is of. *)
Hit(f, line, of, n) == [file |-> f, line |-> line, of |-> of, count |-> n]

(* apply_breakpoint_hit_entry, of one entry after the other: a breakpoint    *)
(* with a hit condition takes the last count, another one only a larger one. *)
Given(all, entries, site) ==
    {i \in DOMAIN entries : entries[i].count > 0 /\ Meant(all, entries[i].file, entries[i].line) = site}

NewCount(b, entries, given) ==
    IF given = {} THEN b.count
    ELSE IF b.hit THEN entries[Max(given)].count
    ELSE Max({b.count} \cup {entries[i].count : i \in given})

ApplyHits(all, entries) ==
    [f \in DOMAIN all |-> [l \in DOMAIN all[f] |->
        [all[f][l] EXCEPT !.count = NewCount(all[f][l], entries, Given(all, entries, <<f, l>>))]]]

(* An entry is given to a breakpoint it is not of. *)
Mislead(all, entries) ==
    \E i \in DOMAIN entries :
        /\ entries[i].count > 0
        /\ Meant(all, entries[i].file, entries[i].line) \notin {NoSite, entries[i].of}

(* apply_breakpoint_hits_from_snapshot_json *)
SnapshotHits(counts) == SetToSeq({Hit(s[1], s[2], s, counts[s]) : s \in {t \in Sites : counts[t] > 0}})

(* apply_breakpoint_hit_counts: the counts are given to the lines of the     *)
(* file in order, then each to the line it names.                            *)
InOrder(S) == {q \in [1..Cardinality(S) -> S] : \A i, j \in DOMAIN q : i < j => q[i] < q[j]}

ByPlace(all, f, event) ==
    LET lines == CHOOSE q \in InOrder(DOMAIN all[f]) : TRUE IN
    [i \in {j \in DOMAIN event.results : j <= Cardinality(DOMAIN all[f])} |->
        Hit(f, lines[i], <<event.file, event.results[i].line>>, event.results[i].count)]

ByLine(f, event) ==
    [i \in DOMAIN event.results |->
        Hit(f, event.results[i].line, <<event.file, event.results[i].line>>, event.results[i].count)]

(* Bug: a stop that is shown again is counted again. *)
NeverCounted(site) == FALSE

AlreadyCounted(site) == lastCounted = {site}

(* record_breakpoint_hit: the site that is counted for a stop, or NoSite. *)
CountedSite(all, stop) ==
    LET site == Meant(all, stop.file, stop.line) IN
    IF site = NoSite THEN NoSite
    ELSE IF all[site[1]][site[2]].hit \/ stop.reason # "breakpoint" THEN NoSite ELSE site

----------------------------------------------------------------------------
(* Events. *)

NoHits == [s \in Sites |-> 0]
Entry == [file |-> NoFile, line |-> 0, reason |-> "entry"]

(* Those that have counts keep the passes there were when they were made.    *)
Snapshot(st, stop, counts, passed) ==
    [kind |-> "snapshot", state |-> st, stop |-> stop, hits |-> counts, passed |-> passed]
Results(ok, f, results, passed) ==
    [kind |-> "results", ok |-> ok, file |-> f, results |-> results, passed |-> passed]
Info(ok, x) == [kind |-> "info", ok |-> ok, item |-> x]
Failed(op) == [kind |-> "failed", op |-> op]

(* remove_breakpoint_at *)
Removed(all, f, l) ==
    LET b == Bucket(all, f) IN
    IF l \notin DOMAIN b THEN all
    ELSE IF DOMAIN b = {l} THEN Restrict(all, DOMAIN all \ {f})
    ELSE [all EXCEPT ![f] = Restrict(b, DOMAIN b \ {l})]

(* maybe_finish_ephemeral_catch_skip: any breakpoint ends the skip. *)
SkipEnds(skip, stop) == <<skip.file, skip.line>> = <<stop.file, stop.line>> \/ stop.reason = "breakpoint"
AfterSkip(all, ended) ==
    IF \E skip \in ended : skip.added
    THEN LET skip == CHOOSE s \in ended : TRUE IN Removed(all, skip.file, skip.line)
    ELSE all

(* Bug: only files that have breakpoints are worth a flush. *)
FlushWhenSet(all) == DOMAIN all # {}

FlushDue(all) == DOMAIN all # {} \/ restarting \/ (launch = "handled" /\ ~flushed)

(* apply_exception_filter_defaults *)
WithDefaults == [x \in Items |-> [exceptions[x] EXCEPT !.enabled = @ \/ (~known /\ x \in Defaults)]]
PushDefaults(filters) ==
    IF ~known /\ ToldExceptions(filters) # {}
    THEN boxes' = [boxes EXCEPT !["exception"] = {ToldExceptions(filters)}]
    ELSE UNCHANGED boxes

(* apply_snapshot_json_payload *)
ApplySnapshot(event) ==
    LET counted == ApplyHits(breakpoints, SnapshotHits(event.hits))
        site == CountedSite(counted, event.stop)
        isNew == event.state = "stopped" /\ site # NoSite /\ ~AlreadyCounted(site)
        recorded == IF isNew THEN [counted EXCEPT ![site[1]][site[2]].count = @ + 1] ELSE counted
        ended == {skip \in catchSkip : event.state = "stopped" /\ SkipEnds(skip, event.stop)}
        all == AfterSkip(recorded, ended)
        endedFiles == IF all = recorded THEN {} ELSE {skip.file : skip \in ended}
    IN
    /\ state' = event.state
    /\ known' = TRUE
    /\ exceptions' = WithDefaults
    /\ breakpoints' = all
    /\ lastCounted' = IF isNew THEN {site} ELSE lastCounted
    /\ catchSkip' = catchSkip \ ended
    /\ inCatch' = (event.state = "stopped" /\ event.stop.reason = "exception")
    /\ misled' = (misled \/ Mislead(breakpoints, SnapshotHits(event.hits))
                         \/ /\ isNew
                            /\ \/ site # <<event.stop.file, event.stop.line>>
                               \/ event.hits[site] > 0                  \* the adapter counted it
                               \/ /\ event.passed[site] = seen[site]    \* the UI did, and forgot
                                  /\ lastCounted # {site})
    /\ seen' = event.passed
    /\ IF event.state = "stopped" /\ FlushDue(all)
       THEN Flush(all, exceptions', endedFiles) /\ flushed' = (flushed \/ restarting \/ launch = "handled")
       ELSE /\ PushDefaults(exceptions') /\ UNCHANGED flushed
            /\ Push(all, endedFiles)
    /\ restarting' = (restarting /\ event.state # "stopped")
    /\ UNCHANGED <<launch, functions, data, resolving, promptVars>>

(* BreakpointsFinished *)
BreakpointsFinished(event) ==
    LET f == Find(breakpoints, event.file)
        given == event.ok /\ f # NoFile
        placed == IF given THEN ApplyHits(breakpoints, ByPlace(breakpoints, f, event)) ELSE breakpoints
    IN
    /\ breakpoints' = IF given THEN ApplyHits(placed, ByLine(f, event)) ELSE breakpoints
    /\ misled' = (misled \/ (given /\ (Mislead(breakpoints, ByPlace(breakpoints, f, event))
                                       \/ Mislead(placed, ByLine(f, event)))))
    /\ seen' = event.passed
    /\ UNCHANGED <<launchVars, state, exceptions, functions, data, resolving, countVars, inCatch, promptVars,
                   boxVars, lost>>

(* handle_data_breakpoint_info_payload *)
DataBreakpointInfo(event) ==
    /\ resolving' = {}
    /\ IF resolving # {} /\ event.ok
       THEN data' = data \cup {event.item} /\ PushKind("data", data')
       ELSE UNCHANGED <<data, boxes, lost>>
    /\ UNCHANGED <<launchVars, state, breakpoints, exceptions, functions, countVars, inCatch, promptVars,
                   sourceBox, seen, misled>>

(* CommandFinished, of a command that failed.  The UI no longer waits for a  *)
(* restart that was asked for when the one that failed was still under way.  *)
RestartUnderWay ==
    command = "restart" \/ \E i \in DOMAIN events : events[i].kind = "snapshot" /\ events[i].stop = Entry

CommandFailed(event) ==
    /\ state' = IF state = "running" /\ event.op # "restart" THEN "stopped" ELSE state
    /\ restarting' = (restarting /\ event.op # "restart")
    /\ lost' = IF event.op = "restart" /\ RestartUnderWay THEN lost \cup {k \in Kinds : boxes[k] = {}} ELSE lost
    /\ UNCHANGED <<launch, known, flushed, listVars, resolving, countVars, inCatch, promptVars, boxVars, seen, misled>>

HandleSessionEvent ==
    /\ events # <<>>
    /\ LET event == Head(events) IN
       \/ event.kind = "snapshot" /\ ApplySnapshot(event)
       \/ event.kind = "results" /\ BreakpointsFinished(event)
       \/ event.kind = "info" /\ DataBreakpointInfo(event)
       \/ event.kind = "failed" /\ CommandFailed(event)
    /\ events' = Tail(events)
    /\ UNCHANGED <<edits, commands, command, infoBox, sessionVars>>

(* handle_launch_complete *)
HandleLaunchComplete ==
    /\ launch = "up"
    /\ launch' = "handled"
    /\ IF IsStopped THEN Flush(breakpoints, exceptions, {}) /\ flushed' = TRUE
       ELSE UNCHANGED <<flushed, boxVars, lost>>
    /\ UNCHANGED <<known, restarting, state, listVars, resolving, countVars, inCatch, promptVars, edits, commands,
                   command, infoBox, events, sessionVars, seen, misled>>

----------------------------------------------------------------------------
(* The user changes breakpoints. *)

AtKeyboard == Len(events) < MaxEvents /\ edits < MaxEdits
Edit == edits' = edits + 1
EditUnchanged ==
    UNCHANGED <<launchVars, state, resolving, countVars, inCatch, commands, command, infoBox, events, sessionVars,
                seen, misled>>

(* remove_breakpoint_at, from the panel or the source. *)
RemoveBreakpointAt(f, l) ==
    /\ AtKeyboard /\ l \in DOMAIN Bucket(breakpoints, f)
    /\ Edit
    /\ breakpoints' = Removed(breakpoints, f, l)
    /\ Push(breakpoints', {f})
    /\ UNCHANGED <<exceptions, functions, data, promptVars, boxes>>
    /\ EditUnchanged

(* toggle_breakpoint_at, of a line that has none: a line of the file that is *)
(* shown may be empty, and its file is left without breakpoints but known.   *)
AddBreakpointAt(f, l) ==
    /\ AtKeyboard /\ l \notin DOMAIN Bucket(breakpoints, f)
    /\ Edit
    /\ \/ /\ breakpoints' = With(breakpoints, f, WithLine(Bucket(breakpoints, f), l, New))
          /\ Push(breakpoints', {f})
       \/ /\ f \notin DOMAIN breakpoints
          /\ breakpoints' = With(breakpoints, f, <<>>)
          /\ UNCHANGED <<sourceBox, lost>>
    /\ UNCHANGED <<exceptions, functions, data, promptVars, boxes>>
    /\ EditUnchanged

(* begin_edit_breakpoint_condition and begin_edit_breakpoint_hit_condition:  *)
(* the prompt of an exception filter is not closed.                          *)
BeginEditBreakpoint(f, l, onHits) ==
    /\ AtKeyboard /\ l \in DOMAIN Bucket(breakpoints, f)
    /\ editing' = {[file |-> f, line |-> l, hit |-> onHits]}
    /\ UNCHANGED <<edits, listVars, editingFilter, boxVars, lost>>
    /\ EditUnchanged

(* set_breakpoint_condition and set_breakpoint_hit_condition: the count of a *)
(* breakpoint that loses its hit condition starts again.                     *)
WithCondition(entry, value) == [entry EXCEPT !.condition = value]
WithHitCondition(entry, value) == [entry EXCEPT !.hit = value, !.count = IF value THEN @ ELSE 0]

SetCondition(f, l, onHits, value) ==
    IF l \notin DOMAIN Bucket(breakpoints, f) THEN UNCHANGED <<breakpoints, sourceBox, lost>>
    ELSE /\ breakpoints' = [breakpoints EXCEPT ![f][l] =
                               IF onHits THEN WithHitCondition(@, value) ELSE WithCondition(@, value)]
         /\ Push(breakpoints', {f})

(* blur_breakpoint_input *)
BlurBreakpointInput == editing' = {} /\ editingFilter' = {}

(* set_exception_breakpoint_condition *)
SetExceptionCondition(x, value) ==
    /\ exceptions' = [exceptions EXCEPT ![x] = [enabled |-> @.enabled \/ value, condition |-> value]]
    /\ PushKind("exception", ToldExceptions(exceptions'))

(* The prompt of a breakpoint or of a filter is submitted: a filter goes     *)
(* before a breakpoint.                                                      *)
SubmitCondition(value) ==
    /\ AtKeyboard /\ editing \cup editingFilter # {}
    /\ Edit
    /\ \/ /\ editingFilter # {}
          /\ \E x \in editingFilter : SetExceptionCondition(x, value)
          /\ UNCHANGED <<breakpoints, sourceBox>>
       \/ /\ editingFilter = {}
          /\ \E prompt \in editing : SetCondition(prompt.file, prompt.line, prompt.hit, value)
          /\ UNCHANGED <<exceptions, boxes>>
    /\ BlurBreakpointInput
    /\ UNCHANGED <<functions, data>>
    /\ EditUnchanged

(* toggle_exception_breakpoint *)
ToggleException(x) ==
    /\ AtKeyboard /\ known
    /\ Edit
    /\ exceptions' = [exceptions EXCEPT ![x].enabled = ~@]
    /\ PushKind("exception", ToldExceptions(exceptions'))
    /\ UNCHANGED <<breakpoints, functions, data, promptVars, sourceBox>>
    /\ EditUnchanged

(* begin_edit_exception_condition *)
BeginEditException(x) ==
    /\ AtKeyboard /\ known
    /\ Edit
    /\ exceptions' = [exceptions EXCEPT ![x].enabled = TRUE]
    /\ IF exceptions[x].enabled THEN UNCHANGED <<boxes, lost>>
       ELSE PushKind("exception", ToldExceptions(exceptions'))
    /\ editing' = {} /\ editingFilter' = {x}
    /\ UNCHANGED <<breakpoints, functions, data, sourceBox>>
    /\ EditUnchanged

(* toggle_function_breakpoint: add_function_breakpoint or                    *)
(* remove_function_breakpoint.                                               *)
AddFunction(x) == functions \cup {x}
RemoveFunction(x) == functions \ {x}

ToggleFunction(x) ==
    /\ AtKeyboard
    /\ Edit
    /\ functions' = IF x \in functions THEN RemoveFunction(x) ELSE AddFunction(x)
    /\ PushKind("function", functions')
    /\ UNCHANGED <<breakpoints, exceptions, data, promptVars, sourceBox>>
    /\ EditUnchanged

(* remove_data_breakpoint *)
RemoveData(x) ==
    /\ AtKeyboard /\ x \in data
    /\ Edit
    /\ data' = data \ {x}
    /\ PushKind("data", data')
    /\ UNCHANGED <<breakpoints, exceptions, functions, promptVars, sourceBox>>
    /\ EditUnchanged

(* request_data_breakpoint *)
RequestData(x) ==
    /\ AtKeyboard /\ known /\ IsStopped
    /\ Edit
    /\ resolving' = {x} /\ infoBox' = {x}
    /\ UNCHANGED <<launchVars, state, listVars, countVars, inCatch, promptVars, commands, command, boxVars, events,
                   sessionVars, lost, seen, misled>>

----------------------------------------------------------------------------
(* The user lets the program go on. *)

Commands == {"continue", "step_into", "pause", "restart"}

CommandUnchanged ==
    UNCHANGED <<launch, known, flushed, exceptions, functions, data, resolving, promptVars, edits, boxes, infoBox,
                events, sessionVars, seen, misled>>

(* apply_execution_command_started, of a command that is shown at once.      *)
Started == state' = IF IsStopped THEN "running" ELSE state

(* try_skip_exception_runtime_to_catch: a breakpoint in the catch block is   *)
(* added if there is none.                                                   *)
SkipToCatch(f, l) ==
    LET added == l \notin DOMAIN Bucket(breakpoints, f) IN
    /\ IF added
       THEN /\ breakpoints' = With(breakpoints, f, WithLine(Bucket(breakpoints, f), l, New))
            /\ Push(breakpoints', {f})
       ELSE UNCHANGED <<breakpoints, sourceBox, lost>>
    /\ catchSkip' = {[file |-> f, line |-> l, added |-> added]}
    /\ command' = "continue" /\ lastCounted' = {} /\ Started
    /\ UNCHANGED restarting

(* send_command *)
SendCommand(op) ==
    /\ launch = "handled" /\ known /\ commands < MaxCommands /\ Len(events) < MaxEvents
    /\ commands' = commands + 1
    /\ \/ /\ op = "continue" /\ inCatch /\ catchSkip = {}
          /\ \E site \in Sites : SkipToCatch(site[1], site[2])
       \/ /\ command' = op
          /\ IF op = "step_into" THEN Started /\ lastCounted' = {} ELSE UNCHANGED <<state, lastCounted>>
          /\ restarting' = (restarting \/ op = "restart")
          /\ UNCHANGED <<breakpoints, catchSkip, sourceBox, lost>>
    /\ inCatch' = (inCatch /\ state' = state)
    /\ CommandUnchanged

----------------------------------------------------------------------------
(* The worker, the session and the program. *)

UiUnchanged ==
    UNCHANGED <<known, flushed, restarting, state, listVars, resolving, countVars, inCatch, promptVars, edits,
                commands, seen>>

WorkerFree == IsActive /\ Len(events) < MaxEvents

(* The launch worker, or a restart: a new adapter that has no breakpoints,   *)
(* stopped at the entry or, after a launch, running.                         *)
NewSession(st) ==
    /\ session' = st /\ stopped' = Entry
    /\ requests' = [f \in Files |-> {}] /\ hits' = NoHits
    /\ adapter' = [f \in Files |-> {}] /\ adapterLists' = [k \in Kinds |-> {}]
    /\ events' = Append(events, Snapshot(st, Entry, NoHits, passes))
    /\ UNCHANGED <<passes, stops>>

LaunchWorker ==
    /\ launch = "none"
    /\ launch' = "up"
    /\ \E st \in {"stopped", "running"} : NewSession(st)
    /\ UNCHANGED <<command, boxVars, infoBox, lost, misled>>
    /\ UiUnchanged

Larger(m, n) == IF m < n THEN n ELSE m

(* An adapter counts the hits of a breakpoint since it was set, or not.      *)
Counts(b) == [s \in Sites |-> IF \E t \in adapter[s[1]] : t.line = s[2] THEN Larger(b[s], passes'[s]) ELSE b[s]]

(* enrich_stopped_snapshot: the last requests are made once more. *)
Enriched(st, stop) ==
    /\ adapter' = [f \in Files |-> IF requests[f] = {} THEN adapter[f] ELSE requests[f]]
    /\ hits' \in {hits, Counts(hits)}
    /\ events' = Append(events, Snapshot(st, stop, hits', passes'))

(* The program reaches a breakpoint, and stops there unless its conditions   *)
(* say otherwise.                                                            *)
ReachBreakpoint(f, l) ==
    /\ WorkerFree /\ session = "running" /\ stops < MaxStops
    /\ \E b \in adapter[f] :
          /\ b.line = l
          /\ stops' = stops + 1
          /\ passes' = [passes EXCEPT ![<<f, l>>] = @ + 1]
          /\ \/ /\ session' = "stopped"
                /\ stopped' = [file |-> f, line |-> l, reason |-> "breakpoint"]
                /\ Enriched("stopped", stopped')
             \/ /\ b.condition \/ b.hit
                /\ UNCHANGED <<session, stopped, adapter, hits, events>>
    /\ UNCHANGED <<launch, command, boxVars, infoBox, requests, adapterLists, lost, misled>>
    /\ UiUnchanged

(* It stops for another reason. *)
StopElsewhere ==
    /\ WorkerFree /\ session = "running" /\ stops < MaxStops
    /\ stops' = stops + 1 /\ UNCHANGED passes
    /\ session' = "stopped"
    /\ stopped' \in {[file |-> site[1], line |-> site[2], reason |-> "step"] : site \in Sites}
                   \cup {[file |-> NoFile, line |-> 0, reason |-> "exception"]}
    /\ Enriched("stopped", stopped')
    /\ UNCHANGED <<launch, command, boxVars, infoBox, requests, adapterLists, lost, misled>>
    /\ UiUnchanged

(* dispatch_command *)
RunCommand ==
    /\ WorkerFree /\ command # "none"
    /\ command' = "none"
    /\ \/ /\ command \in {"continue", "step_into"} /\ session = "stopped"
          /\ session' = "running"
          /\ UNCHANGED <<stopped, requests, hits, adapter, adapterLists, passes, stops, events, sourceBox, lost>>
       \/ /\ command = "pause" /\ session = "stopped"
          /\ events' = Append(events, Snapshot(session, stopped, hits, passes))
          /\ UNCHANGED <<sessionVars, sourceBox, lost>>
       \/ /\ command = "restart"
          /\ NewSession("stopped")
          /\ sourceBox' = {} /\ UNCHANGED lost
       \/ /\ events' = Append(events, Failed(command))
          /\ UNCHANGED <<sessionVars, sourceBox, lost>>
    /\ UNCHANGED <<launch, boxes, infoBox, misled>>
    /\ UiUnchanged

(* process_pending_breakpoints: an execution command goes first.             *)
SetSourceBreakpoints ==
    /\ WorkerFree /\ command = "none"
    /\ \E post \in sourceBox, ok \in BOOLEAN : \E lines \in InOrder({b.line : b \in post.list}) :
          LET f == post.file IN
          /\ requests' = [requests EXCEPT ![f] = post.list]
          /\ adapter' = IF ok THEN [adapter EXCEPT ![f] = post.list] ELSE adapter
          /\ lost' = IF ok \/ adapter[f] = post.list THEN lost \ {f} ELSE lost \cup {f}
          /\ \E told \in BOOLEAN :
                /\ hits' = IF ok /\ told THEN [s \in Sites |-> IF s[1] = f /\ \E b \in post.list : b.line = s[2]
                                                              THEN Larger(hits[s], passes[s]) ELSE hits[s]]
                           ELSE hits
                /\ events' = Append(events, Results(ok, f,
                       [i \in DOMAIN lines |-> [line |-> lines[i], count |-> IF told THEN passes[<<f, lines[i]>>] ELSE 0]], passes))
    /\ sourceBox' = {}
    /\ UNCHANGED <<launch, command, boxes, infoBox, session, stopped, adapterLists, passes, stops, misled>>
    /\ UiUnchanged

(* process_pending_data_breakpoints, process_pending_function_breakpoints and *)
(* process_pending_exception_breakpoints, one after the other in a round: the *)
(* lists that wait are sent, and some of the requests fail.                   *)
SetOtherBreakpoints ==
    /\ WorkerFree /\ command = "none"
    /\ LET waiting == {k \in Kinds : boxes[k] # {}} IN
       /\ waiting # {}
       /\ \E failing \in SUBSET {k \in waiting : adapterLists[k] \notin boxes[k]} :
             /\ adapterLists' = [k \in Kinds |-> IF k \in waiting \ failing THEN CHOOSE list \in boxes[k] : TRUE
                                               ELSE adapterLists[k]]
             /\ lost' = (lost \ waiting) \cup failing
    /\ boxes' = [k \in Kinds |-> {}]
    /\ UNCHANGED <<launch, command, sourceBox, infoBox, events, session, stopped, requests, hits, adapter, passes,
                   stops, misled>>
    /\ UiUnchanged

(* process_data_breakpoint_info_fetch *)
FetchDataBreakpointInfo ==
    /\ WorkerFree /\ command = "none"
    /\ \E x \in infoBox, ok \in BOOLEAN : events' = Append(events, Info(ok, x))
    /\ infoBox' = {}
    /\ UNCHANGED <<launch, command, boxVars, sessionVars, lost, misled>>
    /\ UiUnchanged

----------------------------------------------------------------------------
Init ==
    /\ launch = "none" /\ known = FALSE /\ flushed = FALSE /\ restarting = FALSE /\ state = NoState
    /\ breakpoints = <<>> /\ functions = {} /\ data = {} /\ resolving = {}
    /\ exceptions = [x \in Items |-> [enabled |-> FALSE, condition |-> FALSE]]
    /\ lastCounted = {} /\ catchSkip = {} /\ inCatch = FALSE
    /\ editing = {} /\ editingFilter = {} /\ edits = 0 /\ commands = 0
    /\ command = "none" /\ sourceBox = {} /\ boxes = [k \in Kinds |-> {}] /\ infoBox = {} /\ events = <<>>
    /\ session = "none" /\ stopped = Entry /\ requests = [f \in Files |-> {}] /\ hits = NoHits
    /\ adapter = [f \in Files |-> {}] /\ adapterLists = [k \in Kinds |-> {}]
    /\ passes = NoHits /\ stops = 0 /\ lost = {} /\ seen = NoHits /\ misled = FALSE

User ==
    \/ \E site \in Sites :
          \/ RemoveBreakpointAt(site[1], site[2])
          \/ AddBreakpointAt(site[1], site[2])
          \/ \E onHits \in BOOLEAN : BeginEditBreakpoint(site[1], site[2], onHits)
    \/ \E value \in BOOLEAN : SubmitCondition(value)
    \/ \E x \in Items :
          ToggleException(x) \/ BeginEditException(x) \/ ToggleFunction(x) \/ RemoveData(x) \/ RequestData(x)
    \/ \E op \in Commands : SendCommand(op)

Worker ==
    \/ LaunchWorker \/ StopElsewhere \/ RunCommand \/ SetSourceBreakpoints \/ FetchDataBreakpointInfo
    \/ \E site \in Sites : ReachBreakpoint(site[1], site[2])
    \/ SetOtherBreakpoints

Next == User \/ HandleSessionEvent \/ HandleLaunchComplete \/ Worker

Spec == Init /\ [][Next]_vars

AtMostOne(set, S) == set \subseteq S /\ \A x, y \in set : x = y
Breakpoint == [condition : BOOLEAN, hit : BOOLEAN, count : Nat]
AreBreakpoints(all) ==
    /\ all = [f \in DOMAIN all |-> [l \in DOMAIN all[f] |-> all[f][l]]] /\ DOMAIN all \subseteq Files
    /\ \A f \in DOMAIN all : \A l \in DOMAIN all[f] : <<f, l>> \in Sites /\ all[f][l] \in Breakpoint
Places == [file : Files, line : Lines]
Listings == SUBSET [line : Lines, condition : BOOLEAN, hit : BOOLEAN]
KindLists == (SUBSET [filter : Items, condition : BOOLEAN]) \cup SUBSET Items
PerSite == [Sites -> Nat]
PlacesOfStops == [file : Files \cup {NoFile}, line : Lines \cup {0},
                  reason : {"entry", "breakpoint", "step", "exception"}]
Events ==
    [kind : {"snapshot"}, state : {"running", "stopped"}, stop : PlacesOfStops, hits : PerSite, passed : PerSite]
    \cup [kind : {"results"}, ok : BOOLEAN, file : Files, results : Seq([line : Lines, count : Nat]), passed : PerSite]
    \cup [kind : {"info"}, ok : BOOLEAN, item : Items]
    \cup [kind : {"failed"}, op : Commands]

TypeOK ==
    /\ launch \in {"none", "up", "handled"} /\ state \in {NoState, "running", "stopped"}
    /\ AreBreakpoints(breakpoints)
    /\ exceptions \in [Items -> [enabled : BOOLEAN, condition : BOOLEAN]]
    /\ functions \cup data \subseteq Items
    /\ AtMostOne(resolving, Items) /\ AtMostOne(infoBox, Items) /\ AtMostOne(editingFilter, Items)
    /\ {known, flushed, restarting, inCatch, misled} \subseteq BOOLEAN
    /\ AtMostOne(lastCounted, Sites)
    /\ AtMostOne(catchSkip, [file : Files, line : Lines, added : BOOLEAN])
    /\ AtMostOne(editing, [file : Files, line : Lines, hit : BOOLEAN])
    /\ command \in Commands \cup {"none"} /\ events \in Seq(Events)
    /\ AtMostOne(sourceBox, [file : Files, list : Listings])
    /\ boxes \in [Kinds -> SUBSET KindLists] /\ adapterLists \in [Kinds -> KindLists]
    /\ session \in {"none", "running", "stopped"} /\ stopped \in PlacesOfStops
    /\ requests \in [Files -> Listings] /\ adapter \in [Files -> Listings]
    /\ {hits, passes, seen} \subseteq PerSite
    /\ lost \subseteq Files \cup Kinds
    /\ {edits, commands, stops} \subseteq Nat

Settled ==
    /\ launch = "handled" /\ IsStopped /\ session = "stopped" /\ events = <<>> /\ command = "none"
    /\ sourceBox = {} /\ \A k \in Kinds : boxes[k] = {}

(* Once a stop is dealt with, the adapter has the breakpoints the UI shows,  *)
(* of every kind, except those of a file whose list was posted and another   *)
(* list took its place in the mailbox, or its name, before it was sent,      *)
(* those whose request failed, and those of other kinds after a restart that *)
(* was asked for while one that failed was under way.                        *)
AdapterHas ==
    Settled =>
        /\ \A f \in Files \ lost : adapter[f] = Listing(breakpoints, f)
        /\ "exception" \notin lost => adapterLists["exception"] = ToldExceptions(exceptions)
        /\ "function" \notin lost => adapterLists["function"] = functions
        /\ "data" \notin lost => adapterLists["data"] = data

(* The UI never shows more hits of a breakpoint than there were, unless a    *)
(* count was given to another breakpoint near it or in its place, or a stop  *)
(* was counted a second time: the adapter counted it too, or a second        *)
(* snapshot of it came when the UI had already forgotten to have counted it. *)
CountIsReal ==
    ~misled => \A f \in DOMAIN breakpoints : \A l \in DOMAIN breakpoints[f] :
                   breakpoints[f][l].count <= passes[<<f, l>>]
=============================================================================
