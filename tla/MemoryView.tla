----------------------------- MODULE MemoryView -----------------------------
(***************************************************************************)
(* The memory, disassembly and runtime-source panels of the UI, and the    *)
(* mailboxes in which their requests wait for the worker thread.           *)
(*                                                                         *)
(* A panel keeps the last answer and asks again whenever the UI has        *)
(* handled events of a stopped program.  The worker has one mailbox for    *)
(* each kind of request, so a request of one panel replaces one of another *)
(* panel of its kind that still waits.  In a memory panel the user looks   *)
(* up an address, searches the dump and edits a row of it, all while       *)
(* answers come in.                                                        *)
(*                                                                         *)
(* A reference stands for an address far from the others: only its own     *)
(* dump shows it.  A dump is how often it holds each text one may search.  *)
(* The adapter is one that can read, write and disassemble memory.         *)
(***************************************************************************)
EXTENDS Integers, Sequences, FiniteSets

CONSTANTS
    Panels,      \* the panels' kinds, in the order of the layout: a sequence
                 \* of "disassembly", "runtime" and at least one "memory"
    Refs,        \* memory references
    Queries,     \* texts to search for
    MaxMatches,  \* how often at most a dump holds a text
    Rows,        \* rows of a dump the user edits, naturals
    MaxTouches,  \* bound on the user's actions
    MaxStops,    \* bound on the stops of the program
    MaxEvents    \* bound on the events that wait for the UI

VARIABLES
    stopped,     \* is_session_stopped
    frame,       \* the reference of the active stack frame
    slot,        \* SidebarSlot: what each panel has cached
    text,        \* what its search input holds, and held when it was focused
    bar,         \* active_toolbar_ of each memory panel
    edit,        \* the row that the list of each memory panel edits, if any
    disowned,    \* panels whose own inline_edit_row_ is -1 during such an edit
    began,       \* where that row was when the edit began, until a dump of
                 \* another place replaces the one it began on
    focus,       \* memory_focus_slot_id_, 0 for none
    toolbar,     \* memory_toolbar_focused_
    writing,     \* memory_write_active_
    writer,      \* memory_write_slot_id_, 0 for none
    asker,       \* memory_address_eval_slot_id_, 0 for none
    mailbox,     \* the worker's requests, at most one of a kind
    events,      \* the events pushed by the worker
    touches, stops

vars == <<stopped, frame, slot, text, bar, edit, disowned, began, focus, toolbar, writing,
          writer, asker, mailbox, events, touches, stops>>
panelVars == <<text, bar, edit, disowned, began, focus, toolbar, writing, writer>>

Slots == DOMAIN Panels
Memory == {s \in Slots : Panels[s] = "memory"}
Nowhere == "nowhere"
NoText == ""
Kinds == {"memory", "disassembly", "runtime", "write", "evaluate"}
Dumps == [Queries -> 0..MaxMatches]
ReplSlot == 0

Slot == [view : Refs \cup {Nowhere}, reference : Refs \cup {Nowhere}, data : Dumps,
         lines : {"none", "dump", "failed"}, query : Queries \cup {NoText},
         matches : 0..MaxMatches, index : -1..MaxMatches - 1, length : BOOLEAN]
Request == [slot : Slots \cup {ReplSlot}, reference : Refs \cup {Nowhere}]
Event == [kind : Kinds, success : BOOLEAN, slot : Slots \cup {ReplSlot},
          reference : Refs \cup {Nowhere}, data : Dumps]

TypeOK ==
    /\ stopped \in BOOLEAN
    /\ frame \in Refs \cup {Nowhere}
    /\ slot \in [Slots -> Slot]
    /\ text \in [Memory -> [now : Queries \cup {NoText}, before : Queries \cup {NoText}]]
    /\ bar \in [Memory -> {"None", "Address", "Search"}]
    /\ edit \in [Memory -> SUBSET Rows] /\ \A s \in Memory : Cardinality(edit[s]) <= 1
    /\ disowned \in SUBSET {s \in Memory : edit[s] # {}}
    /\ began \in [Memory -> SUBSET (Refs \X Rows)]
    /\ {focus, asker, writer} \subseteq Memory \cup {0}
    /\ toolbar \in BOOLEAN /\ writing \in BOOLEAN
    /\ mailbox \in [Kinds -> SUBSET Request] /\ \A k \in Kinds : Cardinality(mailbox[k]) <= 1
    /\ events \in Seq(Event) /\ Len(events) <= MaxEvents
    /\ touches \in 0..MaxTouches /\ stops \in 0..MaxStops

NoData == [q \in Queries |-> 0]
EmptySlot == [view |-> Nowhere, reference |-> Nowhere, data |-> NoData, lines |-> "none",
              query |-> NoText, matches |-> 0, index |-> -1, length |-> FALSE]

Init ==
    /\ stopped = FALSE /\ frame = Nowhere
    /\ slot = [s \in Slots |-> EmptySlot]
    /\ text = [s \in Memory |-> [now |-> NoText, before |-> NoText]]
    /\ bar = [s \in Memory |-> "None"]
    /\ edit = [s \in Memory |-> {}] /\ began = [s \in Memory |-> {}] /\ disowned = {}
    /\ focus = 0 /\ asker = 0 /\ writer = 0 /\ toolbar = FALSE /\ writing = FALSE
    /\ mailbox = [k \in Kinds |-> {}]
    /\ events = <<>>
    /\ touches = 0 /\ stops = 0

Touch == touches < MaxTouches /\ touches' = touches + 1

-----------------------------------------------------------------------------
(* Requests *)

Ask(boxes, kind, s, reference) ==
    [boxes EXCEPT ![kind] = {[slot |-> s, reference |-> reference]}]

(* The reference a panel wants of a program stopped at place. *)
Wanted(cached, s, place) ==
    IF Panels[s] = "memory" /\ cached[s].view # Nowhere THEN cached[s].view ELSE place

(* Each panel asks for its data; of a kind only the last one's request stays. *)
PanelsAsk(boxes, cached, place) ==
    [k \in Kinds |->
        LET askers == {s \in Slots : Panels[s] = k /\ Wanted(cached, s, place) # Nowhere}
            last == CHOOSE s \in askers : \A t \in askers : t <= s
        IN IF askers = {} THEN boxes[k]
           ELSE {[slot |-> last, reference |-> Wanted(cached, last, place)]}]

-----------------------------------------------------------------------------
(* The search in a dump *)

Matches(cached, q) == IF q = NoText \/ cached.lines # "dump" THEN 0 ELSE cached.data[q]

(* A match is highlighted, and its row scrolled to. *)
Highlighted(cached) == cached.index >= 0 /\ cached.matches > 0 /\ cached.length

Searched(cached, q, index) ==
    [cached EXCEPT !.query = q, !.length = q # NoText, !.matches = Matches(cached, q), !.index = index]

(* The match to start from: none when another text is searched. *)
From(cached, q) == IF q # cached.query THEN -1 ELSE cached.index

(* The text as it is typed: its first match, or the one shown before. *)
Preview(cached, q) ==
    Searched(cached, q,
        IF Matches(cached, q) = 0 THEN -1
        ELSE IF From(cached, q) < 0 THEN 0 ELSE From(cached, q))

(* The match Enter, n and N lead to. *)
Step(cached, q, way) ==
    LET from == From(cached, q)
        n == Matches(cached, q)
    IN CASE n = 0 -> -1
         [] n > 0 /\ way = "confirm" -> IF from < 0 THEN 0 ELSE from
         [] n > 0 /\ way = "next" -> (from + 1) % n
         [] n > 0 /\ way = "previous" -> IF from <= 0 THEN n - 1 ELSE from - 1

(* Bug: a dump without a match keeps one selected. *)
IndexKeptWhenEmpty(cached, n) ==
    IF cached.index < 0 \/ cached.index >= n THEN 0 ELSE cached.index

(* A new dump is searched for the text again. *)
IndexIn(cached, n) ==
    IF n = 0 THEN -1 ELSE IF cached.index < 0 \/ cached.index >= n THEN 0 ELSE cached.index

Redumped(cached, reference, data) ==
    LET new == [cached EXCEPT !.reference = reference, !.data = data, !.lines = "dump"]
    IN IF cached.query = NoText THEN new
       ELSE [new EXCEPT !.matches = data[cached.query], !.index = IndexIn(cached, data[cached.query])]

(* A failed read keeps the dump there is, and goes back to looking at it. *)
Unread(cached) ==
    IF cached.lines = "dump" THEN [cached EXCEPT !.view = cached.reference]
    ELSE [cached EXCEPT !.lines = "failed"]

(* The panel is to show another place: what was found is forgotten at once, *)
(* the dump stays until the answer.                                         *)
Navigated(cached, reference) ==
    [cached EXCEPT !.view = reference, !.matches = 0, !.index = -1, !.length = FALSE]

-----------------------------------------------------------------------------
(* The program and the worker *)

(* A command that runs the program drops an expression that waits. *)
Resume ==
    /\ stopped
    /\ stopped' = FALSE
    /\ mailbox' = [mailbox EXCEPT !["evaluate"] = {}]
    /\ UNCHANGED <<frame, slot, panelVars, asker, events, touches, stops>>

(* The UI learns that the program stopped, and the panels ask. *)
Stop ==
    /\ ~stopped /\ stops < MaxStops
    /\ stopped' = TRUE
    /\ stops' = stops + 1
    /\ frame' \in Refs \cup {Nowhere}
    /\ mailbox' = PanelsAsk(mailbox, slot, frame')
    /\ UNCHANGED <<slot, panelVars, asker, events, touches>>

(* A restart drops all that waits, and the UI is not told what. *)
Restart ==
    /\ Touch
    /\ stopped' = FALSE
    /\ mailbox' = [k \in Kinds |-> {}]
    /\ UNCHANGED <<frame, slot, panelVars, asker, events, stops>>

(* The worker answers a request.  Requests posted between its steps come in *)
(* any order.  The adapter may refuse, and does so while the program runs.  *)
Serve(kind) ==
    /\ Len(events) < MaxEvents
    /\ \E r \in mailbox[kind], ok \in BOOLEAN, data \in Dumps :
        /\ kind # "memory" \/ ~ok => data = NoData
        /\ mailbox' = [mailbox EXCEPT ![kind] = {}]
        /\ \E place \in IF kind = "evaluate" /\ ok THEN Refs \cup {Nowhere} ELSE {r.reference} :
            events' = Append(events, [kind |-> kind, success |-> ok, slot |-> r.slot,
                                      reference |-> place, data |-> data])
    /\ UNCHANGED <<stopped, frame, slot, panelVars, asker, touches, stops>>

-----------------------------------------------------------------------------
(* Answers in the UI *)

(* The poll that has handled the last event lets the panels ask again, so   *)
(* that an answer leads to the next request as long as the program is       *)
(* stopped.                                                                 *)
Polled(boxes, cached) ==
    IF stopped /\ Len(events) = 1 THEN PanelsAsk(boxes, cached, frame) ELSE boxes

(* An edit goes on when its dump is replaced, wherever the new one is from. *)
MemoryReady(e) ==
    /\ slot' = [slot EXCEPT ![e.slot] = IF e.success THEN Redumped(@, e.reference, e.data)
                                        ELSE Unread(@)]
    /\ began' = [began EXCEPT ![e.slot] = IF e.success /\ e.reference # slot[e.slot].reference
                                          THEN {} ELSE @]
    /\ mailbox' = Polled(mailbox, slot')
    /\ UNCHANGED <<text, bar, edit, disowned, focus, toolbar, writing, writer, asker>>

(* A listing that fails keeps its reference. *)
ListingReady(e) ==
    /\ slot' = [slot EXCEPT ![e.slot] =
                    IF e.success THEN [@ EXCEPT !.reference = e.reference, !.lines = "dump"]
                    ELSE [@ EXCEPT !.lines = "failed"]]
    /\ mailbox' = Polled(mailbox, slot')
    /\ UNCHANGED <<panelVars, asker>>

WriteMemoryFinished(e) ==
    /\ writing' = FALSE
    /\ mailbox' = Polled(IF e.success /\ stopped THEN PanelsAsk(mailbox, slot, frame) ELSE mailbox, slot)
    /\ UNCHANGED <<slot, text, bar, edit, disowned, began, focus, toolbar, writer, asker>>

(* The panel that waits for an address takes any answer, one of the REPL too. *)
EvaluateFinished(e) ==
    /\ asker' = 0
    /\ IF asker # 0 /\ e.success /\ e.reference # Nowhere
       THEN /\ slot' = [slot EXCEPT ![asker] = Navigated(@, e.reference)]
            /\ bar' = [bar EXCEPT ![asker] = "None"]
            /\ mailbox' = Polled(Ask(mailbox, "memory", asker, e.reference), slot')
       ELSE /\ mailbox' = Polled(mailbox, slot)
            /\ UNCHANGED <<slot, bar>>
    /\ UNCHANGED <<text, edit, disowned, began, focus, toolbar, writing, writer>>

HandleEvent ==
    /\ events # <<>>
    /\ LET e == Head(events)
       IN CASE e.kind = "memory" -> MemoryReady(e)
            [] e.kind \in {"disassembly", "runtime"} -> ListingReady(e)
            [] e.kind = "write" -> WriteMemoryFinished(e)
            [] e.kind = "evaluate" -> EvaluateFinished(e)
    /\ events' = Tail(events)
    /\ UNCHANGED <<stopped, frame, touches, stops>>

-----------------------------------------------------------------------------
(* The user *)

(* The panel that keys go to. *)
KeyPanel == IF focus # 0 THEN focus ELSE CHOOSE s \in Memory : \A t \in Memory : s <= t

(* Keys are taken for text: shortcuts, and the key that quits, do nothing. *)
InToolbar(s) == s = KeyPanel /\ (toolbar \/ bar[s] # "None")
InputFocused == writing \/ toolbar \/ edit[KeyPanel] # {} \/ bar[KeyPanel] # "None"

(* A click into the list of a panel. *)
ClickList(s) ==
    /\ Touch
    /\ \A t \in Memory : bar[t] = "None"
    /\ focus # s \/ toolbar
    /\ focus' = s /\ toolbar' = FALSE
    /\ UNCHANGED <<stopped, frame, slot, text, bar, edit, disowned, began, writing, writer,
                   asker, mailbox, events, stops>>

(* An input of the toolbar gets the keys, and remembers what it held. *)
FocusInput(s, input) ==
    /\ bar' = [bar EXCEPT ![s] = input]
    /\ text' = [text EXCEPT ![s].before = IF input = "Search" THEN text[s].now ELSE @]

(* A click on the toolbar: the flags of an edit are reset, its row is not. *)
ClickToolbar(s, input) ==
    /\ Touch
    /\ bar[s] # input /\ \A t \in Memory \ {s} : bar[t] = "None"
    /\ FocusInput(s, input)
    /\ focus' = s /\ toolbar' = TRUE /\ writing' = FALSE
    /\ UNCHANGED <<stopped, frame, slot, edit, disowned, began, writer, asker, mailbox, events, stops>>

(* The keys g and /. *)
OpenToolbar(input) ==
    /\ Touch
    /\ ~InputFocused
    /\ FocusInput(KeyPanel, input)
    /\ focus' = KeyPanel /\ toolbar' = TRUE
    /\ UNCHANGED <<stopped, frame, slot, edit, disowned, began, writing, writer,
                   asker, mailbox, events, stops>>

(* Tab.  An input that an answer has taken the focus from gets it back from  *)
(* the first key.                                                            *)
SwitchInput(s) ==
    /\ Touch
    /\ InToolbar(s)
    /\ FocusInput(s, IF bar[s] = "Search" THEN "Address" ELSE "Search")
    /\ toolbar' = TRUE
    /\ UNCHANGED <<stopped, frame, slot, edit, disowned, began, focus, writing, writer,
                   asker, mailbox, events, stops>>

(* Escape gives the input its text back, and searches for that again. *)
CancelToolbar(s) ==
    /\ Touch
    /\ InToolbar(s)
    /\ LET back == IF bar[s] = "Search" THEN text[s].before ELSE text[s].now
       IN IF bar[s] # "None"
          THEN /\ text' = [text EXCEPT ![s].now = back]
               /\ slot' = [slot EXCEPT ![s] = Preview(@, back)]
               /\ focus' = IF Matches(slot[s], back) > 0 THEN s ELSE focus
          ELSE UNCHANGED <<text, slot, focus>>
    /\ bar' = [bar EXCEPT ![s] = "None"]
    /\ toolbar' = FALSE
    /\ UNCHANGED <<stopped, frame, edit, disowned, began, writing, writer, asker, mailbox, events, stops>>

TypeSearch(s, q) ==
    /\ Touch
    /\ s = KeyPanel /\ bar[s] = "Search" /\ q # text[s].now
    /\ text' = [text EXCEPT ![s].now = q]
    /\ slot' = [slot EXCEPT ![s] = Preview(@, q)]
    /\ focus' = IF Matches(slot[s], q) > 0 THEN s ELSE focus
    /\ toolbar' = TRUE
    /\ UNCHANGED <<stopped, frame, bar, edit, disowned, began, writing, writer,
                   asker, mailbox, events, stops>>

(* Enter in the search input; n and N, which the inputs never get to see. *)
SubmitSearch(s, way) ==
    /\ Touch
    /\ s = KeyPanel /\ text[s].now # NoText
    /\ way = "confirm" => bar[s] = "Search"
    /\ slot' = [slot EXCEPT ![s] = Searched(@, text[s].now, Step(@, text[s].now, way))]
    /\ IF Matches(slot[s], text[s].now) > 0
       THEN /\ focus' = s
            /\ bar' = [bar EXCEPT ![s] = IF way = "confirm" THEN "None" ELSE @]
            /\ toolbar' = (toolbar /\ way # "confirm")
       ELSE UNCHANGED <<focus, bar, toolbar>>
    /\ UNCHANGED <<stopped, frame, text, edit, disowned, began, writing, writer,
                   asker, mailbox, events, stops>>

(* Enter in the address input.  An address is looked up in the dump, else   *)
(* asked for; an expression is evaluated in the active frame.               *)
SubmitAddress(s) ==
    /\ Touch
    /\ InToolbar(s) /\ bar[s] # "Search"
    /\ toolbar' = FALSE
    /\ \/ /\ ~stopped
          /\ bar' = [bar EXCEPT ![s] = "Address"]
          /\ UNCHANGED <<slot, asker, mailbox>>
       \/ /\ stopped
          /\ \E reference \in Refs :
                /\ bar' = [bar EXCEPT ![s] = "None"]
                /\ IF slot[s].lines = "dump" /\ slot[s].reference = reference
                   THEN UNCHANGED <<slot, mailbox>>
                   ELSE /\ slot' = [slot EXCEPT ![s] = Navigated(@, reference)]
                        /\ mailbox' = Ask(mailbox, "memory", s, reference)
          /\ UNCHANGED asker
       \/ /\ stopped /\ frame # Nowhere
          /\ asker' = s
          /\ mailbox' = Ask(mailbox, "evaluate", s, Nowhere)
          /\ bar' = [bar EXCEPT ![s] = "Address"]
          /\ UNCHANGED slot
    /\ UNCHANGED <<stopped, frame, text, edit, disowned, began, focus, writing, writer, events, stops>>

(* An expression of the REPL takes the place of one that waits. *)
SubmitRepl ==
    /\ Touch
    /\ frame # Nowhere
    /\ mailbox' = Ask(mailbox, "evaluate", ReplSlot, Nowhere)
    /\ UNCHANGED <<stopped, frame, slot, panelVars, asker, events, stops>>

(* The reload button. *)
Reload(s) ==
    /\ Touch
    /\ LET mine == IF Panels[s] = "memory" /\ slot[s].view # Nowhere THEN slot[s].view
                   ELSE slot[s].reference
       IN mailbox' = IF mine # Nowhere THEN Ask(mailbox, Panels[s], s, mine)
                     ELSE IF stopped THEN PanelsAsk(mailbox, slot, frame) ELSE mailbox
    /\ UNCHANGED <<stopped, frame, slot, panelVars, asker, events, stops>>

(* The row opens for an edit: where that is, is only known by its number. *)
BeginEdit(s, row) ==
    /\ Touch
    /\ stopped
    /\ s = KeyPanel /\ ~toolbar /\ bar[s] = "None" /\ edit[s] = {}
    /\ slot[s].lines = "dump"
    /\ edit' = [edit EXCEPT ![s] = {row}]
    /\ began' = [began EXCEPT ![s] = {<<slot[s].reference, row>>}]
    /\ focus' = s /\ writing' = TRUE /\ writer' = s
    /\ UNCHANGED <<stopped, frame, slot, text, bar, disowned, toolbar, asker, mailbox, events, stops>>

(* Where the bytes of a row go: to the reference of the dump there is now. *)
WriteTarget(s, row) == <<slot[s].reference, row>>

(* Enter writes, also while the program runs.  Bytes that are not            *)
(* hexadecimal open the row again, if the panel may still write, but the    *)
(* panel then forgets the row, and the next Enter ends the edit unwritten.   *)
SubmitEdit(s, valid) ==
    /\ Touch
    /\ s = KeyPanel /\ bar[s] = "None"
    /\ \E row \in edit[s] :
        LET open == s \notin disowned
            reopened == open /\ ~valid /\ stopped
        IN /\ edit' = [edit EXCEPT ![s] = IF reopened THEN @ ELSE {}]
           /\ began' = [began EXCEPT ![s] = IF reopened THEN @ ELSE {}]
           /\ disowned' = IF reopened THEN disowned \cup {s} ELSE disowned \ {s}
           /\ IF open /\ valid
              THEN /\ writing' = TRUE /\ writer' = s
                   /\ mailbox' = Ask(mailbox, "write", s, WriteTarget(s, row)[1])
              ELSE UNCHANGED <<writing, writer, mailbox>>
    /\ UNCHANGED <<stopped, frame, slot, text, bar, focus, toolbar, asker, events, stops>>

(* Escape ends the edit of the panel that was edited last. *)
CancelEdit(s) ==
    /\ Touch
    /\ s = KeyPanel /\ ~InToolbar(s) /\ (writing \/ edit[s] # {})
    /\ LET last == IF writer # 0 THEN writer ELSE s
       IN /\ edit' = [edit EXCEPT ![last] = {}]
          /\ began' = [began EXCEPT ![last] = {}]
          /\ disowned' = disowned \ {last}
    /\ writing' = FALSE
    /\ UNCHANGED <<stopped, frame, slot, text, bar, focus, toolbar, writer, asker, mailbox, events, stops>>

Next ==
    \/ Resume \/ Stop \/ Restart
    \/ \E kind \in Kinds : Serve(kind)
    \/ HandleEvent
    \/ SubmitRepl
    \/ \E s \in Slots : Reload(s)
    \/ \E input \in {"Address", "Search"} : OpenToolbar(input)
    \/ \E s \in Memory :
        \/ ClickList(s) \/ SwitchInput(s) \/ CancelToolbar(s) \/ SubmitAddress(s) \/ CancelEdit(s)
        \/ \E input \in {"Address", "Search"} : ClickToolbar(s, input)
        \/ \E q \in Queries \cup {NoText} : TypeSearch(s, q)
        \/ \E way \in {"confirm", "next", "previous"} : SubmitSearch(s, way)
        \/ \E row \in Rows : BeginEdit(s, row)
        \/ \E valid \in BOOLEAN : SubmitEdit(s, valid)

Spec == Init /\ [][Next]_vars

-----------------------------------------------------------------------------
(* The match shown is one of those found, and what was found is in the dump *)
(* that is shown: memory_search_matches is never read past its end, however *)
(* answers, addresses and searches follow each other.                       *)
MatchInDump(s) ==
    /\ slot[s].matches \in {0, Matches(slot[s], slot[s].query)}
    /\ slot[s].index < slot[s].matches
    /\ slot[s].index = -1 => slot[s].matches = 0
    /\ Highlighted(slot[s]) => slot[s].query # NoText

(* Enter writes the bytes to where the row was that they were typed over,   *)
(* unless a dump of another place has come in since.                        *)
EditInDump(s) == \A row \in edit[s] : began[s] \subseteq {WriteTarget(s, row)}

(* What the user does in a memory panel is about the dump it shows: the     *)
(* match that is highlighted and the row that is edited.                    *)
PanelMatchesDump == \A s \in Memory : MatchInDump(s) /\ EditInDump(s)
=============================================================================
