---------------------------- MODULE NetworkPanel ----------------------------
(* The network panel of the UI (network_panel.cpp): a list and a detail pane *)
(* shared by two views, Traffic (the exchanges) and Compose (the templates   *)
(* of requests).  Both views scroll with the same two offsets, a template is *)
(* edited in place with a backup for Escape, and the templates are written   *)
(* to a file of the workspace after every change (compose_templates.cpp).    *)
(* The application makes the panel anew, with what is in the file, whenever  *)
(* it builds its interface again.                                            *)
EXTENDS Integers, Sequences, SequencesExt

CONSTANTS
    Rows,          \* rows of the list and of the detail pane
    MaxExchanges,  \* bound on the exchanges of a session
    MaxTemplates,  \* bound on the templates
    MaxText        \* bound on what the fields of a template can be edited to

VARIABLES
    exchanges,     \* session_.exchanges, as the state of each
    pane,          \* view, focus, the two selections and the two offsets
    templates,     \* compose_templates_
    editing,       \* compose_editing_
    field,         \* compose_edit_field_: the timeout or one of the five others
    backup,        \* compose_edit_backup_, an empty sequence when there is none
    timeoutText,   \* compose_timeout_edit_
    disk,          \* the templates in the file
    writable,      \* the file can be opened for writing
    waiting,       \* compose_send_pending_ of the application, and whether the panel knows
    before,        \* the templates and the file when the edit began, and which one it is for
    strayed        \* a click selected another template during an edit

edit == <<editing, field, backup, timeoutText, before, strayed>>
vars == <<exchanges, pane, templates, edit, disk, writable, waiting>>

States == {"Pending", "Completed", "Dropped"}

(* The six fields of a template are one value here: five are edited in place *)
(* and the timeout through a text of its own, an empty one of which counts   *)
(* as the default.                                                           *)
Default == 0
Template == Default..MaxText
TimeoutTexts == {"", "0", "1"}
ParseTimeout(text) == IF text = "1" THEN 1 ELSE Default
TextOf(timeout) == IF timeout = 1 THEN "1" ELSE "0"

NoEdit == [list |-> <<>>, index |-> 0, saved |-> <<>>]

(* "asked": compose_pending_ too; "forgotten": the panel is a later one. *)
Answers == {"none", "asked", "forgotten"}

LargerOf(a, b) == IF a > b THEN a ELSE b
Clamp(x, low, high) == LargerOf(low, IF x < high THEN x ELSE high)

----------------------------------------------------------------------------
(* Selections count from 0, as in the code. *)

Count(p) == IF p.view = "Traffic" THEN Len(exchanges) ELSE Len(templates)
Selected(p) == IF p.view = "Traffic" THEN p.exchange ELSE p.template

(* Lines of the detail pane: headers, bodies and what a send left there. *)
Lines(p) ==
    IF p.view = "Traffic"
    THEN IF p.exchange >= Len(exchanges) THEN 0
         ELSE IF exchanges[p.exchange + 1] = "Completed" THEN Rows + 1 ELSE Rows
    ELSE Rows + 1

MaxListScroll(p) == LargerOf(0, Count(p) - Rows)
MaxDetailScroll(p) == LargerOf(0, Lines(p) - Rows)

Followed(p, scroll) ==
    IF Selected(p) < scroll THEN Selected(p)
    ELSE IF Selected(p) >= scroll + Rows THEN LargerOf(0, Selected(p) - Rows + 1) ELSE scroll

(* sync_detail_scroll: the list follows its selection only while it has the  *)
(* focus.                                                                    *)
Synced(p) ==
    [p EXCEPT !.list = IF p.focus = "List" THEN Followed(p, Clamp(p.list, 0, MaxListScroll(p)))
                       ELSE Clamp(p.list, 0, MaxListScroll(p)),
              !.detail = Clamp(p.detail, 0, MaxDetailScroll(p))]

ScrollList(p, delta) == [p EXCEPT !.list = Clamp(@ + delta, 0, MaxListScroll(p))]

(* Bug: only the end of the detail pane stops the scrolling. *)
ScrollDetailPastTop(p, delta) ==
    [p EXCEPT !.detail = IF @ + delta > MaxDetailScroll(p) THEN MaxDetailScroll(p) ELSE @ + delta]

ScrollDetail(p, delta) == [p EXCEPT !.detail = Clamp(@ + delta, 0, MaxDetailScroll(p))]

(* Moving the selection by one puts the detail pane back to its first line.  *)
Moved(p, delta) ==
    IF Selected(p) + delta \notin 0..Count(p) - 1 THEN p
    ELSE Synced([p EXCEPT !.detail = 0,
                          !.exchange = IF p.view = "Traffic" THEN @ + delta ELSE @,
                          !.template = IF p.view = "Compose" THEN @ + delta ELSE @])

SetView(p, view) == IF p.view = view THEN p ELSE [p EXCEPT !.view = view, !.list = 0, !.detail = 0]
Other(view) == IF view = "Traffic" THEN "Compose" ELSE "Traffic"

----------------------------------------------------------------------------
(* Keys that move: handle_traffic_key and handle_compose_key. *)

Arrows == {"Left", "Right", "Up", "Down", "PageUp", "PageDown"}

InDetail == pane.focus = "Detail" /\ (pane.view = "Traffic" \/ waiting # "asked")

AfterArrow(key) ==
    CASE key = "Left" -> Synced([pane EXCEPT !.focus = "List"])
      [] key = "Right" -> Synced([pane EXCEPT !.focus = "Detail"])
      [] InDetail /\ key = "Up" -> ScrollDetail(pane, -1)
      [] InDetail /\ key = "Down" -> ScrollDetail(pane, 1)
      [] InDetail /\ key = "PageUp" -> ScrollDetail(pane, -Rows)
      [] InDetail /\ key = "PageDown" -> ScrollDetail(pane, Rows)
      [] ~InDetail /\ key = "Up" -> Moved(pane, -1)
      [] ~InDetail /\ key = "Down" -> Moved(pane, 1)
      [] ~InDetail /\ key = "PageUp" /\ pane.view = "Traffic" -> ScrollList(pane, -(Rows + 1))
      [] ~InDetail /\ key = "PageDown" /\ pane.view = "Traffic" -> ScrollList(pane, Rows + 1)
      [] OTHER -> pane

(* An edit takes the keys, but only while its view is shown. *)
EditTakesKeys == editing /\ pane.view = "Compose"

Arrow(key) ==
    /\ ~EditTakesKeys
    /\ pane' = AfterArrow(key)
    /\ UNCHANGED <<exchanges, templates, edit, disk, waiting, writable>>

(* The key v is the application's when nothing is edited, else the panel's.  *)
CycleView ==
    /\ ~EditTakesKeys
    /\ editing => ~InDetail
    /\ pane' = SetView(pane, Other(pane.view))
    /\ UNCHANGED <<exchanges, templates, edit, disk, waiting, writable>>

----------------------------------------------------------------------------
(* The mouse and the layout. *)

Layout ==
    /\ pane' = Synced(pane)
    /\ UNCHANGED <<exchanges, templates, edit, disk, waiting, writable>>

ClickTab(view) ==
    /\ pane' = SetView(pane, view)
    /\ UNCHANGED <<exchanges, templates, edit, disk, waiting, writable>>

Wheel(delta) ==
    /\ pane' \in {Synced(ScrollDetail([pane EXCEPT !.focus = "Detail"], delta)),
                  Synced(ScrollList([pane EXCEPT !.focus = "List"], delta))}
    /\ UNCHANGED <<exchanges, templates, edit, disk, waiting, writable>>

(* Dragging a scroll bar: the offset is clamped, then the panes follow. *)
DragScrollbar ==
    /\ \/ \E y \in 0..MaxListScroll(pane) : pane' = Synced([Synced([pane EXCEPT !.list = y]) EXCEPT !.focus = "List"])
       \/ \E y \in 0..MaxDetailScroll(pane) :
            pane' = Synced([Synced([pane EXCEPT !.detail = y]) EXCEPT !.focus = "Detail"])
    /\ UNCHANGED <<exchanges, templates, edit, disk, waiting, writable>>

ClickDetail ==
    /\ pane' = [pane EXCEPT !.focus = "Detail"]
    /\ UNCHANGED <<exchanges, templates, edit, disk, waiting, writable>>

(* A click in the list selects the row it is on, whatever is being edited. *)
ClickRow(y) ==
    LET row == y + pane.list
        p == [pane EXCEPT !.focus = "List"]
    IN  /\ pane' = Synced(IF row >= Count(pane) THEN p
                          ELSE [p EXCEPT !.detail = 0,
                                         !.exchange = IF pane.view = "Traffic" THEN row ELSE @,
                                         !.template = IF pane.view = "Compose" THEN row ELSE @])
        /\ strayed' = (editing /\ (strayed \/ pane'.template # pane.template))
        /\ UNCHANGED <<exchanges, templates, editing, field, backup, timeoutText, before, disk, waiting, writable>>

----------------------------------------------------------------------------
(* Actions on an exchange: f and Enter forward a pending one, d drops it;    *)
(* edit and replay only report.                                              *)

Act(to) ==
    /\ pane.view = "Traffic" /\ pane.exchange < Len(exchanges)
    /\ exchanges[pane.exchange + 1] = "Pending"
    /\ exchanges' = [exchanges EXCEPT ![pane.exchange + 1] = to]
    /\ UNCHANGED <<pane, templates, edit, disk, waiting, writable>>

----------------------------------------------------------------------------
(* The templates. *)

Current == pane.template + 1

(* What leaving a field does: the text of a timeout becomes its value. *)
Flushed ==
    IF field # "timeout" THEN templates
    ELSE [templates EXCEPT ![Current] = ParseTimeout(timeoutText)]

(* A file that cannot be opened for writing keeps what it had. *)
Save(list) == disk' = IF writable THEN list ELSE disk

BeginOn(list, index) ==
    /\ editing' = TRUE
    /\ backup' = <<list[index + 1]>>
    /\ field' = "text"
    /\ before' = [list |-> list, index |-> index, saved |-> disk]
    /\ strayed' = FALSE
    /\ UNCHANGED timeoutText

AtTemplates == pane.view = "Compose" /\ ~editing

BeginEdit ==
    /\ AtTemplates
    /\ BeginOn(templates, pane.template)
    /\ pane' = [pane EXCEPT !.focus = "Detail"]
    /\ UNCHANGED <<exchanges, templates, disk, waiting, writable>>

AddTemplate ==
    /\ AtTemplates /\ Len(templates) < MaxTemplates
    /\ templates' = Append(templates, Default)
    /\ pane' = [pane EXCEPT !.template = Len(templates), !.detail = 0, !.focus = "Detail"]
    /\ BeginOn(templates', Len(templates))
    /\ UNCHANGED <<exchanges, disk, waiting, writable>>

DeleteTemplate ==
    /\ AtTemplates /\ Len(templates) > 1
    /\ templates' = RemoveAt(templates, Current)
    /\ pane' = [pane EXCEPT !.template = Clamp(@, 0, Len(templates) - 2)]
    /\ Save(templates')
    /\ UNCHANGED <<exchanges, edit, waiting, writable>>

(* What load_compose_templates finds; the file is never empty here. *)
Loaded == disk

(* cancel_compose_edit has nothing to do here: no edit is on. *)
Reload ==
    /\ AtTemplates
    /\ templates' = Loaded
    /\ pane' = [pane EXCEPT !.template = IF @ >= Len(Loaded) THEN 0 ELSE @, !.detail = 0]
    /\ UNCHANGED <<exchanges, edit, disk, waiting, writable>>

TypeText(text) ==
    /\ EditTakesKeys /\ field = "text"
    /\ templates' = [templates EXCEPT ![Current] = text]
    /\ UNCHANGED <<exchanges, pane, edit, disk, waiting, writable>>

TypeTimeout(text) ==
    /\ EditTakesKeys /\ field = "timeout"
    /\ timeoutText' = text
    /\ UNCHANGED <<exchanges, pane, templates, editing, field, backup, before, strayed, disk, waiting, writable>>

(* Tab: the field is flushed, and a timeout is copied into its text. *)
NextField ==
    /\ EditTakesKeys
    /\ templates' = Flushed
    /\ field' = IF field = "text" THEN "timeout" ELSE "text"
    /\ timeoutText' = IF field' = "timeout" THEN TextOf(templates[Current]) ELSE timeoutText
    /\ UNCHANGED <<exchanges, pane, editing, backup, before, strayed, disk, waiting, writable>>

(* The field and its text mean nothing after an edit; here they are cleared. *)
EndEdit ==
    /\ editing' = FALSE /\ backup' = <<>>
    /\ field' = "text" /\ timeoutText' = ""
    /\ before' = NoEdit /\ strayed' = FALSE

CommitEdit ==
    /\ EditTakesKeys
    /\ templates' = Flushed
    /\ Save(templates')
    /\ EndEdit
    /\ UNCHANGED <<exchanges, pane, waiting, writable>>

(* Bug: a timeout that was edited first is kept. *)
RestoredUnlessTimeout == IF field = "timeout" THEN templates ELSE [templates EXCEPT ![Current] = backup[1]]

Restored == [templates EXCEPT ![Current] = backup[1]]

CancelEdit ==
    /\ EditTakesKeys
    /\ templates' = Restored
    /\ EndEdit
    /\ UNCHANGED <<exchanges, pane, disk, waiting, writable>>

----------------------------------------------------------------------------
(* What the application tells the panel. *)

SendCompose ==
    /\ AtTemplates
    /\ pane' = [pane EXCEPT !.focus = "List"]
    /\ waiting' = "asked"
    /\ UNCHANGED <<exchanges, templates, edit, disk, writable>>

(* What a refresh finds: nothing yet, or as many exchanges as there may be,  *)
(* the first of them held back for the user.                                 *)
Demo == [i \in 1..MaxExchanges |-> IF i = 1 THEN "Pending" ELSE "Completed"]
Sessions == {<<>>, Demo}

(* The result joins what the application has, which a panel made since it    *)
(* last refreshed does not show, and is selected in the Traffic view.        *)
ShowResult ==
    /\ waiting # "none" /\ waiting' = "none"
    /\ \E list \in Sessions \cup {exchanges} :
          /\ Len(list) < MaxExchanges
          /\ exchanges' = Append(list, "Completed")
          /\ pane' = [pane EXCEPT !.view = "Traffic", !.exchange = Len(list), !.list = 0, !.detail = 0]
    /\ UNCHANGED <<templates, edit, disk, writable>>

SendFailed ==
    /\ waiting # "none" /\ waiting' = "none"
    /\ UNCHANGED <<exchanges, pane, templates, edit, disk, writable>>

(* Every refresh, of a drain or of a launch, selects the first exchange. *)
SetSession(list) ==
    /\ exchanges' = list
    /\ pane' = [pane EXCEPT !.exchange = 0, !.list = 0, !.detail = 0]
    /\ UNCHANGED <<templates, edit, disk, waiting, writable>>

NewPane == [view |-> "Traffic", focus |-> "List", exchange |-> 0, template |-> 0, list |-> 0, detail |-> 0]

(* A new size of the terminal or of the layout, Alt with an arrow, makes a   *)
(* new panel, which shows the demonstration and what is in the file.  Alt    *)
(* with an arrow is looked for before the edit gets its keys.                *)
Rebuild ==
    /\ exchanges' = Demo
    /\ pane' = NewPane
    /\ templates' = Loaded
    /\ EndEdit
    /\ waiting' = IF waiting = "none" THEN "none" ELSE "forgotten"
    /\ UNCHANGED <<disk, writable>>

----------------------------------------------------------------------------
Init ==
    /\ exchanges \in Sessions
    /\ pane = NewPane
    /\ templates = <<Default>>
    /\ editing = FALSE /\ field = "text" /\ backup = <<>> /\ timeoutText = ""
    /\ disk = templates /\ writable \in BOOLEAN
    /\ waiting = "none"
    /\ before = NoEdit /\ strayed = FALSE

Next ==
    \/ \E key \in Arrows : Arrow(key)
    \/ CycleView \/ Layout
    \/ \E view \in {"Traffic", "Compose"} : ClickTab(view)
    \/ \E delta \in {-1, 1} : Wheel(delta)
    \/ DragScrollbar \/ ClickDetail
    \/ \E y \in 0..Rows - 1 : ClickRow(y)
    \/ \E to \in {"Completed", "Dropped"} : Act(to)
    \/ BeginEdit \/ AddTemplate \/ DeleteTemplate \/ Reload
    \/ \E text \in 0..MaxText : TypeText(text)
    \/ \E text \in TimeoutTexts : TypeTimeout(text)
    \/ NextField \/ CommitEdit \/ CancelEdit
    \/ SendCompose \/ ShowResult \/ SendFailed
    \/ \E list \in Sessions : SetSession(list)
    \/ Rebuild

Spec == Init /\ [][Next]_vars

TypeOK ==
    /\ exchanges \in BoundedSeq(States, MaxExchanges)
    /\ pane \in [view : {"Traffic", "Compose"}, focus : {"List", "Detail"}, exchange : 0..MaxExchanges,
                 template : 0..MaxTemplates, list : 0..MaxExchanges + MaxTemplates, detail : 0..Rows + 1]
    /\ templates \in BoundedSeq(Template, MaxTemplates) /\ disk \in BoundedSeq(Template, MaxTemplates)
    /\ editing \in BOOLEAN /\ field \in {"text", "timeout"} /\ backup \in BoundedSeq(Template, 1)
    /\ timeoutText \in TimeoutTexts /\ waiting \in Answers /\ writable \in BOOLEAN /\ strayed \in BOOLEAN

EndsLocally ==
    editing /\ ~editing' =>
        /\ Rebuild => templates' = before.saved
        /\ ~Rebuild /\ ~strayed =>
              /\ Len(templates') = Len(before.list)
              /\ \A i \in DOMAIN templates' : i = before.index + 1 \/ templates'[i] = before.list[i]
              /\ CancelEdit => templates' = before.list

(* An edit ends as it should, unless a click led it to another template: it  *)
(* changes the one it began on and no other, and Escape, which writes no     *)
(* file, leaves every template as the edit found it.  A panel made anew      *)
(* during an edit drops it with every template that was not saved, and has   *)
(* what the file had when the edit began: nothing of an edit is written      *)
(* before Enter.                                                             *)
EditIsLocal == [][EndsLocally]_vars
=============================================================================
