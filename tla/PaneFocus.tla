----------------------------- MODULE PaneFocus -----------------------------
(* Which tab each pane shows and which panel has the keyboard (app.cpp and   *)
(* stacked_pane.cpp).  A pane keeps its active tab twice, in the layout tree *)
(* and in its widget; the UI keeps a kind of panel as its focus, a focused   *)
(* pane and a focused memory panel, and apply_focus derives the widget that  *)
(* has the keyboard.  Text inputs, which keep these keys for themselves, and *)
(* the tree that arranges the panes are modelled elsewhere.  A pane loses    *)
(* its last tab only when it is deleted, so no pane is empty.  What has the  *)
(* keyboard when all widgets are new is up to the widget library.            *)
EXTENDS Naturals, Sequences, FiniteSets

CONSTANTS
    Added,       \* the types of panels the user adds
    Config,      \* the panels of each dock that the configuration lists
    MaxChanges   \* bound on the changes of the layout

Types == Added \cup UNION {{Config[d][i] : i \in DOMAIN Config[d]} : d \in 1..3}
Docks == <<"left", "center", "bottom">>
Undocked == "none"

VARIABLES
    panes,       \* by id: the dock a pane stands for, its tabs, its active_index
    shown,       \* by id: StackedPane::active_index_
    focus,       \* model_.focus
    focused,     \* focused_layout_leaf_
    memory,      \* memory_focus_slot_id_: a tab or 0
    keyboard,    \* the widget that has the keyboard
    nextTab, nextPane, changes

idVars == <<nextTab, nextPane, changes>>
focusVars == <<panes, shown, focus, focused, memory, keyboard, idVars>>

(* focus_for_panel_type: the two disassembly panels share a focus. *)
FocusOf(type) == IF type \in {"asm", "bytes"} THEN "disassembly" ELSE type

(* Panels of which there is one widget, which every tab of the type hosts. *)
Shared == {"source", "repl", "console", "network"}
Bottom == {"repl", "console", "network"}

Widget(tab) == <<FocusOf(tab.type), IF tab.type \in Shared THEN 0 ELSE tab.id>>
NoWidget == <<"none", 0>>

First(S) == CHOOSE n \in S : \A m \in S : n <= m
Clamped(i, n) == IF i > n THEN n ELSE IF i < 1 THEN 1 ELSE i

TabsFor(pane, f) == {i \in DOMAIN pane.tabs : FocusOf(pane.tabs[i].type) = f}
Holding(ps, f) == {p \in DOMAIN ps : TabsFor(ps[p], f) # {}}
Showing(ps, sh, f) == {p \in DOMAIN ps : sh[p] \in TabsFor(ps[p], f)}

----------------------------------------------------------------------------
(* apply_focus *)

(* find_leaf_for_dock, dock_leaf_id *)
Tagged(ps, dock) == {p \in DOMAIN ps : ps[p].dock = dock}
DockPane(ps, dock) == First(IF Tagged(ps, dock) = {} THEN DOMAIN ps ELSE Tagged(ps, dock))
DockPanes(ps) == {DockPane(ps, Docks[d]) : d \in 1..3}

(* sync_dock_stack_to_focus: the panes that stand for a dock turn to the     *)
(* first tab for the focus, unless the active one is for it.                 *)
Turning(ps, f) == DockPanes(ps) \cap Holding(ps, f)
TurnedTo(pane, f) ==
    IF pane.index \in TabsFor(pane, f) THEN pane.index ELSE First(TabsFor(pane, f))

SyncedShown(ps, sh, f) ==
    LET turning == Turning(ps, f)
    IN [p \in DOMAIN ps |-> IF p \in turning THEN TurnedTo(ps[p], f) ELSE sh[p]]
SyncedPanes(ps, f) ==
    LET turning == Turning(ps, f)
    IN [p \in DOMAIN ps |-> IF p \in turning THEN [ps[p] EXCEPT !.index = TurnedTo(ps[p], f)]
                             ELSE ps[p]]

(* active_slot_for_focus: a shown tab before a hidden one. *)
ActiveTab(ps, sh, f) ==
    LET p == First(IF Showing(ps, sh, f) # {} THEN Showing(ps, sh, f) ELSE Holding(ps, f))
    IN ps[p].tabs[IF sh[p] \in TabsFor(ps[p], f) THEN sh[p] ELSE First(TabsFor(ps[p], f))]

(* memory_slot_for_focus: the memory panel used last, shown or not. *)
IsMemory(ps, id) ==
    \E p \in DOMAIN ps : \E i \in TabsFor(ps[p], "memory") : ps[p].tabs[i].id = id

(* The widget apply_focus chooses; it has none for the resources. *)
Target(ps, sh, f, mem) ==
    IF f \in Shared THEN <<f, 0>>
    ELSE IF f = "resources" THEN <<"source", 0>>
    ELSE IF f = "memory" /\ IsMemory(ps, mem) THEN <<"memory", mem>>
    ELSE IF Holding(ps, f) = {} THEN NoWidget
    ELSE Widget(ActiveTab(ps, sh, f))

(* find_leaf_id_for_focus: the first pane that has a panel for the focus,    *)
(* be it shown or not.                                                       *)
PaneFor(ps, f, last) ==
    IF Holding(ps, f) # {} THEN First(Holding(ps, f))
    ELSE IF f = "source" /\ Tagged(ps, "center") # {} THEN First(Tagged(ps, "center"))
    ELSE IF last \in DOMAIN ps THEN last
    ELSE First(DOMAIN ps)

ApplyFocusUnsynced(ps, sh, f, mem) ==
    /\ panes' = ps /\ shown' = sh /\ focus' = f /\ memory' = mem
    /\ focused' = PaneFor(ps, f, focused)
    /\ keyboard' = Target(ps, sh, f, mem)

ApplyFocus(ps, sh, f, mem) ==
    /\ panes' = SyncedPanes(ps, f)
    /\ shown' = SyncedShown(ps, sh, f)
    /\ focus' = f
    /\ focused' = PaneFor(ps, f, focused)
    /\ keyboard' = Target(ps, SyncedShown(ps, sh, f), f, mem)
    /\ memory' = mem

----------------------------------------------------------------------------
(* The keys and the mouse. *)

(* set_active_index and the callback that the pane was given. *)
Show(p, i) ==
    IF i = shown[p] THEN UNCHANGED <<panes, shown, focus, focused, memory, keyboard>>
    ELSE ApplyFocus([panes EXCEPT ![p].index = i], [shown EXCEPT ![p] = i],
                    FocusOf(panes[p].tabs[i].type), memory)

(* StackedPane::cycle *)
Beside(p, forward) ==
    LET n == Len(panes[p].tabs)
    IN IF forward THEN (shown[p] % n) + 1 ELSE ((shown[p] + n - 2) % n) + 1

Current == PaneFor(panes, focus, focused)

(* cycle_active_leaf_tabs *)
PressTab(forward) ==
    /\ IF Len(panes[Current].tabs) > 1 /\ Beside(Current, forward) # shown[Current]
       THEN Show(Current, Beside(Current, forward))
       ELSE focused' = Current /\ UNCHANGED <<panes, shown, focus, memory, keyboard>>
    /\ UNCHANGED idVars

(* The pane after this one, or before it, in the order of the ids. *)
Next1(p) ==
    LET later == {q \in DOMAIN panes : q > p}
    IN First(IF later = {} THEN DOMAIN panes ELSE later)
Neighbour(p, forward) ==
    IF forward THEN Next1(p) ELSE CHOOSE q \in DOMAIN panes : Next1(q) = p

(* cycle_focused_layout_leaf *)
PressCtrlTab(forward) ==
    /\ IF Cardinality(DOMAIN panes) = 1
       THEN focused' = First(DOMAIN panes) /\ UNCHANGED <<panes, shown, focus, memory, keyboard>>
       ELSE LET p == Neighbour(Current, forward)
            IN ApplyFocus(panes, shown, FocusOf(panes[p].tabs[shown[p]].type), memory)
    /\ UNCHANGED idVars

(* handle_panel_swap_key: the panes tagged left and bottom.  There is no     *)
(* such key for the source.                                                  *)
PressBracket(forward) ==
    LET dock == IF focus \in Bottom THEN "bottom" ELSE "left" IN
    /\ focus # "source" /\ Tagged(panes, dock) # {}
    /\ Show(DockPane(panes, dock), Beside(DockPane(panes, dock), forward))
    /\ UNCHANGED idVars

(* The key for the REPL, which must be in the pane that stands for the       *)
(* bottom to be brought up; and the places where the program itself gives    *)
(* the keyboard to a kind of panel, as to the console at an exception.       *)
GoTo(f) == ApplyFocus(panes, shown, f, memory) /\ UNCHANGED idVars

(* A click on a tab, or on an arrow of a pane, which cycles it. *)
ClickTab(p, i) == Show(p, i) /\ UNCHANGED idVars

ClickPanelUnsynced(p) ==
    LET tab == panes[p].tabs[shown[p]]
    IN /\ tab.type # "resources" /\ keyboard' = Widget(tab)
       /\ memory' = (IF tab.type = "memory" THEN tab.id ELSE memory)
       /\ UNCHANGED <<panes, shown, focus, focused, idVars>>

(* sync_focus_from_ui, after a click in the panel a pane shows, whose widget *)
(* takes the keyboard; the list of resources takes none.                     *)
ClickPanel(p) ==
    LET tab == panes[p].tabs[shown[p]]
        used == IF tab.type = "memory" THEN tab.id ELSE memory
    IN /\ tab.type # "resources"
       /\ IF FocusOf(tab.type) # focus THEN ApplyFocus(panes, shown, FocusOf(tab.type), used)
          ELSE /\ keyboard' = Widget(tab) /\ memory' = used
               /\ UNCHANGED <<panes, shown, focus, focused>>
       /\ UNCHANGED idVars

----------------------------------------------------------------------------
(* The menus and the drags, which change the panes. *)

(* rebuild_layout_ui makes the panes anew. *)
Rebuilt(ps) == [p \in DOMAIN ps |-> [ps[p] EXCEPT !.index = Clamped(@, Len(ps[p].tabs))]]
ShownAnew(ps) == [p \in DOMAIN ps |-> Rebuilt(ps)[p].index]
Rebuild(ps, f) == ApplyFocus(Rebuilt(ps), ShownAnew(ps), f, memory)

(* What the library may give the keyboard to in a new root widget. *)
Given(ps, sh) == {NoWidget} \cup {Widget(ps[p].tabs[sh[p]]) : p \in DOMAIN ps}

(* on_terminal_resize and the keys that resize a pane: build_ui makes all    *)
(* widgets anew and leaves the keyboard to the library.                      *)
Resize ==
    /\ panes' = Rebuilt(panes) /\ shown' = ShownAnew(panes)
    /\ keyboard' \in Given(panes', shown')
    /\ UNCHANGED <<focus, focused, memory, idVars>>

Changing == changes < MaxChanges /\ changes' = changes + 1

Without(f, x) == [y \in DOMAIN f \ {x} |-> f[y]]
With(f, x, value) == [y \in DOMAIN f \cup {x} |-> IF y = x THEN value ELSE f[y]]

RemovedTab(pane, i) ==
    LET left == [j \in 1..(Len(pane.tabs) - 1) |-> pane.tabs[IF j < i THEN j ELSE j + 1]]
        active == IF pane.index > i THEN pane.index - 1 ELSE pane.index
    IN [pane EXCEPT !.tabs = left, !.index = Clamped(active, Len(left))]

(* The tab taken out; a pane that has no other is collapsed. *)
Taken(ps, p, i) ==
    IF Len(ps[p].tabs) = 1 THEN Without(ps, p) ELSE [ps EXCEPT ![p] = RemovedTab(ps[p], i)]

Appended(pane, tab) ==
    [pane EXCEPT !.tabs = Append(@, tab), !.index = Len(pane.tabs) + 1]

(* add_panel_to_leaf *)
AddPanel(p, type) ==
    LET tab == [id |-> nextTab, type |-> type]
        grown == [panes EXCEPT ![p] = Appended(@, tab)]
    IN /\ Changing
       /\ type = "source" => Holding(panes, "source") = {}
       /\ IF type = "source" THEN Rebuild(grown, "source")
          ELSE ApplyFocus(grown, [shown EXCEPT ![p] = Len(panes[p].tabs) + 1], FocusOf(type), memory)
       /\ nextTab' = nextTab + 1 /\ UNCHANGED nextPane

(* move_tab_to_leaf, move_active_panel_to_leaf, move_source_panel_to_leaf *)
MoveTab(p, i, to) ==
    /\ Changing /\ p # to
    /\ LET tab == panes[p].tabs[i]
       IN Rebuild(Taken([panes EXCEPT ![to] = Appended(@, tab)], p, i), FocusOf(tab.type))
    /\ UNCHANGED <<nextTab, nextPane>>

(* move_layout_pane_adjacent, and so for the source: the pane is made anew. *)
MovePane(p) ==
    /\ Changing /\ Cardinality(DOMAIN panes) > 1
    /\ Rebuild(With(Without(panes, p), nextPane, panes[p]), focus)
    /\ nextPane' = nextPane + 1 /\ UNCHANGED nextTab

(* move_tab_to_new_pane_adjacent *)
MoveTabAdjacent(p, i) ==
    /\ Changing /\ panes[p].tabs[i].type # "source"
    /\ LET alone == [dock |-> Undocked, tabs |-> <<panes[p].tabs[i]>>, index |-> 1]
       IN Rebuild(Taken(With(panes, nextPane, alone), p, i), focus)
    /\ nextPane' = nextPane + 1 /\ UNCHANGED nextTab

(* swap_layout_panes *)
SwapPanes(a, b) ==
    /\ Changing /\ a # b
    /\ Rebuild([panes EXCEPT ![a] = panes[b], ![b] = panes[a]], focus)
    /\ UNCHANGED <<nextTab, nextPane>>

(* delete_layout_pane *)
DeletePane(p) ==
    /\ Changing /\ Cardinality(DOMAIN panes) > 1
    /\ Rebuild(Without(panes, p), focus)
    /\ UNCHANGED <<nextTab, nextPane>>

----------------------------------------------------------------------------
TypeList == Config[1] \o Config[2] \o Config[3]
Offset(d) == IF d = 1 THEN 0 ELSE IF d = 2 THEN Len(Config[1]) ELSE Len(Config[1]) + Len(Config[2])

Start ==
    [d \in 1..3 |-> [dock |-> Docks[d], index |-> 1,
                     tabs |-> [i \in DOMAIN Config[d] |-> [id |-> Offset(d) + i, type |-> Config[d][i]]]]]

FocusInit ==
    /\ panes = Start /\ shown = [d \in 1..3 |-> 1]
    /\ focus = "source" /\ focused = 0 /\ memory = 0
    /\ keyboard \in Given(panes, shown)
    /\ nextTab = Len(TypeList) + 1 /\ nextPane = 4 /\ changes = 0

Press(forward) == PressTab(forward) \/ PressCtrlTab(forward) \/ PressBracket(forward)
Point(p) == ClickPanel(p) \/ \E i \in DOMAIN panes[p].tabs : ClickTab(p, i)
Change(p) ==
    \/ \E type \in Added : AddPanel(p, type)
    \/ \E i \in DOMAIN panes[p].tabs : MoveTabAdjacent(p, i) \/ \E to \in DOMAIN panes : MoveTab(p, i, to)
    \/ \E other \in DOMAIN panes : SwapPanes(p, other)
    \/ MovePane(p)
    \/ DeletePane(p)

FocusNext ==
    \/ Resize
    \/ \E forward \in BOOLEAN : Press(forward)
    \/ \E type \in Types : GoTo(FocusOf(type))
    \/ \E p \in DOMAIN panes : Point(p) \/ Change(p)

FocusSpec == FocusInit /\ [][FocusNext]_focusVars

----------------------------------------------------------------------------
(* Correctness. *)

(* What the configuration lists: some panels for each of the docks. *)
ConfigIsSound == Config \in [1..3 -> Seq(Types)] /\ \A d \in 1..3 : Config[d] # <<>>

Pane == [dock : {"left", "center", "bottom", Undocked},
         tabs : Seq([id : Nat, type : Types]), index : Nat]

(* Every pane has a tab, and its two copies of the active tab agree. *)
FocusTypeOK ==
    /\ DOMAIN panes \subseteq Nat /\ DOMAIN panes # {}
    /\ panes \in [DOMAIN panes -> Pane]
    /\ DOMAIN shown = DOMAIN panes
    /\ \A p \in DOMAIN panes : shown[p] = panes[p].index /\ shown[p] \in DOMAIN panes[p].tabs
    /\ focus \in {FocusOf(type) : type \in Types} \cup {"source"} /\ focused \in Nat
    /\ memory \in Nat /\ nextTab \in Nat /\ nextPane \in Nat /\ changes \in Nat

Seen(widget) == \E p \in DOMAIN panes : Widget(panes[p].tabs[shown[p]]) = widget

(* Keys do not go to a panel that is out of sight: the keyboard is on a tab  *)
(* some pane shows, if one for the focus is shown or is in a pane that       *)
(* stands for a dock and can so be turned to it.  That is not so for the     *)
(* resources, which leave the keyboard to the source, and for a memory panel *)
(* that was hidden after it was used.                                        *)
KeyboardIsSeen ==
    \/ Seen(keyboard) \/ keyboard = NoWidget
    \/ Showing(panes, shown, focus) = {} /\ Holding(panes, focus) \cap DockPanes(panes) = {}
    \/ focus = "resources"
    \/ keyboard = <<"memory", memory>>

(* No two panels have the same focus. *)
Alone == \A p, q \in DOMAIN panes : \A i \in DOMAIN panes[p].tabs, j \in DOMAIN panes[q].tabs :
            FocusOf(panes[p].tabs[i].type) = FocusOf(panes[q].tabs[j].type) => p = q /\ i = j

Has(p) ==
    LET tab == panes[p].tabs[shown[p]] IN keyboard = Widget(tab) /\ focus = FocusOf(tab.type)

(* The keyboard goes where the user sends it: to the panel a click is in, to *)
(* the next pane with Ctrl+Tab, and with Tab to another tab of the pane it   *)
(* is in, never to another pane.                                             *)
(* With two panels for the same focus, it goes to the first of them; in new  *)
(* widgets it may be where the UI does not look for it.                      *)
TurnsPage(p) == Has(p)' /\ (shown'[p] # shown[p] \/ Len(panes[p].tabs) = 1)

GoesWhereSent ==
    changes' = changes /\ Alone /\ "resources" \notin Types =>
        /\ \A p \in DOMAIN panes : Has(p)' \/ ~ClickPanel(p)
        /\ \A p \in DOMAIN panes, forward \in BOOLEAN :
              Has(p) => /\ TurnsPage(p) \/ ~PressTab(forward)
                        /\ \/ Has(Neighbour(p, forward))'
                           \/ Cardinality(DOMAIN panes) = 1 \/ ~PressCtrlTab(forward)

FocusFollows == [][GoesWhereSent]_focusVars
=============================================================================
