--------------------------- MODULE LayoutGestures ---------------------------
(***************************************************************************)
(* How the user rearranges the layout (cpp/src/ui/app.cpp): pane menus and *)
(* their submenus (context_menu.cpp), and dragging a pane or a tab by its  *)
(* title to another place.  A menu item is a callback that was given the   *)
(* id of a pane when the menu was built, and a drag remembers the pane it  *)
(* began on; both use it later, when the layout may have changed.  The     *)
(* layout itself is LayoutTree, whose handlers are what the gestures end   *)
(* in.                                                                     *)
(*                                                                         *)
(* Where things are on the screen is abstracted: a drop has one of the     *)
(* targets that some geometry gives.  So is the order of the items in a    *)
(* menu and which of them is selected: any one may be chosen.  Escape in   *)
(* the middle of a drag may also end the program, when the focus is where  *)
(* Escape does that; there is nothing to say of a program that has ended.  *)
(***************************************************************************)
EXTENDS LayoutTree

VARIABLES
    menu,     \* context_menu_: what it is about and its items
    retained, \* whether on_selection_changed_ shows the places of a menu
    preview,  \* layout_menu_preview_, as the item it is the preview of
    drag      \* layout_drag_

vars == <<tree, menu, retained, preview, drag>>

Panes == Leaves(tree)

-----------------------------------------------------------------------------
(* Menus.  An item names what it does and what it was given to do it with. *)

Item(act, leaf, node, zone, panel) ==
    [act |-> act, leaf |-> leaf, node |-> node, zone |-> zone, panel |-> panel]
NoItem == Item("none", 0, 0, "none", "none")

NoMenu == [kind |-> "none", items |-> {}]
\* A place that a menu before this one offered.
StaleItem == Item("stale", 0, 0, "none", "none")

\* The menus that show where the selected item would put the pane.
Previewing == {"swap", "move", "place"}
\* The menus opened without setting what their selection shows.
Direct == {"add", "other"}

PaneItems(leaf) ==
    {Item("rename", leaf, 0, "none", "none")} \cup
    {Item(act, leaf, 0, "none", "none") :
        act \in IF Cardinality(Panes) > 1 THEN {"delete", "swap with", "move to"} ELSE {}}

TargetItems(act, leaf) == {Item(act, leaf, other, "none", "none") : other \in Panes \ {leaf}}

\* The containers around a pane, with the root, which stands for "all".
Groups(leaf) ==
    {n \in DOMAIN tree.nodes : IsContainer(tree, n) /\ leaf \in Subtree(tree, n)}

PlacementItems(leaf, other) ==
    {Item("swap", leaf, other, "none", "none")} \cup
    {Item("place", leaf, node, zone, "none") :
        node \in {other} \cup Groups(other), zone \in Zones}

AddItems(leaf) ==
    {Item("more", leaf, 0, "none", "none")} \cup
    {Item("add", leaf, 0, "none", panel) : panel \in Panels \ tree.nodes[leaf].slots}

\* open_layout_context_menu sets what the selection shows, and the first item is
\* selected.  A menu without items does not open.
Open(kind, items) ==
    IF items = {} THEN menu' = NoMenu /\ preview' = NoItem /\ UNCHANGED retained
    ELSE /\ menu' = [kind |-> kind, items |-> items]
         /\ retained' = (kind \in Previewing)
         /\ preview' \in IF kind \in Previewing THEN items ELSE {NoItem}

\* The other menus leave that callback as it is: it takes the position of the
\* selected item for a position in the menu that set it.
OpenDirectly(kind, items) ==
    /\ menu' = [kind |-> kind, items |-> items]
    /\ preview' = IF retained THEN StaleItem ELSE NoItem
    /\ UNCHANGED retained

Close == menu' = NoMenu /\ preview' = NoItem /\ UNCHANGED retained

PaneMenu(leaf) ==
    /\ menu = NoMenu /\ drag.state = "none"
    /\ Open("pane", PaneItems(leaf))
    /\ UNCHANGED <<tree, drag>>

AddMenu(leaf) ==
    /\ menu = NoMenu /\ drag.state = "none"
    /\ OpenDirectly("add", AddItems(leaf))
    /\ UNCHANGED <<tree, drag>>

\* A menu of another component, which a key may open in the middle of a drag.
OtherMenu ==
    /\ menu = NoMenu
    /\ OpenDirectly("other", {Item("other", 0, 0, "none", "none")})
    /\ UNCHANGED <<tree, drag>>

\* The mouse shows the item that it is on.  Up and Down move the selection and show
\* nothing, because clamp_selection compares it with what it has already become,
\* except where it stops at the end of the menu.
PointAt(item) ==
    /\ item \in menu.items
    /\ preview' = IF ~retained THEN preview
                  ELSE IF menu.kind \in Direct THEN StaleItem ELSE item
    /\ UNCHANGED <<tree, menu, retained, drag>>

Dismiss == menu # NoMenu /\ Close /\ UNCHANGED <<tree, drag>>

-----------------------------------------------------------------------------
(* What an item does, once its menu has closed.                            *)

Kept == UNCHANGED tree

MoveOrNot(leaf, node, zone) ==
    \/ MovePane(leaf, node, zone)
    \/ (leaf = node \/ Cardinality(Panes) = 1) /\ Kept

AddOrMove(leaf, panel) ==
    \/ AddPanel(leaf, panel)
    \/ panel = Source /\ \E from \in Panes : MoveTab(from, Source, leaf)

DoLeavingThePane(item) ==
    /\ item.act = "place"
    /\ tree' = InsertAdjacent(tree, item.node, item.zone, Leaf({}, "none"))

Do(item) ==
    \/ item.act = "delete" /\ DeletePane(item.leaf)
    \/ item.act = "swap" /\ SwapPanes(item.leaf, item.node)
    \/ item.act = "place" /\ MoveOrNot(item.leaf, item.node, item.zone)
    \/ item.act = "add" /\ AddOrMove(item.leaf, item.panel)

Choose(item) ==
    /\ item \in menu.items /\ UNCHANGED drag
    /\ \/ item.act \in {"rename", "other"} /\ Close /\ Kept
       \/ Do(item) /\ Close
       \/ item.act = "swap with" /\ Open("swap", TargetItems("swap", item.leaf)) /\ Kept
       \/ item.act = "move to" /\ Open("move", TargetItems("beside", item.leaf)) /\ Kept
       \/ item.act = "beside" /\ Open("place", PlacementItems(item.leaf, item.node)) /\ Kept
       \/ item.act = "more" /\ OpenDirectly("add", AddItems(item.leaf)) /\ Kept

-----------------------------------------------------------------------------
(* Dragging.  A menu that is open takes the mouse.                         *)

NoDrag == [state |-> "none", leaf |-> 0, panel |-> "none"]

\* on_layout_drag_press: a title, or the tab of a panel.  It would close a menu.
Press(leaf, panel) ==
    /\ drag.state = "none"
    /\ panel \in tree.nodes[leaf].slots \cup {"none"}
    /\ drag' = [state |-> "pending", leaf |-> leaf, panel |-> panel]
    /\ Close /\ Kept

MoveAway ==
    /\ menu = NoMenu /\ drag.state = "pending"
    /\ drag' = [drag EXCEPT !.state = "active"]
    /\ UNCHANGED <<tree, menu, retained, preview>>

\* A press that did not move is a click, which selects a tab or adds a panel.
Click ==
    /\ menu = NoMenu /\ drag.state = "pending" /\ drag' = NoDrag /\ Kept
    /\ OpenDirectly("add", AddItems(drag.leaf)) \/ UNCHANGED <<menu, retained, preview>>

Cancel ==
    /\ menu = NoMenu /\ drag # NoDrag /\ drag' = NoDrag
    /\ UNCHANGED <<tree, menu, retained, preview>>

\* resolve_layout_drop_target: the edge of the screen, which is the root, ...
ShellTargets == {[node |-> tree.root, zone |-> zone] : zone \in Zones}
\* ... the middle of a pane or one of its edges, ...
PaneTargets(over) ==
    {[node |-> over, zone |-> zone] :
        zone \in Zones \cup (IF over = drag.leaf THEN {} ELSE {"center"})}
\* ... and, near a divider, what is on either side of it or around it.
SpanTargets == {[node |-> node, zone |-> zone] : node \in DOMAIN tree.nodes, zone \in Zones}

DropTargets(over) == ShellTargets \cup PaneTargets(over) \cup SpanTargets

DropPane(leaf, target) ==
    IF target.zone = "center" THEN SwapPanes(leaf, target.node)
                              ELSE MoveOrNot(leaf, target.node, target.zone)

DropTab(leaf, panel, target) ==
    \/ target.zone = "center" /\ MoveTab(leaf, panel, target.node)
    \/ target.zone # "center" /\ panel # Source
       /\ MoveTabAdjacent(leaf, panel, target.node, target.zone)
    \/ target.zone # "center" /\ panel = Source /\ MoveOrNot(leaf, target.node, target.zone)

DropWhatIsDragged(target) ==
    IF drag.panel = "none" THEN DropPane(drag.leaf, target)
                           ELSE DropTab(drag.leaf, drag.panel, target)

DropAndKeepDragging(target) ==
    /\ menu = NoMenu /\ drag.state = "active" /\ DropWhatIsDragged(target)
    /\ UNCHANGED <<menu, retained, preview, drag>>

Drop(target) ==
    /\ menu = NoMenu /\ drag.state = "active" /\ DropWhatIsDragged(target)
    /\ drag' = NoDrag
    /\ UNCHANGED <<menu, retained, preview>>

-----------------------------------------------------------------------------
GestureInit ==
    /\ Init
    /\ menu = NoMenu /\ retained = FALSE /\ preview = NoItem /\ drag = NoDrag

GestureNext ==
    \/ \E leaf \in Panes :
        \/ PaneMenu(leaf)
        \/ AddMenu(leaf)
        \/ \E panel \in Panels \cup {"none"} : Press(leaf, panel)
    \/ OtherMenu
    \/ \E item \in menu.items : PointAt(item) \/ Choose(item)
    \/ Dismiss
    \/ MoveAway
    \/ Click
    \/ Cancel
    \/ \E over \in Panes : \E target \in DropTargets(over) : Drop(target)

GestureSpec == GestureInit /\ [][GestureNext]_vars

-----------------------------------------------------------------------------
(* Correctness.                                                            *)

ItemOK(item) ==
    /\ item.act \in {"none", "rename", "delete", "swap with", "move to", "swap", "beside", "place",
                     "add", "more", "other", "stale"}
    /\ item.leaf \in Nat /\ item.node \in Nat
    /\ item.zone \in Zones \cup {"none"} /\ item.panel \in Panels \cup {"none"}

\* The menus, the previews and the drag have their types.
GestureTypeOK ==
    /\ TypeOK
    /\ menu.kind \in {"none", "pane"} \cup Previewing \cup Direct
    /\ \A item \in menu.items \cup {preview} : ItemOK(item)
    /\ retained \in BOOLEAN
    /\ drag.state \in {"none", "pending", "active"} /\ drag.leaf \in Nat
    /\ drag.panel \in Panels \cup {"none"}

\* An item's callback finds the pane and the node that it was given.
ItemIsLive(item) ==
    /\ item.act # "other" => item.leaf \in Panes
    /\ item.act \in {"swap", "beside"} => item.node \in Panes
    /\ item.act = "place" => item.node \in DOMAIN tree.nodes /\ item.zone \in Zones
    /\ item.act \in {"swap", "beside"} => item.node # item.leaf

\* The preview on the screen is that of an item of the menu that is open, except in
\* a menu opened directly, which may show what a menu before it would have shown.
PreviewIsOfMenu ==
    preview # NoItem => preview \in menu.items \/ menu.kind \in Direct

\* Whatever a menu or a drag remembers is still there when it is used: the pane of
\* every item, and the pane and the tab being dragged.  leaf_slots would throw for
\* a pane that is gone, and an index would move a tab that was not dragged.  And what
\* the screen shows of a menu is of that menu.
GesturesAreLive ==
    /\ \A item \in menu.items : ItemIsLive(item)
    /\ drag # NoDrag => drag.leaf \in Panes
                        /\ drag.panel \in tree.nodes[drag.leaf].slots \cup {"none"}
    /\ PreviewIsOfMenu

\* What the gestures do to the layout is what the handlers of LayoutTree do: this is
\* Spec, in a form that looks at a step only when it changes the tree.
RearrangesLayout == Init /\ [][tree' # tree => Next]_vars
=============================================================================
