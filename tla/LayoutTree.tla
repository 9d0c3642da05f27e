----------------------------- MODULE LayoutTree -----------------------------
(***************************************************************************)
(* The layout of the UI (cpp/src/ui/layout_tree.cpp): a binary tree whose  *)
(* containers split the screen between two children and whose leaves are   *)
(* panes that hold panels.  The tree is four fields that the operations    *)
(* keep in step by hand: the nodes, the parents, the root and the next id. *)
(*                                                                         *)
(* The operators are the methods of LayoutTree, functions from a tree to a *)
(* tree.  The actions are the handlers of DebugApp (app.cpp) that call     *)
(* them when the user deletes, swaps and moves panes and moves tabs.       *)
(* Sizes, labels, the order of the tabs and the orientation of a split are *)
(* abstracted: no operation decides anything by them.  The menu that would *)
(* split a pane (show_pane_add_menu) has no caller.                        *)
(***************************************************************************)
EXTENDS Naturals, FiniteSets

CONSTANTS
    Panels,           \* the panels that may be in the layout
    Source,           \* the panel that is moved with its whole pane
    DefaultPanels,    \* for each dock, the panels an empty pane of it gets
    MaxId             \* bound on the ids the tree may allocate

Docks == {"left", "center", "bottom"}
Undocked == "none"
Zones == {"above", "below", "left", "right"}

ASSUME PanelsAssumption ==
    /\ Source \in Panels
    /\ DefaultPanels \in [Docks -> SUBSET Panels]
    /\ Source \in DefaultPanels["center"]
ASSUME MaxIdAssumption == MaxId \in Nat

VARIABLE tree  \* [nodes, parents, root, nextId], the members of LayoutTree

Leaf(slots, dock) ==
    [kind |-> "leaf", first |-> 0, second |-> 0, slots |-> slots, dock |-> dock]
Container(first, second) ==
    [kind |-> "container", first |-> first, second |-> second, slots |-> {}, dock |-> Undocked]

IsContainer(t, n) == n \in DOMAIN t.nodes /\ t.nodes[n].kind = "container"
Leaves(t) == {n \in DOMAIN t.nodes : t.nodes[n].kind = "leaf"}
Containers(t) == DOMAIN t.nodes \ Leaves(t)
Children(t, n) == IF IsContainer(t, n) THEN {t.nodes[n].first, t.nodes[n].second} ELSE {}
HasParent(t, n) == n \in DOMAIN t.parents
With(f, x, y) == [z \in DOMAIN f \cup {x} |-> IF z = x THEN y ELSE f[z]]
Without(f, S) == [x \in DOMAIN f \ S |-> f[x]]

\* The nodes at or below n, as the recursions over a subtree reach them.
Subtree(t, n) ==
    LET within[depth \in Nat] ==
            IF depth = 0 THEN {n}
            ELSE LET nearer == within[depth - 1]
                 IN nearer \cup UNION {Children(t, m) : m \in nearer}
    IN within[Cardinality(Containers(t))]

\* What build_layout_widget descends to: the root and the children of the nodes in S.
ReachedBy(t, S) == {t.root} \cup UNION {Children(t, n) : n \in S}

PanelsIn(t) == UNION {t.nodes[n].slots : n \in DOMAIN t.nodes}

InitialTree ==
    [nodes   |-> [n \in 1..5 |->
                    CASE n = 1 -> Leaf(DefaultPanels["left"], "left")
                      [] n = 2 -> Leaf(DefaultPanels["center"], "center")
                      [] n = 3 -> Leaf(DefaultPanels["bottom"], "bottom")
                      [] n = 4 -> Container(1, 2)
                      [] n = 5 -> Container(4, 3)],
     parents |-> [n \in 1..4 |-> IF n <= 2 THEN 4 ELSE 5],
     root    |-> 5,
     nextId  |-> 6]

-----------------------------------------------------------------------------
(* The methods of LayoutTree.                                              *)

ReplaceChild(t, parent, old, new) ==
    IF ~IsContainer(t, parent) THEN t
    ELSE LET node == t.nodes[parent]
             renamed == IF node.first = old THEN [node EXCEPT !.first = new]
                        ELSE IF node.second = old THEN [node EXCEPT !.second = new]
                        ELSE node
         IN [t EXCEPT !.nodes[parent] = renamed, !.parents = With(@, new, parent)]

NewBefore(zone) == zone \in {"above", "left"}

GraftReusingAnId(t, anchor, zone, leaf) ==
    [t EXCEPT !.nodes = With(@, t.nextId, leaf), !.nextId = @]

\* A new leaf beside the anchor, under a new container that takes the anchor's place.
Graft(t, anchor, zone, leaf) ==
    LET newLeaf == t.nextId
        container == t.nextId + 1
        pair == IF NewBefore(zone) THEN Container(newLeaf, anchor)
                                   ELSE Container(anchor, newLeaf)
        grown == [t EXCEPT
                    !.nodes = With(With(@, container, pair), newLeaf, leaf),
                    !.parents = With(With(@, anchor, container), newLeaf, container),
                    !.nextId = @ + 2]
    IN IF anchor # t.root /\ HasParent(t, anchor)
       THEN ReplaceChild(grown, t.parents[anchor], anchor, container)
       ELSE [grown EXCEPT !.root = container, !.parents = Without(@, {anchor})]

InsertAdjacentUnlinked(t, anchor, zone, leaf) ==
    IF anchor \notin DOMAIN t.nodes THEN t ELSE Graft(t, anchor, zone, leaf)

InsertAdjacent(t, anchor, zone, leaf) ==
    IF anchor \notin DOMAIN t.nodes THEN t
    ELSE LET container == t.nextId + 1
         IN [Graft(t, anchor, zone, leaf) EXCEPT !.parents = With(@, anchor, container)]

Sibling(t, n) ==
    LET parent == t.nodes[t.parents[n]]
    IN IF parent.first = n THEN parent.second ELSE parent.first

RemovableWhileThreeAreLeft(t, leaf) ==
    /\ Cardinality(Leaves(t)) > 2 /\ leaf \in Leaves(t)
    /\ HasParent(t, leaf) /\ IsContainer(t, t.parents[leaf])

Removable(t, leaf) ==
    /\ Cardinality(Leaves(t)) > 1 /\ leaf \in Leaves(t)
    /\ HasParent(t, leaf) /\ IsContainer(t, t.parents[leaf])

\* What delete_leaf and extract_leaf share: the sibling takes the place of the
\* leaf's parent, which goes with the leaf.
Remove(t, leaf) ==
    LET parent == t.parents[leaf]
        sibling == Sibling(t, leaf)
        shrunk == [t EXCEPT !.nodes = Without(@, {leaf, parent}),
                            !.parents = Without(@, {leaf, parent})]
    IN IF parent = t.root
       THEN [shrunk EXCEPT !.root = sibling, !.parents = Without(@, {sibling})]
       ELSE IF HasParent(t, parent)
       THEN ReplaceChild(shrunk, t.parents[parent], parent, sibling)
       ELSE shrunk

DeleteLeaf(t, leaf) == IF Removable(t, leaf) THEN Remove(t, leaf) ELSE t

\* extract_leaf moves the content out before it finds that it cannot remove the
\* leaf; the content is then lost with the value it did not return.
ExtractLeaf(t, leaf) ==
    IF Removable(t, leaf) THEN Remove(t, leaf)
    ELSE IF Cardinality(Leaves(t)) > 1 /\ leaf \in Leaves(t)
    THEN [t EXCEPT !.nodes[leaf].slots = {}]
    ELSE t

SwapLeafContents(t, a, b) ==
    IF a = b \/ ~({a, b} \subseteq Leaves(t)) THEN t
    ELSE [t EXCEPT !.nodes[a] = t.nodes[b], !.nodes[b] = t.nodes[a]]

-----------------------------------------------------------------------------
(* The handlers of DebugApp.  The user acts on a pane and drops on a node, *)
(* all of which EveryPaneShown says are on the screen.                     *)
(* Most handlers end in rebuild_layout_ui, which gives the default panels  *)
(* to an empty pane that carries a dock.                                   *)

FindLeafForDock(t, dock) ==
    LET tagged == {n \in Leaves(t) : t.nodes[n].dock = dock}
    IN IF tagged = {} THEN 0 ELSE CHOOSE n \in tagged : \A m \in tagged : n <= m

Refill(t, n) ==
    LET leaf == t.nodes[n] IN
    IF /\ n \in Leaves(t) /\ leaf.slots = {} /\ leaf.dock # Undocked
       /\ FindLeafForDock(t, leaf.dock) = n
       /\ ~(leaf.dock = "center" /\ Source \in PanelsIn(t))
    THEN [leaf EXCEPT !.slots = DefaultPanels[leaf.dock]]
    ELSE leaf

Rebuild(t) == [t EXCEPT !.nodes = [n \in DOMAIN @ |-> Refill(t, n)]]

DeletePane(leaf) ==
    /\ Cardinality(Leaves(tree)) > 1
    /\ tree' = IF Removable(tree, leaf) THEN Rebuild(DeleteLeaf(tree, leaf)) ELSE tree

SwapPanes(a, b) ==
    /\ b \in Leaves(tree) /\ a # b
    /\ tree' = Rebuild(SwapLeafContents(tree, a, b))

InsertAnchor(t, from, anchor, zone) ==
    IF /\ zone \in {"above", "below"}
       /\ HasParent(t, from) /\ t.parents[from] = anchor
       /\ from \in Subtree(t, anchor)
    THEN IF HasParent(t, anchor) THEN t.parents[anchor] ELSE Sibling(t, from)
    ELSE anchor

OrRoot(t, anchor) == IF anchor \in DOMAIN t.nodes THEN anchor ELSE t.root

MovePane(from, anchor, zone) ==
    /\ tree.nextId < MaxId /\ from # anchor /\ Cardinality(Leaves(tree)) > 1
    /\ LET extracted == ExtractLeaf(tree, from)
           target == OrRoot(extracted, InsertAnchor(tree, from, anchor, zone))
       IN tree' = IF Removable(tree, from)
                  THEN Rebuild(InsertAdjacent(extracted, target, zone, tree.nodes[from]))
                  ELSE extracted

CollapseIfEmpty(t, leaf) == IF t.nodes[leaf].slots = {} THEN DeleteLeaf(t, leaf) ELSE t

TakeTab(t, leaf, panel) == [t EXCEPT !.nodes[leaf].slots = @ \ {panel}]

MoveTabAndForgetIt(from, panel, to) ==
    /\ to \in Leaves(tree) \ {from}
    /\ panel \in tree.nodes[from].slots
    /\ tree' = Rebuild(CollapseIfEmpty(TakeTab(tree, from, panel), from))

MoveTabCopyingIt(from, panel, to) ==
    /\ to \in Leaves(tree) \ {from} /\ panel \in tree.nodes[from].slots
    /\ tree' = Rebuild([tree EXCEPT !.nodes[to].slots = @ \cup {panel}])

\* move_tab_to_leaf, move_active_panel_to_leaf and, for the source panel,
\* move_source_panel_to_leaf.
MoveTab(from, panel, to) ==
    /\ to \in Leaves(tree) \ {from}
    /\ panel \in tree.nodes[from].slots
    /\ LET moved == [TakeTab(tree, from, panel) EXCEPT !.nodes[to].slots = @ \cup {panel}]
       IN tree' = Rebuild(CollapseIfEmpty(moved, from))

\* The source panel takes its whole pane along: that is MovePane.
MoveTabAdjacent(from, panel, anchor, zone) ==
    /\ tree.nextId < MaxId /\ panel \in tree.nodes[from].slots \ {Source}
    /\ LET taken == TakeTab(tree, from, panel)
           target == OrRoot(taken, InsertAnchor(taken, from, anchor, zone))
           inserted == InsertAdjacent(taken, target, zone, Leaf({panel}, Undocked))
       IN tree' = Rebuild(CollapseIfEmpty(inserted, from))

AddPanel(leaf, panel) ==
    /\ panel \in Panels \ PanelsIn(tree)
    /\ tree' = Rebuild([tree EXCEPT !.nodes[leaf].slots = @ \cup {panel}])

Init == tree = InitialTree

Restructure(leaf, anchor, zone) ==
    \/ MovePane(leaf, anchor, zone)
    \/ \E panel \in Panels : MoveTabAdjacent(leaf, panel, anchor, zone)

Rearrange(leaf, other) ==
    \/ SwapPanes(leaf, other)
    \/ \E panel \in Panels : MoveTab(leaf, panel, other)

Next ==
    \E leaf \in Leaves(tree) :
        \/ \E anchor \in DOMAIN tree.nodes, zone \in Zones : Restructure(leaf, anchor, zone)
        \/ \E other \in Leaves(tree) : Rearrange(leaf, other)
        \/ DeletePane(leaf)
        \/ \E panel \in Panels : AddPanel(leaf, panel)

Spec == Init /\ [][Next]_tree

-----------------------------------------------------------------------------
(* Correctness.                                                            *)

Node == [kind : {"leaf", "container"}, first : Nat, second : Nat, slots : SUBSET Panels,
         dock : Docks \cup {Undocked}]

\* The tree has its type; ids are allocated below nextId.
TypeOK ==
    /\ DOMAIN tree = {"nodes", "parents", "root", "nextId"}
    /\ tree.root \in Nat /\ tree.nextId \in Nat
    /\ DOMAIN tree.nodes \subseteq 1..(tree.nextId - 1)
    /\ tree.nodes \in [DOMAIN tree.nodes -> Node]
    /\ tree.parents \in [DOMAIN tree.parents -> DOMAIN tree.nodes]

\* Every container has two children, which build_layout_widget finds.
ChildrenAreNodes(t) ==
    /\ t.root \in DOMAIN t.nodes
    /\ \A n \in Containers(t) :
          Children(t, n) \subseteq DOMAIN t.nodes /\ t.nodes[n].first # t.nodes[n].second

\* parents_ says exactly what the containers say, and only the root has none.
ParentsAgree(t) ==
    /\ DOMAIN t.parents = DOMAIN t.nodes \ {t.root}
    /\ \A n \in DOMAIN t.parents : n \in Children(t, t.parents[n])
    /\ \A n \in Containers(t) : \A c \in Children(t, n) :
          c \in DOMAIN t.parents /\ t.parents[c] = n

\* Every pane is on the screen: "containers partition space, leaves hold panel
\* stacks" (layout_tree.hpp).  No pane is cut off with the panels in it: a set of
\* containers closed under the step from the root to the children has them all.
EveryPaneShown ==
    \A S \in SUBSET Containers(tree) :
        ReachedBy(tree, S) \cap Containers(tree) \subseteq S
            => DOMAIN tree.nodes \subseteq ReachedBy(tree, S)

\* Deleting a pane is refused only for the last one, as the status message
\* "Cannot delete the last pane" says.
OnlyLastPaneIsKept ==
    Cardinality(Leaves(tree)) > 1 =>
        \A leaf \in Leaves(tree) : leaf \notin DOMAIN DeleteLeaf(tree, leaf).nodes

\* The nodes make one tree, however often panes were deleted, swapped and moved: the
\* four fields that the methods keep in step by hand say the same, a container has
\* two children of its own, none is in a cycle or cut off, and every leaf can go.
OneTree == ChildrenAreNodes(tree) /\ ParentsAgree(tree) /\ EveryPaneShown /\ OnlyLastPaneIsKept

\* A panel is in one pane.
PanelsInOnePane ==
    \A n, m \in Leaves(tree) : n # m => tree.nodes[n].slots \cap tree.nodes[m].slots = {}

\* Only deleting its pane takes a panel away: no swap or move loses one.
PanelsSurvive ==
    [][PanelsIn(tree) \subseteq PanelsIn(tree') \/ \E leaf \in Leaves(tree) : DeletePane(leaf)]_tree
=============================================================================
