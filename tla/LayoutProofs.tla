--------------------------- MODULE LayoutProofs -----------------------------
(***************************************************************************)
(* Proofs about the layout and about the menus and drags that rearrange    *)
(* it, for every set of panels and every bound on the ids.                 *)
(*                                                                         *)
(* Sound says of a tree that its four fields agree and that it is whole:   *)
(* a set of nodes that has the root and the children of its containers     *)
(* has every node.  Grafted and Removed say what putting a leaf in and     *)
(* taking one out do to each field, and both keep a tree sound.  Every     *)
(* handler is made of these two and of changes to the content of leaves.   *)
(*                                                                         *)
(* What menus and drags remember stays true because nothing changes the    *)
(* layout while they do: a menu of the layout and a drag exclude each      *)
(* other, and whichever of them changes the layout has ended when it has.  *)
(* The layout is what the first part shows it to be, since every change    *)
(* is one of its own.                                                      *)
(***************************************************************************)
EXTENDS LayoutGestures, TLAPS, FiniteSetTheorems

-----------------------------------------------------------------------------
(* Sound trees.                                                            *)

\* TypeOK of any tree; a container holds no panels.
Typed(t) ==
    /\ DOMAIN t = {"nodes", "parents", "root", "nextId"}
    /\ t.root \in Nat /\ t.nextId \in Nat
    /\ DOMAIN t.nodes \subseteq 1..(t.nextId - 1)
    /\ t.nodes \in [DOMAIN t.nodes -> Node]
    /\ t.parents \in [DOMAIN t.parents -> DOMAIN t.nodes]
    /\ \A n \in Containers(t) : t.nodes[n].slots = {}

\* The nodes that are reached from the root are all.
Closed(t, S) == t.root \in S /\ \A n \in S \cap Containers(t) : Children(t, n) \subseteq S
Whole(t) == \A S : Closed(t, S) => DOMAIN t.nodes \subseteq S

Sound(t) == Typed(t) /\ ChildrenAreNodes(t) /\ ParentsAgree(t) /\ Whole(t)

\* What containers and leaves are, with the fields spelt out.
LEMMA Kinds ==
  ASSUME NEW t, Typed(t)
  PROVE  /\ \A n \in DOMAIN t.nodes : n \in Leaves(t) <=> t.nodes[n].kind = "leaf"
         /\ \A n \in DOMAIN t.nodes : n \in Containers(t) <=> t.nodes[n].kind = "container"
         /\ \A n \in Containers(t) : /\ n \in DOMAIN t.nodes /\ n \notin Leaves(t)
                                     /\ Children(t, n) = {t.nodes[n].first, t.nodes[n].second}
         /\ \A n \in Leaves(t) : n \in DOMAIN t.nodes /\ Children(t, n) = {}
         /\ \A n : ~IsContainer(t, n) => Children(t, n) = {}
         /\ \A n : IsContainer(t, n) <=> n \in Containers(t)
  BY DEF Typed, Node, Leaves, Containers, Children, IsContainer

\* A sound tree has every pane on the screen.
LEMMA SoundShows ==
  ASSUME Sound(tree)
  PROVE  TypeOK /\ ChildrenAreNodes(tree) /\ ParentsAgree(tree) /\ EveryPaneShown
  <1>1. TypeOK
    BY DEF Sound, Typed, TypeOK
  <1>2. EveryPaneShown
    <2> SUFFICES ASSUME NEW S \in SUBSET Containers(tree),
                        ReachedBy(tree, S) \cap Containers(tree) \subseteq S
                 PROVE  DOMAIN tree.nodes \subseteq ReachedBy(tree, S)
      BY DEF EveryPaneShown
    <2>1. Closed(tree, ReachedBy(tree, S))
      BY DEF Closed, ReachedBy
    <2> QED
      BY <2>1 DEF Sound, Whole
  <1> QED
    BY <1>1, <1>2 DEF Sound

\* A change to the content of leaves leaves a tree sound.
LEMMA SameShape ==
  ASSUME NEW t, NEW u, Sound(t), Typed(u), u.parents = t.parents, u.root = t.root,
         DOMAIN u.nodes = DOMAIN t.nodes,
         \A n \in DOMAIN t.nodes : /\ u.nodes[n].kind = t.nodes[n].kind
                                   /\ n \in Containers(t) => u.nodes[n] = t.nodes[n]
  PROVE  Sound(u) /\ Leaves(u) = Leaves(t)
  <1>1. Leaves(u) = Leaves(t) /\ Containers(u) = Containers(t)
    BY DEF Leaves, Containers
  <1>2. \A n : Children(u, n) = Children(t, n)
    BY <1>1, Kinds DEF Sound, Containers, Children, IsContainer
  <1>3. ChildrenAreNodes(u)
    <2>1. \A n \in Containers(t) : n \in DOMAIN t.nodes /\ u.nodes[n] = t.nodes[n]
      BY DEF Containers
    <2> QED
      BY <1>1, <1>2, <2>1 DEF Sound, ChildrenAreNodes
  <1>4. ParentsAgree(u)
    BY <1>1, <1>2 DEF Sound, ParentsAgree
  <1>5. Whole(u)
    BY <1>1, <1>2 DEF Sound, Whole, Closed
  <1> QED
    BY <1>1, <1>3, <1>4, <1>5 DEF Sound

\* The parent of a node is the only container that has it for a child.
LEMMA OneParent ==
  ASSUME NEW t, Sound(t), NEW n \in DOMAIN t.parents
  PROVE  /\ n \in DOMAIN t.nodes \ {t.root} /\ t.parents[n] \in Containers(t)
         /\ n \in Children(t, t.parents[n])
         /\ \A m \in Containers(t) : n \in Children(t, m) => m = t.parents[n]
  <1>1. n \in Children(t, t.parents[n]) /\ t.parents[n] \in DOMAIN t.nodes
    BY DEF Sound, ParentsAgree, Typed
  <1> QED
    BY <1>1, Kinds DEF Sound, ParentsAgree, Containers

\* The root is the child of no container.
LEMMA RootIsNoChild ==
  ASSUME NEW t, Sound(t), NEW m \in Containers(t)
  PROVE  t.root \notin Children(t, m)
  BY DEF Sound, ParentsAgree

\* No node is its own parent: the nodes without it would be closed.
LEMMA NoSelfParent ==
  ASSUME NEW t, Sound(t), NEW n \in Containers(t)
  PROVE  n \notin Children(t, n)
  <1> SUFFICES ASSUME n \in Children(t, n) PROVE FALSE
    OBVIOUS
  <1>1. n \in DOMAIN t.parents /\ n # t.root
    BY DEF Sound, ParentsAgree
  <1>2. \A m \in Containers(t) : n \in Children(t, m) => m = n
    BY <1>1, OneParent
  <1>3. Closed(t, DOMAIN t.nodes \ {n})
    BY <1>1, <1>2 DEF Closed, Sound, ChildrenAreNodes
  <1>4. n \in DOMAIN t.nodes
    BY DEF Containers
  <1> QED
    BY <1>3, <1>4 DEF Sound, Whole

-----------------------------------------------------------------------------
(* Putting a leaf in.                                                      *)

\* Renaming a child in the other containers.
Renamed(t, u, S, old, new) ==
    \A m \in S : /\ u.nodes[m].kind = t.nodes[m].kind
                 /\ u.nodes[m].slots = t.nodes[m].slots /\ u.nodes[m].dock = t.nodes[m].dock
                 /\ m \in Leaves(t) => u.nodes[m] = t.nodes[m]
                 /\ u.nodes[m].first = IF m \in Containers(t) /\ t.nodes[m].first = old
                                       THEN new ELSE t.nodes[m].first
                 /\ u.nodes[m].second = IF m \in Containers(t) /\ t.nodes[m].second = old
                                        THEN new ELSE t.nodes[m].second

\* What the fields of a tree say once a leaf is beside an anchor.
Grafted(t, u, anchor, leaf) ==
    LET n == t.nextId
        c == t.nextId + 1
    IN /\ DOMAIN u = {"nodes", "parents", "root", "nextId"} /\ u.nextId = t.nextId + 2
       /\ u.root = IF anchor = t.root THEN c ELSE t.root
       /\ DOMAIN u.nodes = DOMAIN t.nodes \cup {n, c}
       /\ u.nodes \in [DOMAIN u.nodes -> Node]
       /\ u.nodes[n] = leaf
       /\ u.nodes[c].kind = "container" /\ u.nodes[c].slots = {}
       /\ \/ u.nodes[c].first = n /\ u.nodes[c].second = anchor
          \/ u.nodes[c].first = anchor /\ u.nodes[c].second = n
       /\ Renamed(t, u, DOMAIN t.nodes, anchor, c)
       /\ DOMAIN u.parents = DOMAIN u.nodes \ {u.root}
       /\ u.parents \in [DOMAIN u.parents -> Nat]
       /\ u.parents[n] = c /\ u.parents[anchor] = c
       /\ anchor # t.root => u.parents[c] = t.parents[anchor]
       /\ \A m \in DOMAIN t.nodes \ {anchor, t.root} : u.parents[m] = t.parents[m]

\* A sound tree with a leaf put in is sound.
LEMMA GraftedIsSound ==
  ASSUME NEW t, NEW u, Sound(t), NEW anchor \in DOMAIN t.nodes, NEW leaf \in Node,
         leaf.kind = "leaf", Grafted(t, u, anchor, leaf)
  PROVE  /\ Sound(u)
         /\ Leaves(u) = Leaves(t) \cup {t.nextId} /\ t.nextId \notin DOMAIN t.nodes
  <1> DEFINE n == t.nextId
             c == t.nextId + 1
             D == DOMAIN t.nodes
  <1>1. n \in Nat /\ D \subseteq 1..(n - 1) /\ n \notin D /\ c \notin D /\ n # c /\ n \in 1..(n + 1)
        /\ c \in 1..(n + 1) /\ \A m \in D : m \in 1..(n + 1)
    <2>1. n \in Nat /\ D \subseteq 1..(n - 1)
      BY DEF Sound, Typed
    <2>2. n \notin D /\ c \notin D /\ \A m \in D : m \in 1..(n + 1)
      BY <2>1
    <2>3. n >= 1
      BY <2>1
    <2> QED
      BY <2>1, <2>2, <2>3
  <1>2. /\ DOMAIN u.nodes = D \cup {n, c} /\ u.nodes[n].kind = "leaf" /\ u.nodes[c].kind = "container"
        /\ \A m \in D : u.nodes[m].kind = t.nodes[m].kind
        /\ u.nodes \in [DOMAIN u.nodes -> Node]
    BY DEF Grafted, Renamed
  <1>3. Leaves(u) = Leaves(t) \cup {n} /\ Containers(u) = Containers(t) \cup {c}
    BY <1>1, <1>2 DEF Leaves, Containers
  <1>4. Children(u, c) = {n, anchor}
    BY <1>2 DEF Grafted, Children, IsContainer
  <1>5. ASSUME NEW m \in Containers(t)
        PROVE  /\ m \in D /\ m # c /\ t.nodes[m].first # t.nodes[m].second
               /\ u.nodes[m].first # u.nodes[m].second
               /\ Children(t, m) \subseteq D /\ n \notin Children(t, m) /\ c \notin Children(t, m)
               /\ \A x : x \in Children(u, m) <=> \/ x \in Children(t, m) /\ x # anchor
                                                  \/ x = c /\ anchor \in Children(t, m)
    <2>1. m \in D /\ m # c /\ m # n /\ Children(t, m) \subseteq D /\ t.nodes[m].first # t.nodes[m].second
      BY <1>1 DEF Containers, Sound, ChildrenAreNodes
    <2>2. /\ Children(t, m) = {t.nodes[m].first, t.nodes[m].second}
          /\ Children(u, m) = {u.nodes[m].first, u.nodes[m].second}
      BY <1>2, <1>3, <2>1, Kinds DEF Sound, Children, IsContainer, Containers, Leaves
    <2>3. /\ u.nodes[m].first = IF t.nodes[m].first = anchor THEN c ELSE t.nodes[m].first
          /\ u.nodes[m].second = IF t.nodes[m].second = anchor THEN c ELSE t.nodes[m].second
      BY <2>1 DEF Grafted, Renamed
    <2> QED
      BY <1>1, <2>1, <2>2, <2>3
  <1>6. Typed(u)
    <2>1. DOMAIN u.nodes \subseteq 1..(u.nextId - 1) /\ u.root \in Nat /\ u.nextId \in Nat
      BY <1>1, <1>2 DEF Grafted, Sound, Typed
    <2>2. ASSUME NEW m \in DOMAIN u.parents PROVE u.parents[m] \in DOMAIN u.nodes
      <3>1. CASE m \in {n, anchor}
        BY <1>2, <3>1 DEF Grafted
      <3>2. CASE m = c /\ anchor # t.root
        <4>1. anchor \in DOMAIN t.parents
          BY <3>2 DEF Sound, ParentsAgree
        <4> QED
          BY <1>2, <3>2, <4>1 DEF Grafted, Sound, Typed
      <3>3. CASE m \in D \ {anchor, t.root}
        <4>1. m \in DOMAIN t.parents
          BY <3>3 DEF Sound, ParentsAgree
        <4> QED
          BY <1>2, <3>3, <4>1 DEF Grafted, Sound, Typed
      <3> QED
        BY <1>2, <3>1, <3>2, <3>3 DEF Grafted
    <2>3. u.parents \in [DOMAIN u.parents -> DOMAIN u.nodes]
      <3>1. u.parents \in [DOMAIN u.parents -> Nat]
        BY DEF Grafted
      <3> QED
        BY <2>2, <3>1
    <2>4. \A m \in Containers(u) : u.nodes[m].slots = {}
      BY <1>1, <1>3, <1>5 DEF Grafted, Renamed, Sound, Typed
    <2> QED
      BY <1>2, <2>1, <2>3, <2>4 DEF Typed, Grafted
  <1>7. ChildrenAreNodes(u)
    <2>1. u.root \in DOMAIN u.nodes
      BY <1>2 DEF Grafted, Sound, ChildrenAreNodes
    <2>2. u.nodes[c].first # u.nodes[c].second
      BY <1>1 DEF Grafted
    <2> QED
      BY <1>1, <1>2, <1>3, <1>4, <1>5, <2>1, <2>2 DEF ChildrenAreNodes
  <1>8. ParentsAgree(u)
    <2>1. DOMAIN u.parents = DOMAIN u.nodes \ {u.root}
      BY DEF Grafted
    <2>2. ASSUME NEW m \in DOMAIN u.parents PROVE m \in Children(u, u.parents[m])
      <3>1. CASE m \in {n, anchor}
        BY <1>4, <3>1 DEF Grafted
      <3>2. CASE m = c /\ anchor # t.root
        <4>1. anchor \in DOMAIN t.parents
          BY <3>2 DEF Sound, ParentsAgree
        <4> QED
          BY <1>5, <3>2, <4>1, OneParent DEF Grafted, Sound, ParentsAgree
      <3>3. CASE m \in D \ {anchor, t.root}
        <4>1. m \in DOMAIN t.parents
          BY <3>3 DEF Sound, ParentsAgree
        <4> QED
          BY <1>5, <3>3, <4>1, OneParent DEF Grafted, Sound, ParentsAgree
      <3> QED
        BY <1>2, <2>1, <3>1, <3>2, <3>3 DEF Grafted
    <2>3. ASSUME NEW m \in Containers(u), NEW x \in Children(u, m)
          PROVE  x \in DOMAIN u.parents /\ u.parents[x] = m
      <3>1. CASE m = c
        <4>1. x \in {n, anchor} /\ x # u.root /\ x \in DOMAIN u.nodes
          BY <1>1, <1>2, <1>4, <3>1 DEF Grafted, Sound, ChildrenAreNodes
        <4> QED
          BY <2>1, <3>1, <4>1 DEF Grafted
      <3>2. CASE m \in Containers(t) /\ x = c /\ anchor \in Children(t, m)
        <4>1. anchor # t.root /\ t.parents[anchor] = m
          BY <3>2 DEF Sound, ParentsAgree
        <4> QED
          BY <1>1, <1>2, <2>1, <3>2, <4>1 DEF Grafted, Sound, ChildrenAreNodes
      <3>3. CASE m \in Containers(t) /\ x \in Children(t, m) /\ x # anchor
        <4>1. x \in D \ {t.root} /\ t.parents[x] = m
          BY <3>3 DEF Sound, ParentsAgree
        <4> QED
          BY <1>1, <1>2, <2>1, <3>3, <4>1 DEF Grafted
      <3> QED
        BY <1>3, <1>5, <3>1, <3>2, <3>3
    <2> QED
      BY <2>1, <2>2, <2>3 DEF ParentsAgree
  <1>9. Whole(u)
    <2> SUFFICES ASSUME NEW S, Closed(u, S) PROVE DOMAIN u.nodes \subseteq S
      BY DEF Whole
    <2>1. c \in S => n \in S /\ anchor \in S
      BY <1>3, <1>4 DEF Closed
    <2>2. t.root \in S
      BY <2>1 DEF Closed, Grafted
    <2>3. ASSUME NEW m \in S \cap Containers(t) PROVE Children(t, m) \subseteq S
      BY <1>3, <1>5, <2>1 DEF Closed
    <2>4. D \subseteq S
      BY <2>2, <2>3 DEF Closed, Sound, Whole
    <2>5. c \in S
      <3>1. CASE anchor = t.root
        BY <3>1 DEF Closed, Grafted
      <3>2. CASE anchor # t.root
        <4>1. anchor \in DOMAIN t.parents
          BY <3>2 DEF Sound, ParentsAgree
        <4>2. PICK m \in Containers(t) : anchor \in Children(t, m)
          BY <4>1, OneParent DEF Sound, ParentsAgree
        <4> QED
          BY <1>3, <1>5, <2>4, <4>2 DEF Closed
      <3> QED
        BY <3>1, <3>2
    <2> QED
      BY <1>2, <2>1, <2>4, <2>5
  <1> QED
    BY <1>1, <1>3, <1>6, <1>7, <1>8, <1>9 DEF Sound

-----------------------------------------------------------------------------
(* Taking a leaf out.                                                      *)

\* What the fields of a tree say once a leaf is gone and its sibling is in the
\* place of their parent.
Removed(t, u, leaf) ==
    LET p == t.parents[leaf]
        s == Sibling(t, leaf)
    IN /\ DOMAIN u = {"nodes", "parents", "root", "nextId"} /\ u.nextId = t.nextId
       /\ u.root = IF p = t.root THEN s ELSE t.root
       /\ DOMAIN u.nodes = DOMAIN t.nodes \ {leaf, p}
       /\ u.nodes \in [DOMAIN u.nodes -> Node]
       /\ Renamed(t, u, DOMAIN u.nodes, p, s)
       /\ DOMAIN u.parents = DOMAIN u.nodes \ {u.root}
       /\ u.parents \in [DOMAIN u.parents -> Nat]
       /\ p # t.root => u.parents[s] = t.parents[p]
       /\ \A m \in DOMAIN u.nodes \ {s, u.root} : u.parents[m] = t.parents[m]

\* A leaf, its parent and its sibling.
LEMMA Family ==
  ASSUME NEW t, Sound(t), NEW leaf \in Leaves(t), leaf # t.root,
         NEW p, p = t.parents[leaf], NEW s, s = Sibling(t, leaf)
  PROVE  /\ leaf \in DOMAIN t.nodes /\ leaf \in DOMAIN t.parents /\ p \in Containers(t)
         /\ s \in DOMAIN t.nodes /\ s \in DOMAIN t.parents /\ t.parents[s] = p
         /\ s # leaf /\ s # p /\ leaf # p /\ s # t.root
         /\ Children(t, p) = {leaf, s}
         /\ \A m \in Containers(t) : m # p => leaf \notin Children(t, m) /\ s \notin Children(t, m)
  <1>1. leaf \in DOMAIN t.nodes /\ leaf \in DOMAIN t.parents
    BY DEF Sound, ParentsAgree, Leaves
  <1>2. p \in Containers(t) /\ leaf \in Children(t, p)
    BY <1>1, OneParent DEF Sound, ParentsAgree
  <1>3. Children(t, p) = {t.nodes[p].first, t.nodes[p].second} /\ t.nodes[p].first # t.nodes[p].second
    BY <1>2, Kinds DEF Sound, ChildrenAreNodes
  <1>4. Children(t, p) = {leaf, s} /\ s # leaf
    BY <1>2, <1>3 DEF Sibling
  <1>5. s \in DOMAIN t.nodes /\ s \in DOMAIN t.parents /\ t.parents[s] = p /\ s # t.root
    BY <1>2, <1>4 DEF Sound, ParentsAgree, ChildrenAreNodes
  <1>6. s # p /\ leaf # p
    BY <1>2, <1>4, NoSelfParent
  <1>7. \A m \in Containers(t) : m # p => leaf \notin Children(t, m) /\ s \notin Children(t, m)
    BY <1>1, <1>5, OneParent
  <1> QED
    BY <1>1, <1>2, <1>4, <1>5, <1>6, <1>7

\* A sound tree with a leaf taken out is sound.
LEMMA RemovedIsSound ==
  ASSUME NEW t, NEW u, Sound(t), NEW leaf \in Leaves(t), leaf # t.root, Removed(t, u, leaf)
  PROVE  Sound(u) /\ Leaves(u) = Leaves(t) \ {leaf}
  <1> DEFINE D == DOMAIN t.nodes
             p == t.parents[leaf]
             s == Sibling(t, leaf)
  <1>1. /\ leaf \in D /\ leaf \in DOMAIN t.parents /\ p \in Containers(t) /\ p \in D
        /\ s \in D /\ s \in DOMAIN t.parents /\ t.parents[s] = p
        /\ s # leaf /\ s # p /\ leaf # p /\ s # t.root
        /\ Children(t, p) = {leaf, s}
        /\ \A m \in Containers(t) : m # p => leaf \notin Children(t, m) /\ s \notin Children(t, m)
    <2>1. p \in Containers(t) => p \in D
      BY DEF Containers
    <2> QED
      BY <2>1, Family
  <1>2. /\ DOMAIN u.nodes = D \ {leaf, p}
        /\ \A m \in DOMAIN u.nodes : u.nodes[m].kind = t.nodes[m].kind
        /\ u.nodes \in [DOMAIN u.nodes -> Node]
    BY DEF Removed, Renamed
  <1>3. Leaves(u) = Leaves(t) \ {leaf} /\ Containers(u) = Containers(t) \ {p}
    BY <1>1, <1>2 DEF Leaves, Containers
  <1>4. ASSUME NEW m \in Containers(u)
        PROVE  /\ m \in Containers(t) /\ m \in D /\ m # p /\ m # leaf
               /\ u.nodes[m].first # u.nodes[m].second
               /\ Children(t, m) \subseteq D
               /\ \A x : x \in Children(u, m) <=> \/ x \in Children(t, m) /\ x # p
                                                  \/ x = s /\ p \in Children(t, m)
    <2>1. m \in Containers(t) /\ m \in D /\ m # p /\ m # leaf /\ m \in DOMAIN u.nodes
      BY <1>2, <1>3 DEF Containers
    <2>2. /\ Children(t, m) = {t.nodes[m].first, t.nodes[m].second}
          /\ Children(u, m) = {u.nodes[m].first, u.nodes[m].second}
      BY <1>2, <2>1, Kinds DEF Sound, Children, IsContainer
    <2>3. /\ u.nodes[m].first = IF t.nodes[m].first = p THEN s ELSE t.nodes[m].first
          /\ u.nodes[m].second = IF t.nodes[m].second = p THEN s ELSE t.nodes[m].second
      BY <2>1 DEF Removed, Renamed
    <2>4. Children(t, m) \subseteq D /\ t.nodes[m].first # t.nodes[m].second
      BY <2>1 DEF Sound, ChildrenAreNodes
    <2>5. s \notin Children(t, m)
      BY <1>1, <2>1
    <2> QED
      BY <2>1, <2>2, <2>3, <2>4, <2>5
  <1>5. /\ u.root = IF p = t.root THEN s ELSE t.root
        /\ DOMAIN u.parents = DOMAIN u.nodes \ {u.root}
        /\ p # t.root => u.parents[s] = t.parents[p]
        /\ \A m \in DOMAIN u.nodes \ {s, u.root} : u.parents[m] = t.parents[m]
        /\ u.parents \in [DOMAIN u.parents -> Nat]
    BY DEF Removed
  <1>6. p # t.root => /\ p \in DOMAIN t.parents /\ t.parents[p] \in Containers(t)
                      /\ t.parents[p] # p /\ p \in Children(t, t.parents[p])
    <2>1. p # t.root => p \in DOMAIN t.parents
      BY <1>1 DEF Sound, ParentsAgree
    <2> QED
      BY <1>1, <2>1, OneParent, NoSelfParent DEF Sound, ParentsAgree
  \* The other nodes keep their parents, which are in the tree still.
  <1>7. ASSUME NEW m \in DOMAIN u.nodes \ {s, u.root}
        PROVE  /\ m \in DOMAIN t.parents /\ t.parents[m] \in Containers(u) /\ m # p
               /\ m \in Children(t, t.parents[m])
    <2>1. m \in DOMAIN t.parents /\ m # p /\ m # leaf
      BY <1>1, <1>2, <1>5 DEF Sound, ParentsAgree
    <2>2. t.parents[m] \in Containers(t) /\ m \in Children(t, t.parents[m])
      BY <2>1, OneParent DEF Sound, ParentsAgree
    <2>3. t.parents[m] # p
      BY <1>1, <2>1, <2>2
    <2> QED
      BY <1>3, <2>1, <2>2, <2>3
  <1>8. \A m \in DOMAIN u.parents : u.parents[m] \in Containers(u) /\ m \in Children(u, u.parents[m])
    <2> SUFFICES ASSUME NEW m \in DOMAIN u.parents
                 PROVE  u.parents[m] \in Containers(u) /\ m \in Children(u, u.parents[m])
      OBVIOUS
    <2>1. CASE m = s
      <3>1. p # t.root
        BY <1>5, <2>1
      <3>2. u.parents[m] \in Containers(u) /\ p \in Children(t, u.parents[m])
        BY <1>3, <1>5, <1>6, <2>1, <3>1
      <3> QED
        BY <1>4, <2>1, <3>2
    <2>2. CASE m # s
      <3>1. m \in DOMAIN u.nodes \ {s, u.root} /\ u.parents[m] = t.parents[m]
        BY <1>5, <2>2
      <3> QED
        BY <1>4, <1>7, <3>1
    <2> QED
      BY <2>1, <2>2
  <1>9. Typed(u)
    <2>1. DOMAIN u.nodes \subseteq 1..(u.nextId - 1) /\ u.root \in Nat /\ u.nextId \in Nat
      BY <1>1, <1>2, <1>5 DEF Removed, Sound, Typed
    <2>2. Containers(u) \subseteq DOMAIN u.nodes
      BY DEF Containers
    <2>3. u.parents \in [DOMAIN u.parents -> DOMAIN u.nodes]
      BY <1>5, <1>8, <2>2
    <2>4. \A m \in Containers(u) : u.nodes[m].slots = {}
      BY <1>4, <2>2 DEF Removed, Renamed, Sound, Typed
    <2> QED
      BY <1>2, <2>1, <2>3, <2>4 DEF Typed, Removed
  <1>10. ChildrenAreNodes(u)
    <2>1. u.root \in DOMAIN u.nodes
      BY <1>1, <1>2, <1>3, <1>5 DEF Sound, ChildrenAreNodes, Leaves
    <2>2. ASSUME NEW m \in Containers(u), NEW x \in Children(u, m) PROVE x \in DOMAIN u.nodes
      BY <1>1, <1>2, <1>4
    <2> QED
      BY <1>4, <2>1, <2>2 DEF ChildrenAreNodes
  <1>11. ParentsAgree(u)
    <2>1. ASSUME NEW m \in Containers(u), NEW x \in Children(u, m)
          PROVE  x \in DOMAIN u.parents /\ u.parents[x] = m
      <3>1. CASE x = s /\ p \in Children(t, m)
        <4>1. p # t.root /\ t.parents[p] = m
          BY <1>4, <3>1 DEF Sound, ParentsAgree
        <4>2. s \in DOMAIN u.nodes /\ s # u.root
          BY <1>1, <1>2, <1>5, <4>1
        <4> QED
          BY <1>5, <3>1, <4>1, <4>2
      <3>2. CASE x \in Children(t, m) /\ x # p
        <4>1. x # leaf /\ x # s /\ x \in D /\ x # t.root /\ t.parents[x] = m
          BY <1>1, <1>4, <3>2 DEF Sound, ParentsAgree
        <4>2. x \in DOMAIN u.nodes \ {s, u.root}
          BY <1>2, <1>5, <3>2, <4>1
        <4> QED
          BY <1>5, <4>1, <4>2
      <3> QED
        BY <1>4, <3>1, <3>2
    <2> QED
      BY <1>5, <1>8, <2>1 DEF ParentsAgree
  <1>12. Whole(u)
    <2> SUFFICES ASSUME NEW S, Closed(u, S) PROVE DOMAIN u.nodes \subseteq S
      BY DEF Whole
    <2> DEFINE T == (S \ {p, leaf}) \cup (IF s \in S THEN {p, leaf} ELSE {})
    <2>1. \A m \in S \cap Containers(u) : Children(u, m) \subseteq S
      BY DEF Closed
    <2>2. t.root \in T
      <3>1. u.root \in S
        BY DEF Closed
      <3> QED
        BY <1>1, <1>5, <3>1
    <2>3. ASSUME NEW m \in T \cap Containers(t), NEW x \in Children(t, m) PROVE x \in T
      <3>1. CASE m = p
        BY <1>1, <3>1
      <3>2. CASE m # p
        <4>1. m \in Containers(u) /\ m # leaf /\ m \in S
          BY <1>3, <1>4, <3>2
        <4>2. x # leaf
          BY <1>1, <3>2
        <4>3. IF x = p THEN s \in S ELSE x \in S
          BY <1>4, <2>1, <4>1
        <4> QED
          BY <1>1, <4>2, <4>3
      <3> QED
        BY <3>1, <3>2
    <2>4. D \subseteq T
      BY <2>2, <2>3 DEF Closed, Sound, Whole
    <2> QED
      BY <1>2, <2>4
  <1> QED
    BY <1>3, <1>9, <1>10, <1>11, <1>12 DEF Sound

-----------------------------------------------------------------------------
(* The methods put leaves in and take them out.                            *)

\* What becomes of the leaves when one is put in.
PutIn(t, u, leaf) ==
    /\ Sound(u) /\ t.nextId \notin DOMAIN t.nodes
    /\ Leaves(u) = Leaves(t) \cup {t.nextId} /\ u.nodes[t.nextId] = leaf
    /\ \A m \in Leaves(t) : u.nodes[m] = t.nodes[m]

LEMMA GraftedPutsIn ==
  ASSUME NEW t, NEW u, Sound(t), NEW anchor \in DOMAIN t.nodes, NEW leaf \in Node,
         leaf.kind = "leaf", Grafted(t, u, anchor, leaf)
  PROVE  PutIn(t, u, leaf)
  <1>1. u.nodes[t.nextId] = leaf /\ Renamed(t, u, DOMAIN t.nodes, anchor, t.nextId + 1)
    BY DEF Grafted
  <1>2. \A m \in Leaves(t) : m \in DOMAIN t.nodes
    BY DEF Leaves
  <1>3. \A m \in Leaves(t) : u.nodes[m] = t.nodes[m]
    BY <1>1, <1>2 DEF Renamed
  <1> QED
    BY <1>1, <1>3, GraftedIsSound DEF PutIn

LEMMA InsertPutsIn ==
  ASSUME NEW t, Sound(t), NEW anchor \in DOMAIN t.nodes, NEW zone, NEW leaf \in Node,
         leaf.kind = "leaf", NEW u, u = InsertAdjacent(t, anchor, zone, leaf)
  PROVE  PutIn(t, u, leaf)
  <1> DEFINE n == t.nextId
             c == t.nextId + 1
             D == DOMAIN t.nodes
             q == t.parents[anchor]
             g == Graft(t, anchor, zone, leaf)
             pair == IF NewBefore(zone) THEN Container(n, anchor) ELSE Container(anchor, n)
             nodes1 == With(With(t.nodes, c, pair), n, leaf)
             parents1 == With(With(t.parents, anchor, c), n, c)
             grown == [t EXCEPT !.nodes = nodes1, !.parents = parents1, !.nextId = @ + 2]
  <1>1. /\ n \in Nat /\ n \notin D /\ c \notin D /\ n # c /\ c \in Nat /\ t.root \in D
        /\ t.root \in Nat /\ anchor \in Nat /\ DOMAIN t.parents = D \ {t.root}
        /\ DOMAIN t = {"nodes", "parents", "root", "nextId"} /\ D \subseteq Nat
        /\ t.nodes \in [D -> Node] /\ t.parents \in [DOMAIN t.parents -> D]
    <2>1. n \in Nat /\ D \subseteq 1..(n - 1)
      BY DEF Sound, Typed
    <2> QED
      BY <2>1 DEF Sound, Typed, ChildrenAreNodes, ParentsAgree
  <1>2. /\ grown.nodes = nodes1 /\ grown.parents = parents1 /\ grown.root = t.root
        /\ grown.nextId = n + 2 /\ DOMAIN grown = {"nodes", "parents", "root", "nextId"}
    BY <1>1
  <1>3. /\ pair \in Node /\ pair.kind = "container" /\ pair.slots = {}
        /\ \/ pair.first = n /\ pair.second = anchor
           \/ pair.first = anchor /\ pair.second = n
    BY <1>1 DEF Container, Node
  <1>4. /\ DOMAIN nodes1 = D \cup {n, c} /\ nodes1[n] = leaf /\ nodes1[c] = pair
        /\ \A m \in D : nodes1[m] = t.nodes[m]
        /\ nodes1 \in [D \cup {n, c} -> Node]
    <2>1. /\ DOMAIN nodes1 = D \cup {n, c} /\ nodes1[n] = leaf /\ nodes1[c] = pair
          /\ \A m \in D : nodes1[m] = t.nodes[m]
      BY <1>1 DEF With
    <2>2. nodes1 = [z \in DOMAIN nodes1 |-> nodes1[z]]
      BY DEF With
    <2> HIDE DEF nodes1, pair
    <2> QED
      BY <1>1, <1>3, <2>1, <2>2
  <1>5. /\ DOMAIN parents1 = (D \ {t.root}) \cup {n, anchor} /\ parents1[n] = c /\ parents1[anchor] = c
        /\ \A m \in D \ {t.root, anchor} : parents1[m] = t.parents[m]
        /\ parents1 = [z \in DOMAIN parents1 |-> parents1[z]]
    BY <1>1 DEF With
  <1> HIDE DEF nodes1, parents1, pair
  <1>6. CASE anchor = t.root
    <2>1. g = [grown EXCEPT !.root = c, !.parents = Without(@, {anchor})]
      BY <1>6 DEF Graft, nodes1, parents1, pair
    <2>2. u = [g EXCEPT !.parents = With(@, anchor, c)]
      BY <1>6 DEF InsertAdjacent
    <2> DEFINE parents2 == Without(parents1, {anchor})
               parents3 == With(parents2, anchor, c)
    <2>3. /\ DOMAIN u = {"nodes", "parents", "root", "nextId"} /\ u.nodes = nodes1 /\ u.root = c
          /\ u.nextId = n + 2 /\ u.parents = parents3
      <3> HIDE DEF grown
      <3>1. /\ DOMAIN g = {"nodes", "parents", "root", "nextId"} /\ g.nodes = nodes1 /\ g.root = c
            /\ g.nextId = n + 2 /\ g.parents = parents2
        BY <1>2, <2>1
      <3> HIDE DEF g, parents2
      <3> QED
        BY <2>2, <3>1
    <2>4. /\ DOMAIN parents3 = D \cup {n} /\ parents3[n] = c /\ parents3[anchor] = c
          /\ \A m \in D \ {t.root, anchor} : parents3[m] = t.parents[m]
          /\ parents3 = [z \in DOMAIN parents3 |-> parents3[z]]
      BY <1>1, <1>5, <1>6 DEF With, Without
    <2>5. Renamed(t, u, D, anchor, c)
      <3> SUFFICES ASSUME NEW m \in Containers(t)
                   PROVE  t.nodes[m].first # anchor /\ t.nodes[m].second # anchor
        BY <1>4, <2>3 DEF Renamed
      <3> QED
        BY <1>6, RootIsNoChild, Kinds DEF Sound
    <2>6. parents3 \in [DOMAIN parents3 -> Nat]
      <3>1. \A m \in D \ {t.root} : t.parents[m] \in Nat
        BY <1>1
      <3> HIDE DEF parents3
      <3>2. \A m \in DOMAIN parents3 : parents3[m] \in Nat
        BY <1>1, <1>6, <2>4, <3>1
      <3> QED
        BY <2>4, <3>2
    <2>7. Grafted(t, u, anchor, leaf)
      <3> HIDE DEF parents3, g
      <3> QED
        BY <1>1, <1>3, <1>4, <1>6, <2>3, <2>4, <2>5, <2>6 DEF Grafted
    <2> QED
      BY <2>7, GraftedPutsIn
  <1>7. CASE anchor # t.root
    <2>1. anchor \in DOMAIN t.parents /\ q \in Containers(t) /\ q \in D
          /\ \A m \in Containers(t) : anchor \in Children(t, m) => m = q
      BY <1>1, <1>7, OneParent DEF Containers
    <2>2. g = ReplaceChild(grown, q, anchor, c)
      BY <1>7, <2>1 DEF Graft, HasParent, nodes1, parents1, pair
    <2>3. IsContainer(grown, q) /\ grown.nodes[q] = t.nodes[q]
      <3> HIDE DEF grown
      <3> QED
        BY <1>2, <1>4, <2>1, Kinds DEF IsContainer, Containers, Sound
    <2> DEFINE node == t.nodes[q]
               rec == IF node.first = anchor THEN [node EXCEPT !.first = c]
                      ELSE IF node.second = anchor THEN [node EXCEPT !.second = c]
                      ELSE node
               nodes2 == [nodes1 EXCEPT ![q] = rec]
               parents2 == With(parents1, c, q)
    <2>4. /\ DOMAIN g = {"nodes", "parents", "root", "nextId"} /\ g.nodes = nodes2 /\ g.root = t.root
          /\ g.nextId = n + 2 /\ g.parents = parents2
      <3>1. nodes1[q] = t.nodes[q] /\ q \in DOMAIN nodes1
        BY <1>4, <2>1
      <3> HIDE DEF grown
      <3>2. g = [grown EXCEPT !.nodes[q] = rec, !.parents = With(@, c, q)]
        BY <2>2, <2>3 DEF ReplaceChild
      <3> HIDE DEF rec
      <3>3. g.nodes = [grown.nodes EXCEPT ![q] = rec]
        BY <1>2, <3>2
      <3> QED
        BY <1>2, <3>2, <3>3
    <2>5. /\ DOMAIN u = {"nodes", "parents", "root", "nextId"} /\ u.nodes = nodes2 /\ u.root = t.root
          /\ u.nextId = n + 2 /\ u.parents = parents2
      <3>1. u = [g EXCEPT !.parents = With(@, anchor, c)]
        BY DEF InsertAdjacent
      <3>2. anchor \in DOMAIN parents2 /\ parents2[anchor] = c
            /\ parents2 = [z \in DOMAIN parents2 |-> parents2[z]]
        BY <1>1, <1>5, <2>1 DEF With
      <3>3. With(parents2, anchor, c) = parents2
        <4> HIDE DEF parents2
        <4> QED
          BY <3>2 DEF With
      <3> HIDE DEF g, parents2, nodes2
      <3> QED
        BY <2>4, <3>1, <3>3
    <2>6. /\ rec \in Node /\ rec.kind = t.nodes[q].kind /\ rec.slots = t.nodes[q].slots
          /\ rec.dock = t.nodes[q].dock
          /\ rec.first = IF t.nodes[q].first = anchor THEN c ELSE t.nodes[q].first
          /\ rec.second = IF t.nodes[q].second = anchor THEN c ELSE t.nodes[q].second
      <3>1. t.nodes[q] \in Node /\ t.nodes[q].first # t.nodes[q].second
        BY <1>1, <2>1 DEF Sound, ChildrenAreNodes
      <3> QED
        BY <1>1, <3>1 DEF Node
    <2> HIDE DEF rec
    <2>7. /\ DOMAIN nodes2 = D \cup {n, c} /\ nodes2 \in [D \cup {n, c} -> Node]
          /\ nodes2[n] = leaf /\ nodes2[c] = pair /\ nodes2[q] = rec
          /\ \A m \in D \ {q} : nodes2[m] = t.nodes[m]
      BY <1>1, <1>4, <2>1, <2>6
    <2>8. Renamed(t, u, D, anchor, c)
      <3> SUFFICES ASSUME NEW m \in D PROVE Renamed(t, u, {m}, anchor, c)
        BY DEF Renamed
      <3>1. CASE m = q
        <4>1. u.nodes[m] = rec /\ m \in Containers(t) /\ m \notin Leaves(t)
          BY <2>1, <2>5, <2>7, <3>1, Kinds DEF Sound
        <4> QED
          BY <2>6, <3>1, <4>1 DEF Renamed
      <3>2. CASE m # q
        <4>1. m \in Containers(t) => t.nodes[m].first # anchor /\ t.nodes[m].second # anchor
          BY <2>1, <3>2, Kinds DEF Sound
        <4> QED
          BY <2>5, <2>7, <3>2, <4>1 DEF Renamed
      <3> QED
        BY <3>1, <3>2
    <2>9. /\ DOMAIN parents2 = (D \cup {n, c}) \ {t.root} /\ parents2[n] = c /\ parents2[anchor] = c
          /\ parents2[c] = q
          /\ \A m \in D \ {t.root, anchor} : parents2[m] = t.parents[m]
          /\ parents2 = [z \in DOMAIN parents2 |-> parents2[z]]
      BY <1>1, <1>5, <2>1, <1>7 DEF With
    <2>10. parents2 \in [DOMAIN parents2 -> Nat]
      BY <1>1, <2>1, <2>9
    <2>11. Grafted(t, u, anchor, leaf)
      <3> HIDE DEF parents2, nodes2
      <3> QED
        BY <1>1, <1>3, <1>7, <2>5, <2>7, <2>8, <2>9, <2>10 DEF Grafted
    <2> QED
      BY <2>11, GraftedPutsIn
  <1> QED
    BY <1>6, <1>7

\* What becomes of the leaves when one is taken out.
TakenOut(t, u, leaf) ==
    /\ Sound(u) /\ Leaves(u) = Leaves(t) \ {leaf} /\ leaf \notin DOMAIN u.nodes
    /\ \A m \in Leaves(u) : u.nodes[m] = t.nodes[m]

LEMMA RemoveTakesOut ==
  ASSUME NEW t, Sound(t), NEW leaf \in Leaves(t), leaf # t.root
  PROVE  TakenOut(t, Remove(t, leaf), leaf)
  <1> DEFINE D == DOMAIN t.nodes
             p == t.parents[leaf]
             s == Sibling(t, leaf)
             u == Remove(t, leaf)
             nodes1 == Without(t.nodes, {leaf, p})
             parents1 == Without(t.parents, {leaf, p})
             shrunk == [t EXCEPT !.nodes = nodes1, !.parents = parents1]
  <1>1. /\ leaf \in D /\ leaf \in DOMAIN t.parents /\ p \in Containers(t) /\ p \in D
        /\ s \in D /\ s \in DOMAIN t.parents /\ t.parents[s] = p
        /\ s # leaf /\ s # p /\ leaf # p /\ s # t.root
        /\ Children(t, p) = {leaf, s}
        /\ \A m \in Containers(t) : m # p => leaf \notin Children(t, m) /\ s \notin Children(t, m)
    <2>1. p \in Containers(t) => p \in D
      BY DEF Containers
    <2> QED
      BY <2>1, Family
  <1>2. /\ t.root \in D /\ DOMAIN t.parents = D \ {t.root} /\ D \subseteq Nat
        /\ t.nodes \in [D -> Node] /\ t.parents \in [DOMAIN t.parents -> D]
        /\ DOMAIN t = {"nodes", "parents", "root", "nextId"}
    BY DEF Sound, Typed, ChildrenAreNodes, ParentsAgree
  <1>3. /\ DOMAIN nodes1 = D \ {leaf, p} /\ nodes1 \in [D \ {leaf, p} -> Node]
        /\ \A m \in D \ {leaf, p} : nodes1[m] = t.nodes[m]
    BY <1>2 DEF Without
  <1>4. /\ DOMAIN parents1 = D \ {leaf, p, t.root}
        /\ \A m \in D \ {leaf, p, t.root} : parents1[m] = t.parents[m]
        /\ parents1 = [z \in DOMAIN parents1 |-> parents1[z]]
    BY <1>2 DEF Without
  <1>5. /\ shrunk.nodes = nodes1 /\ shrunk.parents = parents1 /\ shrunk.root = t.root
        /\ shrunk.nextId = t.nextId /\ DOMAIN shrunk = {"nodes", "parents", "root", "nextId"}
    BY <1>2
  <1> HIDE DEF nodes1, parents1
  <1>6. CASE p = t.root
    <2> DEFINE parents2 == Without(parents1, {s})
    <2>1. u = [shrunk EXCEPT !.root = s, !.parents = Without(@, {s})]
      BY <1>6 DEF Remove, nodes1, parents1
    <2>2. /\ DOMAIN u = {"nodes", "parents", "root", "nextId"} /\ u.nodes = nodes1 /\ u.root = s
          /\ u.nextId = t.nextId /\ u.parents = parents2
      <3> HIDE DEF shrunk, u
      <3> QED
        BY <1>5, <2>1
    <2>3. /\ DOMAIN parents2 = D \ {leaf, p, s}
          /\ \A m \in D \ {leaf, p, s} : parents2[m] = t.parents[m]
          /\ parents2 = [z \in DOMAIN parents2 |-> parents2[z]]
      BY <1>1, <1>4, <1>6 DEF Without
    <2>4. parents2 \in [DOMAIN parents2 -> Nat]
      <3>1. \A m \in D \ {t.root} : t.parents[m] \in Nat
        BY <1>2
      <3> HIDE DEF parents2
      <3>2. \A m \in DOMAIN parents2 : parents2[m] \in Nat
        BY <1>6, <2>3, <3>1
      <3> QED
        BY <2>3, <3>2
    <2>5. Renamed(t, u, DOMAIN u.nodes, p, s)
      <3>1. \A m \in Containers(t) : t.nodes[m].first # p /\ t.nodes[m].second # p
        BY <1>6, RootIsNoChild, Kinds DEF Sound
      <3> HIDE DEF u
      <3> QED
        BY <1>3, <2>2, <3>1 DEF Renamed
    <2>6. Removed(t, u, leaf)
      <3> HIDE DEF u, parents2
      <3> QED
        BY <1>1, <1>3, <1>6, <2>2, <2>3, <2>4, <2>5 DEF Removed
    <2>7. \A m \in Leaves(t) \ {leaf} : u.nodes[m] = t.nodes[m] /\ leaf \notin DOMAIN u.nodes
      <3>1. \A m \in Leaves(t) : m \in D /\ m # p
        BY <1>1 DEF Leaves, Containers
      <3> HIDE DEF u
      <3> QED
        BY <1>3, <2>2, <3>1
    <2> QED
      BY <2>6, <2>7, <1>3, <2>2, RemovedIsSound DEF TakenOut
  <1>7. CASE p # t.root
    <2> DEFINE g == t.parents[p]
               node == t.nodes[g]
               rec == IF node.first = p THEN [node EXCEPT !.first = s]
                      ELSE IF node.second = p THEN [node EXCEPT !.second = s]
                      ELSE node
               nodes2 == [nodes1 EXCEPT ![g] = rec]
               parents2 == With(parents1, s, g)
    <2>1. /\ p \in DOMAIN t.parents /\ g \in Containers(t) /\ g \in D /\ g # p /\ g # leaf
          /\ \A m \in Containers(t) : p \in Children(t, m) => m = g
      <3>1. p \in DOMAIN t.parents
        BY <1>1, <1>2, <1>7
      <3>2. g \in Containers(t) /\ p \in Children(t, g)
            /\ \A m \in Containers(t) : p \in Children(t, m) => m = g
        BY <3>1, OneParent DEF Sound, ParentsAgree
      <3>3. g # p
        BY <3>2, NoSelfParent
      <3> QED
        BY <3>1, <3>2, <3>3 DEF Containers
    <2>2. u = ReplaceChild(shrunk, g, p, s)
      BY <1>7, <2>1 DEF Remove, HasParent, nodes1, parents1
    <2>3. IsContainer(shrunk, g) /\ shrunk.nodes[g] = t.nodes[g]
      <3> HIDE DEF shrunk
      <3> QED
        BY <1>3, <1>5, <2>1, Kinds DEF IsContainer, Containers, Sound
    <2>4. /\ DOMAIN u = {"nodes", "parents", "root", "nextId"} /\ u.nodes = nodes2 /\ u.root = t.root
          /\ u.nextId = t.nextId /\ u.parents = parents2
      <3> HIDE DEF shrunk
      <3>1. u = [shrunk EXCEPT !.nodes[g] = rec, !.parents = With(@, s, g)]
        BY <2>2, <2>3 DEF ReplaceChild
      <3> HIDE DEF rec, u
      <3>2. u.nodes = [shrunk.nodes EXCEPT ![g] = rec]
        BY <1>5, <3>1
      <3> QED
        BY <1>5, <3>1, <3>2
    <2> HIDE DEF u
    <2>5. /\ rec \in Node /\ rec.kind = t.nodes[g].kind /\ rec.slots = t.nodes[g].slots
          /\ rec.dock = t.nodes[g].dock
          /\ rec.first = IF t.nodes[g].first = p THEN s ELSE t.nodes[g].first
          /\ rec.second = IF t.nodes[g].second = p THEN s ELSE t.nodes[g].second
      <3>1. t.nodes[g] \in Node /\ t.nodes[g].first # t.nodes[g].second
        BY <1>2, <2>1 DEF Sound, ChildrenAreNodes
      <3> QED
        BY <1>1, <1>2, <3>1 DEF Node
    <2> HIDE DEF rec
    <2>6. /\ DOMAIN nodes2 = D \ {leaf, p} /\ nodes2 \in [D \ {leaf, p} -> Node]
          /\ nodes2[g] = rec /\ \A m \in D \ {leaf, p, g} : nodes2[m] = t.nodes[m]
      BY <1>3, <2>1, <2>5
    <2>7. Renamed(t, u, DOMAIN u.nodes, p, s)
      <3> SUFFICES ASSUME NEW m \in D \ {leaf, p} PROVE Renamed(t, u, {m}, p, s)
        BY <2>4, <2>6 DEF Renamed
      <3>1. CASE m = g
        <4>1. u.nodes[m] = rec /\ m \in Containers(t) /\ m \notin Leaves(t)
          BY <2>1, <2>4, <2>6, <3>1, Kinds DEF Sound
        <4> QED
          BY <2>5, <3>1, <4>1 DEF Renamed
      <3>2. CASE m # g
        <4>1. m \in Containers(t) => t.nodes[m].first # p /\ t.nodes[m].second # p
          BY <2>1, <3>2, Kinds DEF Sound
        <4> QED
          BY <2>4, <2>6, <3>2, <4>1 DEF Renamed
      <3> QED
        BY <3>1, <3>2
    <2>8. /\ DOMAIN parents2 = D \ {leaf, p, t.root} /\ parents2[s] = g
          /\ \A m \in D \ {leaf, p, s, t.root} : parents2[m] = t.parents[m]
          /\ parents2 = [z \in DOMAIN parents2 |-> parents2[z]]
      BY <1>1, <1>4 DEF With
    <2>9. parents2 \in [DOMAIN parents2 -> Nat]
      <3>1. g \in Nat /\ \A m \in D \ {t.root} : t.parents[m] \in Nat
        BY <1>2, <2>1
      <3> HIDE DEF parents2
      <3>2. \A m \in DOMAIN parents2 : parents2[m] \in Nat
        BY <2>8, <3>1
      <3> QED
        BY <2>8, <3>2
    <2>10. Removed(t, u, leaf)
      <3> HIDE DEF parents2, nodes2
      <3> QED
        BY <1>1, <1>7, <2>4, <2>6, <2>7, <2>8, <2>9 DEF Removed
    <2>11. \A m \in Leaves(t) \ {leaf} : u.nodes[m] = t.nodes[m]
      <3>1. \A m \in Leaves(t) : m \in D /\ m # p /\ m # g
        BY <1>1, <2>1 DEF Leaves, Containers
      <3> QED
        BY <2>4, <2>6, <3>1
    <2>12. Sound(u) /\ Leaves(u) = Leaves(t) \ {leaf}
      BY <2>10, RemovedIsSound
    <2> HIDE DEF nodes2
    <2>13. TakenOut(t, u, leaf)
      BY <2>4, <2>6, <2>11, <2>12 DEF TakenOut
    <2> QED
      BY <2>13 DEF u
  <1> QED
    BY <1>6, <1>7

-----------------------------------------------------------------------------
(* How many leaves there are.                                              *)

LEMMA LeavesAreFinite ==
  ASSUME NEW t, Sound(t)
  PROVE  IsFiniteSet(Leaves(t)) /\ Cardinality(Leaves(t)) \in Nat
  <1>1. Leaves(t) \subseteq 1..(t.nextId - 1) /\ t.nextId - 1 \in Int
    BY DEF Leaves, Sound, Typed
  <1>2. IsFiniteSet(1..(t.nextId - 1))
    BY <1>1, FS_Interval
  <1> QED
    BY <1>1, <1>2, FS_Subset, FS_CardinalityType

LEMMA TwoLeaves ==
  ASSUME NEW t, Sound(t), NEW a \in Leaves(t), NEW b \in Leaves(t), a # b
  PROVE  Cardinality(Leaves(t)) > 1
  <1>1. IsFiniteSet({a}) /\ Cardinality({a}) = 1
    BY FS_Singleton
  <1>2. IsFiniteSet({a} \cup {b}) /\ Cardinality({a} \cup {b}) = 2
    BY <1>1, FS_AddElement
  <1>3. Cardinality({a} \cup {b}) <= Cardinality(Leaves(t))
    BY <1>2, LeavesAreFinite, FS_Subset
  <1> QED
    BY <1>2, <1>3, LeavesAreFinite

\* Any leaf but the last can be taken out: a leaf that is the root is alone.
LEMMA AllRemovable ==
  ASSUME NEW t, Sound(t), NEW leaf \in Leaves(t), Cardinality(Leaves(t)) > 1
  PROVE  leaf # t.root /\ Removable(t, leaf)
  <1>1. leaf # t.root
    <2> SUFFICES ASSUME leaf = t.root PROVE FALSE
      OBVIOUS
    <2>1. Closed(t, {leaf})
      BY DEF Closed, Leaves, Containers
    <2>2. Leaves(t) = {leaf}
      BY <2>1 DEF Sound, Whole, Leaves
    <2>3. Cardinality({leaf}) = 1
      BY FS_Singleton
    <2> QED
      BY <2>2, <2>3
  <1>2. leaf \in DOMAIN t.parents /\ t.parents[leaf] \in Containers(t)
    BY <1>1, Family
  <1> QED
    BY <1>1, <1>2, Kinds DEF Removable, HasParent, Sound

-----------------------------------------------------------------------------
(* What the leaves hold.                                                   *)

\* An empty pane has nothing to be refilled with when the layout is rebuilt.
Settled(leaf) == leaf.slots = {} /\ leaf.dock # Undocked => DefaultPanels[leaf.dock] = {}
AllSettled(t) == \A n \in Leaves(t) : Settled(t.nodes[n])

\* No two panes hold the same panel, when no two docks start with the same.
DefaultsApart == \A d, e \in Docks : d # e => DefaultPanels[d] \cap DefaultPanels[e] = {}
Apart(t) == \A n, m \in Leaves(t) : n # m => t.nodes[n].slots \cap t.nodes[m].slots = {}

Inv(t) == Sound(t) /\ AllSettled(t) /\ (DefaultsApart => Apart(t))

\* A tree with the same leaves as another.
SameLeaves(t, u) == Leaves(u) = Leaves(t) /\ \A n \in Leaves(t) : u.nodes[n] = t.nodes[n]

LEMMA LeavesAreTyped ==
  ASSUME NEW t, Sound(t), NEW n \in Leaves(t)
  PROVE  /\ n \in DOMAIN t.nodes /\ n # t.nextId /\ t.nodes[n] \in Node /\ t.nodes[n].kind = "leaf"
         /\ t.nodes[n].slots \subseteq Panels /\ t.nodes[n].dock \in Docks \cup {Undocked}
  <1>1. n \in DOMAIN t.nodes /\ t.nodes[n] \in Node /\ t.nodes[n].kind = "leaf" /\ n # t.nextId
    BY DEF Leaves, Sound, Typed
  <1> QED
    BY <1>1 DEF Node

\* The panels of the layout are those of its leaves.
LEMMA PanelsAreInLeaves ==
  ASSUME NEW t, Sound(t), NEW panel
  PROVE  panel \in PanelsIn(t) <=> \E n \in Leaves(t) : panel \in t.nodes[n].slots
  <1>1. \A n \in DOMAIN t.nodes : n \in Leaves(t) \/ t.nodes[n].slots = {}
    BY DEF Containers, Sound, Typed
  <1>2. \A n \in Leaves(t) : n \in DOMAIN t.nodes
    BY DEF Leaves
  <1> QED
    BY <1>1, <1>2 DEF PanelsIn

\* Rebuilding the layout changes nothing.
LEMMA RebuildChangesNothing ==
  ASSUME NEW t, Sound(t), AllSettled(t)
  PROVE  Sound(Rebuild(t)) /\ SameLeaves(t, Rebuild(t))
  <1> DEFINE nodes1 == [n \in DOMAIN t.nodes |-> Refill(t, n)]
             u == Rebuild(t)
  <1>1. ASSUME NEW n \in DOMAIN t.nodes PROVE Refill(t, n) = t.nodes[n]
    <2>1. CASE n \in Leaves(t) /\ t.nodes[n].slots = {} /\ t.nodes[n].dock # Undocked
      <3>1. t.nodes[n] \in Node /\ DefaultPanels[t.nodes[n].dock] = {}
        BY <2>1, LeavesAreTyped DEF AllSettled, Settled
      <3>2. [t.nodes[n] EXCEPT !.slots = {}] = t.nodes[n]
        BY <2>1, <3>1 DEF Node
      <3> QED
        BY <3>1, <3>2 DEF Refill
    <2>2. CASE ~(n \in Leaves(t) /\ t.nodes[n].slots = {} /\ t.nodes[n].dock # Undocked)
      BY <2>2 DEF Refill
    <2> QED
      BY <2>1, <2>2
  <1>2. t.nodes \in [DOMAIN t.nodes -> Node] /\ DOMAIN t = {"nodes", "parents", "root", "nextId"}
    BY DEF Sound, Typed
  <1>3. nodes1 = t.nodes
    BY <1>1, <1>2
  <1>4. u = [t EXCEPT !.nodes = nodes1]
    BY DEF Rebuild
  <1> HIDE DEF u, nodes1
  <1>5. /\ u.nodes = t.nodes /\ u.parents = t.parents /\ u.root = t.root /\ u.nextId = t.nextId
        /\ DOMAIN u = {"nodes", "parents", "root", "nextId"}
    BY <1>2, <1>3, <1>4
  <1>6. Typed(u)
    BY <1>5 DEF Typed, Sound, Containers, Leaves
  <1>7. Sound(u) /\ Leaves(u) = Leaves(t)
    BY <1>5, <1>6, SameShape
  <1> QED
    BY <1>5, <1>7 DEF SameLeaves, u

LEMMA RebuildKeeps ==
  ASSUME NEW t, Inv(t)
  PROVE  /\ Inv(Rebuild(t))
         /\ \A panel : panel \in PanelsIn(Rebuild(t)) <=> panel \in PanelsIn(t)
  <1>1. Sound(Rebuild(t)) /\ SameLeaves(t, Rebuild(t)) /\ Sound(t)
    BY RebuildChangesNothing DEF Inv
  <1>2. \A panel : panel \in PanelsIn(Rebuild(t)) <=> panel \in PanelsIn(t)
    BY <1>1, PanelsAreInLeaves DEF SameLeaves
  <1> QED
    BY <1>1, <1>2 DEF Inv, AllSettled, Apart, SameLeaves

\* Giving a pane other panels.
GivenSlots(t, leaf, S) == [t EXCEPT !.nodes[leaf].slots = S]

LEMMA SlotsChanged ==
  ASSUME NEW t, Sound(t), NEW leaf \in Leaves(t), NEW S \in SUBSET Panels,
         NEW u, u = GivenSlots(t, leaf, S)
  PROVE  /\ Sound(u) /\ Leaves(u) = Leaves(t) /\ u.nextId = t.nextId
         /\ u.nodes[leaf].slots = S /\ u.nodes[leaf].dock = t.nodes[leaf].dock
         /\ \A n \in Leaves(t) \ {leaf} : u.nodes[n] = t.nodes[n]
  <1> DEFINE rec == [t.nodes[leaf] EXCEPT !.slots = S]
  <1>1. /\ t.nodes \in [DOMAIN t.nodes -> Node] /\ DOMAIN t = {"nodes", "parents", "root", "nextId"}
        /\ leaf \in DOMAIN t.nodes /\ t.nodes[leaf] \in Node /\ t.nodes[leaf].kind = "leaf"
    BY LeavesAreTyped DEF Sound, Typed
  <1>2. rec \in Node /\ rec.kind = "leaf" /\ rec.slots = S /\ rec.dock = t.nodes[leaf].dock
    BY <1>1 DEF Node
  <1>3. /\ u.nodes = [t.nodes EXCEPT ![leaf] = rec] /\ u.parents = t.parents /\ u.root = t.root
        /\ u.nextId = t.nextId /\ DOMAIN u = {"nodes", "parents", "root", "nextId"}
    BY <1>1 DEF GivenSlots
  <1> HIDE DEF rec
  <1>4. /\ u.nodes \in [DOMAIN t.nodes -> Node] /\ DOMAIN u.nodes = DOMAIN t.nodes
        /\ u.nodes[leaf] = rec /\ \A n \in DOMAIN t.nodes \ {leaf} : u.nodes[n] = t.nodes[n]
    BY <1>1, <1>2, <1>3
  <1>5. Leaves(u) = Leaves(t) /\ Containers(u) = Containers(t)
    BY <1>1, <1>2, <1>4 DEF Leaves, Containers
  <1>6. \A n \in Containers(t) : u.nodes[n] = t.nodes[n]
    BY <1>4 DEF Containers
  <1>7. Typed(u)
    BY <1>3, <1>4, <1>5, <1>6 DEF Typed, Sound
  <1>8. \A n \in DOMAIN t.nodes : u.nodes[n].kind = t.nodes[n].kind
    BY <1>1, <1>2, <1>4
  <1>9. Sound(u)
    BY <1>3, <1>4, <1>6, <1>7, <1>8, SameShape
  <1>10. \A n \in Leaves(t) \ {leaf} : n \in DOMAIN t.nodes
    BY DEF Leaves
  <1> QED
    BY <1>2, <1>3, <1>4, <1>5, <1>9, <1>10

\* Removing a pane when it is empty and not the only one.
LEMMA Collapsed ==
  ASSUME NEW t, Sound(t), NEW leaf \in Leaves(t), NEW other \in Leaves(t) \ {leaf},
         \A n \in Leaves(t) \ {leaf} : Settled(t.nodes[n]),
         NEW u, u = CollapseIfEmpty(t, leaf)
  PROVE  /\ Sound(u) /\ AllSettled(u)
         /\ Leaves(u) \subseteq Leaves(t) /\ \A n \in Leaves(u) : u.nodes[n] = t.nodes[n]
         /\ \A n \in Leaves(t) : n \in Leaves(u) \/ t.nodes[n].slots = {}
  <1>1. CASE t.nodes[leaf].slots = {}
    <2>1. Removable(t, leaf) /\ leaf # t.root
      BY TwoLeaves, AllRemovable
    <2>2. u = Remove(t, leaf)
      BY <1>1, <2>1 DEF CollapseIfEmpty, DeleteLeaf
    <2>3. TakenOut(t, u, leaf)
      BY <2>1, <2>2, RemoveTakesOut
    <2> QED
      BY <1>1, <2>3 DEF TakenOut, AllSettled
  <1>2. CASE t.nodes[leaf].slots # {}
    BY <1>2 DEF CollapseIfEmpty, AllSettled, Settled
  <1> QED
    BY <1>1, <1>2

LEMMA OrRootIsNode ==
  ASSUME NEW t, Sound(t), NEW anchor
  PROVE  OrRoot(t, anchor) \in DOMAIN t.nodes
  BY DEF OrRoot, Sound, ChildrenAreNodes

-----------------------------------------------------------------------------
(* The handlers keep the tree sound and lose no panel.                     *)

Keeps == Inv(tree') /\ \A panel : panel \in PanelsIn(tree) => panel \in PanelsIn(tree')

\* A tree that keeps the invariant before the layout is rebuilt keeps it after.
LEMMA KeepsWhenRebuilt ==
  ASSUME NEW v, Inv(v), tree' = Rebuild(v),
         \A panel : panel \in PanelsIn(tree) => panel \in PanelsIn(v)
  PROVE  Keeps
  BY RebuildKeeps DEF Keeps

\* A pane of its own for a record that comes from elsewhere.
LEMMA PutInKeeps ==
  ASSUME NEW t, NEW v, NEW leaf, Sound(t), AllSettled(t), Settled(leaf), PutIn(t, v, leaf),
         DefaultsApart => Apart(t) /\ \A n \in Leaves(t) : t.nodes[n].slots \cap leaf.slots = {}
  PROVE  Inv(v) /\ \A panel : panel \in PanelsIn(v) <=> panel \in PanelsIn(t) \cup leaf.slots
  <1>1. \A n \in Leaves(t) : n # t.nextId
    BY LeavesAreTyped
  <1>2. \A panel : panel \in PanelsIn(v) <=> panel \in PanelsIn(t) \cup leaf.slots
    BY PanelsAreInLeaves DEF PutIn
  <1> QED
    BY <1>1, <1>2 DEF Inv, PutIn, AllSettled, Apart

LEMMA DeletePaneKeeps ==
  ASSUME Inv(tree), NEW leaf \in Leaves(tree), DeletePane(leaf)
  PROVE  Inv(tree')
  <1> DEFINE v == Remove(tree, leaf)
  <1>1. Removable(tree, leaf) /\ leaf # tree.root
    BY AllRemovable DEF DeletePane, Inv
  <1>2. TakenOut(tree, v, leaf) /\ tree' = Rebuild(v)
    BY <1>1, RemoveTakesOut DEF DeletePane, DeleteLeaf, Inv
  <1> HIDE DEF v
  <1>3. Inv(v)
    BY <1>2 DEF Inv, TakenOut, AllSettled, Apart
  <1> QED
    BY <1>2, <1>3, RebuildKeeps

LEMMA MovePaneKeeps ==
  ASSUME Inv(tree), NEW from \in Leaves(tree), NEW anchor, NEW zone, MovePane(from, anchor, zone)
  PROVE  Keeps
  <1> DEFINE e == Remove(tree, from)
             target == OrRoot(e, InsertAnchor(tree, from, anchor, zone))
             v == InsertAdjacent(e, target, zone, tree.nodes[from])
  <1>1. Removable(tree, from) /\ from # tree.root
    BY AllRemovable DEF MovePane, Inv
  <1>2. TakenOut(tree, e, from)
    BY <1>1, RemoveTakesOut DEF Inv
  <1>3. tree' = Rebuild(v)
    BY <1>1 DEF MovePane, ExtractLeaf
  <1> HIDE DEF e
  <1>4. target \in DOMAIN e.nodes
    BY <1>2, OrRootIsNode DEF TakenOut
  <1>5. tree.nodes[from] \in Node /\ tree.nodes[from].kind = "leaf"
    BY LeavesAreTyped DEF Inv
  <1> HIDE DEF target
  <1>6. PutIn(e, v, tree.nodes[from])
    BY <1>2, <1>4, <1>5, InsertPutsIn DEF TakenOut
  <1> HIDE DEF v
  <1>7. Sound(e) /\ AllSettled(e) /\ Settled(tree.nodes[from])
    BY <1>2 DEF TakenOut, AllSettled, Inv
  <1>8. DefaultsApart =>
           Apart(e) /\ \A n \in Leaves(e) : e.nodes[n].slots \cap tree.nodes[from].slots = {}
    BY <1>2 DEF TakenOut, Apart, Inv
  <1>9. /\ Inv(v)
        /\ \A panel : panel \in PanelsIn(v) <=> panel \in PanelsIn(e) \cup tree.nodes[from].slots
    BY <1>6, <1>7, <1>8, PutInKeeps
  <1>10. ASSUME NEW panel \in PanelsIn(tree) PROVE panel \in PanelsIn(v)
    <2>1. PICK n \in Leaves(tree) : panel \in tree.nodes[n].slots
      BY PanelsAreInLeaves DEF Inv
    <2>2. n # from => n \in Leaves(e) /\ panel \in e.nodes[n].slots
      BY <1>2, <2>1 DEF TakenOut
    <2>3. n # from => panel \in PanelsIn(e)
      BY <1>7, <2>2, PanelsAreInLeaves
    <2> QED
      BY <1>9, <2>1, <2>3
  <1> QED
    BY <1>3, <1>9, <1>10, KeepsWhenRebuilt

LEMMA SwapPanesKeeps ==
  ASSUME Inv(tree), NEW a \in Leaves(tree), NEW b, SwapPanes(a, b)
  PROVE  Keeps
  <1> DEFINE v == SwapLeafContents(tree, a, b)
  <1>1. b \in Leaves(tree) /\ a # b /\ tree' = Rebuild(v)
    BY DEF SwapPanes
  <1>2. v = [tree EXCEPT !.nodes[a] = tree.nodes[b], !.nodes[b] = tree.nodes[a]]
    BY <1>1 DEF SwapLeafContents
  <1>3. /\ tree.nodes \in [DOMAIN tree.nodes -> Node]
        /\ DOMAIN tree = {"nodes", "parents", "root", "nextId"}
    BY DEF Inv, Sound, Typed
  <1>4. /\ a \in DOMAIN tree.nodes /\ tree.nodes[a].kind = "leaf" /\ tree.nodes[a] \in Node
        /\ b \in DOMAIN tree.nodes /\ tree.nodes[b].kind = "leaf" /\ tree.nodes[b] \in Node
    BY <1>1, LeavesAreTyped DEF Inv
  <1> HIDE DEF v
  <1>5. /\ v.nodes = [[tree.nodes EXCEPT ![a] = tree.nodes[b]] EXCEPT ![b] = tree.nodes[a]]
        /\ v.parents = tree.parents /\ v.root = tree.root /\ v.nextId = tree.nextId
        /\ DOMAIN v = {"nodes", "parents", "root", "nextId"}
    BY <1>2, <1>3
  <1>6. /\ v.nodes \in [DOMAIN tree.nodes -> Node] /\ DOMAIN v.nodes = DOMAIN tree.nodes
        /\ v.nodes[a] = tree.nodes[b] /\ v.nodes[b] = tree.nodes[a]
        /\ \A n \in DOMAIN tree.nodes \ {a, b} : v.nodes[n] = tree.nodes[n]
    BY <1>1, <1>3, <1>4, <1>5
  <1>7. \A n \in DOMAIN tree.nodes : /\ v.nodes[n].kind = tree.nodes[n].kind
                                     /\ n \in Containers(tree) => v.nodes[n] = tree.nodes[n]
    BY <1>1, <1>4, <1>6 DEF Containers
  <1>8. Containers(v) = Containers(tree)
    BY <1>6, <1>7 DEF Containers, Leaves
  <1>9. Typed(v)
    <2>1. \A n \in Containers(v) : v.nodes[n].slots = {}
      BY <1>7, <1>8 DEF Inv, Sound, Typed, Containers
    <2> QED
      BY <1>5, <1>6, <2>1 DEF Typed, Inv, Sound
  <1>10. Sound(v) /\ Leaves(v) = Leaves(tree)
    BY <1>5, <1>6, <1>7, <1>9, SameShape DEF Inv
  <1>11. \A n \in Leaves(tree) \ {a, b} : v.nodes[n] = tree.nodes[n]
    BY <1>6 DEF Leaves
  <1>12. AllSettled(v) /\ (DefaultsApart => Apart(v))
    BY <1>1, <1>6, <1>10, <1>11 DEF Inv, AllSettled, Apart
  <1>13. ASSUME NEW panel, panel \in PanelsIn(tree) PROVE panel \in PanelsIn(v)
    <2>1. PICK n \in Leaves(tree) : panel \in tree.nodes[n].slots
      BY <1>13, PanelsAreInLeaves DEF Inv
    <2>2. \E m \in Leaves(v) : panel \in v.nodes[m].slots
      BY <1>1, <1>6, <1>10, <1>11, <2>1
    <2> QED
      BY <1>10, <2>2, PanelsAreInLeaves
  <1> QED
    BY <1>1, <1>10, <1>12, <1>13, KeepsWhenRebuilt DEF Inv

LEMMA AddPanelKeeps ==
  ASSUME Inv(tree), NEW leaf \in Leaves(tree), NEW panel \in Panels, AddPanel(leaf, panel)
  PROVE  Keeps
  <1> DEFINE S == tree.nodes[leaf].slots \cup {panel}
             v == GivenSlots(tree, leaf, S)
  <1>1. S \in SUBSET Panels
    BY LeavesAreTyped DEF Inv
  <1>2. tree' = Rebuild(v)
    BY DEF AddPanel, GivenSlots
  <1>3. \A n \in Leaves(tree) : panel \notin tree.nodes[n].slots
    BY PanelsAreInLeaves DEF Inv, AddPanel
  <1>4. /\ Sound(v) /\ Leaves(v) = Leaves(tree) /\ v.nodes[leaf].slots = S
        /\ \A n \in Leaves(tree) \ {leaf} : v.nodes[n] = tree.nodes[n]
    BY <1>1, SlotsChanged DEF Inv
  <1> HIDE DEF v
  <1>5. AllSettled(v) /\ (DefaultsApart => Apart(v))
    <2>1. Settled(v.nodes[leaf])
      BY <1>4 DEF Settled
    <2>2. AllSettled(v)
      BY <1>4, <2>1 DEF Inv, AllSettled
    <2>3. \A n \in Leaves(tree) \ {leaf} : Apart(tree) => v.nodes[n].slots \cap v.nodes[leaf].slots = {}
      BY <1>3, <1>4 DEF Apart
    <2>4. Apart(tree) => Apart(v)
      BY <1>4, <2>3 DEF Apart
    <2> QED
      BY <2>2, <2>4 DEF Inv
  <1>6. ASSUME NEW x, x \in PanelsIn(tree) PROVE x \in PanelsIn(v)
    <2>1. PICK n \in Leaves(tree) : x \in tree.nodes[n].slots
      BY <1>6, PanelsAreInLeaves DEF Inv
    <2>2. x \in v.nodes[n].slots
      BY <1>4, <2>1
    <2> QED
      BY <1>4, <2>2, PanelsAreInLeaves
  <1> QED
    BY <1>2, <1>4, <1>5, <1>6, KeepsWhenRebuilt DEF Inv

\* A pane that has lost a panel goes when it is empty.
LEMMA CollapseKeeps ==
  ASSUME NEW t, Sound(t), NEW leaf \in Leaves(t), NEW other \in Leaves(t) \ {leaf},
         \A n \in Leaves(t) \ {leaf} : Settled(t.nodes[n]), DefaultsApart => Apart(t),
         NEW u, u = CollapseIfEmpty(t, leaf)
  PROVE  Inv(u) /\ \A panel : panel \in PanelsIn(u) <=> panel \in PanelsIn(t)
  <1>1. /\ Sound(u) /\ AllSettled(u)
        /\ Leaves(u) \subseteq Leaves(t) /\ \A n \in Leaves(u) : u.nodes[n] = t.nodes[n]
        /\ \A n \in Leaves(t) : n \in Leaves(u) \/ t.nodes[n].slots = {}
    BY Collapsed
  <1>2. Inv(u)
    BY <1>1 DEF Inv, Apart
  <1>3. \A panel : panel \in PanelsIn(u) <=> panel \in PanelsIn(t)
    BY <1>1, PanelsAreInLeaves
  <1> QED
    BY <1>2, <1>3

\* A panel taken from its pane.
LEMMA Taken ==
  ASSUME Inv(tree), NEW from \in Leaves(tree), NEW panel \in tree.nodes[from].slots,
         NEW t, t = TakeTab(tree, from, panel)
  PROVE  /\ Sound(t) /\ Leaves(t) = Leaves(tree) /\ t.nextId = tree.nextId
         /\ t.nodes[from].slots = tree.nodes[from].slots \ {panel}
         /\ \A n \in Leaves(tree) \ {from} : t.nodes[n] = tree.nodes[n]
         /\ \A n \in Leaves(tree) \ {from} : Settled(t.nodes[n])
         /\ DefaultsApart => Apart(t) /\ \A n \in Leaves(tree) : panel \notin t.nodes[n].slots
         /\ \A x : x \in PanelsIn(tree) => x = panel \/ x \in PanelsIn(t)
  <1> DEFINE S == tree.nodes[from].slots \ {panel}
  <1>1. S \in SUBSET Panels
    BY LeavesAreTyped DEF Inv
  <1>2. t = GivenSlots(tree, from, S)
    BY DEF TakeTab, GivenSlots
  <1>3. /\ Sound(t) /\ Leaves(t) = Leaves(tree) /\ t.nextId = tree.nextId /\ t.nodes[from].slots = S
        /\ \A n \in Leaves(tree) \ {from} : t.nodes[n] = tree.nodes[n]
    BY <1>1, <1>2, SlotsChanged DEF Inv
  <1>4. \A n \in Leaves(tree) \ {from} : Settled(t.nodes[n])
    BY <1>3 DEF Inv, AllSettled
  <1>5. \A n \in Leaves(tree) : t.nodes[n].slots \subseteq tree.nodes[n].slots
    BY <1>3
  <1>6. Apart(tree) => Apart(t)
    BY <1>3, <1>5 DEF Apart
  <1>7. Apart(tree) => \A n \in Leaves(tree) : panel \notin t.nodes[n].slots
    BY <1>3 DEF Apart
  <1>8. ASSUME NEW x, x \in PanelsIn(tree), x # panel PROVE x \in PanelsIn(t)
    <2>1. PICK n \in Leaves(tree) : x \in tree.nodes[n].slots
      BY <1>8, PanelsAreInLeaves DEF Inv
    <2>2. x \in t.nodes[n].slots
      BY <1>3, <1>8, <2>1
    <2> QED
      BY <1>3, <2>2, PanelsAreInLeaves
  <1> QED
    BY <1>3, <1>4, <1>6, <1>7, <1>8 DEF Inv

LEMMA MoveTabKeeps ==
  ASSUME Inv(tree), NEW from \in Leaves(tree), NEW panel \in Panels, NEW to,
         MoveTab(from, panel, to)
  PROVE  Keeps
  <1> DEFINE t == TakeTab(tree, from, panel)
             S == t.nodes[to].slots \cup {panel}
             m == GivenSlots(t, to, S)
             v == CollapseIfEmpty(m, from)
  <1>1. /\ to \in Leaves(tree) \ {from} /\ panel \in tree.nodes[from].slots
        /\ tree' = Rebuild(v)
    BY DEF MoveTab, GivenSlots
  <1>2. /\ Sound(t) /\ Leaves(t) = Leaves(tree)
        /\ \A n \in Leaves(tree) \ {from} : t.nodes[n] = tree.nodes[n]
        /\ \A n \in Leaves(tree) \ {from} : Settled(t.nodes[n])
        /\ DefaultsApart => Apart(t) /\ \A n \in Leaves(tree) : panel \notin t.nodes[n].slots
        /\ \A x : x \in PanelsIn(tree) => x = panel \/ x \in PanelsIn(t)
    BY <1>1, Taken
  <1> HIDE DEF t
  <1>3. S \in SUBSET Panels
    BY <1>1, <1>2, LeavesAreTyped
  <1>4. /\ Sound(m) /\ Leaves(m) = Leaves(tree) /\ m.nodes[to].slots = S
        /\ \A n \in Leaves(tree) \ {to} : m.nodes[n] = t.nodes[n]
    BY <1>1, <1>2, <1>3, SlotsChanged
  <1> HIDE DEF m
  <1>5. \A n \in Leaves(m) \ {from} : Settled(m.nodes[n])
    <2>1. Settled(m.nodes[to])
      BY <1>4 DEF Settled
    <2> QED
      BY <1>2, <1>4, <2>1
  <1>6. DefaultsApart => Apart(m)
    <2>1. ASSUME DefaultsApart, NEW n \in Leaves(tree), n # to
          PROVE  m.nodes[n].slots \cap m.nodes[to].slots = {}
      BY <1>1, <1>2, <1>4, <2>1 DEF Apart
    <2> QED
      BY <1>2, <1>4, <2>1 DEF Apart
  <1>7. ASSUME NEW x, x \in PanelsIn(tree) PROVE x \in PanelsIn(m)
    <2>1. CASE x = panel
      <3>1. x \in m.nodes[to].slots /\ to \in Leaves(m)
        BY <1>1, <1>4, <2>1
      <3> QED
        BY <1>4, <3>1, PanelsAreInLeaves
    <2>2. CASE x \in PanelsIn(t)
      <3>1. PICK n \in Leaves(t) : x \in t.nodes[n].slots
        BY <1>2, <2>2, PanelsAreInLeaves
      <3>2. x \in m.nodes[n].slots /\ n \in Leaves(m)
        BY <1>2, <1>4, <3>1
      <3> QED
        BY <1>4, <3>2, PanelsAreInLeaves
    <2> QED
      BY <1>2, <1>7, <2>1, <2>2
  <1>8. from \in Leaves(m) /\ to \in Leaves(m) \ {from}
    BY <1>1, <1>4
  <1>9. Inv(v) /\ \A x : x \in PanelsIn(v) <=> x \in PanelsIn(m)
    BY <1>4, <1>5, <1>6, <1>8, CollapseKeeps
  <1> HIDE DEF v
  <1> QED
    BY <1>1, <1>7, <1>9, KeepsWhenRebuilt

LEMMA MoveTabAdjacentKeeps ==
  ASSUME Inv(tree), NEW from \in Leaves(tree), NEW panel \in Panels, NEW anchor, NEW zone,
         MoveTabAdjacent(from, panel, anchor, zone)
  PROVE  Keeps
  <1> DEFINE t == TakeTab(tree, from, panel)
             target == OrRoot(t, InsertAnchor(t, from, anchor, zone))
             new == Leaf({panel}, Undocked)
             m == InsertAdjacent(t, target, zone, new)
             v == CollapseIfEmpty(m, from)
  <1>1. panel \in tree.nodes[from].slots /\ tree' = Rebuild(v)
    BY DEF MoveTabAdjacent
  <1>2. /\ Sound(t) /\ Leaves(t) = Leaves(tree)
        /\ \A n \in Leaves(tree) \ {from} : Settled(t.nodes[n])
        /\ DefaultsApart => Apart(t) /\ \A n \in Leaves(tree) : panel \notin t.nodes[n].slots
        /\ \A x : x \in PanelsIn(tree) => x = panel \/ x \in PanelsIn(t)
    BY <1>1, Taken
  <1> HIDE DEF t
  <1>3. target \in DOMAIN t.nodes
    BY <1>2, OrRootIsNode
  <1>4. new \in Node /\ new.kind = "leaf" /\ new.slots = {panel} /\ Settled(new)
    BY DEF Leaf, Node, Settled
  <1> HIDE DEF target, new
  <1>5. PutIn(t, m, new)
    BY <1>2, <1>3, <1>4, InsertPutsIn
  <1> HIDE DEF m
  <1>6. \A n \in Leaves(t) : n # t.nextId
    BY <1>2, LeavesAreTyped
  <1>7. /\ Sound(m) /\ Leaves(m) = Leaves(t) \cup {t.nextId} /\ m.nodes[t.nextId].slots = {panel}
        /\ Settled(m.nodes[t.nextId]) /\ \A n \in Leaves(t) : m.nodes[n] = t.nodes[n]
    BY <1>4, <1>5 DEF PutIn
  <1>8. \A n \in Leaves(m) \ {from} : Settled(m.nodes[n])
    BY <1>2, <1>7
  <1>9. DefaultsApart => Apart(m)
    BY <1>2, <1>6, <1>7 DEF Apart
  <1>10. ASSUME NEW x, x \in PanelsIn(tree) PROVE x \in PanelsIn(m)
    <2>1. CASE x = panel
      <3>1. x \in m.nodes[t.nextId].slots /\ t.nextId \in Leaves(m)
        BY <1>7, <2>1
      <3> QED
        BY <1>7, <3>1, PanelsAreInLeaves
    <2>2. CASE x \in PanelsIn(t)
      <3>1. PICK n \in Leaves(t) : x \in t.nodes[n].slots
        BY <1>2, <2>2, PanelsAreInLeaves
      <3>2. x \in m.nodes[n].slots /\ n \in Leaves(m)
        BY <1>7, <3>1
      <3> QED
        BY <1>7, <3>2, PanelsAreInLeaves
    <2> QED
      BY <1>2, <1>10, <2>1, <2>2
  <1>11. from \in Leaves(m) /\ t.nextId \in Leaves(m) \ {from}
    BY <1>2, <1>6, <1>7
  <1>12. Inv(v) /\ \A x : x \in PanelsIn(v) <=> x \in PanelsIn(m)
    BY <1>7, <1>8, <1>9, <1>11, CollapseKeeps
  <1> HIDE DEF v
  <1> QED
    BY <1>1, <1>10, <1>12, KeepsWhenRebuilt

-----------------------------------------------------------------------------
(* The invariant and the theorems.                                         *)

LEMMA StartsSound == Init => Inv(tree)
  <1> SUFFICES ASSUME Init PROVE Inv(tree)
    OBVIOUS
  <1> DEFINE t == InitialTree
  <1>1. /\ DOMAIN t = {"nodes", "parents", "root", "nextId"} /\ t.root = 5 /\ t.nextId = 6
        /\ DOMAIN t.nodes = {1, 2, 3, 4, 5} /\ DOMAIN t.parents = {1, 2, 3, 4}
        /\ t.parents[1] = 4 /\ t.parents[2] = 4 /\ t.parents[3] = 5 /\ t.parents[4] = 5
        /\ t.nodes[1] = Leaf(DefaultPanels["left"], "left")
        /\ t.nodes[2] = Leaf(DefaultPanels["center"], "center")
        /\ t.nodes[3] = Leaf(DefaultPanels["bottom"], "bottom")
        /\ t.nodes[4] = Container(1, 2) /\ t.nodes[5] = Container(4, 3)
        /\ t.nodes = [n \in DOMAIN t.nodes |-> t.nodes[n]]
        /\ t.parents = [n \in DOMAIN t.parents |-> t.parents[n]]
    BY DEF InitialTree
  <1>2. tree = t
    BY DEF Init
  <1> HIDE DEF t
  <1>3. \A d \in Docks : DefaultPanels[d] \subseteq Panels
    BY PanelsAssumption
  <1>4. \A n \in {1, 2, 3, 4, 5} : t.nodes[n] \in Node
    BY <1>1, <1>3 DEF Leaf, Container, Node, Docks, Undocked
  <1>5. Leaves(t) = {1, 2, 3} /\ Containers(t) = {4, 5}
    BY <1>1 DEF Leaves, Containers, Leaf, Container
  <1>6. Children(t, 4) = {1, 2} /\ Children(t, 5) = {3, 4}
    BY <1>1 DEF Children, IsContainer, Container
  <1>7. Typed(t)
    <2>1. t.nodes \in [DOMAIN t.nodes -> Node]
      BY <1>1, <1>4
    <2>2. t.parents \in [DOMAIN t.parents -> DOMAIN t.nodes]
      BY <1>1
    <2>3. DOMAIN t.nodes \subseteq 1..(t.nextId - 1)
      BY <1>1
    <2>4. \A n \in Containers(t) : t.nodes[n].slots = {}
      BY <1>1, <1>5 DEF Container
    <2> QED
      BY <1>1, <2>1, <2>2, <2>3, <2>4 DEF Typed
  <1>8. ChildrenAreNodes(t)
    BY <1>1, <1>5, <1>6 DEF ChildrenAreNodes, Container
  <1>9. ParentsAgree(t)
    BY <1>1, <1>5, <1>6 DEF ParentsAgree
  <1>10. Whole(t)
    BY <1>1, <1>5, <1>6 DEF Whole, Closed
  <1>11. AllSettled(t)
    BY <1>1, <1>5 DEF AllSettled, Settled, Leaf
  <1>12. DefaultsApart => Apart(t)
    BY <1>1, <1>5 DEF DefaultsApart, Apart, Leaf, Docks
  <1> QED
    BY <1>2, <1>7, <1>8, <1>9, <1>10, <1>11, <1>12 DEF Inv, Sound

\* Every step keeps the invariant, and only deleting a pane loses panels.
LEMMA StepKeeps ==
  ASSUME Inv(tree), Next
  PROVE  /\ Inv(tree')
         /\ PanelsIn(tree) \subseteq PanelsIn(tree') \/ \E leaf \in Leaves(tree) : DeletePane(leaf)
  <1>1. PICK leaf \in Leaves(tree) :
           \/ \E anchor \in DOMAIN tree.nodes, zone \in Zones : Restructure(leaf, anchor, zone)
           \/ \E other \in Leaves(tree) : Rearrange(leaf, other)
           \/ DeletePane(leaf)
           \/ \E panel \in Panels : AddPanel(leaf, panel)
    BY DEF Next
  <1>2. CASE \E anchor \in DOMAIN tree.nodes, zone \in Zones : Restructure(leaf, anchor, zone)
    BY <1>2, MovePaneKeeps, MoveTabAdjacentKeeps DEF Restructure, Keeps
  <1>3. CASE \E other \in Leaves(tree) : Rearrange(leaf, other)
    BY <1>3, SwapPanesKeeps, MoveTabKeeps DEF Rearrange, Keeps
  <1>4. CASE DeletePane(leaf)
    BY <1>4, DeletePaneKeeps
  <1>5. CASE \E panel \in Panels : AddPanel(leaf, panel)
    BY <1>5, AddPanelKeeps DEF Keeps
  <1> QED
    BY <1>1, <1>2, <1>3, <1>4, <1>5

LEMMA StutterKeeps ==
  ASSUME Inv(tree), UNCHANGED tree
  PROVE  Inv(tree')
  <1>1. tree' = tree
    OBVIOUS
  <1> QED
    BY <1>1

LEMMA AlwaysSound == Spec => []Inv(tree)
  <1>1. Inv(tree) /\ [Next]_tree => Inv(tree)'
    BY StepKeeps, StutterKeeps
  <1> QED
    BY <1>1, StartsSound, PTL DEF Spec

\* The fields of the tree have their types.
THEOREM TypeCorrect == Spec => []TypeOK
  <1>1. Inv(tree) => TypeOK
    BY SoundShows DEF Inv
  <1> QED
    BY <1>1, AlwaysSound, PTL

\* delete_leaf refuses no pane but the last.
LEMMA OthersCanBeDeleted == Inv(tree) => OnlyLastPaneIsKept
  <1> SUFFICES ASSUME Inv(tree), Cardinality(Leaves(tree)) > 1, NEW leaf \in Leaves(tree)
               PROVE  leaf \notin DOMAIN DeleteLeaf(tree, leaf).nodes
    BY DEF OnlyLastPaneIsKept
  <1>1. Removable(tree, leaf) /\ leaf # tree.root
    BY AllRemovable DEF Inv
  <1> QED
    BY <1>1, RemoveTakesOut DEF DeleteLeaf, TakenOut, Inv

\* However the user deletes, swaps and moves panes and moves tabs, the four fields
\* of LayoutTree describe one tree that has every node on the screen, and every pane
\* but the last one can be deleted.
THEOREM AlwaysOneTree == Spec => []OneTree
  <1>1. Inv(tree) => OneTree
    BY SoundShows, OthersCanBeDeleted DEF Inv, OneTree
  <1> QED
    BY <1>1, AlwaysSound, PTL

\* No panel is in two panes, when no two docks start with the same one.
THEOREM PanelsStayInOnePane == DefaultsApart /\ Spec => []PanelsInOnePane
  <1> SUFFICES ASSUME DefaultsApart PROVE Spec => []PanelsInOnePane
    OBVIOUS
  <1>1. Inv(tree) => PanelsInOnePane
    BY DEF Inv, Apart, PanelsInOnePane
  <1> QED
    BY <1>1, AlwaysSound, PTL

\* No swap or move loses a panel: only deleting a pane takes panels away.
THEOREM NoPanelIsLost == Spec => PanelsSurvive
  <1>1. Inv(tree) /\ [Next]_tree =>
          [PanelsIn(tree) \subseteq PanelsIn(tree') \/ \E leaf \in Leaves(tree) : DeletePane(leaf)]_tree
    BY StepKeeps
  <1> QED
    BY <1>1, AlwaysSound, PTL DEF Spec, PanelsSurvive

-----------------------------------------------------------------------------
(* Menus and drags.                                                        *)

\* A menu holds items that can be chosen and shows one of its own.
MenuInv ==
    /\ menu.kind \in {"none", "pane"} \cup Previewing \cup Direct
    /\ retained \in BOOLEAN
    /\ \A item \in menu.items : ItemOK(item) /\ ItemIsLive(item)
    /\ ItemOK(preview) /\ PreviewIsOfMenu

\* A drag is of a tab that is there, and only a menu of another component is open in
\* the middle of it.
DragInv ==
    /\ drag.state \in {"none", "pending", "active"} /\ drag.leaf \in Nat
    /\ drag.panel \in Panels \cup {"none"}
    /\ drag.state = "none" => drag = NoDrag
    /\ drag # NoDrag => /\ drag.leaf \in Panes
                        /\ drag.panel \in tree.nodes[drag.leaf].slots \cup {"none"}
                        /\ \A item \in menu.items : item.act = "other"

GestureInv == Inv(tree) /\ MenuInv /\ DragInv

-----------------------------------------------------------------------------
(* The items of each menu.                                                 *)

Choosable(items) == \A item \in items : ItemOK(item) /\ ItemIsLive(item)

LEMMA PanesAreNodes ==
  ASSUME Inv(tree)
  PROVE  /\ \A n \in Panes : n \in DOMAIN tree.nodes
         /\ \A n \in DOMAIN tree.nodes : n \in Nat
  BY DEF Inv, Sound, Typed, Panes, Leaves

\* An item can be chosen when it was given what its action looks for.
LEMMA Suffices ==
  ASSUME NEW act \in {"rename", "delete", "swap with", "move to", "swap", "beside", "place", "add",
                      "more", "other"},
         NEW leaf \in Nat, NEW node \in Nat, NEW zone \in Zones \cup {"none"},
         NEW panel \in Panels \cup {"none"},
         act # "other" => leaf \in Panes,
         act \in {"swap", "beside"} => node \in Panes /\ node # leaf,
         act = "place" => node \in DOMAIN tree.nodes /\ zone \in Zones
  PROVE  ItemOK(Item(act, leaf, node, zone, panel)) /\ ItemIsLive(Item(act, leaf, node, zone, panel))
  <1> DEFINE item == Item(act, leaf, node, zone, panel)
  <1>1. /\ item.act = act /\ item.leaf = leaf /\ item.node = node
        /\ item.zone = zone /\ item.panel = panel
    BY DEF Item
  <1> HIDE DEF item
  <1>2. ItemOK(item) /\ ItemIsLive(item)
    BY <1>1 DEF ItemOK, ItemIsLive
  <1> QED
    BY <1>2 DEF item

LEMMA PaneItemsChoosable ==
  ASSUME Inv(tree), NEW leaf \in Panes
  PROVE  Choosable(PaneItems(leaf))
  <1> SUFFICES ASSUME NEW item \in PaneItems(leaf) PROVE ItemOK(item) /\ ItemIsLive(item)
    BY DEF Choosable
  <1>1. PICK act \in {"rename", "delete", "swap with", "move to"} :
           item = Item(act, leaf, 0, "none", "none")
    BY DEF PaneItems
  <1> QED
    BY <1>1, Suffices, PanesAreNodes

LEMMA TargetItemsChoosable ==
  ASSUME Inv(tree), NEW leaf \in Panes, NEW act \in {"swap", "beside"}
  PROVE  Choosable(TargetItems(act, leaf))
  <1> SUFFICES ASSUME NEW item \in TargetItems(act, leaf) PROVE ItemOK(item) /\ ItemIsLive(item)
    BY DEF Choosable
  <1>1. PICK other \in Panes \ {leaf} : item = Item(act, leaf, other, "none", "none")
    BY DEF TargetItems
  <1> QED
    BY <1>1, Suffices, PanesAreNodes

LEMMA PlacementItemsChoosable ==
  ASSUME Inv(tree), NEW leaf \in Panes, NEW other \in Panes, other # leaf
  PROVE  Choosable(PlacementItems(leaf, other))
  <1> SUFFICES ASSUME NEW item \in PlacementItems(leaf, other)
               PROVE  ItemOK(item) /\ ItemIsLive(item)
    BY DEF Choosable
  <1>1. CASE item = Item("swap", leaf, other, "none", "none")
    BY <1>1, Suffices, PanesAreNodes
  <1>2. CASE item # Item("swap", leaf, other, "none", "none")
    <2>1. PICK node \in {other} \cup Groups(other), zone \in Zones :
             item = Item("place", leaf, node, zone, "none")
      BY <1>2 DEF PlacementItems
    <2>2. node \in DOMAIN tree.nodes
      BY PanesAreNodes DEF Groups
    <2> QED
      BY <2>1, <2>2, Suffices, PanesAreNodes
  <1> QED
    BY <1>1, <1>2

LEMMA AddItemsChoosable ==
  ASSUME Inv(tree), NEW leaf \in Panes
  PROVE  Choosable(AddItems(leaf))
  <1> SUFFICES ASSUME NEW item \in AddItems(leaf) PROVE ItemOK(item) /\ ItemIsLive(item)
    BY DEF Choosable
  <1>1. PICK act \in {"more", "add"}, panel \in Panels \cup {"none"} :
           item = Item(act, leaf, 0, "none", panel)
    BY DEF AddItems
  <1> QED
    BY <1>1, Suffices, PanesAreNodes

LEMMA OtherItemChoosable ==
  LET other == Item("other", 0, 0, "none", "none")
  IN Choosable({other}) /\ other.act = "other"
  <1>1. /\ ItemOK(Item("other", 0, 0, "none", "none"))
        /\ ItemIsLive(Item("other", 0, 0, "none", "none"))
    BY Suffices
  <1> QED
    BY <1>1 DEF Choosable, Item

-----------------------------------------------------------------------------
(* Opening and closing.                                                    *)

LEMMA ItemsStay ==
  ASSUME UNCHANGED tree
  PROVE  /\ Panes' = Panes
         /\ \A item : ItemIsLive(item)' <=> ItemIsLive(item)
  BY DEF Panes, Leaves, ItemIsLive

LEMMA SpecialItems == ItemOK(NoItem) /\ ItemOK(StaleItem) /\ NoMenu.items = {} /\ NoMenu.kind = "none"
  BY DEF ItemOK, NoItem, StaleItem, Item, NoMenu

LEMMA CloseKeeps ==
  ASSUME MenuInv, Close
  PROVE  MenuInv' /\ menu'.items = {}
  BY SpecialItems DEF MenuInv, Close, PreviewIsOfMenu

LEMMA OpenKeeps ==
  ASSUME MenuInv, UNCHANGED tree,
         NEW kind \in {"pane"} \cup Previewing, NEW items, Choosable(items), Open(kind, items)
  PROVE  MenuInv'
  <1>1. CASE items = {}
    BY <1>1, SpecialItems DEF MenuInv, Open, PreviewIsOfMenu
  <1>2. CASE items # {}
    <2>1. menu'.kind = kind /\ menu'.items = items
      BY <1>2 DEF Open
    <2>0. retained' \in BOOLEAN
      <3>1. retained' = (kind \in Previewing)
        BY <1>2 DEF Open
      <3>2. CASE kind \in Previewing
        BY <3>1, <3>2
      <3>3. CASE kind \notin Previewing
        BY <3>1, <3>3
      <3> QED
        BY <3>2, <3>3
    <2>2. \A item \in menu'.items : ItemOK(item)' /\ ItemIsLive(item)'
      BY <2>1, ItemsStay DEF Choosable, ItemOK
    <2>3. preview' \in items \/ preview' = NoItem
      BY <1>2 DEF Open
    <2>4. ItemOK(preview)'
      BY <2>3, SpecialItems DEF Choosable, ItemOK
    <2>5. PreviewIsOfMenu'
      BY <2>1, <2>3 DEF PreviewIsOfMenu
    <2> QED
      BY <2>0, <2>1, <2>2, <2>4, <2>5 DEF MenuInv
  <1> QED
    BY <1>1, <1>2

LEMMA OpenDirectlyKeeps ==
  ASSUME MenuInv, UNCHANGED tree,
         NEW kind \in Direct, NEW items, Choosable(items), OpenDirectly(kind, items)
  PROVE  MenuInv' /\ menu'.items = items
  <1>1. menu'.kind = kind /\ menu'.items = items /\ retained' = retained
    BY DEF OpenDirectly
  <1>2. \A item \in menu'.items : ItemOK(item)' /\ ItemIsLive(item)'
    BY <1>1, ItemsStay DEF Choosable, ItemOK
  <1>3. ItemOK(preview)'
    BY SpecialItems DEF OpenDirectly, ItemOK
  <1> QED
    BY <1>1, <1>2, <1>3 DEF MenuInv, PreviewIsOfMenu

-----------------------------------------------------------------------------
(* Menus that open, and what is chosen in them.                            *)

\* A menu opens while nothing is dragged, or nothing of it is about the layout.
LEMMA DragStays ==
  ASSUME DragInv, UNCHANGED <<tree, drag>>, drag = NoDrag \/ menu'.items = {}
  PROVE  DragInv'
  BY DEF DragInv, Panes, Leaves

LEMMA ShowingKeeps ==
  ASSUME GestureInv,
         \/ \E leaf \in Panes : PaneMenu(leaf) \/ AddMenu(leaf)
         \/ OtherMenu
         \/ \E item \in menu.items : PointAt(item)
         \/ Dismiss
  PROVE  MenuInv' /\ DragInv'
  <1>1. Inv(tree) /\ MenuInv /\ DragInv
    BY DEF GestureInv
  <1>2. CASE \E leaf \in Panes : PaneMenu(leaf)
    <2>1. drag = NoDrag /\ UNCHANGED <<tree, drag>>
      BY <1>1, <1>2 DEF PaneMenu, DragInv
    <2> QED
      BY <1>1, <1>2, <2>1, PaneItemsChoosable, OpenKeeps, DragStays DEF PaneMenu
  <1>3. CASE \E leaf \in Panes : AddMenu(leaf)
    <2>1. drag = NoDrag /\ UNCHANGED <<tree, drag>>
      BY <1>1, <1>3 DEF AddMenu, DragInv
    <2> QED
      BY <1>1, <1>3, <2>1, AddItemsChoosable, OpenDirectlyKeeps, DragStays DEF AddMenu, Direct
  <1>4. CASE OtherMenu
    <2>1. UNCHANGED <<tree, drag>>
      BY <1>4 DEF OtherMenu
    <2>2. MenuInv' /\ \A item \in menu'.items : item.act = "other"
      BY <1>1, <1>4, <2>1, OtherItemChoosable, OpenDirectlyKeeps DEF OtherMenu, Direct
    <2>3. DragInv'
      BY <1>1, <2>1, <2>2 DEF DragInv, Panes, Leaves
    <2> QED
      BY <2>2, <2>3
  <1>5. CASE \E item \in menu.items : PointAt(item)
    <2>1. PICK item \in menu.items : PointAt(item)
      BY <1>5
    <2>2. UNCHANGED <<tree, menu, retained, drag>>
      BY <2>1 DEF PointAt
    <2>3. DragInv'
      BY <1>1, <2>2 DEF DragInv, Panes, Leaves
    <2>4. \/ preview' \in menu.items
          \/ preview' = preview
          \/ preview' = StaleItem /\ menu.kind \in Direct
      BY <2>1 DEF PointAt
    <2>5. ItemOK(preview)'
      BY <1>1, <2>4, SpecialItems DEF MenuInv, ItemOK
    <2>6. PreviewIsOfMenu'
      BY <1>1, <2>2, <2>4 DEF MenuInv, PreviewIsOfMenu
    <2>7. \A i \in menu'.items : ItemOK(i)' /\ ItemIsLive(i)'
      BY <1>1, <2>2, ItemsStay DEF MenuInv, ItemOK
    <2> QED
      BY <1>1, <2>2, <2>3, <2>5, <2>6, <2>7 DEF MenuInv
  <1>6. CASE Dismiss
    BY <1>1, <1>6, CloseKeeps, DragStays DEF Dismiss
  <1> QED
    BY <1>2, <1>3, <1>4, <1>5, <1>6

\* Choosing an item that opens a menu or does nothing to the layout.
LEMMA ChoosingKeeps ==
  ASSUME GestureInv, NEW item \in menu.items, Choose(item)
  PROVE  /\ UNCHANGED drag
         /\ \/ UNCHANGED tree /\ MenuInv' /\ DragInv'
            \/ Do(item) /\ Close
  <1>1. Inv(tree) /\ MenuInv /\ DragInv /\ ItemIsLive(item)
    BY DEF GestureInv, MenuInv
  <1>2. UNCHANGED drag
    BY DEF Choose
  <1>3. CASE item.act \in {"rename", "other"} /\ Close /\ Kept
    BY <1>1, <1>2, <1>3, CloseKeeps, DragStays DEF Kept
  <1>4. CASE item.act \in {"swap with", "move to", "beside", "more"} /\ Kept
    <2>1. item.leaf \in Panes /\ drag = NoDrag /\ UNCHANGED <<tree, drag>>
      BY <1>1, <1>2, <1>4 DEF ItemIsLive, DragInv, Kept
    <2>2. CASE item.act = "swap with"
      <3>1. Open("swap", TargetItems("swap", item.leaf))
        BY <2>2 DEF Choose, Do
      <3> QED
        BY <1>1, <2>1, <3>1, TargetItemsChoosable, OpenKeeps, DragStays DEF Previewing
    <2>3. CASE item.act = "move to"
      <3>1. Open("move", TargetItems("beside", item.leaf))
        BY <2>3 DEF Choose, Do
      <3> QED
        BY <1>1, <2>1, <3>1, TargetItemsChoosable, OpenKeeps, DragStays DEF Previewing
    <2>4. CASE item.act = "beside"
      <3>1. Open("place", PlacementItems(item.leaf, item.node))
        BY <2>4 DEF Choose, Do
      <3>2. item.node \in Panes /\ item.node # item.leaf
        BY <1>1, <2>4 DEF ItemIsLive
      <3> QED
        BY <1>1, <2>1, <3>1, <3>2, PlacementItemsChoosable, OpenKeeps, DragStays DEF Previewing
    <2>5. CASE item.act = "more"
      <3>1. OpenDirectly("add", AddItems(item.leaf))
        BY <2>5 DEF Choose, Do
      <3> QED
        BY <1>1, <2>1, <3>1, AddItemsChoosable, OpenDirectlyKeeps, DragStays DEF Direct
    <2> QED
      BY <1>2, <1>4, <2>2, <2>3, <2>4, <2>5
  <1>5. CASE Do(item) /\ Close
    BY <1>2, <1>5
  <1> QED
    BY <1>3, <1>4, <1>5 DEF Choose

-----------------------------------------------------------------------------
(* What the gestures do to the layout.                                     *)

\* A step of the gestures is one of the layout, or leaves it as it is.
Within == Next \/ UNCHANGED tree

LEMMA MoveOrNotWithin ==
  ASSUME NEW leaf \in Panes, NEW node \in DOMAIN tree.nodes, NEW zone \in Zones,
         MoveOrNot(leaf, node, zone)
  PROVE  Within
  BY DEF Within, MoveOrNot, Kept, Next, Restructure, Panes

LEMMA DoWithin ==
  ASSUME Inv(tree), NEW item, ItemOK(item), ItemIsLive(item), Do(item)
  PROVE  Within
  <1>1. item.leaf \in Leaves(tree)
    BY DEF Do, ItemIsLive, Panes
  <1>2. CASE item.act = "delete" /\ DeletePane(item.leaf)
    BY <1>1, <1>2 DEF Within, Next
  <1>3. CASE item.act = "swap" /\ SwapPanes(item.leaf, item.node)
    BY <1>1, <1>3 DEF Within, Next, Rearrange, SwapPanes
  <1>4. CASE item.act = "place" /\ MoveOrNot(item.leaf, item.node, item.zone)
    <2>1. item.node \in DOMAIN tree.nodes /\ item.zone \in Zones
      BY <1>4 DEF ItemIsLive
    <2> QED
      BY <1>1, <1>4, <2>1, MoveOrNotWithin DEF Panes
  <1>5. CASE item.act = "add" /\ AddOrMove(item.leaf, item.panel)
    <2>1. CASE AddPanel(item.leaf, item.panel)
      BY <1>1, <2>1 DEF Within, Next, AddPanel
    <2>2. CASE \E from \in Panes : MoveTab(from, Source, item.leaf)
      BY <1>1, <2>2, PanelsAssumption DEF Within, Next, Rearrange, Panes
    <2> QED
      BY <1>5, <2>1, <2>2 DEF AddOrMove
  <1> QED
    BY <1>2, <1>3, <1>4, <1>5 DEF Do

\* A drop is on a node, and in the middle only of a pane.
LEMMA TargetsAreNodes ==
  ASSUME Inv(tree), NEW over \in Panes, NEW target \in DropTargets(over)
  PROVE  /\ target.node \in DOMAIN tree.nodes
         /\ \/ target.zone \in Zones
            \/ target.zone = "center" /\ target.node \in Leaves(tree)
  <1>1. tree.root \in DOMAIN tree.nodes /\ over \in Leaves(tree) /\ over \in DOMAIN tree.nodes
    BY DEF Inv, Sound, ChildrenAreNodes, Panes, Leaves
  <1>2. CASE target \in ShellTargets \cup SpanTargets
    BY <1>1, <1>2 DEF ShellTargets, SpanTargets
  <1>3. CASE target \in PaneTargets(over)
    BY <1>1, <1>3 DEF PaneTargets
  <1> QED
    BY <1>2, <1>3 DEF DropTargets

LEMMA DropWithin ==
  ASSUME GestureInv, NEW over \in Panes, NEW target \in DropTargets(over), Drop(target)
  PROVE  Within
  <1>1. /\ target.node \in DOMAIN tree.nodes
        /\ target.zone \in Zones \/ (target.zone = "center" /\ target.node \in Leaves(tree))
        /\ "center" \notin Zones
    BY TargetsAreNodes DEF GestureInv, Zones
  <1>2. drag.leaf \in Leaves(tree) /\ drag.leaf \in Panes /\ drag.panel \in Panels \cup {"none"}
    BY DEF Drop, GestureInv, DragInv, NoDrag, Panes
  <1>3. CASE DropPane(drag.leaf, target)
    <2>1. CASE target.zone = "center"
      BY <1>1, <1>2, <1>3, <2>1 DEF DropPane, Within, Next, Rearrange
    <2>2. CASE target.zone \in Zones
      BY <1>1, <1>2, <1>3, <2>2, MoveOrNotWithin DEF DropPane
    <2> QED
      BY <1>1, <2>1, <2>2
  <1>4. CASE DropTab(drag.leaf, drag.panel, target)
    <2>1. CASE target.zone = "center"
      <3>1. MoveTab(drag.leaf, drag.panel, target.node)
        BY <1>4, <2>1 DEF DropTab
      <3>2. drag.panel \in Panels
        BY <1>2, <3>1, LeavesAreTyped DEF GestureInv, Inv, MoveTab
      <3> QED
        BY <1>1, <1>2, <2>1, <3>1, <3>2 DEF Within, Next, Rearrange
    <2>2. CASE target.zone \in Zones /\ drag.panel # Source
      <3>1. MoveTabAdjacent(drag.leaf, drag.panel, target.node, target.zone)
        BY <1>1, <1>4, <2>2 DEF DropTab
      <3>2. drag.panel \in Panels
        BY <1>2, <3>1, LeavesAreTyped DEF GestureInv, Inv, MoveTabAdjacent
      <3> QED
        BY <1>1, <1>2, <2>2, <3>1, <3>2 DEF Within, Next, Restructure
    <2>3. CASE target.zone \in Zones /\ drag.panel = Source
      BY <1>1, <1>2, <1>4, <2>3, MoveOrNotWithin DEF DropTab
    <2> QED
      BY <1>1, <2>1, <2>2, <2>3
  <1> QED
    BY <1>3, <1>4 DEF Drop, DropWhatIsDragged

-----------------------------------------------------------------------------
(* The invariant and the theorems.                                         *)

LEMMA TreeKeeps ==
  ASSUME Inv(tree), Within
  PROVE  Inv(tree')
  <1>1. CASE Next
    BY <1>1, StepKeeps
  <1>2. CASE UNCHANGED tree
    BY <1>2, StutterKeeps
  <1> QED
    BY <1>1, <1>2 DEF Within

\* A drag that ends or begins.
LEMMA DraggingKeeps ==
  ASSUME GestureInv,
         \/ \E leaf \in Panes, panel \in Panels \cup {"none"} : Press(leaf, panel)
         \/ MoveAway \/ Click \/ Cancel
  PROVE  UNCHANGED tree /\ MenuInv' /\ DragInv'
  <1>1. Inv(tree) /\ MenuInv /\ DragInv
    BY DEF GestureInv
  <1>2. CASE \E leaf \in Panes, panel \in Panels \cup {"none"} : Press(leaf, panel)
    <2>1. PICK leaf \in Panes, panel \in Panels \cup {"none"} : Press(leaf, panel)
      BY <1>2
    <2>2. UNCHANGED tree /\ MenuInv' /\ menu'.items = {}
      BY <1>1, <2>1, CloseKeeps DEF Press, Kept
    <2>3. leaf \in Nat
      BY <1>1, PanesAreNodes
    <2>4. DragInv'
      BY <2>1, <2>2, <2>3, ItemsStay DEF Press, DragInv
    <2> QED
      BY <2>2, <2>4
  <1>3. CASE MoveAway
    <2>1. UNCHANGED <<tree, menu, retained, preview>> /\ MenuInv'
      BY <1>1, <1>3, ItemsStay DEF MoveAway, MenuInv, ItemOK, PreviewIsOfMenu
    <2>2. /\ drag'.state = "active" /\ drag'.leaf = drag.leaf /\ drag'.panel = drag.panel
          /\ drag # NoDrag
      BY <1>3 DEF MoveAway, NoDrag
    <2> QED
      BY <1>1, <2>1, <2>2, ItemsStay DEF DragInv
  <1>4. CASE Click
    <2>1. UNCHANGED tree /\ drag' = NoDrag /\ drag # NoDrag /\ drag.leaf \in Panes
      BY <1>1, <1>4 DEF Click, Kept, DragInv, NoDrag
    <2>2. MenuInv'
      <3>1. CASE OpenDirectly("add", AddItems(drag.leaf))
        BY <1>1, <2>1, <3>1, AddItemsChoosable, OpenDirectlyKeeps DEF Direct
      <3>2. CASE UNCHANGED <<menu, retained, preview>>
        BY <1>1, <2>1, <3>2, ItemsStay DEF MenuInv, ItemOK, PreviewIsOfMenu
      <3> QED
        BY <1>4, <3>1, <3>2 DEF Click
    <2>3. DragInv'
      BY <1>1, <2>1 DEF DragInv, NoDrag
    <2> QED
      BY <2>1, <2>2, <2>3
  <1>5. CASE Cancel
    <2>1. UNCHANGED <<tree, menu, retained, preview>> /\ MenuInv' /\ drag' = NoDrag
      BY <1>1, <1>5, ItemsStay, ZenonT(60) DEF Cancel, MenuInv, ItemOK, PreviewIsOfMenu
    <2> QED
      BY <1>1, <2>1 DEF DragInv, NoDrag
  <1> QED
    BY <1>2, <1>3, <1>4, <1>5

LEMMA NoDragKeeps ==
  ASSUME drag' = NoDrag
  PROVE  DragInv'
  BY DEF DragInv, NoDrag

\* A menu that is not open is right, whatever the layout has become.
LEMMA NoMenuKeeps ==
  ASSUME MenuInv, menu.items = {}, UNCHANGED <<menu, retained, preview>>
  PROVE  MenuInv'
  BY DEF MenuInv, ItemOK, PreviewIsOfMenu

LEMMA GestureKeeps ==
  ASSUME GestureInv, GestureNext
  PROVE  Within /\ GestureInv'
  <1>1. Inv(tree) /\ MenuInv /\ DragInv
    BY DEF GestureInv
  <1>2. CASE \/ \E leaf \in Panes : PaneMenu(leaf) \/ AddMenu(leaf)
             \/ OtherMenu
             \/ \E item \in menu.items : PointAt(item)
             \/ Dismiss
    <2>1. UNCHANGED tree
      BY <1>2 DEF PaneMenu, AddMenu, OtherMenu, PointAt, Dismiss
    <2> QED
      BY <1>1, <1>2, <2>1, ShowingKeeps, TreeKeeps DEF Within, GestureInv
  <1>3. CASE \/ \E leaf \in Panes, panel \in Panels \cup {"none"} : Press(leaf, panel)
             \/ MoveAway \/ Click \/ Cancel
    BY <1>1, <1>3, DraggingKeeps, TreeKeeps DEF Within, GestureInv
  <1>4. CASE \E item \in menu.items : Choose(item)
    <2>1. PICK item \in menu.items : Choose(item)
      BY <1>4
    <2>2. CASE UNCHANGED tree /\ MenuInv' /\ DragInv'
      BY <1>1, <2>2, TreeKeeps DEF Within, GestureInv
    <2>3. CASE Do(item) /\ Close
      <3>1. ItemOK(item) /\ ItemIsLive(item)
        BY <1>1 DEF MenuInv
      <3>2. Within
        BY <1>1, <2>3, <3>1, DoWithin
      <3>3. drag' = NoDrag
        BY <1>1, <2>1, <2>3, ChoosingKeeps DEF DragInv, Do
      <3> QED
        BY <1>1, <2>3, <3>2, <3>3, TreeKeeps, CloseKeeps, NoDragKeeps DEF GestureInv
    <2> QED
      BY <2>1, <2>2, <2>3, ChoosingKeeps
  <1>5. CASE \E over \in Panes : \E target \in DropTargets(over) : Drop(target)
    <2>0. PICK over \in Panes : \E target \in DropTargets(over) : Drop(target)
      BY <1>5
    <2>1. PICK target \in DropTargets(over) : Drop(target)
      BY <2>0
    <2>2. Within
      BY <2>1, DropWithin
    <2>3. menu.items = {} /\ UNCHANGED <<menu, retained, preview>> /\ drag' = NoDrag
      BY <2>1 DEF Drop, NoMenu
    <2> QED
      BY <1>1, <2>2, <2>3, TreeKeeps, NoMenuKeeps, NoDragKeeps DEF GestureInv
  <1> QED
    BY <1>2, <1>3, <1>4, <1>5 DEF GestureNext

LEMMA GesturesStart == GestureInit => GestureInv
  <1> SUFFICES ASSUME GestureInit PROVE GestureInv
    OBVIOUS
  <1>1. Inv(tree)
    BY StartsSound DEF GestureInit
  <1>2. MenuInv
    BY SpecialItems DEF GestureInit, MenuInv, PreviewIsOfMenu
  <1>3. DragInv
    BY DEF GestureInit, DragInv, NoDrag
  <1> QED
    BY <1>1, <1>2, <1>3 DEF GestureInv

LEMMA GestureStutterKeeps ==
  ASSUME GestureInv, UNCHANGED vars
  PROVE  GestureInv'
  <1>1. UNCHANGED <<tree, menu, retained, preview, drag>>
    BY DEF vars
  <1>2. Inv(tree)' /\ MenuInv' /\ DragInv'
    <2>1. Inv(tree')
      BY <1>1, StutterKeeps DEF GestureInv
    <2>2. MenuInv'
      BY <1>1, ItemsStay DEF GestureInv, MenuInv, ItemOK, PreviewIsOfMenu
    <2>3. DragInv'
      BY <1>1, ItemsStay DEF GestureInv, DragInv
    <2> QED
      BY <2>1, <2>2, <2>3
  <1> QED
    BY <1>2 DEF GestureInv

LEMMA AlwaysGestureInv == GestureSpec => []GestureInv
  <1>1. GestureInv /\ [GestureNext]_vars => GestureInv'
    BY GestureKeeps, GestureStutterKeeps
  <1> QED
    BY <1>1, GesturesStart, PTL DEF GestureSpec

\* Menus, previews and drags keep their types.
THEOREM GestureTypeCorrect == GestureSpec => []GestureTypeOK
  <1>1. GestureInv => GestureTypeOK
    BY SoundShows DEF GestureInv, Inv, MenuInv, DragInv, GestureTypeOK
  <1> QED
    BY <1>1, AlwaysGestureInv, PTL

\* Every pane and tab that a menu or a drag remembers is there when it is used, and
\* the preview is of the menu that is open.
THEOREM NothingRememberedIsGone == GestureSpec => []GesturesAreLive
  <1>1. GestureInv => GesturesAreLive
    BY DEF GestureInv, MenuInv, DragInv, GesturesAreLive
  <1> QED
    BY <1>1, AlwaysGestureInv, PTL

\* All that menus and drags do to the layout is what the handlers of LayoutTree do.
THEOREM GesturesOnlyRearrange == GestureSpec => RearrangesLayout
  <1>1. GestureInv /\ [GestureNext]_vars => [tree' # tree => Next]_vars
    BY GestureKeeps DEF Within
  <1>2. GestureInit => Init
    BY DEF GestureInit
  <1> QED
    BY <1>1, <1>2, AlwaysGestureInv, PTL DEF GestureSpec, RearrangesLayout

\* So the gestures are behaviours of LayoutTree, and the layout that they leave is
\* one tree that has every pane.
THEOREM GesturesImplementLayout == GestureSpec => Spec /\ []OneTree
  <1>1. [tree' # tree => Next]_vars => [Next]_tree
    BY DEF vars
  <1> QED
    BY <1>1, GesturesOnlyRearrange, AlwaysOneTree, PTL DEF RearrangesLayout, Spec

\* So they keep every panel in one pane, and lose none but with a pane that is deleted.
THEOREM GesturesKeepPanels == DefaultsApart /\ GestureSpec => []PanelsInOnePane /\ PanelsSurvive
  BY GesturesImplementLayout, PanelsStayInOnePane, NoPanelIsLost, PTL
=============================================================================
