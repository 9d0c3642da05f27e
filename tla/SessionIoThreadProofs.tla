----------------------- MODULE SessionIoThreadProofs -----------------------
(***************************************************************************)
(* Proofs about the worker thread between the UI and the debug session,    *)
(* for every set of kinds of request, of subjects, and number of posts.    *)
(*                                                                         *)
(* A request that is open lies in one place: a mailbox, the queue of       *)
(* children, the typed input, the worker's hand, or the hand of a command. *)
(* Places is that fact by kinds: the kind of a request names the mailbox   *)
(* it may lie in.  The other parts of the invariant are about the worker   *)
(* (what it holds, and whether the adapter lives) and about time (what was *)
(* posted before the worker resumed the program).                          *)
(***************************************************************************)
EXTENDS SessionIoThread, TLAPS, FiniteSetTheorems, SequenceTheorems, WellFoundedInduction

-----------------------------------------------------------------------------
(* The inductive invariant.                                                *)

Kinds == AllJobs \cup {"command", "none"}

RequestTypeOK ==
    request \in [Tickets -> [kind : Kinds, about : Subjects \cup Commands \cup {"none"}]]

Busy == {"reset", "test", "call"}
Commanding == {"edit", "editCall", "dispatch"}

\* Where the worker is in its cycle, and what it may hold there.
WorkerAt ==
    /\ phase \in {"take"} \cup Busy => stage \in Jobs \/ (stage = "poll" /\ phase = "call")
    /\ phase = "reset" => stage = "scope"
    /\ phase \in Commanding <=> order # 0
    /\ phase \in Commanding => AtPreempt
    /\ hand = {} <=> ~(phase = "editCall" \/ (phase \in Busy /\ stage # "poll"))
    /\ stage # "terminal" => \A t, u \in hand : t = u

\* A request for a session of an adapter is only taken while the adapter lives.
CallsAreLive ==
    /\ phase \in Commanding => live
    /\ phase \in {"take"} \cup Busy /\ stage \in LiveOnly \cup {"poll"} => live
    /\ phase = "call" /\ stage \in Fetches \cup Console \cup {"terminal"} => live

\* The kind of the requests in the worker's hand.
HandKind == IF phase = "editCall" THEN "setVariable" ELSE stage

\* A queue holds nothing twice.
Distinct(s) == \A i, j \in DOMAIN s : s[i] = s[j] => i = j

\* What lies in a place is open, is of the kind of the place and is there only.
Placed ==
    /\ \A k \in Slots : box[k] # 0 => request[box[k]].kind = k /\ fate[box[k]] = "open"
    /\ \A t \in Queued(children) : request[t].kind = "children" /\ fate[t] = "open"
    /\ \A t \in typed : request[t].kind = "terminal" /\ fate[t] = "open"
    /\ \A t \in hand : /\ request[t].kind = HandKind /\ fate[t] = "open"
                       /\ \A k \in Slots : box[k] # t
                       /\ t \notin Queued(children) \cup typed
    /\ order # 0 => /\ request[order].kind = "command" /\ fate[order] = "open"
                    /\ box["command"] # order
    /\ Distinct(children)

\* An open request lies somewhere.
Somewhere(t) ==
    \/ \E k \in Slots : box[k] = t
    \/ t \in Queued(children) \cup typed \cup hand \cup {order}

Places == Placed /\ \A t \in Tickets : fate[t] = "open" => Somewhere(t)

\* What was asked for before the worker resumed the program is settled, ...
Fresh ==
    /\ resumedAt <= posted
    /\ \A t \in Tickets : t > posted <=> fate[t] = "unposted"
    /\ \A t \in Tickets : fate[t] = "open" /\ request[t].kind \in Stale => t > resumedAt

\* ... and an edit is before a command, once the worker has looked for one.
EditFirst ==
    /\ phase = "editCall" => \A t \in Tickets :
            t < order /\ request[t].kind = "setVariable" /\ fate[t] = "open" => t \in hand
    /\ EditsPrecedeCommand

Control == TypeOK /\ RequestTypeOK /\ WorkerAt /\ CallsAreLive

IInv == Control /\ Places /\ Fresh /\ EditFirst

\* Who joins the launch worker: it has begun, and the worker goes on when it is
\* through.  None begins once the worker has left its cycle.
Joins ==
    /\ joined => launch = "finished"
    /\ "joiningLaunch" \in {closing, stage} => Begun
    /\ stage \in {"shutdown", "ended"} => (Begun => launch = "finished")
    /\ ClosedSafely

-----------------------------------------------------------------------------
(* The worker's cycle.                                                     *)

\* A set of numbers that is not empty has a least one.
LEMMA LeastNumber ==
  ASSUME NEW T, T \subseteq Nat, T # {}
  PROVE  \E x \in T : \A y \in T : x <= y
  <1>1. PICK x \in T : \A y \in T : <<y, x>> \notin OpToRel(<, Nat)
    BY NatLessThanWellFounded, WFMin
  <1>2. \A y \in T : ~(y < x)
    BY <1>1 DEF OpToRel
  <1> QED
    BY <1>2

\* The cycle ends in a stage that no choice of Jobs takes away.
LEMMA LastStage == /\ Len(Order) = 27 /\ DOMAIN Order = 1..27
                   /\ Order[27] = "wait" /\ Order[27] \in Stages
  <1>1. Len(Order) = 27 /\ DOMAIN Order = 1..27 /\ Order[27] = "wait"
    BY DEF Order
  <1>2. "wait" \notin AllJobs
    BY DEF AllJobs, Fetches, LiveOnly, Debounced, Console
  <1> QED
    BY <1>1, <1>2 DEF Stages

\* The stage after any but the last is one of the cycle.
LEMMA SuccessorIsStage == \A i \in 1..26 : Successor[i] \in Stages
  <1> SUFFICES ASSUME NEW i \in 1..26 PROVE Successor[i] \in Stages
    OBVIOUS
  <1> DEFINE Later == {j \in (i + 1)..27 : Order[j] \in Stages}
  <1> DEFINE IsNext(j) == Order[j] \in Stages /\ \A h \in (i + 1)..(j - 1) : Order[h] \notin Stages
  <1>1. Later \subseteq Nat /\ 27 \in Later
    BY LastStage
  <1>2. PICK j \in Later : \A h \in Later : j <= h
    <2> HIDE DEF Later
    <2> QED
      BY <1>1, LeastNumber
  <1>3. j \in (i + 1)..27 /\ Order[j] \in Stages
    OBVIOUS
  <1>4. \A h \in (i + 1)..(j - 1) : Order[h] \notin Stages
    BY <1>2, <1>3
  <1> HIDE DEF Later
  <1>5. \E n \in (i + 1)..Len(Order) : IsNext(n)
    BY <1>3, <1>4, LastStage
  <1>6. Successor[i] = Order[CHOOSE n \in (i + 1)..Len(Order) : IsNext(n)]
    <2>1. i \in 1..(Len(Order) - 1)
      BY LastStage
    <2> QED
      BY <2>1 DEF Successor
  <1> HIDE DEF IsNext
  <1>7. IsNext(CHOOSE n \in (i + 1)..Len(Order) : IsNext(n))
    BY <1>5
  <1> QED
    BY <1>6, <1>7 DEF IsNext

\* The stages and the kinds of request that are not stages, in their order.
InOrder == {Order[i] : i \in 1..27}

\* From every place in the order but the last the worker goes on to a stage.
LEMMA AfterIsStage == \A s \in InOrder \ {"wait"} : After(s) \in Stages
  <1> SUFFICES ASSUME NEW s \in InOrder \ {"wait"} PROVE After(s) \in Stages
    OBVIOUS
  <1> DEFINE At(n) == Order[n] = s
  <1>1. PICK n \in DOMAIN Order : At(n)
    BY LastStage DEF InOrder
  <1>2. After(s) = Successor[CHOOSE i \in DOMAIN Order : At(i)]
    BY DEF After
  <1> DEFINE p == CHOOSE i \in DOMAIN Order : At(i)
  <1>3. p \in DOMAIN Order /\ At(p)
    <2> HIDE DEF At
    <2> QED
      BY <1>1
  <1> HIDE DEF p
  <1>4. p \in 1..26
    BY <1>3, LastStage
  <1>5. Successor[p] \in Stages
    BY <1>4, SuccessorIsStage
  <1> QED
    BY <1>2, <1>5 DEF p

\* The fixed stages and the kinds of request are stages.
LEMMA TheStages ==
    /\ Jobs \subseteq Stages
    /\ AllJobs \subseteq InOrder
    /\ {"launch", "liveGate", "activeGate", "preempt", "poll", "preemptAgain", "wait"}
           \subseteq Stages \cap InOrder
  <1>1. /\ Order[1] = "launch" /\ Order[2] = "highlight" /\ Order[3] = "liveGate"
        /\ Order[4] = "source" /\ Order[5] = "memory" /\ Order[6] = "disassembly"
        /\ Order[7] = "runtimeSource" /\ Order[8] = "writeMemory" /\ Order[9] = "compose"
        /\ Order[10] = "activeGate" /\ Order[11] = "terminal" /\ Order[12] = "preempt"
        /\ Order[13] = "poll" /\ Order[14] = "preemptAgain" /\ Order[15] = "setVariable"
        /\ Order[16] = "evaluate" /\ Order[17] = "completions" /\ Order[18] = "sourceBps"
        /\ Order[19] = "dataBps" /\ Order[20] = "functionBps" /\ Order[21] = "exceptionBps"
        /\ Order[22] = "dataInfo" /\ Order[23] = "scope" /\ Order[24] = "children"
        /\ Order[25] = "stepIn" /\ Order[26] = "goto" /\ Order[27] = "wait"
    BY DEF Order
  <1>2. AllJobs \subseteq {Order[i] : i \in DOMAIN Order}
    BY <1>1, LastStage DEF AllJobs, Fetches, LiveOnly, Debounced, Console
  <1>3. {"launch", "liveGate", "activeGate", "preempt", "poll", "preemptAgain", "wait"}
            \subseteq {Order[i] : i \in DOMAIN Order} \ AllJobs
    BY <1>1, LastStage DEF AllJobs, Fetches, LiveOnly, Debounced, Console
  <1> QED
    BY <1>2, <1>3, LastStage, JobsAssumption DEF Stages, InOrder

\* Going on, from a kind of request too, leads to a stage.
LEMMA GoingOn ==
    /\ \A k \in Jobs : After(k) \in Stages /\ Done(k) \in Stages
    /\ \A s \in {"launch", "liveGate", "activeGate", "preempt", "poll", "preemptAgain",
                 "writeMemory", "completions"} : After(s) \in Stages
  <1>1. "wait" \notin AllJobs /\ {"writeMemory", "completions"} \subseteq AllJobs
    BY DEF AllJobs, Fetches, LiveOnly, Debounced, Console
  <1> QED
    BY <1>1, TheStages, AfterIsStage, JobsAssumption DEF Done

\* Which kinds of request have a mailbox.
LEMMA Mailboxes ==
    /\ Slots \subseteq Kinds /\ Jobs \subseteq Kinds /\ "none" \notin Slots
    /\ Jobs \ {"terminal", "children"} \subseteq Slots
    /\ Stale \cup {"command", "setVariable"} \subseteq Slots
    /\ "terminal" \notin Slots /\ "children" \notin Slots
  BY JobsAssumption DEF Slots, Kinds, AllJobs, Fetches, LiveOnly, Debounced, Console, Stale

\* The stages that are no kind of request.
LEMMA NoJobs ==
    {"launch", "liveGate", "activeGate", "preempt", "poll", "preemptAgain", "wait", "joining",
     "joiningLaunch", "shutdown", "ended", "command"} \cap AllJobs = {}
  BY DEF AllJobs, Fetches, LiveOnly, Debounced, Console

-----------------------------------------------------------------------------
(* The types, and what the worker does where.                              *)

\* The kinds of request the UI posts, and what they are about.
LEMMA PostType ==
  ASSUME TypeOK, RequestTypeOK, NEW k \in Jobs \cup {"command"},
         NEW x \in Subjects \cup Commands \cup {"none"}, Post(k, x)
  PROVE  /\ Ticket \in Tickets /\ posted' \in 0..MaxPosts /\ posted' = Ticket
         /\ RequestTypeOK'
         /\ request'[Ticket] = [kind |-> k, about |-> x]
         /\ \A t \in Tickets \ {Ticket} : request'[t] = request[t]
  <1>1. Ticket \in Tickets /\ posted' \in 0..MaxPosts /\ posted' = Ticket
    BY PostsAssumption DEF TypeOK, Post, Ticket, Tickets
  <1>2. [kind |-> k, about |-> x] \in [kind : Kinds, about : Subjects \cup Commands \cup {"none"}]
    BY Mailboxes DEF Kinds
  <1> QED
    BY <1>1, <1>2 DEF RequestTypeOK, Post

\* Initially the invariant holds.
LEMMA InitControl == Init => Control
  <1> SUFFICES ASSUME Init PROVE Control
    OBVIOUS
  <1> USE DEF Init
  <1>1. TypeOK
    <2>1. <<>> \in Seq(Tickets)
      OBVIOUS
    <2>2. stage \in Stages /\ posted \in 0..MaxPosts /\ resumedAt \in 0..MaxPosts
      BY TheStages, PostsAssumption
    <2> QED
      BY <2>1, <2>2 DEF TypeOK, Phases, Fates
  <1>2. RequestTypeOK
    BY DEF RequestTypeOK, Kinds
  <1>3. WorkerAt
    BY DEF WorkerAt, Busy, Commanding
  <1>4. CallsAreLive
    BY DEF CallsAreLive, Busy, Commanding
  <1> QED
    BY <1>1, <1>2, <1>3, <1>4 DEF Control

\* Control is about these variables and the requests.
LEMMA ControlFrame ==
  ASSUME Control, UNCHANGED <<workerVars, live>>, TypeOK', RequestTypeOK'
  PROVE  Control'
  BY DEF Control, WorkerAt, CallsAreLive, workerVars, AtPreempt

\* Posting keeps the types, and leaves the worker alone.
LEMMA UIControl == Control /\ UI => Control'
  <1> SUFFICES ASSUME Control, UI PROVE Control'
    OBVIOUS
  <1> USE DEF Control
  <1>1. ASSUME NEW op \in Commands, PostCommand(op) PROVE Control'
    <2>1. Post("command", op)
      BY <1>1 DEF PostCommand
    <2>2. /\ Ticket \in Tickets /\ posted' \in 0..MaxPosts /\ RequestTypeOK'
      BY <2>1, PostType
    <2>3. children' \in Seq(Tickets)
      BY <1>1 DEF PostCommand
    <2>4. box' \in [Slots -> {0} \cup Tickets]
      BY <1>1, <2>2 DEF PostCommand, Emptied, TypeOK
    <2>5. fate' \in [Tickets -> Fates]
      BY <1>1 DEF PostCommand, TypeOK, Fates
    <2>6. TypeOK'
      BY <1>1, <2>2, <2>3, <2>4, <2>5 DEF PostCommand, TypeOK, workerVars, flagVars, endVars
    <2> QED
      BY <1>1, <2>2, <2>6, ControlFrame DEF PostCommand, flagVars, endVars
  <1>2. ASSUME NEW k \in Jobs, PostRefused(k) PROVE Control'
    <2>1. Post(k, "none")
      BY <1>2 DEF PostRefused
    <2>2. /\ Ticket \in Tickets /\ posted' \in 0..MaxPosts /\ RequestTypeOK'
      BY <2>1, PostType
    <2>5. fate' \in [Tickets -> Fates]
      BY <1>2 DEF PostRefused, TypeOK, Fates, Mark
    <2>3. UNCHANGED <<stage, phase, hand, order, box, children, typed, ripe, aborted, live, active,
                      launch, closing, joined, resumedAt>>
      BY <1>2 DEF PostRefused, workerVars, flagVars, endVars
    <2>6. TypeOK'
      BY <2>2, <2>3, <2>5 DEF TypeOK
    <2> QED
      BY <1>2, <2>2, <2>6, ControlFrame DEF PostRefused, flagVars, endVars
  <1>3. ASSUME NEW k \in Jobs, NEW x \in Subject(k), PostSlot(k, x) PROVE Control'
    <2>1. Post(k, x) /\ x \in Subjects \cup {"none"}
      BY <1>3 DEF PostSlot, Subject
    <2>2. /\ Ticket \in Tickets /\ posted' \in 0..MaxPosts /\ RequestTypeOK'
      BY <2>1, PostType
    <2>4. box' \in [Slots -> {0} \cup Tickets] /\ ripe' \subseteq Debounced
      BY <1>3, <2>2 DEF PostSlot, TypeOK
    <2>5. fate' \in [Tickets -> Fates]
      BY <1>3, <2>2 DEF PostSlot, TypeOK, Fates, Mark
    <2>3. UNCHANGED <<stage, phase, hand, order, children, typed, aborted, live, active, launch,
                      closing, joined, resumedAt>>
      BY <1>3 DEF PostSlot, workerVars, flagVars, endVars
    <2>6. TypeOK'
      BY <2>2, <2>3, <2>4, <2>5 DEF TypeOK
    <2> QED
      BY <1>3, <2>2, <2>6, ControlFrame DEF PostSlot, flagVars, endVars
  <1>4. CASE "terminal" \in Jobs /\ PostTerminalInput
    <2>1. Post("terminal", "none")
      BY <1>4 DEF PostTerminalInput
    <2>2. /\ Ticket \in Tickets /\ posted' \in 0..MaxPosts /\ RequestTypeOK'
      BY <1>4, <2>1, PostType
    <2>5. fate' \in [Tickets -> Fates] /\ typed' \subseteq Tickets
      BY <1>4, <2>2 DEF PostTerminalInput, TypeOK, Fates, Mark
    <2>6. TypeOK'
      <3>1. UNCHANGED <<stage, phase, hand, order, box, children, ripe, aborted, live, active,
                        launch, closing, joined, resumedAt>>
        BY <1>4 DEF PostTerminalInput, workerVars, flagVars, endVars
      <3> QED
        BY <2>2, <2>5, <3>1 DEF TypeOK
    <2> QED
      BY <1>4, <2>2, <2>6, ControlFrame DEF PostTerminalInput, flagVars, endVars
  <1>5. ASSUME "children" \in Jobs, NEW x \in Subjects, RequestVariableChildren(x) PROVE Control'
    <2>1. Post("children", x)
      BY <1>5 DEF RequestVariableChildren
    <2>2. /\ Ticket \in Tickets /\ posted' \in 0..MaxPosts /\ RequestTypeOK'
      BY <1>5, <2>1, PostType
    <2>4. children' \in Seq(Tickets)
      <3>1. children \in Seq(Tickets) /\ Ticket \in Tickets
        BY <2>2 DEF TypeOK
      <3>2. Append(children, Ticket) \in Seq(Tickets)
        BY <3>1, AppendProperties
      <3> QED
        BY <1>5, <3>1, <3>2 DEF RequestVariableChildren
    <2>5. fate' \in [Tickets -> Fates]
      BY <1>5 DEF RequestVariableChildren, TypeOK, Fates, Mark
    <2>6. TypeOK'
      BY <1>5, <2>2, <2>4, <2>5 DEF RequestVariableChildren, TypeOK, workerVars, flagVars, endVars
    <2> QED
      BY <1>5, <2>2, <2>6, ControlFrame DEF RequestVariableChildren, flagVars, endVars
  <1>6. CASE StartLaunch \/ Close
    <2>1. TypeOK' /\ RequestTypeOK'
      BY <1>6 DEF StartLaunch, Close, TypeOK, RequestTypeOK, workerVars, postVars, endVars
    <2> QED
      BY <1>6, <2>1, ControlFrame DEF StartLaunch, Close
  <1> QED
    BY <1>1, <1>2, <1>3, <1>4, <1>5, <1>6 DEF UI

\* What else happens beside the UI and the worker.
Others == DestructorJoins \/ Terminate \/ LaunchWorker \/ Debounce

\* The others leave the worker alone; the adapter only comes to life.
LEMMA OthersControl == Control /\ Others => Control'
  <1> SUFFICES ASSUME Control, Others PROVE Control'
    OBVIOUS
  <1>1. CASE Debounce
    <2> PICK k \in Jobs \cap Debounced : Ripen(k)
      BY <1>1 DEF Debounce
    <2>1. TypeOK' /\ RequestTypeOK'
      BY DEF Control, Ripen, TypeOK, RequestTypeOK, workerVars, postVars, flagVars, endVars
    <2> QED
      BY <2>1, ControlFrame DEF Ripen, flagVars, endVars
  <1>2. CASE LaunchWorker
    <2>1. TypeOK' /\ RequestTypeOK' /\ UNCHANGED workerVars /\ (live => live')
      BY <1>2 DEF LaunchWorker, LaunchSucceeds, LaunchFails, LaunchGoesLive, SyncInitialState,
                  Control, TypeOK, RequestTypeOK, workerVars, postVars, endVars
    <2> QED
      BY <2>1 DEF Control, WorkerAt, CallsAreLive, workerVars, AtPreempt
  <1>3. CASE DestructorJoins \/ Terminate
    <2>1. TypeOK' /\ RequestTypeOK'
      BY <1>3 DEF DestructorJoins, Terminate, Control, TypeOK, RequestTypeOK, workerVars, postVars
    <2> QED
      BY <1>3, <2>1, ControlFrame DEF DestructorJoins, Terminate
  <1> QED
    BY <1>1, <1>2, <1>3 DEF Others

\* Marking tickets with a fate keeps the type of the fates.
LEMMA MarkType ==
  ASSUME TypeOK, NEW ts, NEW f \in Fates
  PROVE  Mark(ts, f) \in [Tickets -> Fates]
  BY DEF TypeOK, Mark

\* Emptying mailboxes keeps their type.
LEMMA EmptiedType ==
  ASSUME TypeOK, NEW ks
  PROVE  Emptied(ks) \in [Slots -> {0} \cup Tickets]
  BY DEF TypeOK, Emptied

\* Serving requests of a kind keeps the worker's part of the invariant.
LEMMA ServeControl == ASSUME NEW k \in Jobs, Control, Serve(k) PROVE Control'
  <1> USE DEF Control
  <1>1. k \in Stages /\ Done(k) \in Stages /\ After(k) \in Stages
    BY TheStages, GoingOn
  <1>2. /\ k \in AllJobs /\ k \notin {"poll", "preempt", "preemptAgain"}
        /\ (k \notin {"terminal", "children"} => k \in Slots)
    BY Mailboxes, NoJobs, JobsAssumption
  <1>3. CASE LookFor(k)
    <2>1. TypeOK' /\ RequestTypeOK'
      BY <1>1, <1>3 DEF LookFor, Goto, TypeOK, RequestTypeOK, Phases, flagVars, endVars, postVars
    <2>2. WorkerAt'
      BY <1>3, <1>2 DEF LookFor, Goto, WorkerAt, Busy, Commanding, AtPreempt
    <2>3. CallsAreLive'
      BY <1>3, <1>2 DEF LookFor, Goto, CallsAreLive, Busy, Commanding, MayTake, flagVars, endVars
    <2> QED
      BY <2>1, <2>2, <2>3
  <1>4. CASE TakeNothing(k)
    <2>1. TypeOK' /\ RequestTypeOK'
      BY <1>1, <1>4 DEF TakeNothing, Goto, TypeOK, RequestTypeOK, Phases, flagVars, endVars, postVars
    <2>2. WorkerAt' /\ CallsAreLive'
      BY <1>4, <1>2 DEF TakeNothing, Goto, WorkerAt, CallsAreLive, Busy, Commanding, AtPreempt,
             flagVars, endVars
    <2> QED
      BY <2>1, <2>2
  <1>5. CASE Take(k)
    <2>1. /\ hand' \subseteq Tickets /\ hand' # {} /\ typed' \subseteq Tickets
          /\ box' \in [Slots -> {0} \cup Tickets] /\ children' \in Seq(Tickets)
          /\ k # "terminal" => \A t, u \in hand' : t = u
      <3>1. CASE k = "terminal"
        BY <1>5, <3>1 DEF Take, Nothing, TypeOK
      <3>2. CASE k = "children"
        <4>1. children \in Seq(Tickets) /\ children # <<>>
          BY <1>5, <3>2 DEF Take, Nothing, TypeOK
        <4>2. Head(children) \in Tickets /\ Tail(children) \in Seq(Tickets)
          BY <4>1, HeadTailProperties
        <4> QED
          BY <1>5, <3>2, <4>2 DEF Take, TypeOK
      <3>3. CASE k \notin {"terminal", "children"}
        <4>1. k \in Slots /\ box[k] \in Tickets
          BY <1>2, <1>5, <3>3 DEF Take, Nothing, TypeOK
        <4>2. /\ hand' = {box[k]} /\ box' = Emptied({k})
              /\ UNCHANGED <<children, typed>>
          BY <1>5, <3>3 DEF Take
        <4> QED
          BY <4>1, <4>2, EmptiedType DEF TypeOK
      <3> QED
        BY <3>1, <3>2, <3>3
    <2>2. TypeOK' /\ RequestTypeOK'
      BY <1>5, <2>1 DEF Take, TypeOK, RequestTypeOK, Phases, flagVars, endVars, postVars
    <2>3. WorkerAt'
      BY <1>5, <1>2, <2>1 DEF Take, WorkerAt, Busy, Commanding, AtPreempt
    <2>4. CallsAreLive'
      BY <1>5, <1>2 DEF Take, CallsAreLive, Busy, Commanding, flagVars, endVars
    <2> QED
      BY <2>2, <2>3, <2>4
  <1>6. CASE PutBack(k)
    <2>1. k # "terminal" /\ hand # {} /\ hand \subseteq Tickets
      BY <1>2, <1>6 DEF PutBack, Interrupted, WorkerAt, Busy, TypeOK
    <2>2. (CHOOSE t \in hand : TRUE) \in Tickets
      BY <2>1
    <2>3. box' \in [Slots -> {0} \cup Tickets] /\ fate' \in [Tickets -> Fates]
      BY <1>6, <2>2, MarkType, ZenonT(60) DEF PutBack, TypeOK, Fates
    <2>4. children' \in Seq(Tickets)
      <3>1. <<CHOOSE t \in hand : TRUE>> \in Seq(Tickets) /\ children \in Seq(Tickets)
        BY <2>2 DEF TypeOK
      <3>2. <<CHOOSE t \in hand : TRUE>> \o children \in Seq(Tickets)
        BY <3>1, ConcatProperties
      <3> QED
        BY <1>6, <3>1, <3>2 DEF PutBack
    <2>5. TypeOK' /\ RequestTypeOK'
      BY <1>6, <1>1, <2>3, <2>4 DEF PutBack, Goto, TypeOK, RequestTypeOK, Phases, flagVars, endVars, postVars
    <2>6. WorkerAt' /\ CallsAreLive'
      BY <1>6, <1>2 DEF PutBack, Goto, Interrupted, WorkerAt, CallsAreLive, Busy, Commanding,
             AtPreempt, flagVars, endVars
    <2> QED
      BY <2>5, <2>6
  <1>7. CASE FailOffline(k) \/ Return(k)
    <2>1. fate' \in [Tickets -> Fates]
      BY <1>7, MarkType DEF FailOffline, Return, Fates
    <2>2. TypeOK' /\ RequestTypeOK'
      BY <1>7, <1>1, <2>1 DEF FailOffline, Return, Goto, TypeOK, RequestTypeOK, Phases, flagVars, endVars,
             postVars
    <2>3. WorkerAt' /\ CallsAreLive'
      BY <1>7, <1>2 DEF FailOffline, Return, Goto, WorkerAt, CallsAreLive, Busy, Commanding,
             AtPreempt, flagVars, endVars
    <2> QED
      BY <2>2, <2>3
  <1>8. CASE CallBackend(k)
    <2>1. TypeOK' /\ RequestTypeOK'
      BY <1>8 DEF CallBackend, TypeOK, RequestTypeOK, Phases, flagVars, endVars, postVars
    <2>2. WorkerAt'
      BY <1>8, <1>2 DEF CallBackend, WorkerAt, Busy, Commanding, AtPreempt
    <2>3. CallsAreLive'
      BY <1>8, <1>2 DEF CallBackend, CallsAreLive, Busy, Commanding, Offline, flagVars, endVars
    <2> QED
      BY <2>1, <2>2, <2>3
  <1> QED
    BY <1>3, <1>4, <1>5, <1>6, <1>7, <1>8 DEF Serve

\* A command is taken and dispatched while the adapter lives.
LEMMA PreemptControl == Control /\ Preempt => Control'
  <1> SUFFICES ASSUME Control, Preempt PROVE Control'
    OBVIOUS
  <1> USE DEF Control
  <1>1. AtPreempt => stage \in Stages /\ After(stage) \in Stages /\ stage \notin Jobs \cup {"poll"}
    BY TheStages, GoingOn, NoJobs, JobsAssumption DEF AtPreempt
  <1>2. phase \in Commanding => AtPreempt
    BY DEF WorkerAt
  <1>3. CASE NoCommand
    <2>1. TypeOK' /\ RequestTypeOK'
      BY <1>1, <1>3 DEF NoCommand, Goto, TypeOK, RequestTypeOK, Phases, flagVars, endVars, postVars
    <2>2. WorkerAt' /\ CallsAreLive'
      BY <1>1, <1>3 DEF NoCommand, Goto, WorkerAt, CallsAreLive, Busy, Commanding, flagVars, endVars
    <2> QED
      BY <2>1, <2>2
  <1>4. CASE TakeCommand
    <2>1. box["command"] \in Tickets
      BY <1>4, Mailboxes DEF TakeCommand, CommandPending, TypeOK
    <2>2. fate' \in [Tickets -> Fates] /\ box' \in [Slots -> {0} \cup Tickets]
      BY <1>4, MarkType, EmptiedType DEF TakeCommand, Fates
    <2>3. TypeOK' /\ RequestTypeOK'
      BY <1>4, <2>1, <2>2 DEF TakeCommand, TypeOK, RequestTypeOK, Phases, flagVars, endVars, postVars
    <2>4. order' # 0
      BY <1>4 DEF TakeCommand, CommandPending
    <2>5. WorkerAt' /\ CallsAreLive'
      BY <1>1, <1>4, <2>4 DEF TakeCommand, WorkerAt, CallsAreLive, Busy, Commanding, AtPreempt,
             flagVars, endVars
    <2> QED
      BY <2>3, <2>5
  <1>5. CASE RejectCommand
    <2>1. box' \in [Slots -> {0} \cup Tickets]
      BY <1>5, EmptiedType DEF RejectCommand
    <2>2. fate' \in [Tickets -> Fates]
      BY <1>5, MarkType DEF RejectCommand, Fates
    <2>3. TypeOK' /\ RequestTypeOK'
      BY <1>1, <1>5, <2>1, <2>2 DEF RejectCommand, Goto, TypeOK, RequestTypeOK, Phases, flagVars, endVars,
             postVars
    <2>4. WorkerAt' /\ CallsAreLive'
      BY <1>1, <1>5 DEF RejectCommand, Goto, WorkerAt, CallsAreLive, Busy, Commanding, flagVars, endVars
    <2> QED
      BY <2>3, <2>4
  <1>6. CASE ApplyEdit
    <2>1. In({"setVariable"}) = {box["setVariable"]} /\ box["setVariable"] \in Tickets
      BY <1>6, Mailboxes DEF ApplyEdit, In, TypeOK
    <2>2. TypeOK' /\ RequestTypeOK'
      BY <1>6, <2>1, EmptiedType DEF ApplyEdit, TypeOK, RequestTypeOK, Phases, flagVars, endVars, postVars
    <2>3. WorkerAt' /\ CallsAreLive'
      BY <1>1, <1>2, <1>6, <2>1 DEF ApplyEdit, WorkerAt, CallsAreLive, Busy, Commanding,
             AtPreempt, flagVars, endVars
    <2> QED
      BY <2>2, <2>3
  <1>7. CASE EditReturns
    <2>1. TypeOK' /\ RequestTypeOK'
      BY <1>7, MarkType DEF EditReturns, TypeOK, RequestTypeOK, Phases, Fates, flagVars, endVars, postVars
    <2>2. WorkerAt' /\ CallsAreLive'
      BY <1>1, <1>2, <1>7 DEF EditReturns, WorkerAt, CallsAreLive, Busy, Commanding, AtPreempt,
             flagVars, endVars
    <2> QED
      BY <2>1, <2>2
  <1>8. CASE NoEdit
    <2>1. TypeOK' /\ RequestTypeOK'
      BY <1>8 DEF NoEdit, TypeOK, RequestTypeOK, Phases, flagVars, endVars, postVars
    <2>2. WorkerAt' /\ CallsAreLive'
      BY <1>1, <1>2, <1>8 DEF NoEdit, WorkerAt, CallsAreLive, Busy, Commanding, AtPreempt, flagVars, endVars
    <2> QED
      BY <2>1, <2>2
  <1>9. CASE DispatchFails \/ DispatchCommand
    <2>1. phase = "dispatch"
      BY <1>9 DEF DispatchFails, DispatchCommand
    <2>2. fate' \in [Tickets -> Fates]
      BY <1>9, MarkType DEF DispatchFails, DispatchCommand, Fates
    <2>3. box' \in [Slots -> {0} \cup Tickets] /\ children' \in Seq(Tickets) /\ live' \in BOOLEAN
      <3>1. <<>> \in Seq(Tickets)
        OBVIOUS
      <3> QED
        BY <3>1, <1>9, EmptiedType, ZenonT(60) DEF DispatchFails, DispatchCommand, TypeOK, flagVars, endVars
    <2>4. After(stage) \in Stages
      BY <1>1, <1>2, <2>1 DEF Commanding
    <2>5. TypeOK' /\ RequestTypeOK'
      BY <1>9, <2>2, <2>3, <2>4 DEF DispatchFails, DispatchCommand, Goto, TypeOK, RequestTypeOK,
             Phases, flagVars, endVars, postVars
    <2>6. WorkerAt' /\ CallsAreLive'
      BY <1>1, <1>2, <1>9 DEF DispatchFails, DispatchCommand, Goto, WorkerAt, CallsAreLive, Busy,
             Commanding
    <2> QED
      BY <2>5, <2>6
  <1> QED
    BY <1>3, <1>4, <1>5, <1>6, <1>7, <1>8, <1>9 DEF Preempt

\* Every step of the worker keeps its part of the invariant.
LEMMA WorkerControl == Control /\ Worker => Control'
  <1> SUFFICES ASSUME Control, Worker PROVE Control'
    OBVIOUS
  <1> USE DEF Control
  <1>1. {"launch", "liveGate", "activeGate", "poll", "wait"}
            \cap (Jobs \cup {"preempt", "preemptAgain"}) = {}
    BY NoJobs, JobsAssumption
  <1>2. CASE BeginCycle \/ MaybeBeginLaunch \/ PassGate
    <2>1. TypeOK' /\ RequestTypeOK'
      BY <1>2, GoingOn, TheStages DEF BeginCycle, MaybeBeginLaunch, PassGate, Goto, TypeOK, RequestTypeOK, Phases,
             flagVars, endVars, postVars
    <2>2. WorkerAt' /\ CallsAreLive'
      BY <1>1, <1>2 DEF BeginCycle, MaybeBeginLaunch, PassGate, Goto, WorkerAt, CallsAreLive, Busy, Commanding,
             AtPreempt, flagVars, endVars
    <2> QED
      BY <2>1, <2>2
  <1>3. CASE Poll
    <2>1. TypeOK' /\ RequestTypeOK'
      BY <1>3, GoingOn DEF Poll, Goto, TypeOK, RequestTypeOK, Phases, flagVars, endVars, postVars
    <2>2. WorkerAt' /\ CallsAreLive'
      BY <1>1, <1>3 DEF Poll, Goto, WorkerAt, CallsAreLive, Busy, Commanding, AtPreempt, flagVars, endVars
    <2> QED
      BY <2>1, <2>2
  <1>4. CASE EndWorker
    <2>1. TypeOK' /\ RequestTypeOK'
      <3>1. UNCHANGED <<phase, hand, order, box, children, typed, ripe, aborted, live, launch, closing,
                        posted, request, fate, resumedAt>>
        BY <1>4 DEF EndWorker, postVars
      <3>2. stage' \in {"joiningLaunch", "shutdown", "ended"}
        BY <1>4 DEF EndWorker
      <3>3. active' \in BOOLEAN /\ joined' \in BOOLEAN
        BY <1>4, Zenon DEF EndWorker, TypeOK
      <3>4. stage' \in Stages \cup {"joining", "joiningLaunch", "shutdown", "ended"}
        BY <3>2
      <3>6. TypeOK'
        BY <3>1, <3>3, <3>4, Zenon DEF TypeOK
      <3>5. RequestTypeOK'
        BY <3>1 DEF RequestTypeOK
      <3> QED
        BY <3>5, <3>6
    <2>2. {"joining", "joiningLaunch", "shutdown", "ended"} \cap (Jobs \cup {"scope", "poll"}) = {}
      BY NoJobs, JobsAssumption
    <2>3. WorkerAt' /\ CallsAreLive'
      BY <1>4, <2>2 DEF EndWorker, WorkerAt, CallsAreLive, Busy, Commanding, AtPreempt, flagVars, endVars
    <2> QED
      BY <2>1, <2>3
  <1>5. CASE ResetAborted
    <2>1. TypeOK' /\ RequestTypeOK'
      BY <1>5 DEF ResetAborted, TypeOK, RequestTypeOK, Phases, flagVars, endVars, postVars
    <2>2. WorkerAt' /\ CallsAreLive'
      BY <1>5 DEF ResetAborted, WorkerAt, CallsAreLive, Busy, Commanding, AtPreempt, flagVars, endVars
    <2> QED
      BY <2>1, <2>2
  <1> QED
    BY <1>2, <1>3, <1>4, <1>5, ServeControl, PreemptControl DEF Worker

\* Every step keeps the types and the worker's part of the invariant.
LEMMA NextControl == Control /\ [Next]_vars => Control'
  <1> SUFFICES ASSUME Control, [Next]_vars PROVE Control'
    OBVIOUS
  <1>1. CASE UNCHANGED vars
    BY <1>1 DEF vars, workerVars, flagVars, endVars, postVars, Control, TypeOK, RequestTypeOK, WorkerAt,
           CallsAreLive, AtPreempt
  <1> QED
    BY <1>1, UIControl, OthersControl, WorkerControl DEF Next, Others

\* Every variable has its type.
THEOREM TypeCorrect == Spec => []TypeOK
  <1>1. Control => TypeOK
    BY DEF Control
  <1> QED
    BY <1>1, InitControl, NextControl, PTL DEF Spec

\* From a disconnect on, no call reaches the adapter.
THEOREM SilentWhenDisconnected == Spec => []NoCallWhenDisconnected
  <1>1. Control => NoCallWhenDisconnected
    <2>1. AllJobs \ {"highlight", "compose"} = LiveOnly \cup Fetches \cup Console \cup {"terminal"}
      BY DEF AllJobs, Fetches, LiveOnly, Debounced, Console
    <2> QED
      BY <2>1, JobsAssumption DEF Control, NoCallWhenDisconnected, CallsAreLive, WorkerAt, Busy,
             Commanding
  <1> QED
    BY <1>1, InitControl, NextControl, PTL DEF Spec

-----------------------------------------------------------------------------
(* Where the requests are.                                                 *)

\* What is in a queue with one more at its end.
LEMMA QueuedAppend ==
  ASSUME NEW s \in Seq(Tickets), NEW t \in Tickets
  PROVE  /\ Queued(Append(s, t)) = Queued(s) \cup {t}
         /\ Distinct(s) /\ t \notin Queued(s) => Distinct(Append(s, t))
  <1>1. /\ Append(s, t) \in Seq(Tickets) /\ Len(Append(s, t)) = Len(s) + 1
        /\ \A i \in 1..Len(s) : Append(s, t)[i] = s[i]
        /\ Append(s, t)[Len(s) + 1] = t
    BY AppendProperties
  <1>2. DOMAIN s = 1..Len(s) /\ DOMAIN Append(s, t) = 1..(Len(s) + 1) /\ Len(s) \in Nat
    BY <1>1
  <1>3. Queued(Append(s, t)) = Queued(s) \cup {t}
    BY <1>1, <1>2 DEF Queued
  <1>4. ASSUME Distinct(s), t \notin Queued(s) PROVE Distinct(Append(s, t))
    BY <1>1, <1>2, <1>4 DEF Queued, Distinct
  <1> QED
    BY <1>3, <1>4

\* What is in a queue once its head is taken.
LEMMA QueuedTail ==
  ASSUME NEW s \in Seq(Tickets), s # <<>>, Distinct(s)
  PROVE  /\ Queued(Tail(s)) = Queued(s) \ {Head(s)} /\ Head(s) \in Queued(s)
         /\ Distinct(Tail(s))
  <1>1. /\ Head(s) = s[1] /\ Tail(s) \in Seq(Tickets) /\ Len(Tail(s)) = Len(s) - 1
        /\ \A i \in 1..Len(Tail(s)) : Tail(s)[i] = s[i + 1]
    BY HeadTailProperties
  <1>2. Len(s) \in Nat /\ Len(s) >= 1 /\ DOMAIN s = 1..Len(s)
    BY EmptySeq
  <1>3. DOMAIN Tail(s) = 1..(Len(s) - 1)
    BY <1>1, <1>2
  <1>4. Distinct(Tail(s))
    BY <1>1, <1>2, <1>3 DEF Distinct
  <1>5. Head(s) \in Queued(s)
    BY <1>1, <1>2 DEF Queued
  <1>6. ASSUME NEW t \in Queued(Tail(s)) PROVE t \in Queued(s) \ {Head(s)}
    BY <1>1, <1>2, <1>3 DEF Queued, Distinct
  <1>7. ASSUME NEW t \in Queued(s), t # Head(s) PROVE t \in Queued(Tail(s))
    <2>1. PICK i \in 1..Len(s) : s[i] = t
      BY <1>2 DEF Queued
    <2>2. i - 1 \in 1..(Len(s) - 1) /\ s[(i - 1) + 1] = t
      BY <1>1, <1>2, <1>7, <2>1
    <2> QED
      BY <1>1, <1>3, <2>2 DEF Queued
  <1> QED
    BY <1>4, <1>5, <1>6, <1>7

\* What is in a queue with one put back at its head.
LEMMA QueuedCons ==
  ASSUME NEW s \in Seq(Tickets), NEW t \in Tickets
  PROVE  /\ Queued(<<t>> \o s) = Queued(s) \cup {t}
         /\ Distinct(s) /\ t \notin Queued(s) => Distinct(<<t>> \o s)
  <1>1. <<t>> \in Seq(Tickets) /\ Len(<<t>>) = 1 /\ <<t>>[1] = t
    OBVIOUS
  <1>2. Len(s) \in Nat /\ DOMAIN s = 1..Len(s)
    OBVIOUS
  <1>3. /\ DOMAIN (<<t>> \o s) = 1..(1 + Len(s))
        /\ (<<t>> \o s)[1] = t
        /\ \A i \in 2..(1 + Len(s)) : (<<t>> \o s)[i] = s[i - 1]
    BY <1>1, <1>2, ConcatProperties
  <1>4. \A i \in 1..Len(s) : (<<t>> \o s)[i + 1] = s[i] /\ i + 1 \in 1..(1 + Len(s))
    BY <1>2, <1>3
  <1>5. Queued(<<t>> \o s) = Queued(s) \cup {t}
    <2>1. ASSUME NEW u \in Queued(<<t>> \o s) PROVE u \in Queued(s) \cup {t}
      BY <1>2, <1>3 DEF Queued
    <2>2. t \in Queued(<<t>> \o s)
      BY <1>2, <1>3 DEF Queued
    <2>3. ASSUME NEW u \in Queued(s) PROVE u \in Queued(<<t>> \o s)
      <3>1. PICK i \in 1..Len(s) : s[i] = u
        BY <1>2 DEF Queued
      <3> QED
        BY <1>3, <1>4, <3>1 DEF Queued
    <2> QED
      BY <2>1, <2>2, <2>3
  <1>6. ASSUME Distinct(s), t \notin Queued(s) PROVE Distinct(<<t>> \o s)
    <2>1. \A i \in 2..(1 + Len(s)) : i - 1 \in DOMAIN s
      BY <1>2
    <2> QED
      BY <1>2, <1>3, <1>6, <2>1 DEF Queued, Distinct
  <1> QED
    BY <1>5, <1>6

\* Nothing is in an empty queue.
LEMMA QueuedNothing == Queued(<<>>) = {} /\ Distinct(<<>>)
  BY DEF Queued, Distinct

\* A kind of request that is not the kind of a place is not in it.
LEMMA ApartByKind ==
  ASSUME Control, Placed
  PROVE  /\ \A k \in Slots : box[k] # 0 => box[k] \in Tickets
         /\ Queued(children) \subseteq Tickets
         /\ \A ks \in SUBSET Slots : \A t \in In(ks) :
                t \in Tickets /\ request[t].kind \in ks /\ fate[t] = "open"
         /\ \A k \in Slots, t \in Tickets : t = box[k] => t \in In({k})
  <1>1. \A k \in Slots : box[k] # 0 => box[k] \in Tickets
    BY DEF Control, TypeOK
  <1>2. Queued(children) \subseteq Tickets
    BY ElementOfSeq DEF Control, TypeOK, Queued
  <1>3. \A ks \in SUBSET Slots : \A t \in In(ks) :
            t \in Tickets /\ request[t].kind \in ks /\ fate[t] = "open"
    BY <1>1 DEF In, Placed
  <1>4. 0 \notin Tickets
    BY DEF Tickets
  <1> QED
    BY <1>1, <1>2, <1>3, <1>4 DEF In

\* The next ticket is nowhere.
LEMMA TicketIsNew ==
  ASSUME Control, Placed, Fresh, Ticket \in Tickets
  PROVE  /\ fate[Ticket] = "unposted"
         /\ \A k \in Slots : box[k] # Ticket
         /\ Ticket \notin Queued(children) \cup typed \cup hand \cup {order}
         /\ order # 0 => order < Ticket
  <1>1. posted \in Nat /\ Ticket > posted /\ Ticket # 0
    BY PostsAssumption DEF Control, TypeOK, Ticket
  <1>2. fate[Ticket] = "unposted"
    BY <1>1 DEF Fresh
  <1>3. order # 0 => order \in Tickets /\ ~(order > posted)
    BY DEF Control, TypeOK, Placed, Fresh
  <1> QED
    BY <1>1, <1>2, <1>3 DEF Placed, Ticket, Tickets

\* A step of the worker that posts nothing and opens nothing leaves nothing late.
LEMMA FreshFrame ==
  ASSUME Control, Fresh, UNCHANGED <<postVars, resumedAt>>,
         \A t \in Tickets : /\ fate'[t] = "open" => fate[t] = "open"
                            /\ fate'[t] = "unposted" <=> fate[t] = "unposted"
  PROVE  Fresh'
  BY DEF Fresh, postVars

\* Nor does one that leaves the worker alone let an edit be late.
LEMMA EditFirstFrame ==
  ASSUME Control, EditFirst, UNCHANGED workerVars,
         \A t \in Tickets : t < order /\ fate'[t] = "open"
             => fate[t] = "open" /\ request'[t] = request[t]
  PROVE  EditFirst'
  BY DEF EditFirst, EditsPrecedeCommand, workerVars

\* A step of the UI that posts one request leaves nothing late.
LEMMA PostInTime ==
  ASSUME IInv, Ticket \in Tickets, posted' = Ticket, UNCHANGED <<workerVars, resumedAt>>,
         fate'[Ticket] # "unposted",
         \A t \in Tickets \ {Ticket} :
             /\ request'[t] = request[t]
             /\ fate'[t] = "open" => fate[t] = "open"
             /\ fate'[t] = "unposted" <=> fate[t] = "unposted"
  PROVE  Fresh' /\ EditFirst'
  <1>1. Control /\ Placed /\ Fresh /\ EditFirst
    BY DEF IInv, Places
  <1>2. posted \in Nat /\ resumedAt \in Nat /\ Ticket = posted + 1 /\ posted' = posted + 1
    BY PostsAssumption DEF Control, TypeOK, Ticket, IInv
  <1>3. \A t \in Tickets : t \in Nat /\ (t > posted' <=> t > posted /\ t # Ticket)
    BY <1>2 DEF Tickets
  <1>4. \A t \in Tickets : t > posted' <=> fate'[t] = "unposted"
    BY <1>1, <1>3 DEF Fresh
  <1>5. \A t \in Tickets : fate'[t] = "open" /\ request'[t].kind \in Stale => t > resumedAt'
    BY <1>1, <1>2 DEF Fresh
  <1>6. Fresh'
    BY <1>1, <1>2, <1>4, <1>5 DEF Fresh
  <1>7. \A t \in Tickets : t < order => t # Ticket
    <2>1. order # 0 => order < Ticket
      BY <1>1, TicketIsNew
    <2>2. order \in Nat
      BY <1>1 DEF Control, TypeOK, Tickets
    <2> QED
      BY <1>2, <2>1, <2>2 DEF Tickets
  <1>8. EditFirst'
    BY <1>1, <1>7, EditFirstFrame
  <1> QED
    BY <1>6, <1>8

\* Posting a command puts it into its mailbox and makes the stale requests go.
LEMMA PostCommandPlaces ==
  ASSUME IInv, NEW op \in Commands, PostCommand(op)
  PROVE  Places' /\ Fresh' /\ EditFirst'
  <1> DEFINE Gone == In(Stale) \cup Queued(children)
  <1> Control /\ Placed /\ Fresh /\ EditFirst /\ \A t \in Tickets : fate[t] = "open" => Somewhere(t)
    BY DEF IInv, Places
  <1>1. /\ Ticket \in Tickets /\ posted' = Ticket
        /\ request'[Ticket].kind = "command"
        /\ \A t \in Tickets \ {Ticket} : request'[t] = request[t]
    <2>1. Post("command", op)
      BY DEF PostCommand
    <2>2. /\ Ticket \in Tickets /\ posted' = Ticket
          /\ request'[Ticket] = [kind |-> "command", about |-> op]
          /\ \A t \in Tickets \ {Ticket} : request'[t] = request[t]
      BY <2>1, PostType DEF Control
    <2> QED
      BY <2>2
  <1>2. /\ fate[Ticket] = "unposted" /\ order # Ticket
        /\ \A k \in Slots : box[k] # Ticket
        /\ Ticket \notin Queued(children) \cup typed \cup hand
        /\ order # 0 => order < Ticket
    BY <1>1, TicketIsNew
  <1>3. /\ UNCHANGED <<stage, phase, hand, order, typed, resumedAt>>
        /\ children' = <<>> /\ box' = [Emptied(Stale) EXCEPT !["command"] = Ticket]
    BY DEF PostCommand, workerVars
  <1>4. Queued(children') = {} /\ Distinct(children')
    BY <1>3, QueuedNothing
  <1>5. /\ "command" \in Slots \ Stale /\ Stale \subseteq Slots
        /\ "children" \notin Slots /\ "terminal" \notin Slots
    BY Mailboxes DEF Stale
  <1>6. /\ box'["command"] = Ticket
        /\ \A k \in Stale : box'[k] = 0
        /\ \A k \in Slots \ (Stale \cup {"command"}) : box'[k] = box[k]
    BY <1>3, <1>5 DEF Emptied
  <1>8. \A t \in Gone :
            request[t].kind \in Stale \cup {"children"} /\ fate[t] = "open" /\ t \in Tickets
    BY <1>5, ApartByKind DEF Placed
  <1>9. \A k \in Slots : box[k] # 0 => box[k] \in Tickets /\ request[box[k]].kind = k
    BY ApartByKind DEF Placed
  <1>10. /\ hand \subseteq Tickets /\ typed \subseteq Tickets
         /\ (order # 0 => order \in Tickets) /\ 0 \notin Tickets
    BY DEF Control, TypeOK, Tickets
  <1>7. \A t \in Tickets :
            /\ t = Ticket => fate'[t] = "open"
            /\ t = box["command"] => fate'[t] = "replaced"
            /\ t \in Gone => fate'[t] = "cancelled"
            /\ t # Ticket /\ t # box["command"] /\ t \notin Gone => fate'[t] = fate[t]
    <2> SUFFICES ASSUME NEW t \in Tickets
                 PROVE  /\ t = Ticket => fate'[t] = "open"
                        /\ t = box["command"] => fate'[t] = "replaced"
                        /\ t \in Gone => fate'[t] = "cancelled"
                        /\ t # Ticket /\ t # box["command"] /\ t \notin Gone => fate'[t] = fate[t]
      OBVIOUS
    <2>1. fate'[t] = CASE t = Ticket -> "open"
                       [] t = box["command"] -> "replaced"
                       [] t \in Gone -> "cancelled"
                       [] OTHER -> fate[t]
      BY DEF PostCommand
    <2>2. ~(t = Ticket /\ t = box["command"]) /\ ~(t = Ticket /\ t \in Gone)
          /\ ~(t = box["command"] /\ t \in Gone)
      BY <1>2, <1>5, <1>8, <1>9, <1>10
    <2> HIDE DEF Gone
    <2> QED
      BY <2>1, <2>2
  <1>11. \A t \in Tickets : t \in Gone <=> t \in Queued(children) \/ \E k \in Stale : t = box[k]
    BY <1>5, <1>10 DEF In
  <1> HIDE DEF Gone
  <1>13. Placed'
    <2>1. \A k \in Slots : box'[k] # 0 => request'[box'[k]].kind = k /\ fate'[box'[k]] = "open"
      BY <1>1, <1>2, <1>5, <1>6, <1>7, <1>8, <1>9 DEF Placed
    <2>2. \A t \in typed' : request'[t].kind = "terminal" /\ fate'[t] = "open"
      BY <1>1, <1>2, <1>3, <1>5, <1>7, <1>8, <1>9, <1>10, Mailboxes DEF Placed
    <2>3. HandKind' = HandKind
      BY <1>3 DEF HandKind
    <2>4. \A t \in hand : t # Ticket /\ t # box["command"] /\ t \notin Gone
      BY <1>2, <1>5, <1>10, <1>11 DEF Placed
    <2>5. \A t \in hand' : /\ request'[t].kind = HandKind' /\ fate'[t] = "open"
                           /\ \A k \in Slots : box'[k] # t
                           /\ t \notin Queued(children') \cup typed'
      BY <1>1, <1>2, <1>3, <1>4, <1>5, <1>6, <1>7, <1>10, <2>3, <2>4 DEF Placed
    <2>6. order' # 0 => /\ request'[order'].kind = "command" /\ fate'[order'] = "open"
                        /\ box'["command"] # order'
      BY <1>1, <1>2, <1>3, <1>5, <1>6, <1>7, <1>8, <1>10 DEF Placed
    <2> QED
      BY <1>4, <2>1, <2>2, <2>5, <2>6 DEF Placed
  <1>14. \A t \in Tickets : fate'[t] = "open" => Somewhere(t)'
    BY <1>1, <1>3, <1>5, <1>6, <1>7, <1>11 DEF Somewhere
  <1>15. Fresh' /\ EditFirst'
    <2>1. \A t \in Tickets \ {Ticket} :
             /\ request'[t] = request[t]
             /\ fate'[t] = "open" => fate[t] = "open"
             /\ fate'[t] = "unposted" <=> fate[t] = "unposted"
      <3>1. \A t \in Tickets : t = box["command"] => fate[t] = "open"
        BY <1>5, <1>10 DEF Placed
      <3> QED
        BY <1>1, <1>7, <1>8, <3>1
    <2>2. fate'[Ticket] # "unposted" /\ UNCHANGED <<workerVars, resumedAt>>
      BY <1>1, <1>3, <1>7 DEF workerVars
    <2> QED
      BY <1>1, <2>1, <2>2, PostInTime
  <1> QED
    BY <1>13, <1>14, <1>15 DEF Places

\* Posting into a mailbox makes the request that was in it go.
LEMMA PostSlotPlaces ==
  ASSUME IInv, NEW k \in Jobs, NEW x \in Subject(k), PostSlot(k, x)
  PROVE  Places' /\ Fresh' /\ EditFirst'
  <1> Control /\ Placed /\ Fresh /\ EditFirst /\ \A t \in Tickets : fate[t] = "open" => Somewhere(t)
    BY DEF IInv, Places
  <1>1. /\ Ticket \in Tickets /\ posted' = Ticket
        /\ request'[Ticket].kind = k
        /\ \A t \in Tickets \ {Ticket} : request'[t] = request[t]
    <2>1. Post(k, x) /\ x \in Subjects \cup {"none"}
      BY DEF PostSlot, Subject
    <2>2. /\ Ticket \in Tickets /\ posted' = Ticket
          /\ request'[Ticket] = [kind |-> k, about |-> x]
          /\ \A t \in Tickets \ {Ticket} : request'[t] = request[t]
      BY <2>1, PostType DEF Control
    <2> QED
      BY <2>2
  <1>2. /\ fate[Ticket] = "unposted" /\ order # Ticket
        /\ \A m \in Slots : box[m] # Ticket
        /\ Ticket \notin Queued(children) \cup typed \cup hand
    BY <1>1, TicketIsNew
  <1>3. /\ UNCHANGED <<stage, phase, hand, order, typed, children, resumedAt>>
        /\ box' = [box EXCEPT ![k] = Ticket]
        /\ k \in Slots
    BY DEF PostSlot, workerVars
  <1>4. "children" \notin Slots /\ "terminal" \notin Slots /\ k # "command"
    BY Mailboxes, NoJobs, JobsAssumption
  <1>5. /\ box'[k] = Ticket
        /\ \A m \in Slots \ {k} : box'[m] = box[m]
    BY <1>3 DEF Control, TypeOK
  <1>6. \A m \in Slots : box[m] # 0 => box[m] \in Tickets /\ request[box[m]].kind = m
    BY ApartByKind DEF Placed
  <1>7. hand \subseteq Tickets /\ typed \subseteq Tickets /\ Queued(children) \subseteq Tickets
        /\ (order # 0 => order \in Tickets) /\ 0 \notin Tickets
    BY ApartByKind DEF Control, TypeOK, Tickets
  <1>8. \A t \in Tickets :
            /\ t = Ticket => fate'[t] = "open"
            /\ t = box[k] => fate'[t] = "replaced"
            /\ t # Ticket /\ t # box[k] => fate'[t] = fate[t]
    <2>1. \A t \in Tickets : t \in In({k}) <=> t = box[k]
      BY <1>3, <1>7 DEF In
    <2> QED
      BY <1>2, <1>3, <2>1 DEF PostSlot, Mark
  <1>9. Placed'
    <2>1. \A m \in Slots : box'[m] # 0 => request'[box'[m]].kind = m /\ fate'[box'[m]] = "open"
      BY <1>1, <1>2, <1>3, <1>5, <1>6, <1>8 DEF Placed
    <2>2. \A t \in typed' : request'[t].kind = "terminal" /\ fate'[t] = "open"
      BY <1>1, <1>2, <1>3, <1>4, <1>6, <1>7, <1>8 DEF Placed
    <2>3. \A t \in Queued(children') : request'[t].kind = "children" /\ fate'[t] = "open"
      BY <1>1, <1>2, <1>3, <1>4, <1>6, <1>7, <1>8 DEF Placed
    <2>4. HandKind' = HandKind
      BY <1>3 DEF HandKind
    <2>5. \A t \in hand' : /\ request'[t].kind = HandKind' /\ fate'[t] = "open"
                           /\ \A m \in Slots : box'[m] # t
                           /\ t \notin Queued(children') \cup typed'
      BY <1>1, <1>2, <1>3, <1>5, <1>7, <1>8, <2>4 DEF Placed
    <2>6. order' # 0 => /\ request'[order'].kind = "command" /\ fate'[order'] = "open"
                        /\ box'["command"] # order'
      BY <1>1, <1>2, <1>3, <1>4, <1>5, <1>6, <1>7, <1>8, Mailboxes DEF Placed
    <2> QED
      BY <1>3, <2>1, <2>2, <2>3, <2>5, <2>6 DEF Placed
  <1>10. \A t \in Tickets : fate'[t] = "open" => Somewhere(t)'
    BY <1>1, <1>3, <1>5, <1>8 DEF Somewhere
  <1>11. Fresh' /\ EditFirst'
    <2>1. \A t \in Tickets : t = box[k] => fate[t] = "open"
      BY <1>3, <1>7 DEF Placed
    <2>2. \A t \in Tickets \ {Ticket} :
             /\ request'[t] = request[t]
             /\ fate'[t] = "open" => fate[t] = "open"
             /\ fate'[t] = "unposted" <=> fate[t] = "unposted"
      BY <1>1, <1>8, <2>1
    <2>3. fate'[Ticket] # "unposted" /\ UNCHANGED <<workerVars, resumedAt>>
      BY <1>1, <1>3, <1>8 DEF workerVars
    <2> QED
      BY <1>1, <2>2, <2>3, PostInTime
  <1> QED
    BY <1>9, <1>10, <1>11 DEF Places

\* A request that is refused or put in a queue moves no other.
LEMMA PostQueuedPlaces ==
  ASSUME IInv, NEW k \in Jobs, NEW x \in Subjects \cup {"none"}, Post(k, x),
         PostRefused(k) \/ (k = "terminal" /\ PostTerminalInput)
             \/ (k = "children" /\ RequestVariableChildren(x))
  PROVE  Places' /\ Fresh' /\ EditFirst'
  <1> Control /\ Placed /\ Fresh /\ EditFirst /\ \A t \in Tickets : fate[t] = "open" => Somewhere(t)
    BY DEF IInv, Places
  <1>1. /\ Ticket \in Tickets /\ posted' = Ticket
        /\ request'[Ticket].kind = k
        /\ \A t \in Tickets \ {Ticket} : request'[t] = request[t]
    <2>1. /\ Ticket \in Tickets /\ posted' = Ticket
          /\ request'[Ticket] = [kind |-> k, about |-> x]
          /\ \A t \in Tickets \ {Ticket} : request'[t] = request[t]
      BY PostType DEF Control
    <2> QED
      BY <2>1
  <1>2. /\ fate[Ticket] = "unposted" /\ order # Ticket
        /\ \A m \in Slots : box[m] # Ticket
        /\ Ticket \notin Queued(children) \cup typed \cup hand
    BY <1>1, TicketIsNew
  <1>3. UNCHANGED <<stage, phase, hand, order, box, resumedAt>>
    BY DEF PostRefused, PostTerminalInput, RequestVariableChildren, workerVars
  <1>4. \/ fate'[Ticket] = "refused" /\ UNCHANGED <<typed, children>>
        \/ /\ k = "terminal" /\ fate'[Ticket] = "open"
           /\ typed' = typed \cup {Ticket} /\ UNCHANGED children
        \/ /\ k = "children" /\ fate'[Ticket] = "open"
           /\ children' = Append(children, Ticket) /\ UNCHANGED typed
    BY <1>1 DEF PostRefused, PostTerminalInput, RequestVariableChildren, Mark
  <1>5. \A t \in Tickets \ {Ticket} : fate'[t] = fate[t]
    BY DEF PostRefused, PostTerminalInput, RequestVariableChildren, Mark
  <1>6. \/ UNCHANGED children
        \/ /\ Queued(children') = Queued(children) \cup {Ticket} /\ Distinct(children')
           /\ k = "children" /\ fate'[Ticket] = "open" /\ UNCHANGED typed
    <2>1. children \in Seq(Tickets) /\ Distinct(children)
      BY DEF Control, TypeOK, Placed
    <2> QED
      BY <1>1, <1>2, <1>4, <2>1, QueuedAppend, ZenonT(60)
  <1>7. hand \subseteq Tickets /\ typed \subseteq Tickets /\ Queued(children) \subseteq Tickets
        /\ (order # 0 => order \in Tickets)
        /\ \A m \in Slots : box[m] # 0 => box[m] \in Tickets
    BY ApartByKind DEF Control, TypeOK
  <1>8. Placed'
    <2>1. \A m \in Slots : box'[m] # 0 => request'[box'[m]].kind = m /\ fate'[box'[m]] = "open"
      BY <1>1, <1>2, <1>3, <1>5, <1>7 DEF Placed
    <2>2. \A t \in typed' : request'[t].kind = "terminal" /\ fate'[t] = "open"
      BY <1>1, <1>2, <1>4, <1>5, <1>7 DEF Placed
    <2>3. \A t \in Queued(children') : request'[t].kind = "children" /\ fate'[t] = "open"
      BY <1>1, <1>2, <1>5, <1>6, <1>7 DEF Placed
    <2>4. HandKind' = HandKind
      BY <1>3 DEF HandKind
    <2>5. \A t \in hand' : /\ request'[t].kind = HandKind' /\ fate'[t] = "open"
                           /\ \A m \in Slots : box'[m] # t
                           /\ t \notin Queued(children') \cup typed'
      BY <1>1, <1>2, <1>3, <1>4, <1>5, <1>6, <1>7, <2>4 DEF Placed
    <2>6. order' # 0 => /\ request'[order'].kind = "command" /\ fate'[order'] = "open"
                        /\ box'["command"] # order'
      BY <1>1, <1>2, <1>3, <1>5, <1>7 DEF Placed
    <2> QED
      BY <1>6, <2>1, <2>2, <2>3, <2>5, <2>6 DEF Placed
  <1>9. \A t \in Tickets : fate'[t] = "open" => Somewhere(t)'
    <2>1. fate'[Ticket] = "open" => Ticket \in Queued(children') \cup typed'
      BY <1>1, <1>2, <1>4, <1>6, QueuedAppend DEF Control, TypeOK
    <2>2. Queued(children) \subseteq Queued(children') /\ typed \subseteq typed'
      BY <1>4, <1>6
    <2> QED
      BY <1>3, <1>5, <2>1, <2>2 DEF Somewhere
  <1>10. Fresh' /\ EditFirst'
    <2>1. fate'[Ticket] # "unposted" /\ UNCHANGED <<workerVars, resumedAt>>
      BY <1>3, <1>4 DEF workerVars
    <2> QED
      BY <1>1, <1>5, <2>1, PostInTime
  <1> QED
    BY <1>8, <1>9, <1>10 DEF Places

\* A step that changes neither requests nor places.
LEMMA IdlePlaces ==
  ASSUME IInv, UNCHANGED <<hand, order, box, children, typed, postVars, fate, resumedAt>>,
         hand # {} => HandKind' = HandKind,
         phase' = phase \/ phase' \notin {"editCall", "dispatch"}
  PROVE  Places' /\ Fresh' /\ EditFirst'
  <1>1. Placed'
    <2>1. \A t \in hand' : request'[t].kind = HandKind'
      BY DEF IInv, Places, Placed, postVars
    <2> QED
      BY <2>1 DEF IInv, Places, Placed, postVars
  <1>2. \A t \in Tickets : fate'[t] = "open" => Somewhere(t)'
    BY DEF IInv, Places, Somewhere
  <1>3. Fresh' /\ EditFirst'
    BY DEF IInv, Fresh, EditFirst, EditsPrecedeCommand, postVars
  <1> QED
    BY <1>1, <1>2, <1>3 DEF Places

\* Posting loses no request and serves none twice.
LEMMA UIPlaces == IInv /\ UI => Places' /\ Fresh' /\ EditFirst'
  <1> SUFFICES ASSUME IInv, UI PROVE Places' /\ Fresh' /\ EditFirst'
    OBVIOUS
  <1>1. ASSUME NEW k \in Jobs, PostRefused(k) PROVE Places' /\ Fresh' /\ EditFirst'
    BY <1>1, PostQueuedPlaces DEF PostRefused
  <1>2. ASSUME "terminal" \in Jobs, PostTerminalInput PROVE Places' /\ Fresh' /\ EditFirst'
    BY <1>2, PostQueuedPlaces DEF PostTerminalInput
  <1>3. ASSUME "children" \in Jobs, NEW x \in Subjects, RequestVariableChildren(x)
        PROVE Places' /\ Fresh' /\ EditFirst'
    BY <1>3, PostQueuedPlaces DEF RequestVariableChildren
  <1>4. CASE StartLaunch \/ Close
    BY <1>4, IdlePlaces DEF StartLaunch, Close, workerVars, HandKind
  <1> QED
    BY <1>1, <1>2, <1>3, <1>4, PostCommandPlaces, PostSlotPlaces DEF UI

\* A step that settles requests, which go from where they were, moves no other.
LEMMA SettlePlaces ==
  ASSUME IInv, NEW Gone \in SUBSET Tickets, UNCHANGED <<postVars, resumedAt>>,
         \A t \in Gone : fate[t] = "open" /\ fate'[t] \notin {"open", "unposted"},
         \A t \in Tickets \ Gone : fate'[t] = fate[t],
         \A k \in Slots : box'[k] = IF box[k] \in Gone THEN 0 ELSE box[k],
         Queued(children') = Queued(children) \ Gone, Distinct(children'),
         typed' = typed, typed \cap Gone = {},
         hand' = hand \ Gone, hand' # {} => HandKind' = HandKind,
         order' = IF order \in Gone THEN 0 ELSE order
  PROVE  Placed' /\ (\A t \in Tickets : fate'[t] = "open" => Somewhere(t)') /\ Fresh'
  <1> Control /\ Placed /\ Fresh /\ \A t \in Tickets : fate[t] = "open" => Somewhere(t)
    BY DEF IInv, Places
  <1>1. hand \subseteq Tickets /\ typed \subseteq Tickets /\ Queued(children) \subseteq Tickets
        /\ (order # 0 => order \in Tickets) /\ 0 \notin Tickets
        /\ \A m \in Slots : box[m] # 0 => box[m] \in Tickets
    BY ApartByKind DEF Control, TypeOK, Tickets
  <1>2. \A t \in Tickets : fate'[t] = "open" <=> fate[t] = "open" /\ t \notin Gone
    OBVIOUS
  <1>3. request' = request
    BY DEF postVars
  <1>4. Placed'
    <2>1. \A k \in Slots : box'[k] # 0 => request'[box'[k]].kind = k /\ fate'[box'[k]] = "open"
      BY <1>1, <1>2, <1>3 DEF Placed
    <2>2. \A t \in Queued(children') : request'[t].kind = "children" /\ fate'[t] = "open"
      BY <1>1, <1>2, <1>3 DEF Placed
    <2>3. \A t \in typed' : request'[t].kind = "terminal" /\ fate'[t] = "open"
      BY <1>1, <1>2, <1>3 DEF Placed
    <2>5. \A t \in hand' : /\ request'[t].kind = HandKind' /\ fate'[t] = "open"
                           /\ \A m \in Slots : box'[m] # t
                           /\ t \notin Queued(children') \cup typed'
      BY <1>1, <1>2, <1>3 DEF Placed
    <2>6. order' # 0 => /\ request'[order'].kind = "command" /\ fate'[order'] = "open"
                        /\ box'["command"] # order'
      BY <1>1, <1>2, <1>3, Mailboxes DEF Placed
    <2> QED
      BY <2>1, <2>2, <2>3, <2>5, <2>6 DEF Placed
  <1>5. \A t \in Tickets : fate'[t] = "open" => Somewhere(t)'
    BY <1>1, <1>2 DEF Somewhere
  <1>6. Fresh'
    BY FreshFrame
  <1> QED
    BY <1>4, <1>5, <1>6

\* Serving a kind of request moves what it takes and settles what it answers.
LEMMA ServePlaces ==
  ASSUME IInv, NEW k \in Jobs, Serve(k)
  PROVE  Places' /\ Fresh' /\ EditFirst'
  <1> Control /\ Placed /\ Fresh /\ EditFirst /\ \A t \in Tickets : fate[t] = "open" => Somewhere(t)
    BY DEF IInv, Places
  <1>1. hand \subseteq Tickets /\ typed \subseteq Tickets /\ Queued(children) \subseteq Tickets
        /\ (order # 0 => order \in Tickets) /\ 0 \notin Tickets
        /\ \A m \in Slots : box[m] # 0 => box[m] \in Tickets /\ request[box[m]].kind = m
    BY ApartByKind DEF Control, TypeOK, Tickets, Placed
  <1>2. /\ k \notin {"poll", "preempt", "preemptAgain", "command"} /\ "children" \notin Slots
        /\ "terminal" \notin Slots /\ "command" \in Slots
        /\ k \notin {"terminal", "children"} => k \in Slots
    BY Mailboxes, NoJobs, JobsAssumption
  <1>3. stage = k => order = 0 /\ phase \notin Commanding
    BY <1>2 DEF Control, WorkerAt, AtPreempt
  <1>4. CASE LookFor(k) \/ TakeNothing(k)
    <2>1. hand = {}
      BY <1>4 DEF LookFor, TakeNothing, Control, WorkerAt, Busy
    <2>2. phase' = phase \/ phase' \notin {"editCall", "dispatch"}
      BY <1>4 DEF LookFor, TakeNothing, Goto
    <2> QED
      BY <1>4, <2>1, <2>2, IdlePlaces DEF LookFor, TakeNothing
  <1>5. CASE CallBackend(k)
    <2>1. HandKind' = HandKind
      BY <1>5 DEF CallBackend, HandKind
    <2> QED
      BY <1>5, <2>1, IdlePlaces DEF CallBackend
  <1>6. CASE FailOffline(k) \/ Return(k)
    <2>1. /\ hand' = {} /\ phase' = "look"
          /\ UNCHANGED <<order, box, children, typed, postVars, resumedAt>>
          /\ \A t \in hand : fate'[t] \in {"answered", "dropped"}
          /\ \A t \in Tickets \ hand : fate'[t] = fate[t]
      BY <1>1, <1>6 DEF FailOffline, Return, Goto, Mark
    <2>2. /\ \A t \in hand : fate[t] = "open"
          /\ \A m \in Slots : box[m] \notin hand
          /\ Queued(children) \cap hand = {} /\ typed \cap hand = {}
          /\ Distinct(children)
          /\ order = 0
      BY <1>3, <1>6 DEF Placed, FailOffline, Return
    <2>3. Placed' /\ (\A t \in Tickets : fate'[t] = "open" => Somewhere(t)') /\ Fresh'
      BY <1>1, <2>1, <2>2, SettlePlaces
    <2>4. EditFirst'
      BY <2>1 DEF EditFirst, EditsPrecedeCommand
    <2> QED
      BY <2>3, <2>4 DEF Places
  <1>7. CASE Take(k)
    <2>1. hand = {} /\ order = 0
      BY <1>3, <1>7 DEF Take, Control, WorkerAt, Busy
    <2>2. /\ stage' = k /\ phase' \in {"reset", "test"} /\ order' = 0
          /\ UNCHANGED <<postVars, fate, resumedAt>>
      BY <1>7, <2>1 DEF Take
    <2>3. /\ \A t \in hand' : request[t].kind = k /\ fate[t] = "open"
          /\ \A m \in Slots : box'[m] = IF box[m] \in hand' THEN 0 ELSE box[m]
          /\ Queued(children') = Queued(children) \ hand' /\ Distinct(children')
          /\ typed' = typed \ hand'
      <3>1. CASE k = "terminal"
        <4>1. hand' = typed /\ typed' = {} /\ UNCHANGED <<box, children>>
          BY <1>7, <3>1 DEF Take
        <4>2. \A t \in typed : request[t].kind = k /\ fate[t] = "open"
          BY <3>1 DEF Placed
        <4>3. Distinct(children) /\ \A t \in Queued(children) : request[t].kind = "children"
          BY DEF Placed
        <4> QED
          BY <1>1, <1>2, <3>1, <4>1, <4>2, <4>3
      <3>2. CASE k = "children"
        <4>1. children \in Seq(Tickets) /\ children # <<>> /\ Distinct(children)
          BY <1>7, <3>2 DEF Take, Nothing, Control, TypeOK, Placed
        <4>2. hand' = {Head(children)} /\ children' = Tail(children) /\ UNCHANGED <<box, typed>>
          BY <1>7, <3>2 DEF Take
        <4>3. /\ Queued(children') = Queued(children) \ hand' /\ Distinct(children')
              /\ hand' \subseteq Queued(children)
          BY <4>1, <4>2, QueuedTail
        <4>4. \A t \in Queued(children) : request[t].kind = k /\ fate[t] = "open"
          BY <3>2 DEF Placed
        <4>5. \A t \in typed : request[t].kind = "terminal"
          BY DEF Placed
        <4> QED
          BY <1>1, <1>2, <3>2, <4>2, <4>3, <4>4, <4>5
      <3>3. CASE k \notin {"terminal", "children"}
        <4>1. k \in Slots /\ box[k] # 0
          BY <1>2, <1>7, <3>3 DEF Take, Nothing
        <4>2. hand' = {box[k]} /\ box' = Emptied({k}) /\ UNCHANGED <<children, typed>>
          BY <1>7, <3>3 DEF Take
        <4>3. /\ \A t \in Queued(children) : request[t].kind = "children"
              /\ \A t \in typed : request[t].kind = "terminal"
              /\ Distinct(children) /\ fate[box[k]] = "open"
          BY <4>1 DEF Placed
        <4>4. \A m \in Slots : box'[m] = IF box[m] \in hand' THEN 0 ELSE box[m]
          BY <1>1, <4>1, <4>2 DEF Emptied
        <4>5. box[k] \notin Queued(children) \cup typed /\ request[box[k]].kind = k
          BY <1>1, <3>3, <4>1, <4>3
        <4>6. Queued(children') = Queued(children) \ hand' /\ Distinct(children')
          BY <4>2, <4>3, <4>5
        <4>7. typed' = typed \ hand' /\ \A t \in hand' : request[t].kind = k /\ fate[t] = "open"
          BY <4>2, <4>3, <4>5
        <4> QED
          BY <4>4, <4>6, <4>7
      <3> QED
        BY <3>1, <3>2, <3>3
    <2>4. Placed'
      <3>1. HandKind' = k
        BY <2>2 DEF HandKind
      <3>3. hand' \subseteq Tickets
        BY ServeControl DEF Control, TypeOK
      <3>4. \A m \in Slots : box'[m] # 0 => request'[box'[m]].kind = m /\ fate'[box'[m]] = "open"
        BY <1>1, <2>2, <2>3 DEF Placed, postVars
      <3>5. /\ \A t \in Queued(children') : request'[t].kind = "children" /\ fate'[t] = "open"
            /\ \A t \in typed' : request'[t].kind = "terminal" /\ fate'[t] = "open"
        BY <2>2, <2>3 DEF Placed, postVars
      <3>6. \A t \in hand' : /\ request'[t].kind = HandKind' /\ fate'[t] = "open"
                             /\ \A m \in Slots : box'[m] # t
                             /\ t \notin Queued(children') \cup typed'
        BY <1>1, <2>2, <2>3, <3>1, <3>3 DEF postVars
      <3> QED
        BY <2>2, <2>3, <3>4, <3>5, <3>6 DEF Placed
    <2>5. \A t \in Tickets : fate'[t] = "open" => Somewhere(t)'
      BY <1>1, <2>1, <2>2, <2>3 DEF Somewhere
    <2>6. Fresh' /\ EditFirst'
      BY <2>2, FreshFrame DEF EditFirst, EditsPrecedeCommand
    <2> QED
      BY <2>4, <2>5, <2>6 DEF Places
  <1>8. CASE PutBack(k)
    <2>1. phase \in Busy /\ k \notin {"terminal", "poll"} /\ stage = k
      BY <1>2, <1>8 DEF PutBack, Interrupted, Busy
    <2>2. PICK t \in Tickets : hand = {t}
      BY <1>1, <2>1 DEF Control, WorkerAt
    <2>3. /\ request[t].kind = k /\ fate[t] = "open"
          /\ \A m \in Slots : box[m] # t
          /\ t \notin Queued(children) \cup typed
      BY <2>1, <2>2 DEF Placed, HandKind, Busy
    <2>4. (CHOOSE u \in hand : TRUE) = t
      BY <2>2
    <2>5. /\ hand' = {} /\ phase' = "look" /\ order' = 0
          /\ UNCHANGED <<postVars, typed, resumedAt>>
      BY <1>3, <1>8, <2>1 DEF PutBack, Goto
    <2>6. CASE k = "children"
      <3>1. children' = <<t>> \o children /\ UNCHANGED <<box, fate>>
        BY <1>8, <2>4, <2>6 DEF PutBack
      <3>2. Queued(children') = Queued(children) \cup {t} /\ Distinct(children')
        <4>1. children \in Seq(Tickets) /\ Distinct(children)
          BY DEF Control, TypeOK, Placed
        <4> QED
          BY <2>3, <3>1, <4>1, QueuedCons
      <3>3. Placed'
        BY <2>2, <2>3, <2>5, <2>6, <3>1, <3>2 DEF Placed, postVars
      <3>4. \A u \in Tickets : fate'[u] = "open" => Somewhere(u)'
        BY <1>3, <2>1, <2>2, <2>5, <3>1, <3>2 DEF Somewhere
      <3>5. Fresh' /\ EditFirst'
        BY <2>5, <3>1, FreshFrame DEF EditFirst, EditsPrecedeCommand
      <3> QED
        BY <3>3, <3>4, <3>5 DEF Places
    <2>7. CASE k # "children"
      <3>1. box' = [box EXCEPT ![k] = t] /\ fate' = Mark(In({k}), "replaced") /\ UNCHANGED children
        BY <1>8, <2>4, <2>7 DEF PutBack
      <3>2. k \in Slots /\ box'[k] = t /\ \A m \in Slots \ {k} : box'[m] = box[m]
        BY <1>2, <2>1, <2>7, <3>1 DEF Control, TypeOK
      <3>3. \A u \in Tickets : /\ u = box[k] => fate[u] = "open" /\ fate'[u] = "replaced"
                               /\ u # box[k] => fate'[u] = fate[u]
        BY <1>1, <3>1, <3>2 DEF Mark, In, Placed
      <3>4. Placed'
        <4>1. \A m \in Slots : box'[m] # 0 => request'[box'[m]].kind = m /\ fate'[box'[m]] = "open"
          BY <1>1, <2>2, <2>3, <2>5, <3>2, <3>3 DEF Placed, postVars
        <4>2. /\ \A u \in Queued(children') : request'[u].kind = "children" /\ fate'[u] = "open"
              /\ \A u \in typed' : request'[u].kind = "terminal" /\ fate'[u] = "open"
          <5>1. Queued(children') = Queued(children) /\ typed' = typed /\ request' = request
            BY <2>5, <3>1 DEF postVars
          <5>2. \A u \in Queued(children) \cup typed : u \in Tickets /\ u # box[k]
            BY <1>1, <2>1, <2>7, <3>2 DEF Placed
          <5> QED
            BY <3>3, <5>1, <5>2 DEF Placed
        <4> QED
          BY <2>5, <3>1, <4>1, <4>2 DEF Placed
      <3>5. \A u \in Tickets : fate'[u] = "open" => Somewhere(u)'
        BY <1>3, <2>1, <2>2, <2>5, <3>1, <3>2, <3>3, SMTT(30) DEF Somewhere
      <3>6. Fresh' /\ EditFirst'
        BY <2>5, <3>3, FreshFrame DEF EditFirst, EditsPrecedeCommand
      <3> QED
        BY <3>4, <3>5, <3>6 DEF Places
    <2> QED
      BY <2>6, <2>7
  <1> QED
    BY <1>4, <1>5, <1>6, <1>7, <1>8 DEF Serve

\* A command goes before what it makes stale, and after an edit.
LEMMA PreemptPlaces ==
  ASSUME IInv, Preempt
  PROVE  Places' /\ Fresh' /\ EditFirst'
  <1> Control /\ Placed /\ Fresh /\ EditFirst /\ \A t \in Tickets : fate[t] = "open" => Somewhere(t)
    BY DEF IInv, Places
  <1>1. hand \subseteq Tickets /\ typed \subseteq Tickets /\ Queued(children) \subseteq Tickets
        /\ (order # 0 => order \in Tickets) /\ 0 \notin Tickets
        /\ \A m \in Slots : box[m] # 0 =>
               box[m] \in Tickets /\ request[box[m]].kind = m /\ fate[box[m]] = "open"
    BY ApartByKind DEF Control, TypeOK, Tickets, Placed
  <1>2. /\ {"command", "setVariable"} \cup Stale \subseteq Slots
        /\ "command" \notin Stale /\ "setVariable" \notin Stale
        /\ "children" \notin Slots /\ "terminal" \notin Slots
    BY Mailboxes DEF Stale
  <1>3. \A ks \in SUBSET Slots : \A t \in Tickets : t \in In(ks) <=> \E k \in ks : box[k] = t
    BY <1>1 DEF In
  <1>4. AtPreempt => stage \notin Jobs \cup {"poll"}
    BY NoJobs, JobsAssumption DEF AtPreempt
  <1>5. CASE NoCommand
    <2>1. hand = {}
      BY <1>4, <1>5 DEF NoCommand, Control, WorkerAt, Busy
    <2> QED
      BY <1>5, <2>1, IdlePlaces DEF NoCommand, Goto
  <1>6. CASE RejectCommand
    <2> DEFINE Gone == In(Stale \cup {"command"})
    <2>1. hand = {} /\ order = 0 /\ box["command"] # 0
      BY <1>4, <1>6 DEF RejectCommand, CommandPending, Control, WorkerAt, Busy, Commanding
    <2>2. /\ UNCHANGED <<hand, order, children, typed, postVars, resumedAt>> /\ phase' = "look"
          /\ box' = Emptied(Stale \cup {"command"})
      BY <1>6 DEF RejectCommand, Goto
    <2>3. /\ Gone \in SUBSET Tickets
          /\ \A t \in Gone : fate[t] = "open" /\ request[t].kind \in Stale \cup {"command"}
      BY <1>2, ApartByKind
    <2>4. \A t \in Gone : fate'[t] \in {"cancelled", "answered"}
      <3>1. fate' = [Mark(In(Stale), "cancelled") EXCEPT ![box["command"]] = "answered"]
        BY <1>6 DEF RejectCommand
      <3>2. \A t \in Gone : t \in Tickets /\ (t \in In(Stale) \/ t = box["command"])
        BY <1>2, <1>3, <2>3
      <3> QED
        BY <3>1, <3>2 DEF Mark
    <2>5. \A t \in Tickets \ Gone : fate'[t] = fate[t]
      BY <1>1, <1>2, <1>3, <1>6, <2>1 DEF RejectCommand, Mark
    <2>6. \A k \in Slots : box'[k] = IF box[k] \in Gone THEN 0 ELSE box[k]
      BY <1>1, <1>2, <1>3, <2>2, <2>3 DEF Emptied
    <2>7. Queued(children) \cap Gone = {} /\ typed \cap Gone = {} /\ Distinct(children)
      BY <1>2, <2>3 DEF Placed, Stale
    <2> HIDE DEF Gone
    <2>8. Placed' /\ (\A t \in Tickets : fate'[t] = "open" => Somewhere(t)') /\ Fresh'
      <3>1. hand' = hand \ Gone /\ hand' = {} /\ order' = IF order \in Gone THEN 0 ELSE order
        BY <2>1, <2>2
      <3>2. Queued(children') = Queued(children) \ Gone /\ Distinct(children') /\ typed' = typed
        BY <2>2, <2>7
      <3>3. \A t \in Gone : fate[t] = "open" /\ fate'[t] \notin {"open", "unposted"}
        BY <2>3, <2>4
      <3>4. UNCHANGED <<postVars, resumedAt>>
        BY <2>2
      <3> QED
        BY <2>3, <2>5, <2>6, <2>7, <3>1, <3>2, <3>3, <3>4, SettlePlaces
    <2>9. EditFirst'
      BY <2>2 DEF EditFirst, EditsPrecedeCommand
    <2> QED
      BY <2>8, <2>9 DEF Places
  <1>7. CASE TakeCommand
    <2> DEFINE Gone == In(Stale)
    <2>1. hand = {} /\ order = 0 /\ box["command"] # 0
      BY <1>4, <1>7 DEF TakeCommand, CommandPending, Control, WorkerAt, Busy, Commanding
    <2>2. /\ UNCHANGED <<hand, children, typed, postVars>> /\ phase' = "edit"
          /\ box' = Emptied(Stale \cup {"command"}) /\ order' = box["command"]
          /\ fate' = Mark(Gone, "cancelled") /\ resumedAt' = posted
      BY <1>7 DEF TakeCommand
    <2>3. Gone \in SUBSET Tickets /\ \A t \in Gone : fate[t] = "open" /\ request[t].kind \in Stale
      BY <1>2, ApartByKind
    <2>4. \A t \in Gone : fate'[t] = "cancelled"
      BY <2>2, <2>3 DEF Mark
    <2>5. \A t \in Tickets \ Gone : fate'[t] = fate[t]
      BY <2>2 DEF Mark
    <2>6. \A k \in Slots : box'[k] = IF k \in Stale \cup {"command"} THEN 0 ELSE box[k]
      BY <2>2 DEF Emptied
    <2>7. /\ Queued(children) \cap Gone = {} /\ typed \cap Gone = {} /\ Distinct(children)
          /\ box["command"] \notin Gone
      BY <1>1, <1>2, <2>3 DEF Placed, Stale
    <2>8. \A k \in Slots \ Stale : box[k] # 0 => box[k] \notin Gone
      BY <1>1, <2>3
    <2>9. \A t \in Tickets : fate'[t] = "open" => fate[t] = "open" /\ t \notin Gone
      BY <2>4, <2>5
    <2> HIDE DEF Gone
    <2>10. Placed'
      <3>1. \A k \in Slots : box'[k] # 0 => request'[box'[k]].kind = k /\ fate'[box'[k]] = "open"
        <4> SUFFICES ASSUME NEW k \in Slots, box'[k] # 0
                     PROVE  request'[box'[k]].kind = k /\ fate'[box'[k]] = "open"
          OBVIOUS
        <4>1. k \notin Stale /\ box'[k] = box[k] /\ box[k] # 0
          BY <2>6
        <4>2. fate'[box[k]] = fate[box[k]] /\ request' = request
          BY <1>1, <2>2, <2>5, <2>8, <4>1 DEF postVars
        <4> QED
          BY <1>1, <4>1, <4>2
      <3>2. /\ \A t \in Queued(children') : request'[t].kind = "children" /\ fate'[t] = "open"
            /\ \A t \in typed' : request'[t].kind = "terminal" /\ fate'[t] = "open"
            /\ Distinct(children')
        BY <1>1, <2>2, <2>5, <2>7 DEF Placed, postVars
      <3>3. /\ request'[order'].kind = "command" /\ fate'[order'] = "open"
            /\ box'["command"] # order'
        BY <1>1, <1>2, <2>1, <2>2, <2>5, <2>6, <2>7 DEF postVars
      <3> QED
        BY <2>1, <2>2, <3>1, <3>2, <3>3 DEF Placed
    <2>11. \A t \in Tickets : fate'[t] = "open" => Somewhere(t)'
      <3>1. \A k \in Stale, t \in Tickets : box[k] = t => t \in Gone
        BY <1>2, <1>3 DEF Gone
      <3> SUFFICES ASSUME NEW t \in Tickets, fate'[t] = "open" PROVE Somewhere(t)'
        OBVIOUS
      <3>2. Somewhere(t) /\ t \notin Gone
        BY <2>9
      <3>3. CASE \E k \in Slots : box[k] = t
        <4>1. PICK k \in Slots \ Stale : box[k] = t
          BY <3>1, <3>2, <3>3
        <4>2. k = "command" => order' = t
          BY <2>2, <4>1
        <4>3. k # "command" => box'[k] = t
          BY <2>6, <4>1
        <4> QED
          BY <4>1, <4>2, <4>3 DEF Somewhere
      <3>4. CASE t \in Queued(children) \cup typed \cup hand \cup {order}
        BY <1>1, <2>1, <2>2, <3>4 DEF Somewhere
      <3> QED
        BY <3>2, <3>3, <3>4 DEF Somewhere
    <2>12. Fresh'
      <3>1. \A t \in Tickets : fate'[t] = "open" => request'[t].kind \notin Stale
        <4> SUFFICES ASSUME NEW t \in Tickets, fate'[t] = "open", request[t].kind \in Stale
                     PROVE  FALSE
          BY <2>2 DEF postVars
        <4>1. Somewhere(t) /\ t \notin Gone
          BY <2>9
        <4>2. request[t].kind \notin {"children", "terminal", "command"}
          BY DEF Stale
        <4>3. t \notin Queued(children) \cup typed \cup hand \cup {order}
          BY <1>1, <2>1, <4>2 DEF Placed
        <4>4. PICK k \in Slots : box[k] = t
          BY <4>1, <4>3 DEF Somewhere
        <4>5. k \in Stale
          BY <1>1, <4>4
        <4> QED
          BY <1>2, <1>3, <4>1, <4>4, <4>5 DEF Gone
      <3>2. \A t \in Tickets : fate'[t] = "unposted" <=> fate[t] = "unposted"
        BY <2>3, <2>4, <2>5
      <3>3. posted \in Nat
        BY PostsAssumption DEF Control, TypeOK
      <3> QED
        BY <2>2, <3>1, <3>2, <3>3 DEF Fresh, postVars
    <2>13. EditFirst'
      BY <2>2 DEF EditFirst, EditsPrecedeCommand
    <2> QED
      BY <2>10, <2>11, <2>12, <2>13 DEF Places
  <1>8. CASE ApplyEdit
    <2>1. hand = {} /\ order \in Tickets /\ stage \notin Jobs
      BY <1>1, <1>4, <1>8 DEF ApplyEdit, Control, WorkerAt, Busy, Commanding
    <2>2. In({"setVariable"}) = {box["setVariable"]} /\ box["setVariable"] \in Tickets
      BY <1>1, <1>2, <1>8 DEF ApplyEdit, In
    <2>3. /\ UNCHANGED <<stage, order, children, typed, postVars, fate, resumedAt>>
          /\ hand' = {box["setVariable"]} /\ box' = Emptied({"setVariable"}) /\ phase' = "editCall"
      BY <1>8, <2>2 DEF ApplyEdit
    <2>4. \A k \in Slots : box'[k] = IF k = "setVariable" THEN 0 ELSE box[k]
      BY <2>3 DEF Emptied
    <2>5. request[box["setVariable"]].kind = "setVariable" /\ fate[box["setVariable"]] = "open"
      BY <1>1, <1>2, <2>2
    <2>6. Placed'
      <3>1. HandKind' = "setVariable"
        BY <2>3 DEF HandKind
      <3>2. /\ \A m \in Slots : box'[m] # box["setVariable"]
            /\ box["setVariable"] \notin Queued(children) \cup typed
        BY <1>1, <1>2, <2>2, <2>4, <2>5 DEF Placed
      <3> QED
        BY <1>1, <1>2, <2>1, <2>3, <2>4, <2>5, <3>1, <3>2 DEF Placed, postVars
    <2>7. \A t \in Tickets : fate'[t] = "open" => Somewhere(t)'
      BY <2>1, <2>3, <2>4 DEF Somewhere
    <2>8. EditFirst'
      <3> SUFFICES ASSUME NEW t \in Tickets, request[t].kind = "setVariable", fate[t] = "open"
                   PROVE  t = box["setVariable"]
        BY <2>3 DEF EditFirst, EditsPrecedeCommand, postVars
      <3>1. t \notin Queued(children) \cup typed \cup hand \cup {order}
        BY <1>1, <2>1 DEF Placed
      <3> QED
        BY <1>1, <3>1 DEF Somewhere
    <2>9. Fresh'
      BY <2>3, FreshFrame
    <2> QED
      BY <2>6, <2>7, <2>8, <2>9 DEF Places
  <1>9. CASE EditReturns
    <2>1. /\ hand' = {} /\ phase' = "dispatch"
          /\ UNCHANGED <<order, box, children, typed, postVars, resumedAt>>
          /\ \A t \in hand : fate'[t] = "answered"
          /\ \A t \in Tickets \ hand : fate'[t] = fate[t]
      BY <1>1, <1>9 DEF EditReturns, Mark
    <2>2. /\ \A t \in hand : fate[t] = "open" /\ request[t].kind = "setVariable"
          /\ \A m \in Slots : box[m] \notin hand
          /\ Queued(children) \cap hand = {} /\ typed \cap hand = {}
          /\ Distinct(children) /\ order \notin hand
      BY <1>1, <1>9 DEF Placed, EditReturns, HandKind
    <2>3. Placed' /\ (\A t \in Tickets : fate'[t] = "open" => Somewhere(t)') /\ Fresh'
      BY <1>1, <2>1, <2>2, SettlePlaces
    <2>4. EditFirst'
      BY <1>9, <2>1, <2>2 DEF EditFirst, EditsPrecedeCommand, EditReturns, postVars
    <2> QED
      BY <2>3, <2>4 DEF Places
  <1>10. CASE NoEdit
    <2>1. hand = {} /\ order \in Tickets /\ stage \notin Jobs
      BY <1>1, <1>4, <1>10 DEF NoEdit, Control, WorkerAt, Busy, Commanding
    <2>2. /\ UNCHANGED <<hand, order, box, children, typed, postVars, fate, resumedAt>>
          /\ phase' = "dispatch" /\ box["setVariable"] = 0
      BY <1>10 DEF NoEdit
    <2>3. Placed' /\ (\A t \in Tickets : fate'[t] = "open" => Somewhere(t)') /\ Fresh'
      BY <2>1, <2>2, FreshFrame DEF Placed, Somewhere, postVars
    <2>4. EditFirst'
      <3> SUFFICES ASSUME NEW t \in Tickets, request[t].kind = "setVariable", fate[t] = "open"
                   PROVE  FALSE
        BY <2>2 DEF EditFirst, EditsPrecedeCommand, postVars
      <3>1. t \notin Queued(children) \cup typed \cup hand \cup {order}
        BY <1>1, <2>1 DEF Placed
      <3> QED
        BY <1>1, <2>2, <3>1 DEF Somewhere
    <2> QED
      BY <2>3, <2>4 DEF Places
  <1>11. CASE DispatchFails \/ DispatchCommand
    <2>1. hand = {} /\ order \in Tickets
      BY <1>1, <1>4, <1>11 DEF DispatchFails, DispatchCommand, Control, WorkerAt, Busy, Commanding
    <2>2. /\ UNCHANGED <<hand, typed, postVars, resumedAt>> /\ phase' = "look" /\ order' = 0
      BY <1>11 DEF DispatchFails, DispatchCommand, Goto
    <2>3. request[order].kind = "command" /\ fate[order] = "open" /\ box["command"] # order
      BY <1>1, <2>1 DEF Placed
    <2>4. PICK ks \in SUBSET Slots : /\ "command" \notin ks
                                     /\ \/ ks = {} /\ box' = box /\ children' = children
                                           /\ fate' = Mark({order}, "answered")
                                        \/ box' = Emptied(ks) /\ children' = <<>>
                                           /\ fate' = [Mark(In(ks) \cup Queued(children), "cancelled")
                                                          EXCEPT ![order] = "answered"]
      <3>1. /\ AdapterWork \cap Slots \in SUBSET Slots /\ "command" \notin AdapterWork
            /\ In(AdapterWork \cap Slots) = In(AdapterWork)
            /\ Emptied(AdapterWork \cap Slots) = Emptied(AdapterWork)
        BY DEF AdapterWork, Fetches, In, Emptied
      <3>2. \/ /\ box' = box /\ children' = children /\ fate' = Mark({order}, "answered")
            \/ /\ box' = Emptied(AdapterWork) /\ children' = <<>>
               /\ fate' = [Mark(In(AdapterWork) \cup Queued(children), "cancelled")
                              EXCEPT ![order] = "answered"]
        BY <1>11 DEF DispatchFails, DispatchCommand
      <3> QED
        BY <3>1, <3>2
    <2> DEFINE Kept == box' = box /\ children' = children /\ fate' = Mark({order}, "answered")
               Gone == IF Kept THEN {order} ELSE {order} \cup In(ks) \cup Queued(children)
    <2>5. Gone \in SUBSET Tickets /\ \A t \in Gone : fate[t] = "open"
      BY <1>1, <2>1, <2>3, ApartByKind DEF Placed
    <2>6. \A t \in Gone : fate'[t] \in {"answered", "cancelled"}
      BY <2>1, <2>4, <2>5 DEF Mark
    <2>7. \A t \in Tickets \ Gone : fate'[t] = fate[t]
      BY <2>1, <2>4 DEF Mark
    <2>8. \A k \in Slots : box'[k] = IF box[k] \in Gone THEN 0 ELSE box[k]
      <3>1. \A k \in Slots : box[k] # order /\ box[k] \notin Queued(children)
        BY <1>1, <1>2, <2>1, <2>3 DEF Placed
      <3>2. CASE Kept
        BY <3>1, <3>2
      <3>3. CASE ~Kept
        <4>1. ASSUME NEW k \in Slots PROVE box[k] \in In(ks) <=> k \in ks /\ box[k] # 0
          <5>1. ASSUME box[k] \in In(ks) PROVE k \in ks /\ box[k] # 0
            <6>1. box[k] \in Tickets /\ box[k] # 0
              BY <1>1, <5>1, ApartByKind
            <6>2. PICK m \in ks : box[m] = box[k]
              BY <1>3, <5>1, <6>1
            <6> QED
              BY <1>1, <6>1, <6>2
          <5>2. ASSUME k \in ks, box[k] # 0 PROVE box[k] \in In(ks)
            BY <1>1, <1>3, <5>2
          <5> QED
            BY <5>1, <5>2
        <4> QED
          BY <2>4, <3>1, <3>3, <4>1 DEF Emptied
      <3> QED
        BY <3>2, <3>3
    <2>9. /\ Queued(children') = Queued(children) \ Gone /\ Distinct(children')
          /\ typed \cap Gone = {}
      <3>1. /\ order \notin Queued(children) \cup typed /\ typed \cap Queued(children) = {}
            /\ Distinct(children)
        BY <2>3 DEF Placed
      <3>2. typed \cap In(ks) = {}
        BY <1>1, <1>2, <1>3 DEF Placed
      <3>3. CASE Kept
        BY <3>1, <3>3
      <3>4. CASE ~Kept
        BY <2>4, <3>1, <3>2, <3>4, QueuedNothing
      <3> QED
        BY <3>3, <3>4
    <2>10. order \in Gone
      OBVIOUS
    <2> HIDE DEF Gone, Kept
    <2>11. Placed' /\ (\A t \in Tickets : fate'[t] = "open" => Somewhere(t)') /\ Fresh'
      BY <2>1, <2>2, <2>5, <2>6, <2>7, <2>8, <2>9, <2>10, SettlePlaces
    <2>12. EditFirst'
      BY <2>2 DEF EditFirst, EditsPrecedeCommand
    <2> QED
      BY <2>11, <2>12 DEF Places
  <1> QED
    BY <1>5, <1>6, <1>7, <1>8, <1>9, <1>10, <1>11 DEF Preempt

-----------------------------------------------------------------------------
(* The invariant, and what follows from it.                                *)

\* Initially nothing was posted.
LEMMA InitInv == Init => IInv
  <1> SUFFICES ASSUME Init PROVE IInv
    OBVIOUS
  <1>1. Places
    BY QueuedNothing DEF Init, Places, Placed, HandKind
  <1>2. Fresh /\ EditFirst
    BY DEF Init, Fresh, EditFirst, EditsPrecedeCommand, Tickets
  <1> QED
    BY <1>1, <1>2, InitControl DEF IInv

\* Every step of the worker keeps the requests where they are accounted for.
LEMMA WorkerPlaces == IInv /\ Worker => Places' /\ Fresh' /\ EditFirst'
  <1> SUFFICES ASSUME IInv, Worker PROVE Places' /\ Fresh' /\ EditFirst'
    OBVIOUS
  <1>1. Control
    BY DEF IInv
  <1>2. {"launch", "liveGate", "activeGate", "poll", "wait", "joining", "joiningLaunch", "shutdown",
         "scope"}
            \cap {"preempt", "preemptAgain"} = {}
    OBVIOUS
  <1>3. CASE BeginCycle \/ MaybeBeginLaunch \/ PassGate \/ Poll
    <2>1. phase' \notin {"editCall", "dispatch"}
      BY <1>3 DEF BeginCycle, MaybeBeginLaunch, PassGate, Poll, Goto
    <2>2. hand = {}
      <3>1. stage \notin Jobs
        BY <1>3, NoJobs, JobsAssumption DEF BeginCycle, MaybeBeginLaunch, PassGate, Poll
      <3> QED
        BY <1>1, <1>2, <1>3, <3>1 DEF BeginCycle, MaybeBeginLaunch, PassGate, Poll, Control, WorkerAt, Busy,
               Commanding, AtPreempt
    <2> QED
      BY <1>3, <2>1, <2>2, IdlePlaces DEF BeginCycle, MaybeBeginLaunch, PassGate, Poll, flagVars, endVars
  <1>4. CASE EndWorker
    <2>1. hand = {}
      <3>1. stage \notin Jobs \cup {"poll"}
        BY <1>4, NoJobs, JobsAssumption DEF EndWorker
      <3> QED
        BY <1>1, <1>2, <1>4, <3>1 DEF EndWorker, Control, WorkerAt, Busy, Commanding, AtPreempt
    <2> QED
      BY <1>4, <2>1, IdlePlaces DEF EndWorker
  <1>5. CASE ResetAborted
    <2>1. HandKind' = HandKind
      BY <1>5 DEF ResetAborted, HandKind
    <2> QED
      BY <1>5, <2>1, IdlePlaces DEF ResetAborted
  <1> QED
    BY <1>3, <1>4, <1>5, ServePlaces, PreemptPlaces DEF Worker

\* Every step keeps the invariant.
LEMMA NextInv == IInv /\ [Next]_vars => IInv'
  <1> SUFFICES ASSUME IInv, [Next]_vars PROVE IInv'
    OBVIOUS
  <1>1. Control'
    BY NextControl DEF IInv
  <1>2. CASE UI
    BY <1>1, <1>2, UIPlaces DEF IInv
  <1>3. CASE Others
    <2>1. UNCHANGED <<workerVars, box, children, typed, postVars, fate, resumedAt>>
      BY <1>3 DEF Others, LaunchWorker, LaunchSucceeds, LaunchFails, LaunchGoesLive,
                  SyncInitialState, Debounce, Ripen, DestructorJoins, Terminate
    <2>2. HandKind' = HandKind
      BY <2>1 DEF HandKind, workerVars
    <2> QED
      BY <1>1, <2>1, <2>2, IdlePlaces DEF workerVars, IInv
  <1>4. CASE Worker
    BY <1>1, <1>4, WorkerPlaces DEF IInv
  <1>5. CASE UNCHANGED vars
    <2>1. HandKind' = HandKind
      BY <1>5 DEF HandKind, vars, workerVars
    <2> QED
      BY <1>1, <1>5, <2>1, IdlePlaces DEF vars, workerVars, IInv
  <1> QED
    BY <1>2, <1>3, <1>4, <1>5 DEF Next, Others

LEMMA InvAlways == Spec => []IInv
  BY InitInv, NextInv, PTL DEF Spec

\* A set without elements that differ has at most one.
LEMMA AtMostOne ==
  ASSUME NEW S, NEW x \in S, \A y \in S : y = x
  PROVE  Cardinality(S) = 1
  <1>1. S = {x}
    OBVIOUS
  <1> QED
    BY <1>1, FS_Singleton

\* An open request has one holder, and no other request has any.
LEMMA OneHolder ==
  ASSUME IInv, NEW t \in Tickets
  PROVE  Holders(t) = IF fate[t] = "open" THEN 1 ELSE 0
  <1> DEFINE InBoxes == {k \in Slots : box[k] = t}
             InQueue == {i \in DOMAIN children : children[i] = t}
             InHands == {s \in {<<"typed", typed>>, <<"hand", hand>>, <<"order", {order}>>} :
                             t \in s[2]}
  <1> Placed /\ Control /\ (fate[t] = "open" => Somewhere(t))
    BY DEF IInv, Places
  <1>1. t # 0 /\ Cardinality({}) = 0
    BY FS_EmptySet DEF Tickets
  <1>2. \A k \in Slots : k \in InBoxes => request[t].kind = k /\ fate[t] = "open"
    BY <1>1 DEF Placed
  <1>3. \A i \in InQueue : request[t].kind = "children" /\ fate[t] = "open"
    BY DEF Placed, Queued
  <1>4. /\ t \in typed => request[t].kind = "terminal" /\ fate[t] = "open"
        /\ t = order => /\ request[t].kind = "command" /\ fate[t] = "open"
                        /\ box["command"] # t
        /\ t \in hand => /\ request[t].kind = HandKind /\ fate[t] = "open"
                         /\ InBoxes = {} /\ InQueue = {} /\ t \notin typed
    BY <1>1 DEF Placed, Queued
  <1>5. t \in hand => t # order
    <2>1. order # 0 => AtPreempt
      BY DEF Control, WorkerAt
    <2>2. t \in hand /\ t = order => HandKind \in {"setVariable", "preempt", "preemptAgain"}
      BY <1>1, <2>1 DEF HandKind, AtPreempt
    <2> QED
      BY <1>4, <2>2
  <1>6. "children" \notin Slots /\ "terminal" \notin Slots
    BY Mailboxes
  <1>7. /\ InBoxes = {} \/ \E k \in InBoxes : \A m \in InBoxes : m = k
        /\ InQueue = {} \/ \E i \in InQueue : \A j \in InQueue : j = i
    BY <1>2 DEF Placed, Distinct
  <1>8. /\ (InBoxes # {}) => InQueue = {} /\ t \notin typed \cup hand \cup {order}
        /\ (InQueue # {}) => InBoxes = {} /\ t \notin typed \cup hand \cup {order}
        /\ ~(t \in typed /\ t \in hand) /\ ~(t \in typed /\ t = order) /\ ~(t \in hand /\ t = order)
    BY <1>2, <1>3, <1>4, <1>5, <1>6
  <1>9. fate[t] = "open" <=> InBoxes # {} \/ InQueue # {} \/ t \in typed \cup hand \cup {order}
    BY <1>2, <1>3, <1>4 DEF Somewhere, Queued
  <1>10. /\ InHands = {} <=> t \notin typed \cup hand \cup {order}
         /\ InHands # {} => \E s \in InHands : \A r \in InHands : r = s
    <2>1. \A s : s \in InHands <=> \/ s = <<"typed", typed>> /\ t \in typed
                                   \/ s = <<"hand", hand>> /\ t \in hand
                                   \/ s = <<"order", {order}>> /\ t = order
      OBVIOUS
    <2> HIDE DEF InHands, InBoxes, InQueue
    <2>2. \A r, s \in InHands : r = s
      BY <1>8, <2>1
    <2>3. /\ t \in typed => <<"typed", typed>> \in InHands
          /\ t \in hand => <<"hand", hand>> \in InHands
          /\ t = order => <<"order", {order}>> \in InHands
      BY <2>1
    <2>4. InHands # {} => t \in typed \cup hand \cup {order}
      BY <2>1
    <2> QED
      BY <2>2, <2>3, <2>4
  <1>11. /\ Cardinality(InBoxes) = IF InBoxes = {} THEN 0 ELSE 1
         /\ Cardinality(InQueue) = IF InQueue = {} THEN 0 ELSE 1
         /\ Cardinality(InHands) = IF InHands = {} THEN 0 ELSE 1
    <2> HIDE DEF InBoxes, InQueue, InHands
    <2> QED
      BY <1>1, <1>7, <1>10, AtMostOne
  <1>12. Holders(t) = Cardinality(InBoxes) + Cardinality(InQueue) + Cardinality(InHands)
    BY DEF Holders
  <1> HIDE DEF InBoxes, InQueue, InHands
  <1> QED
    BY <1>8, <1>9, <1>10, <1>11, <1>12

\* However the UI posts while the worker holds a request without the mutex and puts
\* it back, none is lost without a trace and none is served twice.
THEOREM EveryRequestAccounted == Spec => []RequestsAccounted
  <1>1. IInv => RequestsAccounted
    BY OneHolder DEF RequestsAccounted
  <1> QED
    BY <1>1, InvAlways, PTL

\* A variable the user edited before stepping is set before the step.
THEOREM EditsComeFirst == Spec => []EditsPrecedeCommand
  <1>1. IInv => EditsPrecedeCommand
    BY DEF IInv, EditFirst
  <1> QED
    BY <1>1, InvAlways, PTL

\* What was asked for before the worker resumed the program is not answered after.
THEOREM AnswersStayFresh == Spec => AnswersAreFresh
  <1>1. IInv => [\A t \in Tickets :
                     fate[t] = "open" /\ fate'[t] = "answered" /\ request[t].kind \in Stale
                         => t > resumedAt]_vars
    BY DEF IInv, Fresh
  <1> QED
    BY <1>1, InvAlways, PTL DEF AnswersAreFresh

\* All the worker's steps but its last ones lead from a stage of its cycle to one or
\* out of it, and only at the start of the cycle a launch begins.
LEMMA InCycle ==
  ASSUME Control, Worker, ~EndWorker
  PROVE  /\ stage \in Stages /\ stage' \in Stages \cup {"joining"}
         /\ UNCHANGED endVars
         /\ launch' = launch \/ (launch = "requested" /\ launch' = "launching")
  <1>1. CASE BeginCycle \/ MaybeBeginLaunch \/ PassGate \/ Poll
    BY <1>1, TheStages, GoingOn DEF BeginCycle, MaybeBeginLaunch, PassGate, Poll, Goto, flagVars
  <1>2. CASE ResetAborted
    BY <1>2, TheStages DEF ResetAborted, Control, WorkerAt, Busy, flagVars
  <1>3. CASE Preempt
    <2>1. AtPreempt /\ (stage' = stage \/ stage' = After(stage))
      BY <1>3 DEF Preempt, NoCommand, TakeCommand, RejectCommand, ApplyEdit, EditReturns,
             NoEdit, DispatchFails, DispatchCommand, Control, WorkerAt, Commanding, Goto
    <2>2. UNCHANGED <<endVars, launch>>
      BY <1>3 DEF Preempt, NoCommand, TakeCommand, RejectCommand, ApplyEdit, EditReturns,
             NoEdit, DispatchFails, DispatchCommand, flagVars
    <2> QED
      BY <2>1, <2>2, TheStages, GoingOn DEF AtPreempt
  <1>4. ASSUME NEW k \in Jobs, Serve(k)
        PROVE  /\ stage \in Stages /\ stage' \in Stages /\ UNCHANGED <<endVars, launch>>
    <2>1. stage = k /\ stage' \in {k, After(k), Done(k)} /\ UNCHANGED <<endVars, launch>>
      BY <1>4 DEF Serve, LookFor, TakeNothing, Take, PutBack, FailOffline, CallBackend,
             Return, Goto, flagVars
    <2> QED
      BY <2>1, TheStages, GoingOn
  <1> QED
    BY <1>1, <1>2, <1>3, <1>4 DEF Worker

\* The stages the worker leaves its cycle by are none of it.
LEMMA LeavingStages == Stages \cap {"joining", "joiningLaunch", "shutdown", "ended"} = {}
  <1>1. Stages \subseteq {"launch", "liveGate", "activeGate", "preempt", "poll", "preemptAgain",
                          "wait"} \cup AllJobs
    BY LastStage DEF Stages, Order, AllJobs, Fetches, LiveOnly, Debounced, Console
  <1> QED
    BY <1>1 DEF AllJobs, Fetches, LiveOnly, Debounced, Console

\* The destructor returns when both threads are through with the object, and the
\* process ends at a second join only when a launch had begun.
THEOREM ClosingIsSafe == Spec => []ClosedSafely
  <1>1. Init => Joins
    BY DEF Init, Joins, Begun, ClosedSafely
  <1>2. IInv /\ Joins /\ [Next]_vars => Joins'
    <2> SUFFICES ASSUME IInv, Joins, [Next]_vars PROVE Joins'
      OBVIOUS
    <2> USE DEF Joins, Begun, ClosedSafely
    <2>1. TypeOK
      BY DEF IInv, Control
    <2>2. CASE UI \/ Debounce \/ UNCHANGED vars
      <3>1. UNCHANGED <<stage, joined>> /\ (closing' = closing \/ closing' = "closing")
        BY <2>2 DEF UI, PostCommand, PostRefused, PostSlot, PostTerminalInput,
               RequestVariableChildren, StartLaunch, Close, Debounce, Ripen, vars, workerVars,
               flagVars, endVars
      <3>2. launch' = launch \/ (launch = "unset" /\ launch' = "requested")
        BY <2>2 DEF UI, PostCommand, PostRefused, PostSlot, PostTerminalInput,
               RequestVariableChildren, StartLaunch, Close, Debounce, Ripen, vars, flagVars
      <3> QED
        BY <3>1, <3>2
    <2>3. CASE DestructorJoins
      BY <2>3 DEF DestructorJoins, Joinable, workerVars
    <2>4. CASE Terminate
      BY <2>4 DEF Terminate, JoinedTwice, workerVars
    <2>5. CASE LaunchWorker
      BY <2>5 DEF LaunchWorker, LaunchSucceeds, LaunchFails, LaunchGoesLive, SyncInitialState,
             workerVars, endVars
    <2>6. CASE EndWorker
      BY <2>6 DEF EndWorker, Joinable
    <2>7. CASE Worker /\ ~EndWorker
      BY <2>7, InCycle, LeavingStages DEF IInv, endVars
    <2> QED
      BY <2>2, <2>3, <2>4, <2>5, <2>6, <2>7 DEF Next
  <1>3. Joins => ClosedSafely
    BY DEF Joins
  <1> QED
    BY <1>1, <1>2, <1>3, InvAlways, PTL DEF Spec
=============================================================================
