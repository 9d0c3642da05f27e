-------------------------- MODULE UiSessionProofs --------------------------
(***************************************************************************)
(* What UiSession promises, for every number of variables, stops, commands *)
(* and events.                                                             *)
(***************************************************************************)
EXTENDS UiSession, FiniteSetTheorems, SequenceTheorems, TLAPS

-----------------------------------------------------------------------------
(* The inductive invariant. *)

(* A request for scopes is for a snapshot there was, and, if it is for the   *)
(* last one, for its stop.                                                   *)
RequestSound(r) == r.generation <= generation /\ (r.generation = generation => r.stop = at)
EventSound(event) == event.kind = "scopes" => RequestSound(event)

RequestsSound ==
    /\ scopeBox # NoRequest => RequestSound(scopeBox)
    /\ task.kind = "scopes" => RequestSound(task)
    /\ \A i \in DOMAIN events : EventSound(events[i])
    /\ generation = 0 => at = NoStop
    /\ fetched = generation => variables = at \/ (partial /\ variables = NoStop)

(* The UI does not learn of the session by looking at it.  What it shows     *)
(* follows from the last snapshot of a session, from the events that came    *)
(* after it, which must not contradict it, and from a command that was shown *)
(* at once and is still to have its effect, or to fail.                      *)
IsSnapshot(event) == event.kind = "snapshot" /\ event.ok
IsFailure(event) == event.kind = "finished" /\ ~event.ok /\ event.name \in ExecutionControl

Keeps(event) ==
    /\ ~IsSnapshot(event)
    /\ IsFailure(event) => session = "stopped"
    /\ event = Finished(TRUE, "goto") => session = "running"
    /\ event = Finished(TRUE, "terminate") => session = "exited"

(* A step into that fails leaves a session that stopped before, and is taken *)
(* back; any other command shown at once leaves the state unsure.            *)
Certain == ShownAtOnce \ {"step_into"}

Told ==
    \/ state = session
    \/ command \in Certain
    \/ task.kind = "command" /\ task.name \in Certain
    \/ /\ state = "running"
       /\ \/ command = "step_into"
          \/ task.kind = "command" /\ task.name = "step_into"
          \/ session = "stopped" /\ \E i \in DOMAIN events : IsFailure(events[i])

(* At a stop, the scopes are there or were asked for, or will be at the end  *)
(* of this round of poll_session; a child that was asked for is on its way.  *)
ScopesComing ==
    \/ scopeBox # NoRequest
    \/ task.kind = "scopes"
    \/ \E i \in DOMAIN events : events[i].kind = "scopes"

ChildrenComing(p) ==
    \/ p \in Queued(childQueue)
    \/ task.kind = "children" /\ task.name = p
    \/ \E i \in DOMAIN events : events[i].kind = "children" /\ events[i].name = p

AtRest == ui = "idle" /\ launch = "handled" /\ connection = "Connected" /\ IsStopped /\ ~setting

ScopesFollow ==
    /\ at # NoStop
    /\ fetching => ScopesComing
    /\ AtRest => fetched = generation \/ fetching
    /\ (ui = "idle" \/ setting) /\ fetched = generation => rows = at \/ partial

(* A request for the scopes of the last snapshot was taken after the last    *)
(* command, and so nothing keeps the requests for children waiting.          *)
NotAborted ==
    /\ fetched = generation => ~aborted
    /\ task.kind = "scopes" /\ task.generation = generation => ~aborted
    /\ \A i \in DOMAIN events : events[i].kind = "scopes" /\ events[i].generation = generation => ~aborted

ChildrenFollow ==
    /\ \A p \in asking : ChildrenComing(p)
    /\ fetched = generation /\ ~partial => \A p \in expanded : at \in children[p] \/ p \in asking

Commanded == command # NoCommand \/ task.kind = "command"

Followed == session = "stopped" /\ ~dropped => Commanded \/ (ScopesFollow /\ NotAborted /\ ChildrenFollow)

(* The k-th event is the last snapshot, or there is none and k is 0.         *)
NewsSince(k) ==
    /\ \A i \in DOMAIN events : i > k => Keeps(events[i])
    /\ k > 0 => IsSnapshot(events[k]) /\ events[k].name = session

NewsFollowed == active /\ ~unsure => \E k \in 0..Len(events) : NewsSince(k) /\ (k = 0 => Told /\ Followed)

IInv == TypeOK /\ RequestsSound /\ NewsFollowed


-----------------------------------------------------------------------------
(* Sequences and the community modules' SetToSeq. *)

(* A finite set as a sequence: it has the elements of the set and no other.  *)
LEMMA SetToSeqLists ==
  ASSUME NEW S, IsFiniteSet(S)
  PROVE  /\ SetToSeq(S) \in Seq(S)
         /\ \A x \in S : \E i \in 1..Len(SetToSeq(S)) : SetToSeq(S)[i] = x
<1> DEFINE n == Cardinality(S)
<1> DEFINE q == SetToSeq(S)
<1>1. n \in Nat /\ Bijection(1..n, S) # {}
  BY FS_CardinalityType DEF ExistsBijection
<1>2. PICK f \in Bijection(1..n, S) : TRUE
  BY <1>1
<1>3. f \in [1..n -> S] /\ IsInjective(f)
  BY <1>2 DEF Bijection, Injection
<1>4. q \in [1..n -> S] /\ IsInjective(q)
  BY <1>3 DEF SetToSeq
<1>5. q \in Seq(S) /\ Len(q) = n
  BY <1>1, <1>4, IsASeq, SeqDef
<1> DEFINE T == {q[i] : i \in 1..n}
<1>6. T \in SUBSET S
  BY <1>4
<1>7. q \in Bijection(1..n, T)
  BY <1>4 DEF Bijection, Injection, Surjection, IsInjective
<1>8. Cardinality(T) = n
  BY <1>1, <1>7, FS_CountingElements DEF ExistsBijection
<1>9. T = S
  BY <1>6, <1>8, FS_Subset
<1>10. QED
  BY <1>5, <1>9

(* Two finite sets of requests for children: of finitely many paths there    *)
(* are finitely many requests.                                               *)
LEMMA RequestsAreFinite ==
  ASSUME NEW P, IsFiniteSet(P), NEW s
  PROVE  IsFiniteSet({[path |-> p, stop |-> s] : p \in P})
<1> DEFINE T == {[path |-> p, stop |-> s] : p \in P}
<1> DEFINE f == [p \in P |-> [path |-> p, stop |-> s]]
<1>1. f \in Surjection(P, T)
  BY DEF Surjection
<1>2. QED
  BY <1>1, FS_Surjection


(* The sequences a queue can become. *)
LEMMA QueuesGrow ==
  ASSUME NEW S
  PROVE  /\ <<>> \in Seq(S)
         /\ \A s \in Seq(S), e \in S : Append(s, e) \in Seq(S) /\ <<e>> \in Seq(S)
         /\ \A s, t \in Seq(S) : s \o t \in Seq(S)
<1>1. <<>> \in Seq(S)
  BY EmptySeq
<1>2. \A s \in Seq(S), e \in S : Append(s, e) \in Seq(S)
  BY AppendProperties
<1>3. \A e \in S : <<e>> \in Seq(S)
  OBVIOUS
<1>4. \A s, t \in Seq(S) : s \o t \in Seq(S)
  BY ConcatProperties
<1>5. QED
  BY <1>1, <1>2, <1>3, <1>4

-----------------------------------------------------------------------------
(* Types. *)

(* One variable, one conjunct. *)
PlainTypes ==
    /\ ui \in {"idle", "draining"} /\ launch \in {"none", "posted", "finished", "handled"}
    /\ connection \in {"Connecting", "Connected", "Failed"}
    /\ state \in SessionStates \cup {NoName} /\ session \in SessionStates
    /\ choice \in {"none", "asked", "choosing"}
    /\ command \in Commands \cup {NoCommand}
FlagTypes ==
    /\ fetching \in BOOLEAN /\ setting \in BOOLEAN /\ restarting \in BOOLEAN /\ editBox \in BOOLEAN
    /\ stepInBox \in BOOLEAN /\ aborted \in BOOLEAN /\ live \in BOOLEAN /\ active \in BOOLEAN
    /\ unsure \in BOOLEAN /\ dropped \in BOOLEAN /\ partial \in BOOLEAN
NumberTypes ==
    /\ at \in Bound /\ stop \in Bound /\ variables \in Bound /\ rows \in Bound
    /\ session = "stopped" => stop # NoStop
    /\ generation \in Nat /\ fetched \in 0..generation
    /\ commands \in 0..MaxCommands /\ touches \in 0..MaxTouches
SetTypes ==
    /\ children \in [Paths -> SUBSET Stops]
    /\ expanded \subseteq Paths /\ asking \subseteq Paths
QueueTypes ==
    /\ scopeBox \in Requests /\ childQueue \in Seq(ChildRequests) /\ task \in Tasks /\ events \in Seq(Events)

(* The type invariant, in groups that a step is checked against one by one.  *)
LEMMA TypesByGroup ==
  TypeOK <=> PlainTypes /\ FlagTypes /\ NumberTypes /\ SetTypes /\ QueueTypes
BY DEF TypeOK, PlainTypes, FlagTypes, NumberTypes, SetTypes, QueueTypes

(* The session of a launch stops at its first stop. *)
LEMMA StopsAreCounted ==
  /\ 1 \in Stops /\ NoStop \in Bound /\ Stops \subseteq Bound /\ NoStop \notin Stops /\ Bound \subseteq Nat
  /\ \A s \in Bound : s < MaxStops => s + 1 \in Stops
  /\ MaxCommands \in Nat /\ MaxTouches \in Nat
BY ParametersAssumption DEF Stops, Bound, NoStop

(* What the user says is a command, and what a command makes of the session  *)
(* is one of its states.                                                     *)
LEMMA NamesAreKnown ==
  /\ UserOps \subseteq Commands /\ "step_into" \in Commands /\ NoCommand \notin Commands
  /\ {"running", "stopped", "exited", "disconnected"} = SessionStates
BY DEF UserOps, Commands, NoCommand, SessionStates

(* The requests of the UI. *)
LEMMA RequestTypes ==
  /\ NoRequest \in Requests
  /\ \A g \in Nat \ {0}, s \in Stops : [generation |-> g, stop |-> s] \in Requests
  /\ \A p \in Paths, s \in Stops : [path |-> p, stop |-> s] \in ChildRequests
BY DEF Requests, ChildRequests

(* The tasks of the worker. *)
LEMMA TaskTypes ==
  /\ NoTask \in Tasks
  /\ \A c \in Commands : Task("command", c, NoRequest) \in Tasks
  /\ \A r \in Requests \ {NoRequest} : Task("scopes", NoName, r) \in Tasks
  /\ \A c \in ChildRequests : Task("children", c.path, [generation |-> 0, stop |-> c.stop]) \in Tasks
BY DEF Tasks, Task, Requests, ChildRequests

(* The answers of the worker to requests. *)
LEMMA AnswerTypes ==
  /\ \A g \in Nat \ {0}, s \in Stops : \A n \in Answers : Event("scopes", TRUE, n, g, s) \in Events
  /\ \A p \in Paths, s \in Stops : \A ok \in BOOLEAN : Event("children", ok, p, 0, s) \in Events
  /\ \A ok \in BOOLEAN : Event("set", ok, NoName, 0, NoStop) \in Events
  /\ \A n \in {"few", "many"} : Event("targets", TRUE, n, 0, NoStop) \in Events
BY DEF Events, Event

(* The reports of the worker on commands and polls. *)
LEMMA ReportTypes ==
  /\ \A c \in Commands : Finished(TRUE, c) \in Events /\ Finished(FALSE, c) \in Events
  /\ Event("snapshot", FALSE, NoName, 0, NoStop) \in Events
BY DEF Events, Finished, Event

(* What a task of each kind carries. *)
LEMMA TaskShapes ==
  ASSUME NEW t \in Tasks
  PROVE  /\ t.kind \in {"none", "command", "scopes", "children"}
         /\ t.kind = "none" => t = NoTask
         /\ t.kind = "command" => t.name \in Commands
         /\ t.kind = "scopes" => t.generation \in Nat \ {0} /\ t.stop \in Stops
         /\ t.kind = "children" => t.name \in Paths /\ t.stop \in Stops
BY DEF Tasks, Task, NoTask

(* A snapshot of a stopped session, and no other, has a stop. *)
LEMMA SnapshotTypes ==
  ASSUME NEW n \in SessionStates, NEW s \in Bound, n = "stopped" => s # NoStop
  PROVE  Snapshot(n, IF n = "stopped" THEN s ELSE NoStop) \in Events
<1>1. Snapshot(n, IF n = "stopped" THEN s ELSE NoStop) \in Snapshots
  <2>1. CASE n = "stopped"
    BY <2>1 DEF Snapshots, Bound
  <2>2. CASE n # "stopped"
    BY <2>2 DEF Snapshots
  <2>3. QED
    BY <2>1, <2>2
<1>2. Snapshots \subseteq Events
  BY DEF Events
<1>3. QED
  BY <1>1, <1>2

(* What an event of each kind carries. *)
LEMMA EventShapes ==
  ASSUME NEW e \in Events
  PROVE  /\ e.kind \in {"snapshot", "scopes", "children", "finished", "set", "targets"} /\ e.ok \in BOOLEAN
         /\ e.kind = "snapshot" /\ e.ok => /\ e.name \in SessionStates /\ e.stop \in Bound
                                           /\ e.name = "stopped" <=> e.stop # NoStop
         /\ e.kind = "scopes" => e.generation \in Nat \ {0} /\ e.stop \in Stops
         /\ e.kind = "children" => e.name \in Paths /\ e.stop \in Stops
         /\ e.kind = "finished" => e = Finished(e.ok, e.name) /\ e.name \in Commands
<1>1. CASE e \in Snapshots
  <2>1. CASE \E s \in Stops : e = Snapshot("stopped", s)
    BY <2>1, StopsAreCounted DEF Snapshot, Event, SessionStates
  <2>2. CASE \E n \in SessionStates \ {"stopped"} : e = Snapshot(n, NoStop)
    BY <2>2, StopsAreCounted DEF Snapshot, Event
  <2>3. QED
    BY <1>1, <2>1, <2>2 DEF Snapshots
<1>2. CASE e = Event("snapshot", FALSE, NoName, 0, NoStop)
  BY <1>2 DEF Event
<1>3. CASE e \in [kind : {"finished"}, ok : BOOLEAN, name : Commands, generation : {0}, stop : {NoStop}]
  BY <1>3 DEF Finished, Event
<1>4. QED
  BY <1>1, <1>2, <1>3 DEF Events

(* At the start, everything has its type. *)
LEMMA InitTypes == Init => TypeOK
<1> SUFFICES ASSUME Init PROVE TypeOK
  OBVIOUS
<1>1. PlainTypes /\ FlagTypes
  BY NamesAreKnown DEF Init, PlainTypes, FlagTypes
<1>2. NumberTypes
  <2>1. /\ at = NoStop /\ stop = NoStop /\ variables = NoStop /\ rows = NoStop
        /\ generation = 0 /\ fetched = 0 /\ commands = 0 /\ touches = 0 /\ session = "disconnected"
    BY DEF Init
  <2>2. QED
    BY <2>1, StopsAreCounted DEF NumberTypes
<1>3. SetTypes
  BY DEF Init, SetTypes
<1>4. QueueTypes
  <2>1. scopeBox = NoRequest /\ childQueue = <<>> /\ task = NoTask /\ events = <<>>
    BY DEF Init
  <2>2. <<>> \in Seq(ChildRequests) /\ <<>> \in Seq(Events)
    BY EmptySeq, Zenon
  <2>3. childQueue \in Seq(ChildRequests) /\ events \in Seq(Events)
    BY <2>1, <2>2, Zenon
  <2>4. QED
    BY <2>1, <2>3, RequestTypes, TaskTypes DEF QueueTypes
<1>5. QED
  BY <1>1, <1>2, <1>3, <1>4, TypesByGroup

(* What an operation makes of the session is one of its states.              *)
LEMMA EffectTypes ==
  ASSUME TypeOK, NEW op \in Commands, Effect(op)
  PROVE  session' \in SessionStates /\ stop' \in Bound /\ (session' = "stopped" => stop' # NoStop)
<1>1. session \in SessionStates /\ stop \in Bound /\ (session = "stopped" => stop # NoStop)
  BY TypesByGroup DEF PlainTypes, NumberTypes
<1>2. Stopped => session' = "stopped" /\ stop' \in Bound /\ stop' # NoStop
  BY <1>1, StopsAreCounted DEF Stopped
<1>3. CASE op \in Resuming
  BY <1>1, <1>2, <1>3, NamesAreKnown DEF Effect
<1>4. CASE op \in {"pause", "restart", "terminate", "disconnect"}
  BY <1>1, <1>2, <1>4, NamesAreKnown DEF Effect, Resuming
<1>5. QED
  BY <1>3, <1>4 DEF Commands, UserOps, Resuming


(* To start the launch keeps the types.                                       *)
LEMMA MaybeStartLaunchTypes ==
  ASSUME TypeOK, MaybeStartLaunch
  PROVE  TypeOK'
<1>1. PlainTypes /\ FlagTypes /\ NumberTypes /\ SetTypes /\ QueueTypes
  BY TypesByGroup
<1>2. PlainTypes'
  BY <1>1, NamesAreKnown DEF MaybeStartLaunch, PlainTypes, vars, launchVars, scopeVars, editVars,
         boxVars, sessionVars, ghostVars
<1>3. FlagTypes'
  BY <1>1 DEF MaybeStartLaunch, FlagTypes, vars, launchVars, scopeVars, editVars, boxVars,
         sessionVars, ghostVars
<1>4. NumberTypes'
  BY <1>1, StopsAreCounted DEF MaybeStartLaunch, NumberTypes, vars, launchVars, scopeVars,
         editVars, boxVars, sessionVars, ghostVars
<1>5. SetTypes'
  BY <1>1 DEF MaybeStartLaunch, SetTypes, vars, launchVars, scopeVars, editVars, boxVars,
         sessionVars, ghostVars
<1>6. QueueTypes'
  BY <1>1, StopsAreCounted, RequestTypes, TaskTypes, NamesAreKnown
     DEF MaybeStartLaunch, QueueTypes, NumberTypes, PlainTypes, vars, launchVars, scopeVars,
         editVars, boxVars, sessionVars, ghostVars
<1>7. QED
  BY <1>2, <1>3, <1>4, <1>5, <1>6 DEF TypeOK, PlainTypes, FlagTypes, NumberTypes, SetTypes,
         QueueTypes

(* The launch worker keeps the types.                                         *)
LEMMA LaunchWorkerTypes ==
  ASSUME TypeOK, LaunchWorker
  PROVE  TypeOK'
<1>1. PlainTypes /\ FlagTypes /\ NumberTypes /\ SetTypes /\ QueueTypes
  BY TypesByGroup
<1>2. PlainTypes'
  BY <1>1, NamesAreKnown DEF LaunchWorker, PushSnapshot, PlainTypes, vars, launchVars, scopeVars,
         editVars, boxVars, sessionVars, ghostVars
<1>3. FlagTypes'
  BY <1>1 DEF LaunchWorker, PushSnapshot, FlagTypes, vars, launchVars, scopeVars, editVars,
         boxVars, sessionVars, ghostVars
<1>4. NumberTypes'
  BY <1>1, StopsAreCounted DEF LaunchWorker, PushSnapshot, NumberTypes, vars, launchVars,
         scopeVars, editVars, boxVars, sessionVars, ghostVars
<1>5. SetTypes'
  BY <1>1 DEF LaunchWorker, PushSnapshot, SetTypes, vars, launchVars, scopeVars, editVars,
         boxVars, sessionVars, ghostVars
<1>6. QueueTypes'
  <2>1. scopeBox' \in Requests /\ childQueue' \in Seq(ChildRequests) /\ task' \in Tasks
    BY <1>1 DEF LaunchWorker, QueueTypes, boxVars
  <2>2. Snapshot(session', IF session' = "stopped" THEN stop' ELSE NoStop) \in Events
    BY <1>2, <1>4, SnapshotTypes DEF PlainTypes, NumberTypes
  <2>3. events' \in Seq(Events)
    BY <1>1, <2>2 DEF LaunchWorker, PushSnapshot, QueueTypes
  <2>4. QED
    BY <2>1, <2>3 DEF QueueTypes
<1>7. QED
  BY <1>2, <1>3, <1>4, <1>5, <1>6 DEF TypeOK, PlainTypes, FlagTypes, NumberTypes, SetTypes,
         QueueTypes

(* The end of a round of poll_session keeps the types.                        *)
LEMMA PollSessionTypes ==
  ASSUME TypeOK, PollSession
  PROVE  TypeOK'
<1>1. PlainTypes /\ FlagTypes /\ NumberTypes /\ SetTypes /\ QueueTypes
  BY TypesByGroup
<1>2. PlainTypes'
  BY <1>1, NamesAreKnown DEF PollSession, HandleLaunchComplete, MaybeRequestScopeVariables, Rows,
         PlainTypes, vars, launchVars, scopeVars, editVars, boxVars, sessionVars, ghostVars
<1>3. FlagTypes'
  BY <1>1 DEF PollSession, HandleLaunchComplete, MaybeRequestScopeVariables, Rows, FlagTypes,
         vars, launchVars, scopeVars, editVars, boxVars, sessionVars, ghostVars
<1>4. NumberTypes'
  BY <1>1, StopsAreCounted DEF PollSession, HandleLaunchComplete, MaybeRequestScopeVariables,
         Rows, NumberTypes, vars, launchVars, scopeVars, editVars, boxVars, sessionVars, ghostVars
<1>5. SetTypes'
  BY <1>1 DEF PollSession, HandleLaunchComplete, MaybeRequestScopeVariables, Rows, SetTypes,
         vars, launchVars, scopeVars, editVars, boxVars, sessionVars, ghostVars
<1>6. QueueTypes'
  <2>1. childQueue' \in Seq(ChildRequests) /\ task' \in Tasks /\ events' \in Seq(Events)
    BY <1>1 DEF PollSession, QueueTypes
  <2>2. fetched # generation /\ at # NoStop => generation \in Nat \ {0} /\ at \in Stops
    BY <1>1 DEF NumberTypes, Bound
  <2>3. scopeBox' \in Requests
    BY <1>1, <2>2, RequestTypes DEF PollSession, HandleLaunchComplete,
           MaybeRequestScopeVariables, QueueTypes
  <2>4. QED
    BY <2>1, <2>3 DEF QueueTypes
<1>7. QED
  BY <1>2, <1>3, <1>4, <1>5, <1>6 DEF TypeOK, PlainTypes, FlagTypes, NumberTypes, SetTypes,
         QueueTypes

(* A command of the user keeps the types.                                     *)
LEMMA SendCommandTypes ==
  ASSUME TypeOK, NEW op \in UserOps, SendCommand(op)
  PROVE  TypeOK'
<1>1. PlainTypes /\ FlagTypes /\ NumberTypes /\ SetTypes /\ QueueTypes
  BY TypesByGroup
<1>2. PlainTypes'
  BY <1>1, NamesAreKnown DEF SendCommand, PostCommand, ApplyStarted, InvalidateScopeVariables,
         Resuming, PlainTypes, vars, launchVars, scopeVars, editVars, boxVars, sessionVars, ghostVars
<1>3. FlagTypes'
  BY <1>1 DEF SendCommand, PostCommand, ApplyStarted, InvalidateScopeVariables, Resuming,
         FlagTypes, vars, launchVars, scopeVars, editVars, boxVars, sessionVars, ghostVars
<1>4. NumberTypes'
  BY <1>1, StopsAreCounted DEF SendCommand, PostCommand, ApplyStarted, InvalidateScopeVariables,
         Resuming, NumberTypes, vars, launchVars, scopeVars, editVars, boxVars, sessionVars, ghostVars
<1>5. SetTypes'
  BY <1>1 DEF SendCommand, PostCommand, ApplyStarted, InvalidateScopeVariables, Resuming,
         SetTypes, vars, launchVars, scopeVars, editVars, boxVars, sessionVars, ghostVars
<1>6. QueueTypes'
  BY <1>1, StopsAreCounted, RequestTypes, TaskTypes, NamesAreKnown
     DEF SendCommand, PostCommand, ApplyStarted, InvalidateScopeVariables, Resuming, QueueTypes,
         NumberTypes, PlainTypes, vars, launchVars, scopeVars, editVars, boxVars, sessionVars, ghostVars
<1>7. QED
  BY <1>2, <1>3, <1>4, <1>5, <1>6 DEF TypeOK, PlainTypes, FlagTypes, NumberTypes, SetTypes,
         QueueTypes

(* A step into keeps the types.                                               *)
LEMMA StepIntoTypes ==
  ASSUME TypeOK, StepInto
  PROVE  TypeOK'
<1>1. PlainTypes /\ FlagTypes /\ NumberTypes /\ SetTypes /\ QueueTypes
  BY TypesByGroup
<1>2. PlainTypes'
  BY <1>1, NamesAreKnown DEF StepInto, PostCommand, StepIntoUnsure, StepIntoUnchanged,
         Overwrites, PlainTypes, vars, launchVars, scopeVars, editVars, boxVars, sessionVars, ghostVars
<1>3. FlagTypes'
  BY <1>1 DEF StepInto, PostCommand, StepIntoUnsure, StepIntoUnchanged, Overwrites, FlagTypes,
         vars, launchVars, scopeVars, editVars, boxVars, sessionVars, ghostVars
<1>4. NumberTypes'
  BY <1>1, StopsAreCounted DEF StepInto, PostCommand, StepIntoUnsure, StepIntoUnchanged,
         Overwrites, NumberTypes, vars, launchVars, scopeVars, editVars, boxVars, sessionVars, ghostVars
<1>5. SetTypes'
  BY <1>1 DEF StepInto, PostCommand, StepIntoUnsure, StepIntoUnchanged, Overwrites, SetTypes,
         vars, launchVars, scopeVars, editVars, boxVars, sessionVars, ghostVars
<1>6. QueueTypes'
  <2>1. task' \in Tasks /\ events' \in Seq(Events)
    BY <1>1 DEF StepInto, StepIntoUnchanged, QueueTypes
  <2>2. scopeBox' \in Requests /\ childQueue' \in Seq(ChildRequests)
    BY <1>1, RequestTypes, QueuesGrow DEF StepInto, PostCommand, QueueTypes, boxVars
  <2>3. QED
    BY <2>1, <2>2 DEF QueueTypes
<1>7. QED
  BY <1>2, <1>3, <1>4, <1>5, <1>6 DEF TypeOK, PlainTypes, FlagTypes, NumberTypes, SetTypes,
         QueueTypes

(* The choice of a target keeps the types.                                    *)
LEMMA ConfirmStepInTypes ==
  ASSUME TypeOK, ConfirmStepIn
  PROVE  TypeOK'
<1>1. PlainTypes /\ FlagTypes /\ NumberTypes /\ SetTypes /\ QueueTypes
  BY TypesByGroup
<1>2. PlainTypes'
  BY <1>1, NamesAreKnown DEF ConfirmStepIn, SendStepIntoCommand, ApplyStarted, Resuming,
         PostCommand, StepIntoUnsure, StepIntoUnchanged, Overwrites, PlainTypes, vars,
          launchVars, scopeVars, editVars, boxVars, sessionVars, ghostVars
<1>3. FlagTypes'
  BY <1>1 DEF ConfirmStepIn, SendStepIntoCommand, ApplyStarted, Resuming, PostCommand,
         StepIntoUnsure, StepIntoUnchanged, Overwrites, FlagTypes, vars, launchVars, scopeVars, editVars, boxVars, sessionVars, ghostVars
<1>4. NumberTypes'
  BY <1>1, StopsAreCounted DEF ConfirmStepIn, SendStepIntoCommand, ApplyStarted, Resuming,
         PostCommand, StepIntoUnsure, StepIntoUnchanged, Overwrites, NumberTypes, vars,
          launchVars, scopeVars, editVars, boxVars, sessionVars, ghostVars
<1>5. SetTypes'
  BY <1>1 DEF ConfirmStepIn, SendStepIntoCommand, ApplyStarted, Resuming, PostCommand,
         StepIntoUnsure, StepIntoUnchanged, Overwrites, SetTypes, vars, launchVars, scopeVars, editVars, boxVars, sessionVars, ghostVars
<1>6. QueueTypes'
  <2>1. task' \in Tasks /\ events' \in Seq(Events)
    BY <1>1 DEF ConfirmStepIn, StepIntoUnchanged, QueueTypes
  <2>2. scopeBox' \in Requests /\ childQueue' \in Seq(ChildRequests)
    BY <1>1, RequestTypes, QueuesGrow DEF ConfirmStepIn, SendStepIntoCommand, PostCommand,
           QueueTypes, boxVars
  <2>3. QED
    BY <2>1, <2>2 DEF QueueTypes
<1>7. QED
  BY <1>2, <1>3, <1>4, <1>5, <1>6 DEF TypeOK, PlainTypes, FlagTypes, NumberTypes, SetTypes,
         QueueTypes

(* So does giving it up.                                                      *)
LEMMA CancelStepInTypes ==
  ASSUME TypeOK, CancelStepIn
  PROVE  TypeOK'
<1>1. PlainTypes /\ FlagTypes /\ NumberTypes /\ SetTypes /\ QueueTypes
  BY TypesByGroup
<1>2. PlainTypes'
  BY <1>1, NamesAreKnown DEF CancelStepIn, PlainTypes, vars, launchVars, scopeVars, editVars,
         boxVars, sessionVars, ghostVars
<1>3. FlagTypes'
  BY <1>1 DEF CancelStepIn, FlagTypes, vars, launchVars, scopeVars, editVars, boxVars,
         sessionVars, ghostVars
<1>4. NumberTypes'
  BY <1>1, StopsAreCounted DEF CancelStepIn, NumberTypes, vars, launchVars, scopeVars, editVars,
         boxVars, sessionVars, ghostVars
<1>5. SetTypes'
  BY <1>1 DEF CancelStepIn, SetTypes, vars, launchVars, scopeVars, editVars, boxVars,
         sessionVars, ghostVars
<1>6. QueueTypes'
  BY <1>1, StopsAreCounted, RequestTypes, TaskTypes, NamesAreKnown
     DEF CancelStepIn, QueueTypes, NumberTypes, PlainTypes, vars, launchVars, scopeVars,
         editVars, boxVars, sessionVars, ghostVars
<1>7. QED
  BY <1>2, <1>3, <1>4, <1>5, <1>6 DEF TypeOK, PlainTypes, FlagTypes, NumberTypes, SetTypes,
         QueueTypes

(* To expand or collapse a variable keeps the types.                          *)
LEMMA ToggleScopeRowExpandTypes ==
  ASSUME TypeOK, NEW p \in Paths, ToggleScopeRowExpand(p)
  PROVE  TypeOK'
<1>1. PlainTypes /\ FlagTypes /\ NumberTypes /\ SetTypes /\ QueueTypes
  BY TypesByGroup
<1>2. PlainTypes'
  BY <1>1, NamesAreKnown DEF ToggleScopeRowExpand, PlainTypes, vars, launchVars, scopeVars,
         editVars, boxVars, sessionVars, ghostVars
<1>3. FlagTypes'
  BY <1>1 DEF ToggleScopeRowExpand, FlagTypes, vars, launchVars, scopeVars, editVars, boxVars,
         sessionVars, ghostVars
<1>4. NumberTypes'
  BY <1>1, StopsAreCounted DEF ToggleScopeRowExpand, NumberTypes, vars, launchVars, scopeVars,
         editVars, boxVars, sessionVars, ghostVars
<1>5. SetTypes'
  BY <1>1 DEF ToggleScopeRowExpand, SetTypes, vars, launchVars, scopeVars, editVars, boxVars,
         sessionVars, ghostVars
<1>6. QueueTypes'
  <2>1. scopeBox' \in Requests /\ task' \in Tasks /\ events' \in Seq(Events)
    BY <1>1 DEF ToggleScopeRowExpand, QueueTypes
  <2>2. [path |-> p, stop |-> rows] \in ChildRequests
    BY <1>1, RequestTypes, QueuesGrow, StopsAreCounted DEF ToggleScopeRowExpand, NumberTypes, Bound
  <2>3. childQueue' \in Seq(ChildRequests)
    BY <1>1, <2>2 DEF ToggleScopeRowExpand, QueueTypes
  <2>4. QED
    BY <2>1, <2>3 DEF QueueTypes
<1>7. QED
  BY <1>2, <1>3, <1>4, <1>5, <1>6 DEF TypeOK, PlainTypes, FlagTypes, NumberTypes, SetTypes,
         QueueTypes

(* To edit one keeps the types.                                               *)
LEMMA SubmitVariableValueTypes ==
  ASSUME TypeOK, SubmitVariableValue
  PROVE  TypeOK'
<1>1. PlainTypes /\ FlagTypes /\ NumberTypes /\ SetTypes /\ QueueTypes
  BY TypesByGroup
<1>2. PlainTypes'
  BY <1>1, NamesAreKnown DEF SubmitVariableValue, PlainTypes, vars, launchVars, scopeVars,
         editVars, boxVars, sessionVars, ghostVars
<1>3. FlagTypes'
  BY <1>1 DEF SubmitVariableValue, FlagTypes, vars, launchVars, scopeVars, editVars, boxVars,
         sessionVars, ghostVars
<1>4. NumberTypes'
  BY <1>1, StopsAreCounted DEF SubmitVariableValue, NumberTypes, vars, launchVars, scopeVars,
         editVars, boxVars, sessionVars, ghostVars
<1>5. SetTypes'
  BY <1>1 DEF SubmitVariableValue, SetTypes, vars, launchVars, scopeVars, editVars, boxVars,
         sessionVars, ghostVars
<1>6. QueueTypes'
  BY <1>1, StopsAreCounted, RequestTypes, TaskTypes, NamesAreKnown
     DEF SubmitVariableValue, QueueTypes, NumberTypes, PlainTypes, vars, launchVars, scopeVars,
         editVars, boxVars, sessionVars, ghostVars
<1>7. QED
  BY <1>2, <1>3, <1>4, <1>5, <1>6 DEF TypeOK, PlainTypes, FlagTypes, NumberTypes, SetTypes,
         QueueTypes

(* The worker taking a command keeps the types.                               *)
LEMMA TakeCommandTypes ==
  ASSUME TypeOK, TakeCommand
  PROVE  TypeOK'
<1>1. PlainTypes /\ FlagTypes /\ NumberTypes /\ SetTypes /\ QueueTypes
  BY TypesByGroup
<1>2. PlainTypes'
  BY <1>1, NamesAreKnown DEF TakeCommand, Take, PlainTypes, vars, launchVars, scopeVars,
         editVars, boxVars, sessionVars, ghostVars
<1>3. FlagTypes'
  BY <1>1 DEF TakeCommand, Take, FlagTypes, vars, launchVars, scopeVars, editVars, boxVars,
         sessionVars, ghostVars
<1>4. NumberTypes'
  BY <1>1, StopsAreCounted DEF TakeCommand, Take, NumberTypes, vars, launchVars, scopeVars,
         editVars, boxVars, sessionVars, ghostVars
<1>5. SetTypes'
  BY <1>1 DEF TakeCommand, Take, SetTypes, vars, launchVars, scopeVars, editVars, boxVars,
         sessionVars, ghostVars
<1>6. QueueTypes'
  BY <1>1, StopsAreCounted, RequestTypes, TaskTypes, NamesAreKnown
     DEF TakeCommand, Take, QueueTypes, NumberTypes, PlainTypes, vars, launchVars, scopeVars,
         editVars, boxVars, sessionVars, ghostVars
<1>7. QED
  BY <1>2, <1>3, <1>4, <1>5, <1>6 DEF TypeOK, PlainTypes, FlagTypes, NumberTypes, SetTypes,
         QueueTypes

(* The worker setting a variable keeps the types.                             *)
LEMMA SetVariableTypes ==
  ASSUME TypeOK, SetVariable
  PROVE  TypeOK'
<1>1. PlainTypes /\ FlagTypes /\ NumberTypes /\ SetTypes /\ QueueTypes
  BY TypesByGroup
<1>2. PlainTypes'
  BY <1>1, NamesAreKnown DEF SetVariable, PlainTypes, vars, launchVars, scopeVars, editVars,
         boxVars, sessionVars, ghostVars
<1>3. FlagTypes'
  BY <1>1 DEF SetVariable, FlagTypes, vars, launchVars, scopeVars, editVars, boxVars,
         sessionVars, ghostVars
<1>4. NumberTypes'
  BY <1>1, StopsAreCounted DEF SetVariable, NumberTypes, vars, launchVars, scopeVars, editVars,
         boxVars, sessionVars, ghostVars
<1>5. SetTypes'
  BY <1>1 DEF SetVariable, SetTypes, vars, launchVars, scopeVars, editVars, boxVars, sessionVars,
         ghostVars
<1>6. QueueTypes'
  <2>1. scopeBox' \in Requests /\ childQueue' \in Seq(ChildRequests) /\ task' \in Tasks
    BY <1>1 DEF SetVariable, QueueTypes
  <2>2. events' \in Seq(Events)
    BY <1>1, AnswerTypes, QueuesGrow DEF SetVariable, QueueTypes
  <2>3. QED
    BY <2>1, <2>2 DEF QueueTypes
<1>7. QED
  BY <1>2, <1>3, <1>4, <1>5, <1>6 DEF TypeOK, PlainTypes, FlagTypes, NumberTypes, SetTypes,
         QueueTypes

(* The worker taking a request for scopes keeps the types.                    *)
LEMMA TakeScopeFetchTypes ==
  ASSUME TypeOK, TakeScopeFetch
  PROVE  TypeOK'
<1>1. PlainTypes /\ FlagTypes /\ NumberTypes /\ SetTypes /\ QueueTypes
  BY TypesByGroup
<1>2. PlainTypes'
  BY <1>1, NamesAreKnown DEF TakeScopeFetch, Take, PlainTypes, vars, launchVars, scopeVars,
         editVars, boxVars, sessionVars, ghostVars
<1>3. FlagTypes'
  BY <1>1 DEF TakeScopeFetch, Take, FlagTypes, vars, launchVars, scopeVars, editVars, boxVars,
         sessionVars, ghostVars
<1>4. NumberTypes'
  BY <1>1, StopsAreCounted DEF TakeScopeFetch, Take, NumberTypes, vars, launchVars, scopeVars,
         editVars, boxVars, sessionVars, ghostVars
<1>5. SetTypes'
  BY <1>1 DEF TakeScopeFetch, Take, SetTypes, vars, launchVars, scopeVars, editVars, boxVars,
         sessionVars, ghostVars
<1>6. QueueTypes'
  BY <1>1, StopsAreCounted, RequestTypes, TaskTypes, NamesAreKnown
     DEF TakeScopeFetch, Take, QueueTypes, NumberTypes, PlainTypes, vars, launchVars, scopeVars,
         editVars, boxVars, sessionVars, ghostVars
<1>7. QED
  BY <1>2, <1>3, <1>4, <1>5, <1>6 DEF TypeOK, PlainTypes, FlagTypes, NumberTypes, SetTypes,
         QueueTypes

(* The worker answering it, or putting it back, keeps the types.              *)
LEMMA ScopeFetchEndsTypes ==
  ASSUME TypeOK, ScopeFetchEnds
  PROVE  TypeOK'
<1>1. PlainTypes /\ FlagTypes /\ NumberTypes /\ SetTypes /\ QueueTypes
  BY TypesByGroup
<1>2. PlainTypes'
  BY <1>1, NamesAreKnown DEF ScopeFetchEnds, PlainTypes, vars, launchVars, scopeVars, editVars,
         boxVars, sessionVars, ghostVars
<1>3. FlagTypes'
  BY <1>1 DEF ScopeFetchEnds, FlagTypes, vars, launchVars, scopeVars, editVars, boxVars,
         sessionVars, ghostVars
<1>4. NumberTypes'
  BY <1>1, StopsAreCounted DEF ScopeFetchEnds, NumberTypes, vars, launchVars, scopeVars,
         editVars, boxVars, sessionVars, ghostVars
<1>5. SetTypes'
  BY <1>1 DEF ScopeFetchEnds, SetTypes, vars, launchVars, scopeVars, editVars, boxVars,
         sessionVars, ghostVars
<1>6. QueueTypes'
  <2>1. /\ childQueue' \in Seq(ChildRequests) /\ task' \in Tasks
        /\ task.generation \in Nat \ {0} /\ task.stop \in Stops
    BY <1>1, TaskTypes, TaskShapes DEF ScopeFetchEnds, QueueTypes
  <2>2. scopeBox' \in Requests /\ events' \in Seq(Events)
    BY <1>1, <2>1, RequestTypes, AnswerTypes, QueuesGrow DEF ScopeFetchEnds, QueueTypes
  <2>3. QED
    BY <2>1, <2>2 DEF QueueTypes
<1>7. QED
  BY <1>2, <1>3, <1>4, <1>5, <1>6 DEF TypeOK, PlainTypes, FlagTypes, NumberTypes, SetTypes,
         QueueTypes

(* The worker taking a request for children keeps the types.                  *)
LEMMA TakeChildrenFetchTypes ==
  ASSUME TypeOK, TakeChildrenFetch
  PROVE  TypeOK'
<1>1. PlainTypes /\ FlagTypes /\ NumberTypes /\ SetTypes /\ QueueTypes
  BY TypesByGroup
<1>2. PlainTypes'
  BY <1>1, NamesAreKnown DEF TakeChildrenFetch, Take, PlainTypes, vars, launchVars, scopeVars,
         editVars, boxVars, sessionVars, ghostVars
<1>3. FlagTypes'
  BY <1>1 DEF TakeChildrenFetch, Take, FlagTypes, vars, launchVars, scopeVars, editVars, boxVars,
         sessionVars, ghostVars
<1>4. NumberTypes'
  BY <1>1, StopsAreCounted DEF TakeChildrenFetch, Take, NumberTypes, vars, launchVars, scopeVars,
         editVars, boxVars, sessionVars, ghostVars
<1>5. SetTypes'
  BY <1>1 DEF TakeChildrenFetch, Take, SetTypes, vars, launchVars, scopeVars, editVars, boxVars,
         sessionVars, ghostVars
<1>6. QueueTypes'
  BY <1>1, StopsAreCounted, RequestTypes, TaskTypes, NamesAreKnown
     DEF TakeChildrenFetch, Take, QueueTypes, NumberTypes, PlainTypes, vars, launchVars,
         scopeVars, editVars, boxVars, sessionVars, ghostVars
<1>7. QED
  BY <1>2, <1>3, <1>4, <1>5, <1>6 DEF TypeOK, PlainTypes, FlagTypes, NumberTypes, SetTypes,
         QueueTypes

(* The worker answering it, or putting it back, keeps the types.              *)
LEMMA ChildrenFetchEndsTypes ==
  ASSUME TypeOK, ChildrenFetchEnds
  PROVE  TypeOK'
<1>1. PlainTypes /\ FlagTypes /\ NumberTypes /\ SetTypes /\ QueueTypes
  BY TypesByGroup
<1>2. PlainTypes'
  BY <1>1, NamesAreKnown DEF ChildrenFetchEnds, PlainTypes, vars, launchVars, scopeVars,
         editVars, boxVars, sessionVars, ghostVars
<1>3. FlagTypes'
  BY <1>1 DEF ChildrenFetchEnds, FlagTypes, vars, launchVars, scopeVars, editVars, boxVars,
         sessionVars, ghostVars
<1>4. NumberTypes'
  BY <1>1, StopsAreCounted DEF ChildrenFetchEnds, NumberTypes, vars, launchVars, scopeVars,
         editVars, boxVars, sessionVars, ghostVars
<1>5. SetTypes'
  BY <1>1 DEF ChildrenFetchEnds, SetTypes, vars, launchVars, scopeVars, editVars, boxVars,
         sessionVars, ghostVars
<1>6. QueueTypes'
  <2>1. scopeBox' \in Requests /\ task' \in Tasks
    BY <1>1, TaskTypes DEF ChildrenFetchEnds, QueueTypes
  <2>2. task.name \in Paths /\ task.stop \in Stops
    BY <1>1, TaskShapes DEF ChildrenFetchEnds, QueueTypes
  <2>3. childQueue' \in Seq(ChildRequests) /\ events' \in Seq(Events)
    BY <1>1, <2>1, <2>2, RequestTypes, AnswerTypes, QueuesGrow DEF ChildrenFetchEnds, QueueTypes
  <2>4. QED
    BY <2>1, <2>3 DEF QueueTypes
<1>7. QED
  BY <1>2, <1>3, <1>4, <1>5, <1>6 DEF TypeOK, PlainTypes, FlagTypes, NumberTypes, SetTypes,
         QueueTypes

(* The worker fetching the targets of a step keeps the types.                 *)
LEMMA StepInTargetsFetchTypes ==
  ASSUME TypeOK, StepInTargetsFetch
  PROVE  TypeOK'
<1>1. PlainTypes /\ FlagTypes /\ NumberTypes /\ SetTypes /\ QueueTypes
  BY TypesByGroup
<1>2. PlainTypes'
  BY <1>1, NamesAreKnown DEF StepInTargetsFetch, PlainTypes, vars, launchVars, scopeVars,
         editVars, boxVars, sessionVars, ghostVars
<1>3. FlagTypes'
  BY <1>1 DEF StepInTargetsFetch, FlagTypes, vars, launchVars, scopeVars, editVars, boxVars,
         sessionVars, ghostVars
<1>4. NumberTypes'
  BY <1>1, StopsAreCounted DEF StepInTargetsFetch, NumberTypes, vars, launchVars, scopeVars,
         editVars, boxVars, sessionVars, ghostVars
<1>5. SetTypes'
  BY <1>1 DEF StepInTargetsFetch, SetTypes, vars, launchVars, scopeVars, editVars, boxVars,
         sessionVars, ghostVars
<1>6. QueueTypes'
  <2>1. scopeBox' \in Requests /\ childQueue' \in Seq(ChildRequests) /\ task' \in Tasks
    BY <1>1 DEF StepInTargetsFetch, QueueTypes
  <2>2. events' \in Seq(Events)
    BY <1>1, AnswerTypes, QueuesGrow DEF StepInTargetsFetch, QueueTypes
  <2>3. QED
    BY <2>1, <2>2 DEF QueueTypes
<1>7. QED
  BY <1>2, <1>3, <1>4, <1>5, <1>6 DEF TypeOK, PlainTypes, FlagTypes, NumberTypes, SetTypes,
         QueueTypes

(* A poll of the worker keeps the types.                                      *)
LEMMA PollTypes ==
  ASSUME TypeOK, Poll
  PROVE  TypeOK'
<1>1. PlainTypes /\ FlagTypes /\ NumberTypes /\ SetTypes /\ QueueTypes
  BY TypesByGroup
<1>2. PlainTypes'
  BY <1>1, NamesAreKnown DEF Poll, Stopped, PlainTypes, vars, launchVars, scopeVars, editVars, boxVars,
         sessionVars, ghostVars
<1>3. FlagTypes'
  BY <1>1 DEF Poll, FlagTypes, vars, launchVars, scopeVars, editVars, boxVars, sessionVars,
         ghostVars
<1>4. NumberTypes'
  BY <1>1, StopsAreCounted DEF Poll, Stopped, NumberTypes, vars, launchVars, scopeVars, editVars, boxVars,
         sessionVars, ghostVars
<1>5. SetTypes'
  BY <1>1 DEF Poll, SetTypes, vars, launchVars, scopeVars, editVars, boxVars, sessionVars, ghostVars
<1>6. QueueTypes'
  <2>1. scopeBox' \in Requests /\ childQueue' \in Seq(ChildRequests) /\ task' \in Tasks
    BY <1>1 DEF Poll, QueueTypes, boxVars
  <2>2. Snapshot(session', IF session' = "stopped" THEN stop' ELSE NoStop) \in Events
    BY <1>2, <1>4, SnapshotTypes DEF PlainTypes, NumberTypes
  <2>3. events' \in Seq(Events)
    BY <1>1, <2>2, ReportTypes, QueuesGrow DEF Poll, QueueTypes
  <2>4. QED
    BY <2>1, <2>3 DEF QueueTypes
<1>7. QED
  BY <1>2, <1>3, <1>4, <1>5, <1>6 DEF TypeOK, PlainTypes, FlagTypes, NumberTypes, SetTypes,
         QueueTypes

(* A command that succeeds keeps the types.                                   *)
LEMMA CommandSucceedsTypes ==
  ASSUME TypeOK, CommandSucceeds
  PROVE  TypeOK'
<1>1. PlainTypes /\ FlagTypes /\ NumberTypes /\ SetTypes /\ QueueTypes
  BY TypesByGroup
<1>2. PlainTypes'
  <2>1. session' \in SessionStates
    BY <1>1, TaskShapes, EffectTypes DEF CommandSucceeds, QueueTypes
  <2>2. QED
    BY <1>1, <2>1 DEF CommandSucceeds, PlainTypes, ClearPendingAdapterWork, launchVars, boxVars
<1>3. FlagTypes'
  BY <1>1 DEF CommandSucceeds, Effect, Stopped, ClearPendingAdapterWork, FlagTypes, vars,
         launchVars, scopeVars, editVars, boxVars, sessionVars, ghostVars
<1>4. NumberTypes'
  <2>1. stop' \in Bound /\ (session' = "stopped" => stop' # NoStop)
    BY <1>1, TaskShapes, EffectTypes DEF CommandSucceeds, QueueTypes
  <2>2. QED
    BY <1>1, <2>1 DEF CommandSucceeds, NumberTypes, scopeVars, editVars
<1>5. SetTypes'
  BY <1>1 DEF CommandSucceeds, Effect, Stopped, ClearPendingAdapterWork, SetTypes, vars,
         launchVars, scopeVars, editVars, boxVars, sessionVars, ghostVars
<1>6. QueueTypes'
  <2>1. scopeBox' \in Requests /\ childQueue' \in Seq(ChildRequests) /\ task' \in Tasks
    BY <1>1, RequestTypes, TaskTypes, QueuesGrow DEF CommandSucceeds, ClearPendingAdapterWork,
           QueueTypes, boxVars
  <2>2. Snapshot(session', IF session' = "stopped" THEN stop' ELSE NoStop) \in Events
    BY <1>2, <1>4, SnapshotTypes DEF PlainTypes, NumberTypes
  <2>3. Finished(TRUE, task.name) \in Events
    BY <1>1, TaskShapes, ReportTypes DEF CommandSucceeds, QueueTypes
  <2>4. events' \in Seq(Events)
    BY <1>1, <2>2, <2>3, QueuesGrow DEF CommandSucceeds, QueueTypes
  <2>5. QED
    BY <2>1, <2>4 DEF QueueTypes
<1>7. QED
  BY <1>2, <1>3, <1>4, <1>5, <1>6 DEF TypeOK, PlainTypes, FlagTypes, NumberTypes, SetTypes,
         QueueTypes

(* A command that fails keeps the types.                                      *)
LEMMA CommandFailsTypes ==
  ASSUME TypeOK, CommandFails
  PROVE  TypeOK'
<1>1. PlainTypes /\ FlagTypes /\ NumberTypes /\ SetTypes /\ QueueTypes
  BY TypesByGroup
<1>2. PlainTypes'
  BY <1>1, NamesAreKnown DEF CommandFails, PlainTypes, vars, launchVars, scopeVars, editVars,
         boxVars, sessionVars, ghostVars
<1>3. FlagTypes'
  BY <1>1 DEF CommandFails, FlagTypes, vars, launchVars, scopeVars, editVars, boxVars,
         sessionVars, ghostVars
<1>4. NumberTypes'
  BY <1>1, StopsAreCounted DEF CommandFails, NumberTypes, vars, launchVars, scopeVars, editVars,
         boxVars, sessionVars, ghostVars
<1>5. SetTypes'
  BY <1>1 DEF CommandFails, SetTypes, vars, launchVars, scopeVars, editVars, boxVars,
         sessionVars, ghostVars
<1>6. QueueTypes'
  <2>1. scopeBox' \in Requests /\ childQueue' \in Seq(ChildRequests) /\ task' \in Tasks
    BY <1>1, TaskTypes DEF CommandFails, QueueTypes, boxVars
  <2>2. task.name \in Commands
    BY <1>1, TaskShapes DEF CommandFails, QueueTypes
  <2>3. events' \in Seq(Events)
    BY <1>1, <2>2, ReportTypes, QueuesGrow DEF CommandFails, QueueTypes
  <2>4. QED
    BY <2>1, <2>3 DEF QueueTypes
<1>7. QED
  BY <1>2, <1>3, <1>4, <1>5, <1>6 DEF TypeOK, PlainTypes, FlagTypes, NumberTypes, SetTypes,
         QueueTypes


-----------------------------------------------------------------------------
(* The queue of requests for children. *)

(* What a request adds to the queue of requests, at its back, ...            *)
LEMMA QueuedAtTheBack ==
  ASSUME NEW q \in Seq(ChildRequests), NEW r \in Seq(ChildRequests)
  PROVE  Queued(q \o r) = Queued(q) \cup Queued(r)
<1>1. /\ Len(q) \in Nat /\ Len(r) \in Nat /\ DOMAIN q = 1..Len(q) /\ DOMAIN r = 1..Len(r)
      /\ DOMAIN (q \o r) = 1..(Len(q) + Len(r))
      /\ \A i \in 1..(Len(q) + Len(r)) : (q \o r)[i] = IF i <= Len(q) THEN q[i] ELSE r[i - Len(q)]
  BY ConcatProperties, LenProperties
<1>2. ASSUME NEW p \in Queued(q \o r) PROVE p \in Queued(q) \cup Queued(r)
  <2>1. PICK i \in 1..(Len(q) + Len(r)) : (q \o r)[i].path = p
    BY <1>1, <1>2 DEF Queued
  <2>2. CASE i <= Len(q)
    BY <1>1, <2>1, <2>2 DEF Queued
  <2>3. CASE ~(i <= Len(q))
    <3>1. i - Len(q) \in 1..Len(r) /\ r[i - Len(q)].path = p
      BY <1>1, <2>1, <2>3
    <3>2. QED
      BY <1>1, <3>1 DEF Queued
  <2>4. QED
    BY <2>2, <2>3
<1>3. ASSUME NEW p \in Queued(q) PROVE p \in Queued(q \o r)
  <2>1. PICK i \in 1..Len(q) : q[i].path = p
    BY <1>1, <1>3 DEF Queued
  <2>2. i \in 1..(Len(q) + Len(r)) /\ (q \o r)[i].path = p
    BY <1>1, <2>1
  <2>3. QED
    BY <1>1, <2>2 DEF Queued
<1>4. ASSUME NEW p \in Queued(r) PROVE p \in Queued(q \o r)
  <2>1. PICK i \in 1..Len(r) : r[i].path = p
    BY <1>1, <1>4 DEF Queued
  <2>2. i + Len(q) \in 1..(Len(q) + Len(r)) /\ (q \o r)[i + Len(q)].path = p
    BY <1>1, <2>1
  <2>3. QED
    BY <1>1, <2>2 DEF Queued
<1>5. QED
  BY <1>2, <1>3, <1>4

(* ... a request by itself, and the empty queue.                             *)
LEMMA QueuedOfOne ==
  ASSUME NEW c \in ChildRequests
  PROVE  Queued(<<>>) = {} /\ Queued(<<c>>) = {c.path}
BY DEF Queued

(* A request put at the back, put back at the front, and taken.              *)
LEMMA QueuedStep ==
  ASSUME NEW q \in Seq(ChildRequests), NEW c \in ChildRequests
  PROVE  /\ Queued(Append(q, c)) = Queued(q) \cup {c.path}
         /\ Queued(<<c>> \o q) = Queued(q) \cup {c.path}
         /\ q # <<>> => Queued(q) = Queued(Tail(q)) \cup {Head(q).path} /\ Head(q) \in ChildRequests
<1>1. <<c>> \in Seq(ChildRequests) /\ Append(q, c) = q \o <<c>>
  BY QueuesGrow
<1>2. /\ Queued(Append(q, c)) = Queued(q) \cup {c.path}
      /\ Queued(<<c>> \o q) = Queued(q) \cup {c.path}
  <2>1. Queued(q \o <<c>>) = Queued(q) \cup Queued(<<c>>)
    BY <1>1, QueuedAtTheBack, Zenon
  <2>2. Queued(<<c>> \o q) = Queued(<<c>>) \cup Queued(q)
    BY <1>1, QueuedAtTheBack, Zenon
  <2>3. Queued(<<c>>) = {c.path}
    BY QueuedOfOne
  <2>4. QED
    BY <1>1, <2>1, <2>2, <2>3
<1>3. ASSUME q # <<>> PROVE Queued(q) = Queued(Tail(q)) \cup {Head(q).path} /\ Head(q) \in ChildRequests
  <2>1. Tail(q) \in Seq(ChildRequests) /\ Head(q) \in ChildRequests
    BY <1>3, HeadTailProperties
  <2>2. q = <<Head(q)>> \o Tail(q)
    BY <1>3
  <2>3. <<Head(q)>> \in Seq(ChildRequests)
    BY <2>1, QueuesGrow
  <2>4. Queued(<<Head(q)>> \o Tail(q)) = Queued(<<Head(q)>>) \cup Queued(Tail(q))
    BY <2>1, <2>3, QueuedAtTheBack, Zenon
  <2>5. Queued(<<Head(q)>>) = {Head(q).path}
    BY <2>1, QueuedOfOne
  <2>6. QED
    BY <2>1, <2>2, <2>4, <2>5
<1>4. QED
  BY <1>2, <1>3

(* What restore_expanded_scope_children does with what it asks for.          *)
Asked(wanted, loaded, have, waiting, whole) ==
    /\ whole => wanted = ToRestore(loaded, have, waiting)
    /\ asking' = waiting \cup wanted
    /\ Queued(childQueue') = Queued(childQueue) \cup wanted

(* restore_expanded_scope_children asks for what it finds missing, all of it *)
(* if every scope is there: what it does not put in the queue waits there    *)
(* already.                                                                  *)
LEMMA RestoreAsks ==
  ASSUME TypeOK, NEW loaded, NEW have, NEW waiting \in SUBSET Paths, NEW whole \in BOOLEAN,
         RestoreExpandedScopeChildren(loaded, have, waiting, whole)
  PROVE  /\ asking' \subseteq Paths /\ childQueue' \in Seq(ChildRequests)
         /\ \E wanted \in SUBSET Paths : Asked(wanted, loaded, have, waiting, whole)
<1>0. PICK wanted \in SUBSET ToRestore(loaded, have, waiting) :
          /\ whole => wanted = ToRestore(loaded, have, waiting)
          /\ asking' = waiting \cup wanted
          /\ childQueue' = childQueue \o SetToSeq({[path |-> p, stop |-> at] : p \in wanted \ Queued(childQueue)})
  BY DEF RestoreExpandedScopeChildren
<1> DEFINE new == wanted \ Queued(childQueue)
<1> DEFINE R == {[path |-> p, stop |-> at] : p \in new}
<1>1. childQueue \in Seq(ChildRequests) /\ expanded \subseteq Paths /\ at \in Bound
  BY TypesByGroup DEF QueueTypes, SetTypes, NumberTypes
<1>2. wanted \subseteq Paths /\ (wanted # {} => at \in Stops)
  BY <1>0, <1>1 DEF ToRestore, Bound
<1>3. IsFiniteSet(new)
  BY <1>2, ParametersAssumption, FS_Subset
<1>4. IsFiniteSet(R) /\ R \subseteq ChildRequests
  BY <1>2, <1>3, RequestsAreFinite, RequestTypes
<1>5. asking' = waiting \cup wanted /\ childQueue' = childQueue \o SetToSeq(R)
  BY <1>0
<1>6. /\ SetToSeq(R) \in Seq(R) /\ SetToSeq(R) \in Seq(ChildRequests)
      /\ \A x \in R : \E i \in 1..Len(SetToSeq(R)) : SetToSeq(R)[i] = x
  BY <1>4, SetToSeqLists, SeqMonotonic
<1>7. Queued(SetToSeq(R)) = new
  <2>1. DOMAIN SetToSeq(R) = 1..Len(SetToSeq(R)) /\ \A i \in 1..Len(SetToSeq(R)) : SetToSeq(R)[i] \in R
    BY <1>6, LenProperties, ElementOfSeq
  <2>2. ASSUME NEW p \in new PROVE p \in Queued(SetToSeq(R))
    <3>1. PICK i \in 1..Len(SetToSeq(R)) : SetToSeq(R)[i] = [path |-> p, stop |-> at]
      BY <1>6
    <3>2. i \in DOMAIN SetToSeq(R) /\ SetToSeq(R)[i].path = p
      BY <2>1, <3>1
    <3>3. QED
      BY <3>2 DEF Queued
  <2>3. ASSUME NEW p \in Queued(SetToSeq(R)) PROVE p \in new
    <3>1. PICK i \in DOMAIN SetToSeq(R) : p = SetToSeq(R)[i].path
      BY <2>3 DEF Queued
    <3>2. SetToSeq(R)[i] \in R
      BY <2>1
    <3>3. PICK x \in new : SetToSeq(R)[i] = [path |-> x, stop |-> at]
      BY <3>2
    <3>4. QED
      BY <3>1, <3>3
  <2>4. QED
    BY <2>2, <2>3
<1>8. Queued(childQueue') = Queued(childQueue) \cup wanted
  <2>1. Queued(childQueue \o SetToSeq(R)) = Queued(childQueue) \cup Queued(SetToSeq(R))
    BY <1>1, <1>6, QueuedAtTheBack, Zenon
  <2>2. Queued(childQueue') = Queued(childQueue) \cup new
    BY <1>5, <1>7, <2>1
  <2>3. QED
    BY <2>2
<1>9. asking' \subseteq Paths
  BY <1>2, <1>5
<1>10. childQueue \o SetToSeq(R) \in Seq(ChildRequests)
  BY <1>1, <1>6, QueuesGrow, Zenon
<1>11. childQueue' \in Seq(ChildRequests)
  BY <1>5, <1>10
<1>12. wanted \in SUBSET Paths /\ Asked(wanted, loaded, have, waiting, whole)
  BY <1>0, <1>2, <1>5, <1>8 DEF Asked
<1>13. QED
  BY <1>9, <1>11, <1>12, Zenon

-----------------------------------------------------------------------------
(* The events of the worker. *)

(* What the handler of an event may change has its type.                     *)
HandledTypes ==
    /\ connection \in {"Connecting", "Connected", "Failed"} /\ state \in SessionStates \cup {NoName}
    /\ choice \in {"none", "asked", "choosing"} /\ command \in Commands \cup {NoCommand}
    /\ fetching \in BOOLEAN /\ setting \in BOOLEAN /\ restarting \in BOOLEAN
    /\ editBox \in BOOLEAN /\ stepInBox \in BOOLEAN /\ aborted \in BOOLEAN /\ partial \in BOOLEAN
    /\ at \in Bound /\ variables \in Bound /\ rows \in Bound
    /\ generation \in Nat /\ fetched \in 0..generation /\ touches \in 0..MaxTouches
    /\ children \in [Paths -> SUBSET Stops] /\ expanded \subseteq Paths /\ asking \subseteq Paths
    /\ scopeBox \in Requests /\ childQueue \in Seq(ChildRequests)

(* The type invariant is about them and about what no handler changes but    *)
(* HandleSessionEvent itself.                                                *)
LEMMA HandledSplits ==
  TypeOK => HandledTypes
BY DEF TypeOK, HandledTypes

(* A snapshot that is applied keeps the types.                               *)
LEMMA ApplySnapshotTypes ==
  ASSUME TypeOK, NEW e \in Events, e.kind = "snapshot", e.ok, ApplySnapshot(e)
  PROVE  HandledTypes'
<1>1. e.name \in SessionStates /\ e.stop \in Bound
  BY EventShapes
<1>2. HandledTypes
  BY HandledSplits
<1>3. generation' \in Nat /\ fetched' \in 0..generation'
  BY <1>2 DEF ApplySnapshot, HandledTypes
<1>4. fetching' \in BOOLEAN /\ restarting' \in BOOLEAN
  BY <1>2 DEF ApplySnapshot, StillFetching, HandledTypes
<1>5. asking' \subseteq Paths /\ choice' \in {"none", "asked", "choosing"}
  BY <1>2 DEF ApplySnapshot, HandledTypes
<1>6. QED
  BY <1>1, <1>2, <1>3, <1>4, <1>5 DEF ApplySnapshot, HandledTypes, editVars, boxVars

(* So does a poll that failed, ...                                           *)
LEMMA PollFailedTypes ==
  ASSUME TypeOK, PollFailed
  PROVE  HandledTypes'
BY HandledSplits DEF PollFailed, HandledTypes, scopeVars, editVars, boxVars

(* ... an answer with the variables of the scopes, ...                       *)
LEMMA ApplyScopesTypes ==
  ASSUME TypeOK, RequestsSound, NEW e \in Events, EventSound(e), e.kind = "scopes", ApplyScopeVariables(e)
  PROVE  HandledTypes'
<1>1. e.generation \in Nat /\ e.generation <= generation /\ e.stop \in Bound
  BY EventShapes, StopsAreCounted DEF EventSound, RequestSound
<1>2. HandledTypes
  BY HandledSplits
<1>3. asking' \subseteq Paths /\ childQueue' \in Seq(ChildRequests)
  <2>1. partial' \in BOOLEAN /\ asking \in SUBSET Paths
    BY <1>2 DEF ApplyScopeVariables, HandledTypes
  <2>2. \/ UNCHANGED <<asking, childQueue>>
        \/ RestoreExpandedScopeChildren(variables', children', asking, ~partial')
    BY DEF ApplyScopeVariables
  <2>3. QED
    BY <1>2, <2>1, <2>2, RestoreAsks DEF HandledTypes
<1>4. children' \in [Paths -> SUBSET Stops]
  BY DEF ApplyScopeVariables
<1>5. /\ fetched' \in 0..generation' /\ variables' \in Bound /\ fetching' \in BOOLEAN
      /\ partial' \in BOOLEAN
  <2>1. /\ fetched' = e.generation /\ generation' = generation /\ variables' \in {e.stop, NoStop}
        /\ fetching' = FALSE /\ partial' \in BOOLEAN /\ generation \in Nat
    BY <1>2 DEF ApplyScopeVariables, HandledTypes
  <2>2. e.generation \in 0..generation
    BY <1>1, <2>1
  <2>3. variables' \in Bound
    BY <1>1, <2>1, StopsAreCounted
  <2>4. QED
    BY <2>1, <2>2, <2>3, Zenon
<1>6. QED
  BY <1>2, <1>3, <1>4, <1>5 DEF ApplyScopeVariables, HandledTypes, editVars

(* ... one with the children of a variable, ...                              *)
LEMMA ApplyChildrenTypes ==
  ASSUME TypeOK, NEW e \in Events, e.kind = "children", ApplyVariableChildren(e)
  PROVE  HandledTypes'
<1>1. e.name \in Paths /\ e.stop \in Stops
  BY EventShapes
<1>2. HandledTypes
  BY HandledSplits
<1>3. asking \ {e.name} \in SUBSET Paths
  BY <1>2 DEF HandledTypes
<1>4. asking' \subseteq Paths /\ childQueue' \in Seq(ChildRequests)
  <2>1. RestoreExpandedScopeChildren(variables, children', asking \ {e.name}, ~partial)
    BY DEF ApplyVariableChildren
  <2>2. QED
    BY <1>2, <1>3, <2>1, RestoreAsks DEF HandledTypes
<1>5. children' \in [Paths -> SUBSET Stops]
  BY <1>1, <1>2 DEF ApplyVariableChildren, HandledTypes
<1>6. QED
  BY <1>2, <1>4, <1>5 DEF ApplyVariableChildren, HandledTypes, editVars

(* ... the report on a command, ...                                          *)
LEMMA CommandFinishedTypes ==
  ASSUME TypeOK, NEW e \in Events, e.kind = "finished", CommandFinished(e)
  PROVE  HandledTypes'
<1>1. HandledTypes
  BY HandledSplits
<1>2. restarting' \in BOOLEAN
  BY <1>1 DEF CommandFinished, HandledTypes
<1>3. state' \in SessionStates \cup {NoName}
  BY <1>1 DEF CommandFinished, HandledTypes, ApplyStarted, SessionStates
<1>4. UNCHANGED scopeVars \/ InvalidateScopeVariables
  BY DEF CommandFinished, ApplyStarted
<1>5. /\ at' \in Bound /\ variables' \in Bound /\ rows' \in Bound
      /\ generation' \in Nat /\ fetched' \in 0..generation' /\ fetching' \in BOOLEAN /\ partial' \in BOOLEAN
  <2>1. CASE UNCHANGED scopeVars
    BY <1>1, <2>1 DEF HandledTypes, scopeVars
  <2>2. CASE InvalidateScopeVariables
    <3>1. /\ at' = at /\ generation' = generation /\ fetched' = 0 /\ variables' = NoStop /\ rows' = NoStop
          /\ at \in Bound /\ generation \in Nat /\ 0 \in 0..generation
      BY <1>1, <2>2 DEF InvalidateScopeVariables, HandledTypes
    <3>2. fetching' = FALSE /\ partial' = FALSE
      BY <2>2 DEF InvalidateScopeVariables
    <3>3. QED
      BY <3>1, <3>2, StopsAreCounted
  <2>3. QED
    BY <1>4, <2>1, <2>2
<1>6. children' \in [Paths -> SUBSET Stops] /\ expanded' \subseteq Paths /\ asking' \subseteq Paths
  BY <1>1, <1>4 DEF InvalidateScopeVariables, HandledTypes, scopeVars
<1>7. QED
  BY <1>1, <1>2, <1>3, <1>5, <1>6 DEF CommandFinished, HandledTypes, editVars, boxVars

(* ... that on an edit, ...                                                  *)
LEMMA SetFinishedTypes ==
  ASSUME TypeOK, SetVariableFinished
  PROVE  HandledTypes'
BY HandledSplits DEF SetVariableFinished, HandledTypes, scopeVars, boxVars

(* ... and the targets of a step.                                            *)
LEMMA TargetsReadyTypes ==
  ASSUME TypeOK, NEW e \in Events, e.kind = "targets", StepInTargetsReady(e)
  PROVE  HandledTypes'
<1>1. HandledTypes
  BY HandledSplits
<1>2. CASE e.name = "many"
  BY <1>1, <1>2 DEF StepInTargetsReady, BeginStepInSelection, HandledTypes, scopeVars, editVars,
         boxVars
<1>3. CASE e.name # "many"
  <2>1. /\ choice' = "none" /\ UNCHANGED <<connection, editVars, restarting>>
        /\ \/ UNCHANGED <<state, scopeVars, boxVars>>
           \/ state' = "running" /\ UNCHANGED scopeVars /\ PostCommand("step_into")
    BY <1>3 DEF StepInTargetsReady, SendStepIntoCommand, ApplyStarted, Resuming
  <2>2. childQueue' \in Seq(ChildRequests) /\ scopeBox' \in Requests
    BY <1>1, <2>1, QueuesGrow, RequestTypes DEF PostCommand, HandledTypes, boxVars
  <2>3. QED
    BY <1>1, <2>1, <2>2, NamesAreKnown DEF PostCommand, HandledTypes, scopeVars, editVars, boxVars
<1>4. QED
  BY <1>2, <1>3

(* The next event keeps the types.                                           *)
LEMMA HandleSessionEventTypes ==
  ASSUME TypeOK, RequestsSound, HandleSessionEvent
  PROVE  TypeOK'
<1> DEFINE e == Head(events)
<1>1. e \in Events /\ Tail(events) \in Seq(Events)
  BY TypesByGroup, HeadTailProperties DEF HandleSessionEvent, QueueTypes
<1>2. EventSound(e)
  BY TypesByGroup, HeadTailProperties DEF HandleSessionEvent, QueueTypes, RequestsSound
<1>3. HandledTypes'
  BY <1>1, <1>2, ApplySnapshotTypes, PollFailedTypes, ApplyScopesTypes, ApplyChildrenTypes,
     CommandFinishedTypes,
     SetFinishedTypes, TargetsReadyTypes DEF HandleSessionEvent
<1>4. unsure' \in BOOLEAN /\ dropped' \in BOOLEAN
  BY TypesByGroup DEF HandleSessionEvent, FlagTypes
<1>5. /\ launch' \in {"none", "posted", "finished", "handled"} /\ ui' \in {"idle", "draining"}
      /\ session' \in SessionStates /\ live' \in BOOLEAN /\ active' \in BOOLEAN
      /\ stop' \in Bound /\ (session' = "stopped" => stop' # NoStop) /\ commands' \in 0..MaxCommands
  BY TypesByGroup DEF HandleSessionEvent, PlainTypes, FlagTypes, NumberTypes, sessionVars
<1>6. task' \in Tasks /\ events' \in Seq(Events)
  BY <1>1, TypesByGroup DEF HandleSessionEvent, QueueTypes
<1>7. QED
  BY <1>3, <1>4, <1>5, <1>6 DEF HandledTypes, TypeOK, Bound

-----------------------------------------------------------------------------
(* The queue of events. *)

(* What a new event at the back leaves as it was.                            *)
LEMMA EventsAppend ==
  ASSUME NEW q \in Seq(Events), NEW e \in Events
  PROVE  /\ Len(q) \in Nat /\ DOMAIN q = 1..Len(q) /\ Len(Append(q, e)) = Len(q) + 1
         /\ DOMAIN Append(q, e) = 1..(Len(q) + 1)
         /\ \A i \in DOMAIN q : i \in DOMAIN Append(q, e) /\ Append(q, e)[i] = q[i]
         /\ Append(q, e)[Len(q) + 1] = e
         /\ \A i \in DOMAIN Append(q, e) :
               (i \in DOMAIN q /\ Append(q, e)[i] = q[i]) \/ (i = Len(q) + 1 /\ Append(q, e)[i] = e)
<1>1. /\ Append(q, e) \in Seq(Events) /\ Len(Append(q, e)) = Len(q) + 1
      /\ \A i \in 1..Len(q) : Append(q, e)[i] = q[i]
      /\ Append(q, e)[Len(q) + 1] = e
  BY AppendProperties
<1>2. Len(q) \in Nat /\ DOMAIN q = 1..Len(q)
  BY LenProperties
<1>3. DOMAIN Append(q, e) = 1..(Len(q) + 1)
  BY <1>1, LenProperties
<1>4. QED
  BY <1>1, <1>2, <1>3

(* The handled event leaves the front.                                       *)
LEMMA EventsTail ==
  ASSUME NEW q \in Seq(Events), q # <<>>
  PROVE  /\ Len(q) \in Nat \ {0} /\ DOMAIN q = 1..Len(q) /\ Len(Tail(q)) = Len(q) - 1
         /\ DOMAIN Tail(q) = 1..(Len(q) - 1) /\ Head(q) = q[1] /\ q[1] \in Events /\ Tail(q) \in Seq(Events)
         /\ \A i \in DOMAIN Tail(q) : i + 1 \in DOMAIN q /\ Tail(q)[i] = q[i + 1]
         /\ \A i \in DOMAIN q : i # 1 => i - 1 \in DOMAIN Tail(q) /\ Tail(q)[i - 1] = q[i]
<1>1. /\ Tail(q) \in Seq(Events) /\ Len(Tail(q)) = Len(q) - 1
      /\ \A i \in 1..Len(Tail(q)) : Tail(q)[i] = q[i + 1]
  BY HeadTailProperties
<1>2. Len(q) \in Nat \ {0} /\ DOMAIN q = 1..Len(q)
  BY EmptySeq, LenProperties
<1>3. DOMAIN Tail(q) = 1..(Len(q) - 1)
  BY <1>1, LenProperties
<1>4. Head(q) = q[1] /\ q[1] \in Events
  BY <1>2, ElementOfSeq
<1>5. QED
  BY <1>1, <1>2, <1>3, <1>4

(* The snapshot the UI is to learn of stays where it is as long as the       *)
(* session does.                                                             *)
LEMMA NewsStays ==
  ASSUME TypeOK, UNCHANGED <<events, session>>, NEW k \in 0..Len(events), NewsSince(k)
  PROVE  k \in 0..Len(events') /\ NewsSince(k)'
BY DEF NewsSince, Keeps

(* An event that does not contradict it may come after it, ...               *)
LEMMA NewsKept ==
  ASSUME TypeOK, NEW e \in Events, events' = Append(events, e), session' = session, Keeps(e),
         NEW k \in 0..Len(events), NewsSince(k)
  PROVE  k \in 0..Len(events') /\ NewsSince(k)'
<1>1. events \in Seq(Events)
  BY TypesByGroup DEF QueueTypes
<1>2. k \in 0..Len(events')
  BY <1>1, EventsAppend
<1>3. \A i \in DOMAIN events' : i > k => Keeps(events'[i])
  BY <1>1, EventsAppend DEF NewsSince
<1>4. k > 0 => IsSnapshot(events'[k]) /\ events'[k].name = session
  <2>1. k > 0 => k \in DOMAIN events
    BY <1>1, EventsAppend
  <2>2. QED
    BY <1>1, <2>1, EventsAppend DEF NewsSince
<1>5. QED
  BY <1>2, <1>3, <1>4 DEF NewsSince, Keeps

(* ... and a new snapshot takes its place.                                   *)
LEMMA NewsPushed ==
  ASSUME TypeOK, NEW e \in Events, events' = Append(events, e), IsSnapshot(e), e.name = session'
  PROVE  \E k \in 0..Len(events') : k > 0 /\ NewsSince(k)'
<1>1. events \in Seq(Events)
  BY TypesByGroup DEF QueueTypes
<1>2. Len(events) \in Nat /\ Len(events') = Len(events) + 1 /\ events'[Len(events) + 1] = e
      /\ DOMAIN events' = 1..(Len(events) + 1)
  BY <1>1, EventsAppend
<1>3. PICK n \in Nat : n = Len(events) + 1
  BY <1>2
<1>4. NewsSince(n)'
  BY <1>2, <1>3 DEF NewsSince
<1>5. n \in 0..Len(events') /\ n > 0
  BY <1>2, <1>3
<1>6. QED
  BY <1>4, <1>5

(* What is left of it when an event was handled.                             *)
LEMMA NewsHandled ==
  ASSUME TypeOK, events # <<>>, events' = Tail(events), session' = session, NEW k \in 0..Len(events), NewsSince(k)
  PROVE  /\ k > 0 => k - 1 \in 0..Len(events') /\ NewsSince(k - 1)'
         /\ k = 0 => 0 \in 0..Len(events') /\ NewsSince(0)' /\ Keeps(Head(events))
<1>1. /\ Len(events) \in Nat \ {0} /\ DOMAIN events = 1..Len(events) /\ Len(events') = Len(events) - 1
      /\ DOMAIN events' = 1..(Len(events) - 1) /\ Head(events) = events[1]
      /\ \A i \in DOMAIN events' : i + 1 \in DOMAIN events /\ events'[i] = events[i + 1]
  BY TypesByGroup, EventsTail DEF QueueTypes
<1>2. ASSUME NEW j \in Nat, j >= k - 1, NEW i \in DOMAIN events', i > j PROVE Keeps(events[i + 1])
  BY <1>1, <1>2 DEF NewsSince
<1>3. ASSUME k > 0 PROVE k - 1 \in 0..Len(events') /\ NewsSince(k - 1)'
  <2>1. PICK j \in Nat : j = k - 1
    BY <1>3
  <2>2. \A i \in DOMAIN events' : i > j => Keeps(events'[i])
    BY <1>1, <1>2, <2>1
  <2>3. j > 0 => IsSnapshot(events'[j]) /\ events'[j].name = session
    BY <1>1, <2>1 DEF NewsSince
  <2>4. NewsSince(j)'
    BY <2>2, <2>3 DEF NewsSince, Keeps
  <2>5. QED
    BY <1>1, <2>1, <2>4
<1>4. ASSUME k = 0 PROVE 0 \in 0..Len(events') /\ NewsSince(0)' /\ Keeps(Head(events))
  <2>1. \A i \in DOMAIN events' : Keeps(events'[i])
    BY <1>1, <1>2, <1>4
  <2>2. Keeps(Head(events))
    BY <1>1, <1>4 DEF NewsSince
  <2>3. (\A i \in DOMAIN events : Keeps(events[i]))'
    BY <2>1 DEF Keeps
  <2>4. ~(0 > 0) /\ 0 \in 0..Len(events')
    BY <1>1
  <2>5. NewsSince(0)'
    BY <2>3, <2>4 DEF NewsSince
  <2>6. QED
    BY <2>2, <2>4, <2>5
<1>5. QED
  BY <1>3, <1>4


-----------------------------------------------------------------------------
(* Every step keeps the types. *)
LEMMA TypesStep ==
  ASSUME TypeOK, RequestsSound, [Next]_vars
  PROVE  TypeOK'
<1>1. CASE UNCHANGED vars
  BY <1>1 DEF vars, launchVars, scopeVars, editVars, boxVars, sessionVars, ghostVars, TypeOK, Bound
<1>2. CASE User
  <2>1. CASE \E op \in UserOps : SendCommand(op)
    BY <2>1, SendCommandTypes
  <2>2. CASE \E p \in Paths : ToggleScopeRowExpand(p)
    BY <2>2, ToggleScopeRowExpandTypes
  <2>3. QED
    BY <1>2, <2>1, <2>2, StepIntoTypes, ConfirmStepInTypes, CancelStepInTypes,
       SubmitVariableValueTypes DEF User
<1>3. CASE Ui
  BY <1>3, MaybeStartLaunchTypes, HandleSessionEventTypes, PollSessionTypes DEF Ui
<1>4. CASE Worker
  BY <1>4, LaunchWorkerTypes, TakeCommandTypes, CommandSucceedsTypes, CommandFailsTypes,
     SetVariableTypes,
     TakeScopeFetchTypes, ScopeFetchEndsTypes, TakeChildrenFetchTypes, ChildrenFetchEndsTypes,
     StepInTargetsFetchTypes, PollTypes DEF Worker
<1>5. QED
  BY <1>1, <1>2, <1>3, <1>4 DEF Next

-----------------------------------------------------------------------------
(* Requests for scopes. *)

(* Whatever is under way after a step is sound if the snapshot is the one it *)
(* was and what is asked for, worked on and answered is sound.               *)
LEMMA SoundStays ==
  ASSUME TypeOK, RequestsSound, UNCHANGED <<at, generation>>,
         UNCHANGED <<fetched, variables, partial>> \/ (fetched' = 0 /\ variables' = NoStop),
         scopeBox' # NoRequest => RequestSound(scopeBox'),
         task'.kind = "scopes" => RequestSound(task'),
         \A i \in DOMAIN events' : EventSound(events'[i])
  PROVE  RequestsSound'
<1>1. (scopeBox # NoRequest => RequestSound(scopeBox))' /\ (task.kind = "scopes" => RequestSound(task))'
  BY DEF RequestSound
<1>2. (\A i \in DOMAIN events : EventSound(events[i]))'
  BY DEF EventSound, RequestSound
<1>3. (generation = 0 => at = NoStop)' /\ (fetched = generation => variables = at \/ (partial /\ variables = NoStop))'
  BY DEF RequestsSound
<1>4. QED
  BY <1>1, <1>2, <1>3 DEF RequestsSound

(* An answer that is sound may be put after those that are, ...              *)
LEMMA SoundAppend ==
  ASSUME TypeOK, RequestsSound, NEW e \in Events, EventSound(e), events' = Append(events, e)
  PROVE  \A i \in DOMAIN events' : EventSound(events'[i])
<1>1. events \in Seq(Events)
  BY TypesByGroup DEF QueueTypes
<1>2. QED
  BY <1>1, EventsAppend DEF RequestsSound

(* ... and one that is handled leaves sound ones.                            *)
LEMMA SoundTail ==
  ASSUME TypeOK, RequestsSound, events # <<>>, events' = Tail(events)
  PROVE  EventSound(Head(events)) /\ Head(events) \in Events /\ \A i \in DOMAIN events' : EventSound(events'[i])
<1>1. events \in Seq(Events)
  BY TypesByGroup DEF QueueTypes
<1>2. QED
  BY <1>1, EventsTail DEF RequestsSound

(* Steps that ask for nothing new keep what is under way sound.              *)
LEMMA QuietSound ==
  ASSUME TypeOK, RequestsSound, UNCHANGED <<at, generation>>,
         UNCHANGED <<fetched, variables, partial>> \/ (fetched' = 0 /\ variables' = NoStop),
         scopeBox' \in {scopeBox, NoRequest}, task' = task \/ task'.kind # "scopes",
         events' = events \/ \E e \in Events : e.kind # "scopes" /\ events' = Append(events, e)
  PROVE  RequestsSound'
<1>1. \A i \in DOMAIN events' : EventSound(events'[i])
  <2>1. CASE events' = events
    BY <2>1 DEF RequestsSound
  <2>2. CASE \E e \in Events : e.kind # "scopes" /\ events' = Append(events, e)
    BY <2>2, SoundAppend DEF EventSound
  <2>3. QED
    BY <2>1, <2>2
<1>2. (scopeBox' # NoRequest => RequestSound(scopeBox')) /\ (task'.kind = "scopes" => RequestSound(task'))
  BY DEF RequestsSound
<1>3. QED
  BY <1>1, <1>2, SoundStays

(* The user asks for no scopes.                                              *)
LEMMA UserSound ==
  ASSUME TypeOK, RequestsSound, User
  PROVE  RequestsSound'
<1>1. CASE \E op \in UserOps : SendCommand(op)
  BY <1>1, QuietSound DEF SendCommand, ApplyStarted, PostCommand, InvalidateScopeVariables,
         Resuming, scopeVars
<1>2. CASE StepInto
  BY <1>2, QuietSound DEF StepInto, StepIntoUnchanged, PostCommand, scopeVars
<1>3. CASE ConfirmStepIn
  BY <1>3, QuietSound DEF ConfirmStepIn, StepIntoUnchanged, SendStepIntoCommand, ApplyStarted,
         Resuming, PostCommand,
     scopeVars, boxVars
<1>4. CASE CancelStepIn \/ SubmitVariableValue
  BY <1>4, QuietSound DEF CancelStepIn, SubmitVariableValue, scopeVars, boxVars
<1>5. CASE \E p \in Paths : ToggleScopeRowExpand(p)
  BY <1>5, QuietSound DEF ToggleScopeRowExpand
<1>6. QED
  BY <1>1, <1>2, <1>3, <1>4, <1>5 DEF User

(* The snapshot of the session as a step leaves it is an event.              *)
LEMMA NextSnapshot ==
  ASSUME TypeOK'
  PROVE  Snapshot(session', IF session' = "stopped" THEN stop' ELSE NoStop) \in Events
<1>1. session' \in SessionStates /\ stop' \in Bound /\ (session' = "stopped" => stop' # NoStop)
  BY DEF TypeOK
<1>2. QED
  BY <1>1, SnapshotTypes

(* The launch does not, either.                                              *)
LEMMA LaunchSound ==
  ASSUME TypeOK, RequestsSound, MaybeStartLaunch \/ LaunchWorker
  PROVE  RequestsSound'
<1>1. CASE MaybeStartLaunch
  BY <1>1, QuietSound DEF MaybeStartLaunch, scopeVars, boxVars
<1>2. CASE LaunchWorker
  <2>1. TypeOK'
    BY <1>2, LaunchWorkerTypes
  <2>2. Snapshot(session', IF session' = "stopped" THEN stop' ELSE NoStop) \in Events
    BY <2>1, NextSnapshot
  <2>3. events' = events \/ \E e \in Events : e.kind # "scopes" /\ events' = Append(events, e)
    BY <1>2, <2>2 DEF LaunchWorker, PushSnapshot, Snapshot, Event
  <2>4. QED
    BY <1>2, <2>3, QuietSound DEF LaunchWorker, scopeVars, boxVars
<1>3. QED
  BY <1>1, <1>2

(* The end of a round asks for the scopes of the snapshot the UI is at.      *)
LEMMA PollSessionSound ==
  ASSUME TypeOK, RequestsSound, PollSession
  PROVE  RequestsSound'
<1>1. scopeBox' = scopeBox \/ scopeBox' = [generation |-> generation, stop |-> at]
  BY DEF PollSession, HandleLaunchComplete, MaybeRequestScopeVariables
<1>2. generation \in Nat
  BY TypesByGroup DEF NumberTypes
<1>3. scopeBox' # NoRequest => RequestSound(scopeBox')
  BY <1>1, <1>2 DEF RequestsSound, RequestSound
<1>4. \A i \in DOMAIN events' : EventSound(events'[i])
  BY DEF PollSession, RequestsSound
<1>5. task'.kind = "scopes" => RequestSound(task')
  BY DEF PollSession, RequestsSound
<1>6. QED
  BY <1>3, <1>4, <1>5, SoundStays DEF PollSession

(* A request stays the same on its way through the worker.                   *)
LEMMA ScopeFetchSound ==
  ASSUME TypeOK, RequestsSound, TakeScopeFetch \/ ScopeFetchEnds
  PROVE  RequestsSound'
<1>1. CASE TakeScopeFetch
  <2>1. task' = Task("scopes", NoName, scopeBox) /\ scopeBox' = NoRequest /\ scopeBox # NoRequest
    BY <1>1 DEF TakeScopeFetch, Take
  <2>2. RequestSound(task')
    BY <2>1 DEF RequestsSound, RequestSound, Task
  <2>3. \A i \in DOMAIN events' : EventSound(events'[i])
    BY <1>1 DEF TakeScopeFetch, RequestsSound
  <2>4. QED
    BY <1>1, <2>1, <2>2, <2>3, SoundStays DEF TakeScopeFetch, scopeVars
<1>2. CASE ScopeFetchEnds
  <2>1. task' = NoTask /\ task.kind = "scopes" /\ RequestSound(task) /\ UNCHANGED scopeVars
    BY <1>2 DEF ScopeFetchEnds, RequestsSound
  <2>2. scopeBox' # NoRequest => RequestSound(scopeBox')
    <3>1. CASE scopeBox' = [generation |-> task.generation, stop |-> task.stop]
      BY <2>1, <3>1 DEF RequestSound
    <3>2. CASE scopeBox' = scopeBox
      BY <3>2 DEF RequestsSound
    <3>3. QED
      BY <1>2, <3>1, <3>2 DEF ScopeFetchEnds
  <2>3. \A i \in DOMAIN events' : EventSound(events'[i])
    <3>1. CASE Interrupted
      BY <1>2, <3>1 DEF ScopeFetchEnds, RequestsSound
    <3>2. CASE ~Interrupted
      <4>1. task.generation \in Nat \ {0} /\ task.stop \in Stops
        BY <2>1, TypesByGroup, TaskShapes DEF QueueTypes
      <4>2. PICK found \in Answers :
                events' = Append(events, Event("scopes", TRUE, found, task.generation, task.stop))
        BY <1>2, <3>2 DEF ScopeFetchEnds
      <4>3. Event("scopes", TRUE, found, task.generation, task.stop) \in Events
        BY <4>1, AnswerTypes
      <4>4. EventSound(Event("scopes", TRUE, found, task.generation, task.stop))
        BY <2>1 DEF EventSound, RequestSound, Event
      <4>5. QED
        BY <4>2, <4>3, <4>4, SoundAppend
    <3>3. QED
      BY <3>1, <3>2
  <2>4. task'.kind # "scopes"
    BY <2>1 DEF NoTask
  <2>5. QED
    BY <2>1, <2>2, <2>3, <2>4, SoundStays DEF scopeVars
<1>3. QED
  BY <1>1, <1>2

(* Other work of the worker leaves them alone or drops them.                 *)
LEMMA OtherWorkSound ==
  ASSUME TypeOK, RequestsSound,
         TakeCommand \/ SetVariable \/ TakeChildrenFetch \/ ChildrenFetchEnds \/ StepInTargetsFetch
         \/ Poll \/ CommandFails
  PROVE  RequestsSound'
<1>1. CASE TakeCommand \/ TakeChildrenFetch
  BY <1>1, QuietSound DEF TakeCommand, TakeChildrenFetch, Take, Task, scopeVars
<1>2. CASE SetVariable
  <2>1. \E e \in Events : e.kind # "scopes" /\ events' = Append(events, e)
    BY <1>2, AnswerTypes DEF SetVariable, Event
  <2>2. QED
    BY <1>2, <2>1, QuietSound DEF SetVariable, scopeVars
<1>3. CASE StepInTargetsFetch
  <2>1. \E e \in Events : e.kind # "scopes" /\ events' = Append(events, e)
    BY <1>3, AnswerTypes DEF StepInTargetsFetch, Event
  <2>2. QED
    BY <1>3, <2>1, QuietSound DEF StepInTargetsFetch, scopeVars
<1>4. CASE ChildrenFetchEnds
  <2>1. task.name \in Paths /\ task.stop \in Stops
    BY <1>4, TypesByGroup, TaskShapes DEF QueueTypes, ChildrenFetchEnds
  <2>2. events' = events \/ \E e \in Events : e.kind # "scopes" /\ events' = Append(events, e)
    <3>1. CASE Interrupted
      BY <1>4, <3>1 DEF ChildrenFetchEnds
    <3>2. CASE ~Interrupted
      <4>1. PICK ok \in BOOLEAN : events' = Append(events, Event("children", ok, task.name, 0, task.stop))
        BY <1>4, <3>2 DEF ChildrenFetchEnds
      <4>2. Event("children", ok, task.name, 0, task.stop) \in Events
        BY <2>1, AnswerTypes
      <4>3. Event("children", ok, task.name, 0, task.stop).kind # "scopes"
        BY DEF Event
      <4>4. QED
        BY <4>1, <4>2, <4>3
    <3>3. QED
      BY <3>1, <3>2
  <2>3. task'.kind # "scopes" /\ UNCHANGED <<scopeVars, scopeBox>>
    BY <1>4 DEF ChildrenFetchEnds, NoTask
  <2>4. QED
    BY <2>2, <2>3, QuietSound DEF scopeVars
<1>5. CASE Poll
  <2>1. TypeOK'
    BY <1>5, PollTypes
  <2>2. Snapshot(session', IF session' = "stopped" THEN stop' ELSE NoStop) \in Events
    BY <2>1, NextSnapshot
  <2>3. \E e \in Events : e.kind # "scopes" /\ events' = Append(events, e)
    BY <1>5, <2>2, ReportTypes DEF Poll, Snapshot, Event
  <2>4. UNCHANGED <<scopeVars, scopeBox, task>>
    BY <1>5 DEF Poll, boxVars
  <2>5. QED
    BY <2>3, <2>4, QuietSound DEF scopeVars
<1>6. CASE CommandFails
  <2>1. task.name \in Commands
    BY <1>6, TypesByGroup, TaskShapes DEF QueueTypes, CommandFails
  <2>2. \E e \in Events : e.kind # "scopes" /\ events' = Append(events, e)
    BY <1>6, <2>1, ReportTypes DEF CommandFails, Finished, Event
  <2>3. task'.kind # "scopes" /\ UNCHANGED <<scopeVars, scopeBox>>
    BY <1>6 DEF CommandFails, NoTask, boxVars
  <2>4. QED
    BY <2>2, <2>3, QuietSound DEF scopeVars
<1>7. QED
  BY <1>1, <1>2, <1>3, <1>4, <1>5, <1>6

(* What a command that succeeds pushes: the snapshot, if there is one, and   *)
(* then the report.                                                          *)
LEMMA SucceedsPushes ==
  ASSUME TypeOK, CommandSucceeds
  PROVE  /\ task.name \in Commands /\ Finished(TRUE, task.name) \in Events
         /\ Snapshot(session', IF session' = "stopped" THEN stop' ELSE NoStop) \in Events
         /\ \/ events' = Append(events, Finished(TRUE, task.name)) /\ session' = "running" /\ unsure' = TRUE
            \/ /\ events' = Append(Append(events, Snapshot(session', IF session' = "stopped" THEN stop' ELSE NoStop)),
                                   Finished(TRUE, task.name))
               /\ unsure' = FALSE /\ (session' = "stopped" => ~dropped')
<1>1. task.name \in Commands /\ events \in Seq(Events)
  BY TypesByGroup, TaskShapes DEF QueueTypes, CommandSucceeds
<1>2. TypeOK'
  BY CommandSucceedsTypes
<1>3. Snapshot(session', IF session' = "stopped" THEN stop' ELSE NoStop) \in Events
  BY <1>2, NextSnapshot
<1>4. Finished(TRUE, task.name) \in Events
  BY <1>1, ReportTypes
<1>5. PICK s \in Events : s = Snapshot(session', IF session' = "stopped" THEN stop' ELSE NoStop)
  BY <1>3
<1>6. PICK f \in Events : f = Finished(TRUE, task.name)
  BY <1>4
<1>7. PICK pushed \in BOOLEAN :
          /\ pushed \/ session' = "running"
          /\ events' = events \o (IF pushed THEN <<s>> ELSE <<>>) \o <<f>>
          /\ unsure' = ~pushed /\ dropped' = (dropped /\ ~(pushed /\ session' = "stopped"))
  BY <1>5, <1>6 DEF CommandSucceeds
<1>8. CASE pushed
  <2>1. events \o <<s>> \o <<f>> = Append(Append(events, s), f)
    BY <1>1
  <2>2. QED
    BY <1>1, <1>3, <1>4, <1>5, <1>6, <1>7, <1>8, <2>1
<1>9. CASE ~pushed
  <2>1. events \o <<>> \o <<f>> = Append(events, f)
    BY <1>1
  <2>2. QED
    BY <1>1, <1>3, <1>4, <1>5, <1>6, <1>7, <1>9, <2>1
<1>10. QED
  BY <1>8, <1>9

(* None of it is an answer about scopes.                                     *)
LEMMA CommandSucceedsSound ==
  ASSUME TypeOK, RequestsSound, CommandSucceeds
  PROVE  RequestsSound'
<1>1. PICK s \in Events : s = Snapshot(session', IF session' = "stopped" THEN stop' ELSE NoStop)
  BY SucceedsPushes
<1>2. PICK f \in Events : f = Finished(TRUE, task.name)
  BY SucceedsPushes
<1>3. events' = Append(events, f) \/ events' = Append(Append(events, s), f)
  BY <1>1, <1>2, SucceedsPushes
<1>4. s.kind # "scopes" /\ f.kind # "scopes"
  BY <1>1, <1>2 DEF Snapshot, Finished, Event
<1>5. events \in Seq(Events) /\ Append(events, s) \in Seq(Events)
  BY TypesByGroup, QueuesGrow DEF QueueTypes
<1>6. \A i \in DOMAIN Append(events, s) : EventSound(Append(events, s)[i])
  BY <1>4, <1>5, EventsAppend DEF RequestsSound, EventSound
<1>7. \A i \in DOMAIN events' : EventSound(events'[i])
  <2>1. CASE events' = Append(events, f)
    BY <1>4, <2>1, SoundAppend DEF EventSound
  <2>2. CASE events' = Append(Append(events, s), f)
    BY <1>4, <1>5, <1>6, <2>2, EventsAppend DEF EventSound
  <2>3. QED
    BY <1>3, <2>1, <2>2
<1>8. UNCHANGED scopeVars /\ scopeBox' \in {scopeBox, NoRequest} /\ task'.kind # "scopes"
  BY DEF CommandSucceeds, ClearPendingAdapterWork, NoTask, boxVars
<1>9. QED
  BY <1>7, <1>8, SoundStays DEF RequestsSound, scopeVars

(* What is under way is sound whatever event the UI handles: an answer is    *)
(* taken for what it is an answer to, and a snapshot makes all of it old.    *)
LEMMA HandleSessionEventSound ==
  ASSUME TypeOK, RequestsSound, HandleSessionEvent
  PROVE  RequestsSound'
<1> DEFINE e == Head(events)
<1>1. e \in Events /\ EventSound(e) /\ events' = Tail(events) /\ task' = task
      /\ \A i \in DOMAIN events' : EventSound(events'[i])
  BY SoundTail DEF HandleSessionEvent
<1>2. (scopeBox # NoRequest => RequestSound(scopeBox)) /\ (task.kind = "scopes" => RequestSound(task))
  BY DEF RequestsSound
<1>3. CASE e.kind = "snapshot" /\ e.ok /\ ApplySnapshot(e)
  <2>1. /\ generation' = generation + 1 /\ fetched' = 0 /\ scopeBox' = scopeBox /\ generation \in Nat
    BY <1>3, TypesByGroup DEF ApplySnapshot, boxVars, NumberTypes
  <2>2. scopeBox.generation \in Nat /\ (task.kind = "scopes" => task.generation \in Nat)
    BY TypesByGroup, TaskShapes DEF QueueTypes, Requests, NoRequest
  <2>3. \A i \in DOMAIN events' : events'[i].kind = "scopes" => events'[i].generation \in Nat
    <3>1. events' \in Seq(Events)
      BY HandleSessionEventTypes DEF TypeOK
    <3>2. QED
      BY <3>1, LenProperties, ElementOfSeq, EventShapes
  <2>4. \A i \in DOMAIN events' : events'[i].kind = "scopes"
            => events'[i].generation <= generation' /\ events'[i].generation # generation'
    BY <1>1, <2>1, <2>3 DEF EventSound, RequestSound
  <2>5. scopeBox # NoRequest => scopeBox.generation <= generation' /\ scopeBox.generation # generation'
    BY <1>2, <2>1, <2>2 DEF RequestSound
  <2>6. task.kind = "scopes" => task.generation <= generation' /\ task.generation # generation'
    BY <1>2, <2>1, <2>2 DEF RequestSound
  <2>7. generation' # 0 /\ fetched' # generation'
    BY <2>1
  <2>8. QED
    BY <1>1, <2>1, <2>4, <2>5, <2>6, <2>7 DEF RequestsSound, EventSound, RequestSound
<1>4. CASE e.kind = "scopes" /\ ApplyScopeVariables(e)
  <2>1. /\ fetched' = e.generation /\ UNCHANGED <<at, generation, scopeBox>>
        /\ variables' = e.stop \/ (partial' /\ variables' = NoStop)
    BY <1>4 DEF ApplyScopeVariables
  <2>2. (scopeBox # NoRequest => RequestSound(scopeBox))' /\ (task.kind = "scopes" => RequestSound(task))'
    BY <1>1, <1>2, <2>1 DEF RequestSound
  <2>3. (\A i \in DOMAIN events : EventSound(events[i]))'
    BY <1>1, <2>1 DEF EventSound, RequestSound
  <2>4. (generation = 0 => at = NoStop)'
    BY <2>1 DEF RequestsSound
  <2>5. (fetched = generation => variables = at \/ (partial /\ variables = NoStop))'
    BY <1>1, <1>4, <2>1 DEF EventSound, RequestSound
  <2>6. QED
    BY <2>2, <2>3, <2>4, <2>5 DEF RequestsSound
<1>5. CASE \/ e.kind = "snapshot" /\ ~e.ok /\ PollFailed
           \/ e.kind = "children" /\ ApplyVariableChildren(e)
           \/ e.kind = "set" /\ SetVariableFinished
  <2>1. UNCHANGED <<at, generation, fetched, variables, partial, scopeBox>>
    BY <1>5 DEF PollFailed, ApplyVariableChildren, SetVariableFinished, scopeVars, boxVars
  <2>2. QED
    BY <1>1, <1>2, <2>1, SoundStays
<1>6. CASE e.kind = "finished" /\ CommandFinished(e)
  <2>1. UNCHANGED scopeVars \/ InvalidateScopeVariables
    BY <1>6 DEF CommandFinished, ApplyStarted
  <2>2. UNCHANGED <<at, generation>> /\ (UNCHANGED <<fetched, variables, partial>> \/ (fetched' = 0 /\ variables' = NoStop))
    BY <2>1 DEF scopeVars, InvalidateScopeVariables
  <2>3. scopeBox' = scopeBox
    BY <1>6 DEF CommandFinished, boxVars
  <2>4. QED
    BY <1>1, <1>2, <2>2, <2>3, SoundStays
<1>7. CASE e.kind = "targets" /\ StepInTargetsReady(e)
  <2>1. UNCHANGED <<at, generation, fetched, variables, partial>> /\ scopeBox' \in {scopeBox, NoRequest}
    BY <1>7 DEF StepInTargetsReady, BeginStepInSelection, SendStepIntoCommand, ApplyStarted,
           Resuming, PostCommand,
       scopeVars, boxVars
  <2>2. QED
    BY <1>1, <1>2, <2>1, SoundStays
<1>8. QED
  BY <1>3, <1>4, <1>5, <1>6, <1>7 DEF HandleSessionEvent

(* Every step keeps it sound. *)
LEMMA RequestsStep ==
  ASSUME TypeOK, RequestsSound, [Next]_vars
  PROVE  RequestsSound'
<1>1. CASE UNCHANGED vars
  BY <1>1, QuietSound DEF vars, scopeVars, boxVars
<1>2. CASE Ui
  BY <1>2, LaunchSound, HandleSessionEventSound, PollSessionSound DEF Ui
<1>3. CASE Worker
  BY <1>3, LaunchSound, ScopeFetchSound, OtherWorkSound, CommandSucceedsSound DEF Worker
<1>4. QED
  BY <1>1, <1>2, <1>3, UserSound DEF Next

-----------------------------------------------------------------------------
(* What the UI was told, and what it asks for. *)

(* What the UI shows of a session that nothing happens to stays explained.   *)
LEMMA ToldStays ==
  ASSUME Told, UNCHANGED <<state, session, command, task>>,
         (\E i \in DOMAIN events : IsFailure(events[i])) => \E i \in DOMAIN events' : IsFailure(events'[i])
  PROVE  Told'
BY DEF Told

(* What it asked for stays under way, unless a command came.                 *)
LEMMA FollowedStays ==
  ASSUME TypeOK, Followed, UNCHANGED <<session, scopeVars>>, dropped => dropped', Commanded => Commanded',
         AtRest' => AtRest, ui' = "idle" \/ setting' => ui = "idle" \/ setting,
         ~Commanded' /\ ScopesComing => ScopesComing', ~Commanded' /\ NotAborted => NotAborted',
         \A p \in Paths : ~Commanded' /\ ChildrenComing(p) => ChildrenComing(p)'
  PROVE  Followed'
<1> SUFFICES ASSUME session = "stopped", ~dropped, ~Commanded' PROVE (ScopesFollow /\ NotAborted /\ ChildrenFollow)'
  BY DEF Followed
<1>1. ScopesFollow /\ NotAborted /\ ChildrenFollow /\ asking \subseteq Paths
  BY TypesByGroup DEF Followed, SetTypes
<1>2. ScopesFollow'
  BY <1>1 DEF ScopesFollow, scopeVars
<1>3. NotAborted'
  BY <1>1
<1>4. ChildrenFollow'
  BY <1>1 DEF ChildrenFollow, scopeVars
<1>5. QED
  BY <1>2, <1>3, <1>4

(* So do steps that are about neither.                                       *)
LEMMA Undisturbed ==
  ASSUME TypeOK, Told, Followed, UNCHANGED <<state, session, command, task, scopeVars, scopeBox, childQueue, aborted, dropped>>,
         AtRest' => AtRest, ui' = "idle" \/ setting' => ui = "idle" \/ setting,
         events' = events \/ \E e \in Events : e.kind # "scopes" /\ events' = Append(events, e)
  PROVE  Told' /\ Followed'
<1>1. events \in Seq(Events)
  BY TypesByGroup DEF QueueTypes
<1>2. /\ \A i \in DOMAIN events : i \in DOMAIN events' /\ events'[i] = events[i]
      /\ \A i \in DOMAIN events' : events'[i].kind = "scopes" => i \in DOMAIN events /\ events'[i] = events[i]
  BY <1>1, EventsAppend
<1>3. Told'
  BY <1>2, ToldStays
<1>4. Commanded' = Commanded
  BY DEF Commanded
<1>5. ScopesComing => ScopesComing'
  BY <1>2 DEF ScopesComing
<1>6. NotAborted => NotAborted'
  BY <1>2 DEF NotAborted, scopeVars
<1>7. \A p \in Paths : ChildrenComing(p) => ChildrenComing(p)'
  BY <1>2 DEF ChildrenComing
<1>8. Followed'
  BY <1>4, <1>5, <1>6, <1>7, FollowedStays
<1>9. QED
  BY <1>3, <1>8

(* The user expands, collapses and edits what the panel shows.               *)
LEMMA TouchFollowed ==
  ASSUME TypeOK, Told, Followed,
         CancelStepIn \/ SubmitVariableValue \/ \E p \in Paths : ToggleScopeRowExpand(p)
  PROVE  Told' /\ Followed'
<1>1. CASE CancelStepIn
  BY <1>1, Undisturbed DEF CancelStepIn, AtRest, IsStopped, launchVars, editVars, boxVars,
         ghostVars, sessionVars
<1>2. CASE SubmitVariableValue
  BY <1>2, Undisturbed DEF SubmitVariableValue, AtKeyboard, AtRest, IsStopped, launchVars,
         ghostVars, sessionVars
<1>3. CASE \E p \in Paths : ToggleScopeRowExpand(p)
  <2>1. PICK p \in Paths : ToggleScopeRowExpand(p)
    BY <1>3
  <2>2. /\ UNCHANGED <<ui, launch, connection, state, at, generation, fetched, fetching, partial, children, rows, setting, command,
                       scopeBox, aborted, task, events, session, dropped>>
        /\ ui = "idle" /\ rows # NoStop
    BY <2>1 DEF ToggleScopeRowExpand, AtKeyboard, launchVars, ghostVars, sessionVars
  <2>3. Told'
    BY <2>2, ToldStays
  <2>4. /\ Queued(childQueue) \subseteq Queued(childQueue')
        /\ \A q \in asking' : q \in asking \/ q \in Queued(childQueue')
        /\ \A q \in expanded' : q \in expanded \/ rows \in children[q] \/ q \in asking'
        /\ asking \subseteq asking'
    <3>1. childQueue \in Seq(ChildRequests) /\ rows \in Stops
      BY <2>2, TypesByGroup DEF QueueTypes, NumberTypes, Bound
    <3>2. [path |-> p, stop |-> rows] \in ChildRequests
      BY <3>1, RequestTypes
    <3>3. Queued(Append(childQueue, [path |-> p, stop |-> rows])) = Queued(childQueue) \cup {p}
      BY <3>1, <3>2, QueuedStep
    <3>4. CASE p \in expanded
      BY <2>1, <3>4 DEF ToggleScopeRowExpand
    <3>5. CASE p \notin expanded /\ rows \in children[p]
      BY <2>1, <3>5 DEF ToggleScopeRowExpand
    <3>6. CASE p \notin expanded /\ rows \notin children[p]
      <4>1. /\ expanded' = expanded \cup {p} /\ asking' = asking \cup {p}
            /\ childQueue' = IF p \in Queued(childQueue) THEN childQueue
                             ELSE Append(childQueue, [path |-> p, stop |-> rows])
        BY <2>1, <3>6 DEF ToggleScopeRowExpand
      <4>2. Queued(childQueue') = Queued(childQueue) \cup {p}
        BY <3>3, <4>1
      <4>3. QED
        BY <4>1, <4>2
    <3>7. QED
      BY <3>4, <3>5, <3>6
  <2>5. Followed'
    <3>1. SUFFICES ASSUME session = "stopped", ~dropped, ~Commanded PROVE (ScopesFollow /\ NotAborted /\ ChildrenFollow)'
      BY <2>2 DEF Followed, Commanded
    <3>2. ScopesFollow /\ NotAborted /\ ChildrenFollow
      BY <3>1 DEF Followed
    <3>3. ScopesFollow' /\ NotAborted'
      BY <2>2, <3>2 DEF ScopesFollow, ScopesComing, NotAborted, AtRest, IsStopped
    <3>4. \A q \in asking' : ChildrenComing(q)'
      BY <2>2, <2>4, <3>2 DEF ChildrenFollow, ChildrenComing
    <3>5. fetched = generation /\ ~partial => rows = at
      BY <2>2, <3>2 DEF ScopesFollow
    <3>6. QED
      BY <2>2, <2>4, <3>2, <3>3, <3>4, <3>5 DEF ChildrenFollow
  <2>6. QED
    BY <2>3, <2>5
<1>4. QED
  BY <1>1, <1>2, <1>3

(* A command is shown at once, or leaves what the UI shows as it was: one    *)
(* that was shown at once and is overwritten leaves the state unsure.        *)
LEMMA CommandFollowed ==
  ASSUME TypeOK, Told, Followed, active', ~unsure', StepInto \/ ConfirmStepIn \/ \E op \in UserOps : SendCommand(op)
  PROVE  Told' /\ Followed'
<1>1. CASE \E op \in UserOps : SendCommand(op)
  <2>1. PICK op \in UserOps : SendCommand(op)
    BY <1>1
  <2>2. command' = op /\ command \notin ShownAtOnce /\ UNCHANGED <<session, task, events>>
    BY <2>1 DEF SendCommand, PostCommand, Overwrites, sessionVars
  <2>3. Commanded'
    BY <2>2, NamesAreKnown DEF Commanded
  <2>4. CASE op \in Certain
    BY <2>2, <2>3, <2>4 DEF Told, Followed
  <2>5. CASE op \notin Certain
    <3>1. op \in {"step", "pause"} /\ state' = state
      BY <2>1, <2>5 DEF UserOps, Certain, ShownAtOnce, SendCommand, ApplyStarted, Resuming
    <3>2. QED
      BY <2>2, <2>3, <3>1 DEF Told, Followed, Certain, ShownAtOnce
  <2>6. QED
    BY <2>4, <2>5
<1>2. CASE StepInto
  <2>1. CASE choice = "none" /\ IsStopped
    BY <1>2, <2>1, Undisturbed DEF StepInto, StepIntoUnchanged, AtRest, IsStopped, launchVars,
           editVars, sessionVars
  <2>2. CASE ~(choice = "none" /\ IsStopped)
    <3>1. /\ command' = "step_into" /\ command \notin ShownAtOnce /\ UNCHANGED <<state, session, task, events>>
      BY <1>2, <2>2 DEF StepInto, StepIntoUnchanged, StepIntoUnsure, PostCommand, Overwrites,
             sessionVars
    <3>2. Commanded'
      BY <3>1 DEF Commanded, NoCommand
    <3>3. QED
      BY <3>1, <3>2 DEF Told, Followed, Certain, ShownAtOnce
  <2>3. QED
    BY <2>1, <2>2
<1>3. CASE ConfirmStepIn
  <2>1. state' = "running" /\ command' = "step_into"
    BY <1>3 DEF ConfirmStepIn, SendStepIntoCommand, ApplyStarted, Resuming, PostCommand,
           StepIntoUnchanged, launchVars
  <2>2. QED
    BY <2>1 DEF Told, Followed, Commanded, NoCommand
<1>4. QED
  BY <1>1, <1>2, <1>3

(* At the end of a round the scopes of the stop are asked for, and the panel *)
(* shows those that are there.                                               *)
LEMMA PollSessionFollowed ==
  ASSUME TypeOK, RequestsSound, Told, Followed, active', PollSession
  PROVE  Told' /\ Followed'
<1>1. /\ UNCHANGED <<active, state, at, generation, fetched, variables, partial, children, expanded, asking, setting, command,
                     childQueue, aborted, task, events, session, dropped>>
      /\ rows' = IF setting THEN rows ELSE Rows(fetching')
      /\ \/ UNCHANGED <<fetching, scopeBox>>
         \/ /\ fetching' = TRUE /\ at # NoStop /\ generation \in Nat
            /\ scopeBox' = [generation |-> generation, stop |-> at]
  BY TypesByGroup DEF PollSession, HandleLaunchComplete, MaybeRequestScopeVariables, editVars,
         sessionVars, ghostVars,
     NumberTypes
<1>2. Told'
  BY <1>1, ToldStays
<1>3. SUFFICES ASSUME session = "stopped", ~dropped, ~Commanded PROVE (ScopesFollow /\ NotAborted /\ ChildrenFollow)'
  BY <1>1, <1>2 DEF Followed, Commanded
<1>4. ScopesFollow /\ NotAborted /\ ChildrenFollow
  BY <1>3 DEF Followed
<1>5. at # NoStop /\ (fetching' => ScopesComing')
  <2>1. scopeBox' = [generation |-> generation, stop |-> at] /\ at # NoStop => scopeBox' # NoRequest
    BY DEF NoRequest
  <2>2. QED
    BY <1>1, <1>4, <2>1 DEF ScopesFollow, ScopesComing
<1>6. AtRest' => fetched = generation \/ fetching'
  <2>1. CASE launch = "finished"
    BY <1>1, <1>5, <2>1 DEF PollSession, HandleLaunchComplete, MaybeRequestScopeVariables,
           AtRest, IsStopped
  <2>2. CASE launch # "finished"
    BY <1>1, <1>5, <2>2 DEF PollSession, MaybeRequestScopeVariables, AtRest, IsStopped
  <2>3. QED
    BY <2>1, <2>2
<1>7. fetched = generation => rows' = at \/ partial
  <2>1. CASE setting
    BY <1>1, <1>4, <2>1 DEF ScopesFollow
  <2>2. CASE ~setting
    BY <1>1, <1>5, <2>2 DEF RequestsSound, Rows
  <2>3. QED
    BY <2>1, <2>2
<1>8. ScopesFollow'
  BY <1>1, <1>5, <1>6, <1>7 DEF ScopesFollow
<1>9. NotAborted' /\ ChildrenFollow'
  BY <1>1, <1>4 DEF NotAborted, ChildrenFollow, ChildrenComing
<1>10. QED
  BY <1>8, <1>9

(* The worker takes what waits.                                              *)
LEMMA TakeFollowed ==
  ASSUME TypeOK, Told, Followed, TakeCommand \/ TakeScopeFetch \/ TakeChildrenFetch
  PROVE  Told' /\ Followed'
<1>1. CASE TakeCommand
  <2>1. /\ task' = Task("command", command, NoRequest) /\ command' = NoCommand /\ task = NoTask
        /\ UNCHANGED <<state, session, events>>
    BY <1>1 DEF TakeCommand, Take, Free, sessionVars
  <2>2. task'.kind = "command" /\ task'.name = command /\ task.kind = "none"
    BY <2>1 DEF Task, NoTask
  <2>3. QED
    BY <2>1, <2>2 DEF Told, Followed, Commanded
<1>2. CASE TakeScopeFetch
  <2>1. /\ task' = Task("scopes", NoName, scopeBox) /\ task = NoTask /\ command = NoCommand /\ ~aborted'
        /\ UNCHANGED <<ui, launch, connection, state, scopeVars, setting, command, childQueue, session, events, dropped>>
    BY <1>2 DEF TakeScopeFetch, Take, FreeForRequests, Free, launchVars, editVars, sessionVars,
           ghostVars
  <2>2. task'.kind = "scopes" /\ task.kind = "none"
    BY <2>1 DEF Task, NoTask
  <2>3. Told'
    BY <2>1, <2>2 DEF Told
  <2>4. ScopesComing' /\ NotAborted'
    BY <2>1, <2>2 DEF ScopesComing, NotAborted
  <2>5. \A p \in Paths : ChildrenComing(p) => ChildrenComing(p)'
    BY <2>1, <2>2 DEF ChildrenComing
  <2>6. (Commanded => Commanded') /\ (AtRest' => AtRest)
    BY <2>1, <2>2 DEF Commanded, AtRest, IsStopped
  <2>7. Followed'
    BY <2>1, <2>4, <2>5, <2>6, FollowedStays
  <2>8. QED
    BY <2>3, <2>7
<1>3. CASE TakeChildrenFetch
  <2>1. /\ task' = Task("children", Head(childQueue).path, [generation |-> 0, stop |-> Head(childQueue).stop])
        /\ task = NoTask /\ command = NoCommand /\ childQueue # <<>> /\ childQueue' = Tail(childQueue)
        /\ UNCHANGED <<ui, launch, connection, state, scopeVars, setting, command, scopeBox, aborted, session, events,
                       dropped>>
    BY <1>3 DEF TakeChildrenFetch, Take, FreeForRequests, Free, launchVars, editVars,
           sessionVars, ghostVars
  <2>2. task'.kind = "children" /\ task'.name = Head(childQueue).path /\ task.kind = "none"
    BY <2>1 DEF Task, NoTask
  <2>3. Told'
    BY <2>1, <2>2 DEF Told
  <2>4. (ScopesComing => ScopesComing') /\ (NotAborted => NotAborted')
    BY <2>1, <2>2 DEF ScopesComing, NotAborted, scopeVars
  <2>5. Queued(childQueue) = Queued(childQueue') \cup {Head(childQueue).path}
    <3>1. childQueue \in Seq(ChildRequests)
      BY TypesByGroup DEF QueueTypes
    <3>2. Queued(childQueue) = Queued(Tail(childQueue)) \cup {Head(childQueue).path}
      <4>1. PICK c \in ChildRequests : TRUE
        BY <2>1, <3>1
      <4>2. QED
        BY <2>1, <3>1, <4>1, QueuedStep
    <3>3. QED
      BY <2>1, <3>2
  <2>6. \A p \in Paths : ChildrenComing(p) => ChildrenComing(p)'
    BY <2>1, <2>2, <2>5 DEF ChildrenComing
  <2>7. (Commanded => Commanded') /\ (AtRest' => AtRest)
    BY <2>1, <2>2 DEF Commanded, AtRest, IsStopped
  <2>8. Followed'
    BY <2>1, <2>4, <2>6, <2>7, FollowedStays
  <2>9. QED
    BY <2>3, <2>8
<1>4. QED
  BY <1>1, <1>2, <1>3

(* What it has an answer to, is pushed; what a command interrupted, waits    *)
(* again, and a request that is thrown away is for a snapshot that is old.   *)
LEMMA FetchEndFollowed ==
  ASSUME TypeOK, RequestsSound, Told, Followed, ScopeFetchEnds \/ ChildrenFetchEnds
  PROVE  Told' /\ Followed'
<1>1. /\ task' = NoTask /\ task'.kind = "none" /\ task.kind \in {"scopes", "children"}
      /\ UNCHANGED <<ui, launch, connection, state, scopeVars, setting, command, aborted, session, dropped>>
  <2>1. CASE ScopeFetchEnds
    BY <2>1 DEF ScopeFetchEnds, NoTask, launchVars, editVars, sessionVars, ghostVars
  <2>2. CASE ChildrenFetchEnds
    BY <2>2 DEF ChildrenFetchEnds, NoTask, launchVars, editVars, sessionVars, ghostVars
  <2>3. QED
    BY <2>1, <2>2
<1>2. /\ events \in Seq(Events) /\ childQueue \in Seq(ChildRequests)
      /\ task.kind = "scopes" => task.generation \in Nat \ {0} /\ task.stop \in Stops
      /\ task.kind = "children" => task.name \in Paths /\ task.stop \in Stops
  BY TypesByGroup, TaskShapes DEF QueueTypes
<1>3. (Commanded => Commanded') /\ (AtRest' => AtRest) /\ (~Commanded' /\ Interrupted => aborted)
  BY <1>1 DEF Commanded, AtRest, IsStopped, Interrupted
<1>4. CASE ScopeFetchEnds /\ Interrupted
  <2>1. /\ scopeBox' = [generation |-> task.generation, stop |-> task.stop] /\ UNCHANGED <<events, childQueue>>
        /\ task.kind = "scopes"
    BY <1>4 DEF ScopeFetchEnds
  <2>2. Told'
    BY <1>1, <2>1 DEF Told
  <2>3. scopeBox' # NoRequest
    BY <1>2, <2>1 DEF NoRequest
  <2>4. ScopesComing' /\ (NotAborted => NotAborted')
    BY <1>1, <2>1, <2>3 DEF ScopesComing, NotAborted, scopeVars
  <2>5. \A p \in Paths : ChildrenComing(p) => ChildrenComing(p)'
    BY <1>1, <2>1 DEF ChildrenComing
  <2>6. QED
    BY <1>1, <1>3, <2>2, <2>4, <2>5, FollowedStays
<1>5. CASE ScopeFetchEnds /\ ~Interrupted
  <2>0. PICK found \in Answers :
            events' = Append(events, Event("scopes", TRUE, found, task.generation, task.stop))
    BY <1>5 DEF ScopeFetchEnds
  <2>1. PICK e \in Events : e = Event("scopes", TRUE, found, task.generation, task.stop)
    BY <1>2, <1>5, AnswerTypes DEF ScopeFetchEnds
  <2>2. events' = Append(events, e) /\ UNCHANGED <<scopeBox, childQueue>> /\ task.kind = "scopes" /\ ~aborted
    BY <1>5, <2>0, <2>1 DEF ScopeFetchEnds, Interrupted
  <2>3. e.kind = "scopes"
    BY <2>1 DEF Event
  <2>4. /\ \A i \in DOMAIN events : i \in DOMAIN events' /\ events'[i] = events[i]
        /\ \E i \in DOMAIN events' : events'[i] = e
    <3>1. /\ Len(events) + 1 \in DOMAIN events' /\ events'[Len(events) + 1] = e
          /\ \A i \in DOMAIN events : i \in DOMAIN events' /\ events'[i] = events[i]
      BY <1>2, <2>2, EventsAppend
    <3>2. QED
      BY <3>1
  <2>5. Told'
    BY <1>1, <2>2, <2>4 DEF Told
  <2>6. ScopesComing' /\ NotAborted'
    BY <1>1, <2>2, <2>3, <2>4 DEF ScopesComing, NotAborted
  <2>7. \A p \in Paths : ChildrenComing(p) => ChildrenComing(p)'
    BY <1>1, <2>2, <2>4 DEF ChildrenComing
  <2>8. QED
    BY <1>1, <1>3, <2>5, <2>6, <2>7, FollowedStays
<1>6. CASE ChildrenFetchEnds /\ Interrupted
  <2>1. /\ childQueue' = <<[path |-> task.name, stop |-> task.stop]>> \o childQueue /\ UNCHANGED <<events, scopeBox>>
        /\ task.kind = "children"
    BY <1>6 DEF ChildrenFetchEnds
  <2>2. Queued(childQueue') = Queued(childQueue) \cup {task.name}
    <3>1. PICK c \in ChildRequests : c = [path |-> task.name, stop |-> task.stop]
      BY <1>2, <2>1, RequestTypes
    <3>2. Queued(<<c>> \o childQueue) = Queued(childQueue) \cup {c.path}
      BY <1>2, QueuedStep
    <3>3. QED
      BY <2>1, <3>1, <3>2
  <2>3. Told'
    BY <1>1, <2>1 DEF Told
  <2>4. (ScopesComing => ScopesComing') /\ (NotAborted => NotAborted')
    BY <1>1, <2>1 DEF ScopesComing, NotAborted, scopeVars
  <2>5. \A p \in Paths : ChildrenComing(p) => ChildrenComing(p)'
    BY <1>1, <2>1, <2>2 DEF ChildrenComing
  <2>6. QED
    BY <1>1, <1>3, <2>3, <2>4, <2>5, FollowedStays
<1>7. CASE ChildrenFetchEnds /\ ~Interrupted
  <2>1. PICK ok \in BOOLEAN : events' = Append(events, Event("children", ok, task.name, 0, task.stop))
    BY <1>7 DEF ChildrenFetchEnds
  <2>2. UNCHANGED <<scopeBox, childQueue>> /\ task.kind = "children"
    BY <1>7 DEF ChildrenFetchEnds
  <2>3. PICK e \in Events : e = Event("children", ok, task.name, 0, task.stop)
    BY <1>2, <2>2, AnswerTypes
  <2>4. e.kind = "children" /\ e.name = task.name
    BY <2>3 DEF Event
  <2>5. /\ \A i \in DOMAIN events : i \in DOMAIN events' /\ events'[i] = events[i]
        /\ \A i \in DOMAIN events' : (i \in DOMAIN events /\ events'[i] = events[i]) \/ events'[i] = e
        /\ \E i \in DOMAIN events' : events'[i] = e
    <3>1. /\ Len(events) + 1 \in DOMAIN events' /\ events'[Len(events) + 1] = e
          /\ \A i \in DOMAIN events : i \in DOMAIN events' /\ events'[i] = events[i]
          /\ \A i \in DOMAIN events' : (i \in DOMAIN events /\ events'[i] = events[i]) \/ events'[i] = e
      BY <1>2, <2>1, <2>3, EventsAppend
    <3>2. QED
      BY <3>1
  <2>6. Told'
    BY <1>1, <2>2, <2>5 DEF Told
  <2>7. (ScopesComing => ScopesComing') /\ (NotAborted => NotAborted')
    BY <1>1, <2>2, <2>4, <2>5 DEF ScopesComing, NotAborted, scopeVars
  <2>8. \A p \in Paths : ChildrenComing(p) => ChildrenComing(p)'
    BY <1>1, <2>2, <2>4, <2>5 DEF ChildrenComing
  <2>9. QED
    BY <1>1, <1>3, <2>6, <2>7, <2>8, FollowedStays
<1>8. QED
  BY <1>4, <1>5, <1>6, <1>7

(* What is under way when an event was handled: all but that event.          *)
LEMMA EventsLeft ==
  ASSUME TypeOK, events # <<>>, events' = Tail(events)
  PROVE  /\ Head(events) \in Events /\ \E i \in DOMAIN events : events[i] = Head(events)
         /\ \A i \in DOMAIN events : events[i] = Head(events) \/ \E j \in DOMAIN events' : events'[j] = events[i]
         /\ \A j \in DOMAIN events' : \E i \in DOMAIN events : events[i] = events'[j]
<1>1. events \in Seq(Events)
  BY TypesByGroup DEF QueueTypes
<1>2. /\ Len(events) \in Nat \ {0} /\ DOMAIN events = 1..Len(events) /\ Head(events) = events[1] /\ events[1] \in Events
      /\ \A i \in DOMAIN events' : i + 1 \in DOMAIN events /\ events'[i] = events[i + 1]
      /\ \A i \in DOMAIN events : i # 1 => i - 1 \in DOMAIN events' /\ events'[i - 1] = events[i]
  BY <1>1, EventsTail
<1>3. 1 \in DOMAIN events
  BY <1>2
<1>4. QED
  BY <1>2, <1>3

(* The last snapshot brings the state up to date and starts over with the    *)
(* variables.                                                                *)
LEMMA SnapshotFollowed ==
  ASSUME TypeOK, RequestsSound, HandleSessionEvent, IsSnapshot(Head(events)), Head(events).name = session
  PROVE  Told' /\ Followed'
<1> DEFINE e == Head(events)
<1>1. /\ events # <<>> /\ events' = Tail(events) /\ ui' = "draining" /\ UNCHANGED <<task, session>> /\ ApplySnapshot(e)
  BY DEF HandleSessionEvent, IsSnapshot, sessionVars
<1>2. /\ state' = session /\ at' = e.stop /\ generation' = generation + 1 /\ fetched' = 0 /\ generation \in Nat
      /\ UNCHANGED <<setting, command>>
      /\ session = "stopped" => fetching' = FALSE /\ asking' = {} /\ at' # NoStop
  <2>1. e \in Events /\ e.kind = "snapshot" /\ e.ok
    BY <1>1, EventsLeft DEF IsSnapshot
  <2>2. e.name = "stopped" <=> e.stop # NoStop
    BY <2>1, EventShapes
  <2>3. generation \in Nat
    BY TypesByGroup DEF NumberTypes
  <2>4. QED
    BY <1>1, <2>2, <2>3 DEF ApplySnapshot, StillFetching, boxVars, editVars
<1>3. Told'
  BY <1>1, <1>2 DEF Told
<1>4. fetched' # generation'
  BY <1>2
<1>5. NotAborted'
  <2>1. task.kind = "scopes" => task.generation # generation'
    <3>1. task.kind = "scopes" => task.generation \in Nat /\ task.generation <= generation
      BY TypesByGroup, TaskShapes DEF QueueTypes, RequestsSound, RequestSound
    <3>2. QED
      BY <1>2, <3>1
  <2>2. \A j \in DOMAIN events' : events'[j].kind = "scopes" => events'[j].generation # generation'
    <3>1. SUFFICES ASSUME NEW j \in DOMAIN events', events'[j].kind = "scopes" PROVE events'[j].generation # generation'
      OBVIOUS
    <3>2. PICK i \in DOMAIN events : events[i] = events'[j]
      BY <1>1, EventsLeft
    <3>3. events[i] \in Events
      BY TypesByGroup, LenProperties, ElementOfSeq DEF QueueTypes
    <3>4. events[i].generation \in Nat /\ events[i].generation <= generation
      BY <3>1, <3>2, <3>3, EventShapes DEF RequestsSound, EventSound, RequestSound
    <3>5. QED
      BY <1>2, <3>2, <3>4
  <2>3. QED
    BY <1>1, <1>4, <2>1, <2>2 DEF NotAborted
<1>6. session = "stopped" => ScopesFollow' /\ ChildrenFollow'
  BY <1>1, <1>2, <1>4 DEF ScopesFollow, ChildrenFollow, AtRest
<1>7. Followed'
  BY <1>1, <1>5, <1>6 DEF Followed
<1>8. QED
  BY <1>3, <1>7

(* An event that is no answer and that neither the state nor the scopes      *)
(* change with.                                                              *)
LEMMA PlainEventFollowed ==
  ASSUME TypeOK, Told, Followed, events # <<>>, events' = Tail(events), ui' = "draining", setting' => setting,
         UNCHANGED <<task, session, scopeVars, boxVars>>, dropped => dropped',
         Head(events).kind \notin {"scopes", "children"}
  PROVE  Followed' /\ (~IsFailure(Head(events)) /\ state' = state => Told')
<1>1. \A i \in DOMAIN events : events[i] = Head(events) \/ \E j \in DOMAIN events' : events'[j] = events[i]
  BY EventsLeft
<1>2. \A j \in DOMAIN events' : \E i \in DOMAIN events : events[i] = events'[j]
  BY EventsLeft
<1>3. UNCHANGED <<command, scopeBox, childQueue, aborted>>
  BY DEF boxVars
<1>4. ScopesComing => ScopesComing'
  BY <1>1, <1>3 DEF ScopesComing
<1>5. NotAborted => NotAborted'
  BY <1>2, <1>3 DEF NotAborted, scopeVars
<1>6. \A p \in Paths : ChildrenComing(p) => ChildrenComing(p)'
  BY <1>1, <1>3 DEF ChildrenComing
<1>7. (Commanded => Commanded') /\ ~AtRest' /\ (ui' = "idle" \/ setting' => ui = "idle" \/ setting)
  BY <1>3 DEF Commanded, AtRest
<1>8. Followed'
  BY <1>4, <1>5, <1>6, <1>7, FollowedStays
<1>9. ~IsFailure(Head(events)) /\ state' = state => Told'
  BY <1>1, <1>3, ToldStays
<1>10. QED
  BY <1>8, <1>9

(* A command that is reported has the effect that was shown, if it did not   *)
(* fail, and is taken back if it did.                                        *)
LEMMA ReportFollowed ==
  ASSUME TypeOK, Told, Followed, events # <<>>, events' = Tail(events), ui' = "draining", dropped => dropped',
         UNCHANGED <<task, session>>, Head(events).kind = "finished", CommandFinished(Head(events)), Keeps(Head(events))
  PROVE  Told' /\ Followed'
<1> DEFINE e == Head(events)
<1>1. /\ e = Finished(e.ok, e.name) /\ e.name \in Commands /\ e.ok \in BOOLEAN
      /\ e.kind \notin {"snapshot", "scopes", "children"}
  BY EventsLeft, EventShapes
<1>2. UNCHANGED <<setting, boxVars, command>>
  BY DEF CommandFinished, editVars, boxVars
<1>3. CASE ~e.ok /\ e.name \in ExecutionControl
  <2>1. session = "stopped" /\ UNCHANGED scopeVars
    BY <1>1, <1>3 DEF Keeps, IsFailure, CommandFinished
  <2>2. Followed'
    BY <1>1, <1>2, <2>1, PlainEventFollowed
  <2>3. state' = IF state = "running" THEN "stopped" ELSE state
    BY <1>3 DEF CommandFinished, TakenBack
  <2>4. Told'
    BY <1>2, <2>1, <2>3 DEF Told
  <2>5. QED
    BY <2>2, <2>4
<1>4. CASE \/ ~e.ok /\ e.name \notin ExecutionControl
           \/ e.ok /\ e.name \in SyncedViaSnapshot \cup {"restart", "disconnect"}
  <2>1. UNCHANGED <<state, scopeVars>> /\ ~IsFailure(e)
    BY <1>4 DEF CommandFinished, TakenBack, IsFailure
  <2>2. QED
    BY <1>1, <1>2, <2>1, PlainEventFollowed
<1>5. CASE e.ok /\ e.name \notin SyncedViaSnapshot \cup {"restart", "disconnect"}
  <2>1. e.name \in {"goto", "terminate"} /\ e = Finished(TRUE, e.name)
    BY <1>1, <1>5 DEF SyncedViaSnapshot, ExecutionControl, Commands, UserOps
  <2>2. state' = session /\ session # "stopped"
    BY <1>5, <2>1 DEF CommandFinished, ApplyStarted, Resuming, Keeps
  <2>3. QED
    BY <2>2 DEF Told, Followed
<1>6. QED
  BY <1>1, <1>3, <1>4, <1>5

(* Answers with the variables of the scopes: what is expanded and missing is *)
(* asked for.                                                                *)
LEMMA ScopesFollowed ==
  ASSUME TypeOK, RequestsSound, Told, Followed, events # <<>>, events' = Tail(events), ui' = "draining",
         dropped' = (dropped \/ setting), UNCHANGED <<task, session>>,
         Head(events).kind = "scopes", ApplyScopeVariables(Head(events))
  PROVE  Told' /\ Followed'
<1> DEFINE e == Head(events)
<1>1. /\ e \in Events /\ \E i \in DOMAIN events : events[i] = e
      /\ \A i \in DOMAIN events : events[i] = e \/ \E j \in DOMAIN events' : events'[j] = events[i]
      /\ \A j \in DOMAIN events' : \E i \in DOMAIN events : events[i] = events'[j]
  BY EventsLeft
<1>2. /\ fetched' = e.generation /\ fetching' = FALSE /\ children' = [p \in Paths |-> {}]
      /\ UNCHANGED <<state, at, generation, rows, expanded, setting, command, scopeBox, aborted>>
      /\ partial' \in BOOLEAN /\ (~partial' => variables' = e.stop)
      /\ ~setting => RestoreExpandedScopeChildren(variables', children', asking, ~partial')
  BY DEF ApplyScopeVariables, editVars
<1>3. Told'
  BY <1>1, <1>2, ToldStays DEF IsFailure
<1>4. SUFFICES ASSUME session = "stopped", ~dropped, ~setting, ~Commanded
               PROVE  (ScopesFollow /\ NotAborted /\ ChildrenFollow)'
  BY <1>2, <1>3 DEF Followed, Commanded
<1>5. ScopesFollow /\ NotAborted /\ ChildrenFollow
  BY <1>4 DEF Followed
<1>6. ScopesFollow'
  BY <1>2, <1>4, <1>5 DEF ScopesFollow, AtRest
<1>7. NotAborted'
  BY <1>1, <1>2, <1>5 DEF NotAborted
<1>8. expanded \subseteq Paths /\ asking \in SUBSET Paths
  BY TypesByGroup DEF SetTypes
<1>9. PICK wanted \in SUBSET Paths :
          /\ ~partial' => wanted = ToRestore(variables', children', asking)
          /\ asking' = asking \cup wanted
          /\ Queued(childQueue') = Queued(childQueue) \cup wanted
  <2>1. PICK loaded, have : loaded = variables' /\ have = children'
    OBVIOUS
  <2>2. PICK whole \in BOOLEAN : whole <=> ~partial'
    OBVIOUS
  <2>3. RestoreExpandedScopeChildren(loaded, have, asking, whole)
    BY <1>2, <1>4, <2>1, <2>2
  <2>4. \E wanted \in SUBSET Paths : Asked(wanted, loaded, have, asking, whole)
    BY <1>8, <2>3, RestoreAsks
  <2>5. QED
    BY <2>1, <2>2, <2>4 DEF Asked
<1>10. ChildrenFollow'
  <2>1. ASSUME NEW p \in asking' PROVE ChildrenComing(p)'
    <3>1. CASE p \in asking
      BY <1>1, <1>2, <1>5, <1>9, <3>1 DEF ChildrenFollow, ChildrenComing
    <3>2. CASE p \in wanted
      BY <1>9, <3>2 DEF ChildrenComing
    <3>3. QED
      BY <1>9, <2>1, <3>1, <3>2
  <2>2. ASSUME e.generation = generation, ~partial', NEW p \in expanded PROVE p \in asking'
    <3>1. variables' = at /\ at # NoStop
      BY <1>1, <1>2, <1>5, <2>2 DEF RequestsSound, EventSound, RequestSound, ScopesFollow
    <3>2. at \notin children'[p]
      BY <1>2, <1>8, <2>2
    <3>3. QED
      BY <1>9, <2>2, <3>1, <3>2 DEF ToRestore
  <2>3. QED
    BY <1>2, <2>1, <2>2 DEF ChildrenFollow
<1>11. QED
  BY <1>6, <1>7, <1>10

(* Answers with the children of a variable, for the stop that is shown or an *)
(* older one: what is still missing is asked for again.                      *)
LEMMA ChildrenFollowed ==
  ASSUME TypeOK, RequestsSound, Told, Followed, events # <<>>, events' = Tail(events), ui' = "draining",
         dropped' = dropped, UNCHANGED <<task, session>>,
         Head(events).kind = "children", ApplyVariableChildren(Head(events))
  PROVE  Told' /\ Followed'
<1> DEFINE e == Head(events)
<1>1. /\ e \in Events /\ \E i \in DOMAIN events : events[i] = e
      /\ \A i \in DOMAIN events : events[i] = e \/ \E j \in DOMAIN events' : events'[j] = events[i]
      /\ \A j \in DOMAIN events' : \E i \in DOMAIN events : events[i] = events'[j]
  BY EventsLeft
<1>2. /\ UNCHANGED <<state, at, generation, fetched, fetching, partial, rows, expanded, setting, command, scopeBox,
                     aborted>>
      /\ RestoreExpandedScopeChildren(variables, children', asking \ {e.name}, ~partial)
      /\ children' = IF e.ok THEN [children EXCEPT ![e.name] = @ \cup {e.stop}] ELSE children
  BY DEF ApplyVariableChildren, editVars
<1>3. Told'
  BY <1>1, <1>2, ToldStays DEF IsFailure
<1>4. SUFFICES ASSUME session = "stopped", ~dropped, ~Commanded PROVE (ScopesFollow /\ NotAborted /\ ChildrenFollow)'
  BY <1>2, <1>3 DEF Followed, Commanded
<1>5. ScopesFollow /\ NotAborted /\ ChildrenFollow
  BY <1>4 DEF Followed
<1>6. ScopesFollow'
  BY <1>1, <1>2, <1>5 DEF ScopesFollow, ScopesComing, AtRest
<1>7. NotAborted'
  BY <1>1, <1>2, <1>5 DEF NotAborted
<1>8. expanded \subseteq Paths /\ asking \ {e.name} \in SUBSET Paths /\ children \in [Paths -> SUBSET Stops]
  BY TypesByGroup DEF SetTypes
<1>9. partial \in BOOLEAN
  BY TypesByGroup DEF FlagTypes
<1>10. PICK wanted \in SUBSET Paths :
           /\ ~partial => wanted = ToRestore(variables, children', asking \ {e.name})
           /\ asking' = (asking \ {e.name}) \cup wanted
           /\ Queued(childQueue') = Queued(childQueue) \cup wanted
  <2>1. PICK have : have = children'
    OBVIOUS
  <2>2. PICK left \in SUBSET Paths : left = asking \ {e.name}
    BY <1>8
  <2>3. PICK whole \in BOOLEAN : whole <=> ~partial
    OBVIOUS
  <2>4. RestoreExpandedScopeChildren(variables, have, left, whole)
    BY <1>2, <2>1, <2>2, <2>3
  <2>5. \E wanted \in SUBSET Paths : Asked(wanted, variables, have, left, whole)
    BY <2>4, RestoreAsks
  <2>6. QED
    BY <2>1, <2>2, <2>3, <2>5 DEF Asked
<1>11. ChildrenFollow'
  <2>1. ASSUME NEW p \in asking' PROVE ChildrenComing(p)'
    <3>1. CASE p \in asking \ {e.name}
      BY <1>1, <1>2, <1>5, <1>10, <3>1 DEF ChildrenFollow, ChildrenComing
    <3>2. CASE p \in wanted
      BY <1>10, <3>2 DEF ChildrenComing
    <3>3. QED
      BY <1>10, <2>1, <3>1, <3>2
  <2>2. ASSUME fetched = generation, ~partial, NEW p \in expanded PROVE at \in children'[p] \/ p \in asking'
    <3>1. variables = at /\ at # NoStop
      BY <1>5, <2>2 DEF RequestsSound, ScopesFollow
    <3>2. CASE p \in asking \ {e.name}
      BY <1>10, <3>2
    <3>3. CASE at \in children'[p]
      BY <3>3
    <3>4. CASE p \notin asking \ {e.name} /\ at \notin children'[p]
      BY <1>10, <2>2, <3>1, <3>4 DEF ToRestore
    <3>5. QED
      BY <3>2, <3>3, <3>4
  <2>3. QED
    BY <1>2, <2>1, <2>2 DEF ChildrenFollow
<1>12. QED
  BY <1>6, <1>7, <1>11

(* An event that comes after the last snapshot keeps what the UI shows       *)
(* explained by it.                                                          *)
LEMMA EventFollowed ==
  ASSUME TypeOK, RequestsSound, Told, Followed, active', HandleSessionEvent, Keeps(Head(events))
  PROVE  Told' /\ Followed'
<1> DEFINE e == Head(events)
<1>1. /\ events # <<>> /\ events' = Tail(events) /\ ui' = "draining" /\ UNCHANGED <<active, task, session>>
      /\ dropped' = (dropped \/ (e.kind = "scopes" /\ setting))
      /\ ~(e.kind = "snapshot" /\ e.ok)
  BY DEF HandleSessionEvent, sessionVars, Keeps, IsSnapshot
<1>2. CASE e.kind = "snapshot" /\ ~e.ok /\ PollFailed
  BY <1>1, <1>2, PlainEventFollowed DEF PollFailed, IsFailure, editVars
<1>3. CASE e.kind = "scopes" /\ ApplyScopeVariables(e)
  BY <1>1, <1>3, ScopesFollowed
<1>4. CASE e.kind = "children" /\ ApplyVariableChildren(e)
  <2>1. dropped \in BOOLEAN
    BY TypesByGroup DEF FlagTypes
  <2>2. dropped' = dropped
    BY <1>1, <1>4, <2>1
  <2>3. QED
    BY <1>1, <1>4, <2>2, ChildrenFollowed
<1>5. CASE e.kind = "finished" /\ CommandFinished(e)
  BY <1>1, <1>5, ReportFollowed
<1>6. CASE e.kind = "set" /\ SetVariableFinished
  BY <1>1, <1>6, PlainEventFollowed DEF SetVariableFinished, IsFailure
<1>7. CASE e.kind = "targets" /\ StepInTargetsReady(e)
  <2>1. CASE e.name = "many"
    BY <1>1, <1>7, <2>1, PlainEventFollowed DEF StepInTargetsReady, BeginStepInSelection,
           IsFailure, editVars
  <2>2. CASE e.name # "many"
    <3>1. state' = "running" /\ command' = "step_into"
      BY <1>1, <1>7, <2>2 DEF StepInTargetsReady, SendStepIntoCommand, ApplyStarted, Resuming,
             PostCommand
    <3>2. QED
      BY <3>1 DEF Told, Followed, Commanded, NoCommand
  <2>3. QED
    BY <2>1, <2>2
<1>8. QED
  BY <1>1, <1>2, <1>3, <1>4, <1>5, <1>6, <1>7 DEF HandleSessionEvent

-----------------------------------------------------------------------------
(* The snapshot the UI is to learn of. *)

(* A step that leaves the session as it was and pushes at most an event that *)
(* does not contradict the last snapshot.                                    *)
LEMMA NewsKeptOn ==
  ASSUME TypeOK, NewsFollowed, active, ~unsure, session' = session,
         events' = events \/ \E e \in Events : Keeps(e) /\ events' = Append(events, e),
         Told /\ Followed => Told' /\ Followed'
  PROVE  NewsFollowed'
<1>1. PICK k \in 0..Len(events) : NewsSince(k) /\ (k = 0 => Told /\ Followed)
  BY DEF NewsFollowed
<1>2. k \in 0..Len(events') /\ NewsSince(k)'
  <2>1. CASE events' = events
    BY <1>1, <2>1, NewsStays
  <2>2. CASE \E e \in Events : Keeps(e) /\ events' = Append(events, e)
    BY <1>1, <2>2, NewsKept
  <2>3. QED
    BY <2>1, <2>2
<1>3. k = 0 => Told' /\ Followed'
  BY <1>1
<1>4. QED
  BY <1>2, <1>3 DEF NewsFollowed

(* A new snapshot is all there is to learn of.                               *)
LEMMA NewsOfSnapshot ==
  ASSUME TypeOK, session' \in SessionStates,
         NEW s \in Events, s = Snapshot(session', IF session' = "stopped" THEN stop' ELSE NoStop),
         events' = Append(events, s)
  PROVE  NewsFollowed'
<1>1. IsSnapshot(s) /\ s.name = session'
  BY DEF IsSnapshot, Snapshot, Event
<1>2. \E k \in 0..Len(events') : k > 0 /\ NewsSince(k)'
  BY <1>1, NewsPushed
<1>3. \E k \in 0..Len(events') : k # 0 /\ NewsSince(k)'
  BY <1>2
<1>4. QED
  BY <1>3 DEF NewsFollowed

(* The user makes no news of the session.                                    *)
LEMMA UserNews ==
  ASSUME TypeOK, NewsFollowed, User
  PROVE  NewsFollowed'
<1>1. UNCHANGED <<active, session, events>> /\ (unsure => unsure')
  <2>1. CASE StepInto \/ ConfirmStepIn
    BY <2>1 DEF StepInto, ConfirmStepIn, StepIntoUnchanged, StepIntoUnsure, launchVars, sessionVars
  <2>2. CASE \E op \in UserOps : SendCommand(op)
    BY <2>2 DEF SendCommand, launchVars, sessionVars
  <2>3. CASE CancelStepIn \/ SubmitVariableValue
    BY <2>3 DEF CancelStepIn, SubmitVariableValue, launchVars, sessionVars, ghostVars
  <2>4. CASE \E p \in Paths : ToggleScopeRowExpand(p)
    BY <2>4 DEF ToggleScopeRowExpand, launchVars, sessionVars, ghostVars
  <2>5. QED
    BY <2>1, <2>2, <2>3, <2>4 DEF User
<1>2. SUFFICES ASSUME active', ~unsure' PROVE NewsFollowed'
  BY DEF NewsFollowed
<1>3. active /\ ~unsure
  BY <1>1, <1>2
<1>4. Told /\ Followed => Told' /\ Followed'
  BY <1>2, CommandFollowed, TouchFollowed DEF User
<1>5. QED
  BY <1>1, <1>3, <1>4, NewsKeptOn

(* The launch brings the first snapshot.                                     *)
LEMMA LaunchNews ==
  ASSUME TypeOK, NewsFollowed, MaybeStartLaunch \/ LaunchWorker
  PROVE  NewsFollowed'
<1>1. CASE MaybeStartLaunch \/ (LaunchWorker /\ UNCHANGED <<sessionVars, active, events, unsure>>)
  <2>1. /\ UNCHANGED <<ui, state, scopeVars, setting, command, scopeBox, childQueue, aborted, task, events, session,
                       active, unsure, dropped>>
        /\ launch' # "handled"
    <3>1. CASE MaybeStartLaunch
      BY <3>1 DEF MaybeStartLaunch, editVars, boxVars, sessionVars, ghostVars
    <3>2. CASE LaunchWorker /\ UNCHANGED <<sessionVars, active, events, unsure>>
      BY <3>2 DEF LaunchWorker, editVars, boxVars, sessionVars
    <3>3. QED
      BY <1>1, <3>1, <3>2
  <2>2. SUFFICES ASSUME active', ~unsure' PROVE NewsFollowed'
    BY DEF NewsFollowed
  <2>3. Told /\ Followed => Told' /\ Followed'
    BY <2>1, Undisturbed DEF AtRest
  <2>4. active /\ ~unsure
    BY <2>1, <2>2
  <2>5. QED
    BY <2>1, <2>3, <2>4, NewsKeptOn
<1>2. CASE LaunchWorker /\ PushSnapshot
  <2>1. SUFFICES ASSUME ~unsure' PROVE NewsFollowed'
    BY DEF NewsFollowed
  <2>2. TypeOK'
    BY <1>2, LaunchWorkerTypes
  <2>3. session' \in SessionStates
    BY <2>2 DEF TypeOK
  <2>4. PICK s \in Events : s = Snapshot(session', IF session' = "stopped" THEN stop' ELSE NoStop)
    BY <2>2, NextSnapshot
  <2>5. events' = Append(events, s)
    BY <1>2, <2>1, <2>4 DEF PushSnapshot
  <2>6. QED
    BY <2>3, <2>4, <2>5, NewsOfSnapshot
<1>3. QED
  BY <1>1, <1>2 DEF LaunchWorker

(* What the UI handles it learns of: the last snapshot, or what came after.  *)
LEMMA UiNews ==
  ASSUME TypeOK, RequestsSound, NewsFollowed, HandleSessionEvent \/ PollSession
  PROVE  NewsFollowed'
<1> SUFFICES ASSUME active', ~unsure' PROVE NewsFollowed'
  BY DEF NewsFollowed
<1>1. CASE PollSession
  <2>1. active /\ ~unsure /\ UNCHANGED <<session, events>>
    BY <1>1 DEF PollSession, sessionVars, ghostVars
  <2>2. QED
    BY <1>1, <2>1, PollSessionFollowed, NewsKeptOn
<1>2. CASE HandleSessionEvent
  <2>1. active /\ ~unsure /\ events # <<>> /\ events' = Tail(events) /\ session' = session
    BY <1>2 DEF HandleSessionEvent, sessionVars
  <2>2. PICK k \in 0..Len(events) : NewsSince(k) /\ (k = 0 => Told /\ Followed)
    BY <2>1 DEF NewsFollowed
  <2>3. CASE k = 0
    <3>1. 0 \in 0..Len(events') /\ NewsSince(0)' /\ Keeps(Head(events))
      BY <2>1, <2>2, <2>3, NewsHandled
    <3>2. Told' /\ Followed'
      BY <1>2, <2>2, <2>3, <3>1, EventFollowed
    <3>3. QED
      BY <3>1, <3>2 DEF NewsFollowed
  <2>4. CASE k > 0
    <3>1. k - 1 \in 0..Len(events') /\ NewsSince(k - 1)'
      BY <2>1, <2>2, <2>4, NewsHandled
    <3>2. k = 1 => Told' /\ Followed'
      <4>1. Head(events) = events[1]
        BY <2>1, TypesByGroup, EventsTail DEF QueueTypes
      <4>2. k = 1 => IsSnapshot(Head(events)) /\ Head(events).name = session
        BY <2>2, <4>1 DEF NewsSince
      <4>3. QED
        BY <1>2, <4>2, SnapshotFollowed
    <3>3. PICK n \in 0..Len(events') : n = k - 1
      BY <3>1
    <3>4. n = 0 => k = 1
      BY <3>3
    <3>5. NewsSince(n)' /\ (n = 0 => Told' /\ Followed')
      BY <3>1, <3>2, <3>3, <3>4
    <3>6. QED
      BY <3>5 DEF NewsFollowed
  <2>5. k = 0 \/ k > 0
    OBVIOUS
  <2>6. QED
    BY <2>3, <2>4, <2>5
<1>3. QED
  BY <1>1, <1>2

(* What the worker takes and answers makes no news.                          *)
LEMMA FetchNews ==
  ASSUME TypeOK, RequestsSound, NewsFollowed,
         TakeCommand \/ TakeScopeFetch \/ TakeChildrenFetch \/ ScopeFetchEnds \/ ChildrenFetchEnds
  PROVE  NewsFollowed'
<1>1. UNCHANGED <<active, unsure, session>>
  <2>1. CASE TakeCommand \/ TakeScopeFetch \/ TakeChildrenFetch
    BY <2>1 DEF TakeCommand, TakeScopeFetch, TakeChildrenFetch, launchVars, sessionVars, ghostVars
  <2>2. CASE ScopeFetchEnds \/ ChildrenFetchEnds
    BY <2>2 DEF ScopeFetchEnds, ChildrenFetchEnds, launchVars, sessionVars, ghostVars
  <2>3. QED
    BY <2>1, <2>2
<1>2. Told /\ Followed => Told' /\ Followed'
  BY TakeFollowed, FetchEndFollowed
<1>3. events' = events \/ \E e \in Events : Keeps(e) /\ events' = Append(events, e)
  <2>1. CASE TakeCommand \/ TakeScopeFetch \/ TakeChildrenFetch
    BY <2>1 DEF TakeCommand, TakeScopeFetch, TakeChildrenFetch
  <2>2. CASE ScopeFetchEnds
    <3>1. task.generation \in Nat \ {0} /\ task.stop \in Stops
      BY <2>2, TypesByGroup, TaskShapes DEF ScopeFetchEnds, QueueTypes
    <3>2. CASE Interrupted
      BY <2>2, <3>2 DEF ScopeFetchEnds
    <3>3. CASE ~Interrupted
      <4>1. PICK found \in Answers :
                events' = Append(events, Event("scopes", TRUE, found, task.generation, task.stop))
        BY <2>2, <3>3 DEF ScopeFetchEnds
      <4>2. PICK e \in Events : e = Event("scopes", TRUE, found, task.generation, task.stop)
        BY <3>1, AnswerTypes
      <4>3. Keeps(e)
        BY <4>2 DEF Event, Keeps, IsSnapshot, IsFailure, Finished
      <4>4. QED
        BY <4>1, <4>2, <4>3
    <3>4. QED
      BY <3>2, <3>3
  <2>3. CASE ChildrenFetchEnds
    <3>1. task.name \in Paths /\ task.stop \in Stops
      BY <2>3, TypesByGroup, TaskShapes DEF ChildrenFetchEnds, QueueTypes
    <3>2. \A ok \in BOOLEAN : Keeps(Event("children", ok, task.name, 0, task.stop))
      BY DEF Event, Keeps, IsSnapshot, IsFailure, Finished
    <3>3. \A ok \in BOOLEAN : Event("children", ok, task.name, 0, task.stop) \in Events
      BY <3>1, AnswerTypes
    <3>4. events' = events \/ \E ok \in BOOLEAN : events' = Append(events, Event("children", ok, task.name, 0, task.stop))
      BY <2>3 DEF ChildrenFetchEnds
    <3>5. QED
      BY <3>2, <3>3, <3>4
  <2>4. QED
    BY <2>1, <2>2, <2>3
<1>4. SUFFICES ASSUME active', ~unsure' PROVE NewsFollowed'
  BY DEF NewsFollowed
<1>5. active /\ ~unsure
  BY <1>1, <1>4
<1>6. QED
  BY <1>1, <1>2, <1>3, <1>5, NewsKeptOn

(* Nor does an edit, or the choice of a target.                              *)
LEMMA AnswerNews ==
  ASSUME TypeOK, NewsFollowed, SetVariable \/ StepInTargetsFetch
  PROVE  NewsFollowed'
<1> SUFFICES ASSUME active', ~unsure' PROVE NewsFollowed'
  BY DEF NewsFollowed
<1>1. UNCHANGED <<ui, launch, connection, active, state, command, task, scopeVars, scopeBox, childQueue, aborted, setting,
                  session, unsure, dropped>>
  BY DEF SetVariable, StepInTargetsFetch, launchVars, editVars, sessionVars, ghostVars
<1>2. PICK e \in Events : e.kind \in {"set", "targets"} /\ events' = Append(events, e)
  BY AnswerTypes DEF SetVariable, StepInTargetsFetch, Event
<1>3. Keeps(e) /\ e.kind # "scopes"
  BY <1>2 DEF Keeps, IsSnapshot, IsFailure, Finished, Event
<1>4. Told /\ Followed => Told' /\ Followed'
  BY <1>1, <1>2, <1>3, Undisturbed DEF AtRest, IsStopped
<1>5. QED
  BY <1>1, <1>2, <1>3, <1>4, NewsKeptOn

(* A poll finds the program at a stop or at its end, and pushes it, or fails *)
(* and tells nothing of it; a failure that took a stop leaves the UI unsure. *)
LEMMA PollNews ==
  ASSUME TypeOK, NewsFollowed, Poll
  PROVE  NewsFollowed'
<1> SUFFICES ASSUME active', ~unsure' PROVE NewsFollowed'
  BY DEF NewsFollowed
<1>1. TypeOK' /\ session' \in SessionStates
  BY PollTypes DEF TypeOK
<1>2. PICK s \in Events : s = Snapshot(session', IF session' = "stopped" THEN stop' ELSE NoStop)
  BY <1>1, NextSnapshot
<1>3. CASE events' = Append(events, s)
  BY <1>1, <1>2, <1>3, NewsOfSnapshot
<1>4. CASE events' # Append(events, s)
  <2>1. PICK e \in Events : e = Event("snapshot", FALSE, NoName, 0, NoStop)
    BY ReportTypes
  <2>2. events' = Append(events, e) /\ UNCHANGED <<session, unsure, dropped>>
    BY <1>2, <1>4, <2>1 DEF Poll
  <2>3. /\ UNCHANGED <<ui, launch, connection, active, state, command, task, scopeVars, scopeBox, childQueue, aborted,
                       setting>>
    BY DEF Poll, launchVars, editVars, boxVars
  <2>4. Keeps(e) /\ e.kind # "scopes"
    BY <2>1 DEF Keeps, IsSnapshot, IsFailure, Finished, Event
  <2>5. Told /\ Followed => Told' /\ Followed'
    BY <2>2, <2>3, <2>4, Undisturbed DEF AtRest, IsStopped
  <2>6. QED
    BY <2>2, <2>3, <2>4, <2>5, NewsKeptOn
<1>5. QED
  BY <1>3, <1>4

(* A command that succeeds pushes the snapshot, and its report agrees with   *)
(* it.                                                                       *)
LEMMA CommandSucceedsNews ==
  ASSUME TypeOK, CommandSucceeds
  PROVE  NewsFollowed'
<1> SUFFICES ASSUME ~unsure' PROVE NewsFollowed'
  BY DEF NewsFollowed
<1>1. PICK s \in Events : s = Snapshot(session', IF session' = "stopped" THEN stop' ELSE NoStop)
  BY SucceedsPushes
<1>2. PICK f \in Events : f = Finished(TRUE, task.name)
  BY SucceedsPushes
<1>3. events' = Append(Append(events, s), f)
  BY <1>1, <1>2, SucceedsPushes
<1>4. IsSnapshot(s) /\ s.name = session'
  BY <1>1 DEF IsSnapshot, Snapshot, Event
<1>5. /\ ~IsSnapshot(f) /\ ~IsFailure(f)
      /\ f = Finished(TRUE, "goto") => session' = "running"
      /\ f = Finished(TRUE, "terminate") => session' = "exited"
  <2>1. ~IsSnapshot(f) /\ ~IsFailure(f) /\ f.name = task.name
    BY <1>2 DEF IsSnapshot, IsFailure, Finished, Event
  <2>2. (task.name = "goto" => session' = "running") /\ (task.name = "terminate" => session' = "exited")
    BY DEF CommandSucceeds, Effect, Resuming
  <2>3. Finished(TRUE, "goto").name = "goto" /\ Finished(TRUE, "terminate").name = "terminate"
    BY DEF Finished, Event
  <2>4. QED
    BY <2>1, <2>2, <2>3
<1>6. PICK q \in Seq(Events) : q = Append(events, s)
  BY TypesByGroup, QueuesGrow DEF QueueTypes
<1>7. Len(q) = Len(events) + 1 /\ q[Len(events) + 1] = s /\ Len(events) \in Nat
  BY <1>6, TypesByGroup, EventsAppend DEF QueueTypes
<1>8. PICK n \in Nat : n = Len(events) + 1
  BY <1>7
<1>9. /\ n # 0 /\ n \in 0..Len(events') /\ n \in DOMAIN q /\ events'[n] = s
      /\ \A i \in DOMAIN events' : i > n => events'[i] = f
  <2>1. /\ DOMAIN q = 1..Len(q) /\ Len(events') = Len(q) + 1
        /\ \A i \in DOMAIN q : events'[i] = q[i]
        /\ \A i \in DOMAIN events' : (i \in DOMAIN q /\ events'[i] = q[i]) \/ (i = Len(q) + 1 /\ events'[i] = f)
    BY <1>3, <1>6, EventsAppend
  <2>2. n \in DOMAIN q /\ n # 0 /\ n \in 0..Len(events')
    BY <1>7, <1>8, <2>1
  <2>3. events'[n] = s
    BY <1>7, <1>8, <2>1, <2>2
  <2>4. \A i \in DOMAIN events' : i > n => events'[i] = f
    BY <1>7, <1>8, <2>1
  <2>5. QED
    BY <2>2, <2>3, <2>4
<1>10. NewsSince(n)'
  <2>1. (\A i \in DOMAIN events : i > n => Keeps(events[i]))'
    BY <1>5, <1>9 DEF Keeps
  <2>2. (n > 0 => IsSnapshot(events[n]) /\ events[n].name = session)'
    BY <1>4, <1>9
  <2>3. QED
    BY <2>1, <2>2 DEF NewsSince
<1>11. QED
  BY <1>9, <1>10 DEF NewsFollowed

(* One that fails leaves the session as it was, if the UI is still to know   *)
(* its state: the failure is all there is to tell.                           *)
LEMMA CommandFailsNews ==
  ASSUME TypeOK, NewsFollowed, CommandFails
  PROVE  NewsFollowed'
<1> SUFFICES ASSUME active', ~unsure' PROVE NewsFollowed'
  BY DEF NewsFollowed
<1>1. task.name \in Commands /\ events \in Seq(Events)
  BY TypesByGroup, TaskShapes DEF QueueTypes, CommandFails
<1>2. PICK f \in Events : f = Finished(FALSE, task.name)
  BY <1>1, ReportTypes
<1>3. /\ events' = Append(events, f) /\ active /\ ~unsure /\ session = "stopped" /\ task.name \in ExecutionControl
      /\ dropped' = TRUE /\ UNCHANGED <<state, command>> /\ task' = NoTask
  BY <1>2 DEF CommandFails, launchVars, boxVars
<1>4. session' = session
  BY <1>3 DEF CommandFails, ExecutionControl
<1>5. Keeps(f) /\ IsFailure(f)
  BY <1>2, <1>3 DEF Keeps, IsSnapshot, IsFailure, Finished, Event
<1>6. Told => Told'
  <2>1. \E i \in DOMAIN events' : IsFailure(events'[i])
    <3>1. Len(events) + 1 \in DOMAIN events' /\ events'[Len(events) + 1] = f
      BY <1>1, <1>3, EventsAppend
    <3>2. QED
      BY <1>5, <3>1
  <2>2. task.name \notin Certain
    BY <1>3 DEF Certain, ShownAtOnce, ExecutionControl
  <2>3. QED
    BY <1>3, <1>4, <2>1, <2>2 DEF Told
<1>7. Followed'
  BY <1>3 DEF Followed
<1>8. QED
  BY <1>3, <1>4, <1>5, <1>6, <1>7, NewsKeptOn

(* Every step keeps what the UI shows and asks for explained.                *)
LEMMA NewsStep ==
  ASSUME TypeOK, RequestsSound, NewsFollowed, [Next]_vars
  PROVE  NewsFollowed'
<1>1. CASE UNCHANGED vars
  <2>1. Told /\ Followed => Told' /\ Followed'
    BY <1>1, Undisturbed DEF vars, launchVars, editVars, boxVars, sessionVars, ghostVars, AtRest,
           IsStopped
  <2>2. UNCHANGED <<active, unsure, session, events>>
    BY <1>1 DEF vars, launchVars, sessionVars, ghostVars
  <2>3. QED
    BY <2>1, <2>2, NewsKeptOn DEF NewsFollowed
<1>2. CASE Ui
  BY <1>2, LaunchNews, UiNews DEF Ui
<1>3. CASE Worker
  BY <1>3, LaunchNews, FetchNews, AnswerNews, PollNews, CommandSucceedsNews, CommandFailsNews
     DEF Worker
<1>4. QED
  BY <1>1, <1>2, <1>3, UserNews DEF Next

-----------------------------------------------------------------------------
(* The theorems. *)

(* The inductive invariant, from the start.                                  *)
LEMMA Invariance == Spec => []IInv
<1>1. Init => IInv
  <2>1. Init => RequestsSound
    BY DEF Init, RequestsSound, NoTask
  <2>2. Init => NewsFollowed
    BY DEF Init, NewsFollowed
  <2>3. QED
    BY <2>1, <2>2, InitTypes DEF IInv
<1>2. IInv /\ [Next]_vars => IInv'
  BY TypesStep, RequestsStep, NewsStep DEF IInv
<1>3. QED
  BY <1>1, <1>2, PTL DEF Spec

(* Every variable of the UI, of the worker and of the session keeps its      *)
(* type, for any number of stops, commands, variables and events.            *)
THEOREM Typing == Spec => []TypeOK
BY Invariance, PTL DEF IInv

(* A settled UI shows the state the session is in: whatever order snapshots, *)
(* reports, failures and answers came in.                                    *)
THEOREM StateIsShown == Spec => []StateAgrees
<1>1. IInv => StateAgrees
  <2>1. SUFFICES ASSUME IInv, Settled, active, ~unsure PROVE state = session
    BY DEF StateAgrees
  <2>2. events = <<>> /\ task.kind = "none" /\ command = NoCommand
    BY <2>1 DEF Settled, NoTask
  <2>3. Told
    BY <2>1, <2>2 DEF IInv, NewsFollowed
  <2>4. QED
    BY <2>2, <2>3 DEF Told, Certain, ShownAtOnce, NoCommand
<1>2. QED
  BY <1>1, Invariance, PTL

(* At a stop, a settled UI has the variables of that very stop, and the      *)
(* children of what the user expanded are there or on their way; where the   *)
(* answer left out a scope, it has no variables of any other stop.           *)
THEOREM VariablesAreShown == Spec => []VariablesFollow
<1>1. IInv => VariablesFollow
  <2>1. SUFFICES ASSUME IInv, Settled, ~unsure, ~dropped, HasActiveSession, IsStopped, ~setting
                 PROVE  /\ variables = at \/ (partial /\ variables = NoStop)
                        /\ fetched = generation
                        /\ \A p \in expanded : \/ at \in children[p]
                                               \/ p \in Queued(childQueue) /\ ~aborted
                                               \/ partial
    BY DEF VariablesFollow
  <2>2. /\ events = <<>> /\ task.kind = "none" /\ command = NoCommand /\ scopeBox = NoRequest
        /\ active /\ AtRest
    BY <2>1 DEF Settled, NoTask, HasActiveSession, AtRest
  <2>3. Told /\ Followed /\ ~Commanded
    BY <2>1, <2>2 DEF IInv, NewsFollowed, Commanded
  <2>4. session = "stopped"
    BY <2>1, <2>2, <2>3 DEF Told, Certain, ShownAtOnce, NoCommand, IsStopped
  <2>5. ScopesFollow /\ NotAborted /\ ChildrenFollow
    BY <2>1, <2>3, <2>4 DEF Followed
  <2>6. fetched = generation
    BY <2>2, <2>5 DEF ScopesFollow, ScopesComing
  <2>7. (variables = at \/ (partial /\ variables = NoStop)) /\ ~aborted
    BY <2>1, <2>5, <2>6 DEF IInv, RequestsSound, NotAborted
  <2>8. \A p \in asking : p \in Queued(childQueue)
    BY <2>2, <2>5 DEF ChildrenFollow, ChildrenComing
  <2>9. QED
    BY <2>5, <2>6, <2>7, <2>8 DEF ChildrenFollow
<1>2. QED
  BY <1>1, Invariance, PTL

=============================================================================
