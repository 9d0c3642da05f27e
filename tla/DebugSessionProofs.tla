------------------------- MODULE DebugSessionProofs -------------------------
(***************************************************************************)
(* What DebugSession proves of a session, for any number of threads, stops *)
(* and launches.                                                           *)
(*                                                                         *)
(* The two halves of StoppedIsTrue and RunningHasNews say what a session   *)
(* at rest believes; neither is inductive.  Inv adds where the unread      *)
(* stops come from (NumberedInv: the stops in the queue carry the numbers  *)
(* after the last one taken, in order, each once), which call may wait     *)
(* where (CallInv), what the end of the program leaves in the queue        *)
(* (EndsInv), and that a stop can only be overtaken by a resume the        *)
(* history knows of (OneStopInv).  With these the belief is right also     *)
(* while a call is under way (RunningInv, StoppedInv), and a snapshot in   *)
(* the making belongs to the stop read last (SnapshotInv).                 *)
(***************************************************************************)
EXTENDS DebugSession, TLAPS, SequenceTheorems

-----------------------------------------------------------------------------
(* Types.                                                                  *)

LEMMA EventTypes ==
    /\ \A t \in Threads \cup {NoThread}, n \in 0..MaxStops : StoppedEvent(t, n) \in Event
    /\ \A t \in Threads : ThreadEvent(t) \in Event
    /\ ContinuedEvent \in Event /\ TerminatedEvent \in Event
    /\ \A n \in 0..MaxStops, k \in Chatter :
          [kind |-> k, thread |-> NoThread, n |-> n] \in Event
BY SessionAssumption DEF StoppedEvent, ContinuedEvent, ThreadEvent, TerminatedEvent, Event

LEMMA EventFields ==
    ASSUME NEW e \in Event
    PROVE  /\ e.n \in 0..MaxStops
           /\ e.thread \in Threads \cup {NoThread}
           /\ e.kind \in {"stopped", "continued", "thread", "terminated"} \cup Chatter
BY DEF Event

LEMMA SnapshotTypes ==
    /\ NoSnapshot \in Snapshot
    /\ NoSnapshot.life = "Disconnected"
BY SessionAssumption DEF NoSnapshot, Snapshot, Lives

LEMMA LifeTypes ==
    ASSUME NEW s \in Lives
    PROVE  /\ EmptySnapshot(s) \in Snapshot
           /\ EmptySnapshot(s).life = s
BY SessionAssumption DEF NoSnapshot, EmptySnapshot, Snapshot, Lives

LEMMA FrameTypes ==
    ASSUME NEW s \in Snapshot, NEW n \in 0..MaxStops
    PROVE  /\ [s EXCEPT !.frame = n] \in Snapshot
           /\ [s EXCEPT !.frame = n].life = s.life
           /\ [s EXCEPT !.frame = n].frame = n
BY DEF Snapshot

LEMMA SessionTypes ==
    /\ NoSession \in Session
    /\ NoSession.queue = <<>> /\ NoSession.taken = 0 /\ NoSession.made = 0
    /\ \A s \in Session : /\ s.queue \in Seq(Event) /\ s.requests \subseteq Paths
                          /\ s.caps \subseteq Capabilities
                          /\ s.taken \in 0..MaxStops /\ s.made \in 0..MaxStops
<1>1. <<>> \in Seq(Event)
  OBVIOUS
<1> QED
  BY <1>1, SessionAssumption DEF NoSession, Session

LEMMA SavedSession ==
    ASSUME TypeOK
    PROVE  [queue |-> queue, requests |-> requests, caps |-> caps,
            taken |-> taken, made |-> made] \in Session
BY DEF TypeOK, SessionOK, EnvironmentOK, HistoryOK, Session

LEMMA HeadTail ==
    ASSUME TypeOK, queue # <<>>
    PROVE  Head1 \in Event /\ Tail(queue) \in Seq(Event)
BY DEF TypeOK, Head1

LEMMA Appended ==
    ASSUME TypeOK, NEW e \in Event
    PROVE  Append(queue, e) \in Seq(Event)
BY DEF TypeOK

LEMMA SameSession == SessionOK /\ UNCHANGED sessionVars => SessionOK'
BY DEF SessionOK, sessionVars

LEMMA SameCall == CallOK /\ UNCHANGED callVars => CallOK'
BY DEF CallOK, callVars

LEMMA SameEnvironment == EnvironmentOK /\ UNCHANGED envVars => EnvironmentOK'
BY DEF EnvironmentOK, envVars

LEMMA SameHistory == HistoryOK /\ UNCHANGED historyVars => HistoryOK'
BY DEF HistoryOK, historyVars

-----------------------------------------------------------------------------
LEMMA TypeInit == Init => TypeOK
<1> SUFFICES ASSUME Init PROVE TypeOK
  OBVIOUS
<1>1. queue \in Seq(Event)
  <2>1. queue = <<>>
    BY DEF Init
  <2> QED
    BY <2>1
<1>2. SessionOK
  <2>1. /\ open = FALSE /\ live = FALSE /\ state = "Disconnected"
        /\ activeThread = NoThread /\ activeFrame = 0
        /\ initialSnapshot = NoSnapshot /\ caps = {} /\ requests = {} /\ adapter \in Adapters
    BY DEF Init
  <2>2. activeFrame \in 0..MaxStops
    BY <2>1, SessionAssumption
  <2>3. activeThread \in Threads \cup {NoThread}
    BY <2>1
  <2> QED
    BY <2>1, <2>2, <2>3, SnapshotTypes DEF SessionOK, Lives
<1>3. CallOK
  <2>1. /\ pc = "idle" /\ call = "none" /\ todo = {} /\ left = 0 /\ draft = NoSnapshot
        /\ kept = NoSession
    BY DEF Init
  <2> QED
    BY <2>1, SnapshotTypes, SessionTypes, SessionAssumption DEF CallOK
<1>4. EnvironmentOK
  <2>1. /\ up = FALSE /\ prog = "unborn" /\ at = NoThread /\ named = TRUE /\ alive = {}
        /\ made = 0 /\ chatter = 0 /\ launches = 0 /\ late = FALSE
    BY DEF Init
  <2>2. made \in 0..MaxStops /\ chatter \in 0..MaxChatter /\ launches \in 0..MaxLaunches
    BY <2>1, SessionAssumption
  <2>3. at \in Threads \cup {NoThread}
    BY <2>1
  <2> QED
    BY <2>1, <2>2, <2>3 DEF EnvironmentOK
<1>5. HistoryOK
  <2>1. taken = 0 /\ crossed = FALSE /\ shown = NoSnapshot
    BY DEF Init
  <2>2. taken \in 0..MaxStops /\ shown \in Snapshot
    BY <2>1, SnapshotTypes, SessionAssumption
  <2> QED
    BY <2>1, <2>2 DEF HistoryOK
<1> QED
  BY <1>1, <1>2, <1>3, <1>4, <1>5 DEF TypeOK

LEMMA EnvironmentTypes == TypeOK /\ Environment => TypeOK'
<1> SUFFICES ASSUME TypeOK, Environment PROVE TypeOK'
  OBVIOUS
<1>1. SessionOK' /\ CallOK'
  BY SameSession, SameCall
     DEF Environment, ProgramStops, ProgramContinues, ThreadExits, AdapterChatters, LateResume,
         AdapterDies, TypeOK
<1>2. ASSUME NEW t \in Threads, NEW told \in BOOLEAN, ProgramStops(t, told) PROVE TypeOK'
  <2>1. made' \in 0..MaxStops /\ made + 1 \in 0..MaxStops
    BY <1>2, SessionAssumption DEF ProgramStops, TypeOK, EnvironmentOK
  <2>2. queue' \in Seq(Event)
    BY <1>2, <2>1, EventTypes, Appended DEF ProgramStops
  <2>5. chatter' \in 0..MaxChatter
    BY <1>2, SessionAssumption DEF ProgramStops, TypeOK, EnvironmentOK
  <2>3. EnvironmentOK'
    BY <1>2, <2>1, <2>5 DEF ProgramStops, TypeOK, EnvironmentOK
  <2>4. HistoryOK'
    BY <1>2, SameHistory DEF ProgramStops, TypeOK
  <2> QED
    BY <1>1, <2>2, <2>3, <2>4 DEF TypeOK
<1>3. ASSUME NEW t \in Threads, ThreadExits(t) PROVE TypeOK'
  <2>1. queue' \in Seq(Event)
    <3>1. <<ThreadEvent(t), TerminatedEvent>> \in Seq(Event)
      BY EventTypes
    <3>2. queue \o <<ThreadEvent(t), TerminatedEvent>> \in Seq(Event)
      BY <3>1 DEF TypeOK
    <3> QED
      BY <1>3, <3>2, EventTypes, Appended DEF ThreadExits
  <2>2. EnvironmentOK'
    BY <1>3 DEF ThreadExits, TypeOK, EnvironmentOK
  <2>3. HistoryOK'
    BY <1>3, SameHistory DEF ThreadExits, TypeOK
  <2> QED
    BY <1>1, <2>1, <2>2, <2>3 DEF TypeOK
<1>4. ASSUME NEW k \in Chatter, AdapterChatters(k) PROVE TypeOK'
  <2>1. chatter' \in 0..MaxChatter
    BY <1>4, SessionAssumption DEF AdapterChatters, TypeOK, EnvironmentOK
  <2>2. ChatterEvent(k) \in Event
    BY EventTypes DEF ChatterEvent, TypeOK, EnvironmentOK
  <2>3. queue' \in Seq(Event)
    BY <1>4, <2>2, Appended DEF AdapterChatters
  <2>4. EnvironmentOK'
    BY <1>4, <2>1 DEF AdapterChatters, TypeOK, EnvironmentOK
  <2>5. HistoryOK'
    BY <1>4, SameHistory DEF AdapterChatters, TypeOK
  <2> QED
    BY <1>1, <2>3, <2>4, <2>5 DEF TypeOK
<1>7. CASE ProgramContinues
  <2>1. chatter' \in 0..MaxChatter
    BY <1>7, SessionAssumption DEF ProgramContinues, TypeOK, EnvironmentOK
  <2>2. queue' \in Seq(Event)
    BY <1>7, EventTypes, Appended DEF ProgramContinues
  <2>3. EnvironmentOK'
    BY <1>7, <2>1 DEF ProgramContinues, TypeOK, EnvironmentOK
  <2>4. HistoryOK'
    BY <1>7 DEF ProgramContinues, TypeOK, HistoryOK
  <2> QED
    BY <1>1, <2>2, <2>3, <2>4 DEF TypeOK
<1>5. CASE LateResume
  <2>1. EnvironmentOK'
    BY <1>5 DEF LateResume, TypeOK, EnvironmentOK
  <2>2. HistoryOK'
    BY <1>5 DEF LateResume, TypeOK, HistoryOK
  <2>3. queue' = queue
    BY <1>5 DEF LateResume
  <2> QED
    BY <1>1, <2>1, <2>2, <2>3 DEF TypeOK
<1>6. CASE AdapterDies
  <2>1. EnvironmentOK'
    BY <1>6 DEF AdapterDies, TypeOK, EnvironmentOK
  <2>2. HistoryOK' /\ queue' = queue
    BY <1>6, SameHistory DEF AdapterDies, TypeOK
  <2> QED
    BY <1>1, <2>1, <2>2 DEF TypeOK
<1> QED
  BY <1>2, <1>3, <1>4, <1>5, <1>6, <1>7 DEF Environment

LEMMA ReturnTypes == Return => CallOK' \/ kept' \notin Session
BY SnapshotTypes, SessionAssumption DEF Return, CallOK

LEMMA GiveTypes ==
    ASSUME TypeOK, NEW s \in Snapshot, Give(s)
    PROVE  /\ CallOK'
           /\ initialSnapshot' \in Snapshot /\ shown' \in Snapshot
           /\ open' \in BOOLEAN /\ live' \in BOOLEAN
<1>1. CallOK'
  BY ReturnTypes, SessionTypes DEF Give
<1>2. open' \in BOOLEAN /\ live' \in BOOLEAN
  <2>1. /\ open' = (open \/ call \in {"launch", "restart"})
        /\ live' = (live \/ call \in {"launch", "restart", "again"})
    BY DEF Give
  <2> QED
    BY <2>1
<1>3. initialSnapshot' \in Snapshot /\ shown' \in Snapshot
  BY DEF Give, TypeOK, SessionOK, HistoryOK
<1> QED
  BY <1>1, <1>2, <1>3

LEMMA GiveUpAfterTypes ==
    ASSUME TypeOK, NEW n \in 0..MaxStops, NEW events \in Seq(Event), GiveUpAfter(n, events)
    PROVE  TypeOK'
<1>1. CallOK'
  BY ReturnTypes, SessionTypes DEF GiveUpAfter
<1>2. UNCHANGED <<adapter, at, named, alive, chatter, launches, crossed, shown>>
  BY DEF GiveUpAfter
<1>3. CASE call \in {"launch", "restart"}
  <2>1. /\ state' = "Disconnected" /\ activeThread' = NoThread
        /\ activeFrame' = 0 /\ initialSnapshot' \in Snapshot
        /\ up' = FALSE /\ prog' = "gone" /\ late' = FALSE
    BY <1>3, SnapshotTypes DEF GiveUpAfter
  <2>2. open' \in BOOLEAN /\ live' \in BOOLEAN
    <3>1. open' = (call = "restart") /\ live' = (live /\ call = "restart")
      BY <1>3 DEF GiveUpAfter
    <3> QED
      BY <3>1
  <2>3. /\ queue' \in Seq(Event) /\ requests' \subseteq Paths /\ caps' \subseteq Capabilities
        /\ taken' \in 0..MaxStops /\ made' \in 0..MaxStops
    BY <1>3, SessionTypes DEF GiveUpAfter, TypeOK, CallOK
  <2>4. SessionOK'
    BY <1>2, <2>1, <2>2, <2>3, SessionAssumption DEF TypeOK, SessionOK, Lives
  <2>5. EnvironmentOK'
    BY <1>2, <2>1, <2>3 DEF TypeOK, EnvironmentOK
  <2>6. HistoryOK'
    BY <1>2, <2>3 DEF TypeOK, HistoryOK
  <2> QED
    BY <1>1, <2>3, <2>4, <2>5, <2>6 DEF TypeOK
<1>4. CASE call \notin {"launch", "restart"}
  <2>1. UNCHANGED <<sessionVars, up, prog, late, made>> /\ queue' = events /\ taken' = n
    BY <1>4 DEF GiveUpAfter
  <2>2. HistoryOK'
    BY <1>2, <2>1 DEF TypeOK, HistoryOK
  <2> QED
    BY <1>1, <1>2, <2>1, <2>2, SameSession, SameEnvironment DEF TypeOK, envVars
<1> QED
  BY <1>3, <1>4

LEMMA GiveUpTypes == TypeOK /\ GiveUp => TypeOK'
BY GiveUpAfterTypes DEF GiveUp, TypeOK, HistoryOK

LEMMA EndedTypes ==
    ASSUME TypeOK, Ended
    PROVE  /\ state' \in Lives /\ CallOK' /\ shown' \in Snapshot
           /\ open' \in BOOLEAN /\ live' \in BOOLEAN
<1>1. state' \in Lives /\ kept' \in Session
  BY SessionTypes DEF Ended, Lives
<1>2. CASE call = "restart"
  BY <1>1, <1>2 DEF Ended, TypeOK, SessionOK, CallOK, HistoryOK
<1>3. CASE call # "restart"
  <2>1. shown' \in Snapshot
    BY <1>3, LifeTypes DEF Ended, TypeOK, HistoryOK, Lives
  <2>2. Return /\ open' = TRUE /\ live' = (live \/ call = "launch")
    BY <1>3 DEF Ended
  <2>3. live' \in BOOLEAN
    BY <2>2
  <2> QED
    BY <1>1, <2>1, <2>2, <2>3, ReturnTypes
<1> QED
  BY <1>2, <1>3

LEMMA EnrichTypes ==
    ASSUME TypeOK, NEW life \in Lives, Enrich(life)
    PROVE  /\ draft' \in Snapshot /\ draft'.life = life
           /\ todo' \subseteq Paths /\ pc' \in {"hits", "threads"}
<1>1. draft' = EmptySnapshot(life)
  BY DEF Enrich, EmptySnapshot
<1> QED
  BY <1>1, LifeTypes DEF Enrich, TypeOK, SessionOK

LEMMA ReadTypes == TypeOK /\ ReadEvent => TypeOK'
<1> SUFFICES ASSUME TypeOK, ReadEvent PROVE TypeOK'
  OBVIOUS
<1>0. queue # <<>> /\ pc \in Loops /\ (pc = "poll" => left > 0)
  BY DEF ReadEvent, ReadStopped, ReadUnreadableStop, ReadTerminated, ReadThread, ReadOther,
         ReadsEvents
<1>12. Head1 \in Event /\ Tail(queue) \in Seq(Event)
  BY <1>0, HeadTail
<1>3. Head1.n \in 0..MaxStops
  BY <1>12, EventFields
<1>11. CASE ReadUnreadableStop
  BY <1>3, <1>11, <1>12, GiveUpAfterTypes DEF ReadUnreadableStop
<1> SUFFICES ASSUME ReadStopped \/ ReadTerminated \/ ReadThread \/ ReadOther PROVE TypeOK'
  BY <1>11 DEF ReadEvent
<1>1. queue # <<>> /\ pc \in Loops /\ (pc = "poll" => left > 0) /\ queue' = Tail(queue)
  BY <1>0 DEF ReadStopped, ReadTerminated, ReadThread, ReadOther, Skipped, Consumed
<1>2. Head1 \in Event /\ queue' \in Seq(Event)
  BY <1>1, <1>12
<1>4. EnvironmentOK'
  BY SameEnvironment DEF TypeOK, ReadStopped, ReadTerminated, ReadThread, ReadOther
<1>5. ASSUME Consumed PROVE left' \in 0..MaxEvents
  BY <1>1, <1>5, SessionAssumption DEF Consumed, TypeOK, CallOK
<1>6. CASE ReadStopped
  <2>1. state' = "Stopped" /\ activeThread' = Head1.thread /\ taken' = Head1.n /\ left' = 0
    BY <1>6 DEF ReadStopped
  <2>2. Head1.thread \in Threads \cup {NoThread}
    BY <1>2, EventFields
  <2>3. Enrich("Stopped") /\ UNCHANGED <<call, kept, open, live, activeFrame, initialSnapshot, caps,
                                         requests, adapter, crossed, shown>>
    BY <1>6 DEF ReadStopped
  <2>4. SessionOK'
    BY <2>1, <2>2, <2>3 DEF TypeOK, SessionOK, Lives
  <2>5. draft' \in Snapshot /\ todo' \subseteq Paths /\ pc' \in {"hits", "threads"}
    BY <2>3, EnrichTypes DEF Lives
  <2>6. CallOK'
    BY <2>1, <2>3, <2>5, SessionAssumption DEF TypeOK, CallOK
  <2>7. HistoryOK'
    BY <1>3, <2>1, <2>3 DEF TypeOK, HistoryOK
  <2> QED
    BY <1>2, <1>4, <2>4, <2>6, <2>7 DEF TypeOK
<1>7. ASSUME Ended, UNCHANGED <<activeThread, activeFrame, initialSnapshot, caps, requests,
                                adapter, taken, crossed>>
      PROVE  TypeOK'
  <2>1. SessionOK' /\ CallOK'
    BY <1>7, EndedTypes DEF TypeOK, SessionOK
  <2>2. HistoryOK'
    BY <1>7, EndedTypes DEF TypeOK, HistoryOK
  <2> QED
    BY <1>2, <1>4, <2>1, <2>2 DEF TypeOK
<1>8. CASE ReadTerminated
  BY <1>7, <1>8 DEF ReadTerminated
<1>9. CASE ReadThread
  <2>1. UNCHANGED <<taken, crossed>>
    BY <1>9 DEF ReadThread
  <2>2. CASE Ended /\ UNCHANGED <<activeThread, activeFrame, initialSnapshot, caps, requests,
                                  adapter>>
    BY <1>7, <2>1, <2>2
  <2>3. CASE /\ Consumed /\ pc' \in {pc, "threadExit"}
             /\ UNCHANGED <<sessionVars, shown, call, todo, draft, kept>>
    <3>1. CallOK'
      BY <1>5, <2>3 DEF TypeOK, CallOK
    <3> QED
      BY <1>2, <1>4, <2>1, <2>3, <3>1, SameSession, SameHistory DEF TypeOK, historyVars
  <2> QED
    BY <1>9, <2>2, <2>3 DEF ReadThread, Skipped
<1>10. CASE ReadOther
  <2>1. /\ Consumed /\ caps' \subseteq Capabilities
        /\ UNCHANGED <<open, live, state, activeThread, activeFrame, initialSnapshot, requests,
                       adapter, pc, call, todo, draft, kept, historyVars>>
    BY <1>10 DEF ReadOther, Skipped, TypeOK, SessionOK
  <2>2. SessionOK'
    BY <2>1 DEF TypeOK, SessionOK
  <2>3. CallOK'
    BY <1>5, <2>1 DEF TypeOK, CallOK
  <2> QED
    BY <1>2, <1>4, <2>1, <2>2, <2>3, SameHistory DEF TypeOK
<1> QED
  BY <1>6, <1>8, <1>9, <1>10

LEMMA AfterVariablesTypes ==
    ASSUME TypeOK, NEW s \in Snapshot, AfterVariables(s),
           UNCHANGED <<state, activeThread, activeFrame, caps, requests, adapter, queue,
                       envVars, taken, crossed>>
    PROVE  TypeOK'
<1>1. CASE Give(s)
  <2>1. SessionOK'
    BY <1>1, GiveTypes DEF TypeOK, SessionOK
  <2>2. HistoryOK'
    BY <1>1, GiveTypes DEF TypeOK, HistoryOK
  <2> QED
    BY <1>1, <2>1, <2>2, GiveTypes, SameEnvironment DEF TypeOK
<1>2. CASE /\ Later("breakList") \/ Later("exception")
           /\ draft' = s /\ UNCHANGED todo
  <2>1. CallOK'
    BY <1>2 DEF TypeOK, CallOK, Later
  <2>2. UNCHANGED <<open, live, initialSnapshot, shown>>
    BY <1>2 DEF Later
  <2> QED
    BY <2>1, <2>2, SameSession, SameEnvironment, SameHistory
       DEF TypeOK, sessionVars, historyVars
<1> QED
  BY <1>1, <1>2 DEF AfterVariables

LEMMA SnapshotRequestTypes ==
    ASSUME TypeOK, NEW answered \in BOOLEAN,
           SnapshotRequest(answered) \/ ExceptionAnswered
    PROVE  TypeOK'
<1>0. draft \in Snapshot
  BY DEF TypeOK, CallOK
<1>1. ASSUME UNCHANGED <<state, activeThread, activeFrame, caps, requests, adapter, queue,
                         envVars, taken, crossed, open, live, initialSnapshot, shown>>,
             CallOK'
      PROVE  TypeOK'
  BY <1>1, SameSession, SameEnvironment, SameHistory DEF TypeOK, sessionVars, historyVars
<1>2. CASE HitsAnswered(answered)
  <2>1. todo' \subseteq todo /\ pc' \in {"hits", "threads"} /\ UNCHANGED <<call, left, draft, kept>>
    BY <1>2 DEF HitsAnswered, Later
  <2>2. CallOK'
    BY <2>1 DEF TypeOK, CallOK
  <2> QED
    BY <1>1, <1>2, <2>2 DEF HitsAnswered, Later
<1>3. CASE ThreadsAnswered(answered)
  <2>1. CASE GiveUp
    BY <2>1, GiveUpTypes
  <2>2. CASE /\ Later("stacks")
             /\ UNCHANGED <<state, activeThread, activeFrame, caps, requests, adapter, queue,
                            todo, draft, envVars, taken, crossed>>
    <3>1. CallOK'
      BY <2>2 DEF TypeOK, CallOK, Later
    <3> QED
      BY <1>1, <2>2, <3>1 DEF Later
  <2> QED
    BY <1>3, <2>1, <2>2 DEF ThreadsAnswered
<1>4. CASE StacksAnswered(answered)
  <2>1. CASE GiveUp
    BY <2>1, GiveUpTypes
  <2>2. CASE ~GiveUp
    <3>1. made \in 0..MaxStops
      BY DEF TypeOK, EnvironmentOK
    <3>2. draft' \in Snapshot
      BY <1>0, <1>4, <2>2, <3>1, FrameTypes DEF StacksAnswered
    <3>3. /\ activeFrame' = made /\ Later("variables")
          /\ UNCHANGED <<state, activeThread, caps, requests, adapter, queue, todo, envVars,
                         taken, crossed>>
      BY <1>4, <2>2 DEF StacksAnswered
    <3>4. SessionOK'
      BY <3>1, <3>3 DEF TypeOK, SessionOK, Later
    <3>5. CallOK'
      BY <3>2, <3>3 DEF TypeOK, CallOK, Later
    <3>6. HistoryOK'
      BY <3>3 DEF TypeOK, HistoryOK, Later
    <3> QED
      BY <3>3, <3>4, <3>5, <3>6, SameEnvironment DEF TypeOK
  <2> QED
    BY <2>1, <2>2
<1>5. CASE VariablesAnswered(answered)
  <2>1. CASE GiveUp
    BY <2>1, GiveUpTypes
  <2>2. CASE ~GiveUp
    BY <1>0, <1>5, <2>2, AfterVariablesTypes DEF VariablesAnswered
  <2> QED
    BY <2>1, <2>2
<1>6. CASE BreakListAnswered(answered)
  BY <1>0, <1>6, AfterVariablesTypes DEF BreakListAnswered
<1>7. CASE ExceptionAnswered
  BY <1>0, <1>7, AfterVariablesTypes DEF ExceptionAnswered
<1> QED
  BY <1>2, <1>3, <1>4, <1>5, <1>6, <1>7 DEF SnapshotRequest

LEMMA ThreadsAfterExitTypes ==
    ASSUME TypeOK, NEW answered \in BOOLEAN, ThreadsAfterExit(answered)
    PROVE  TypeOK'
<1>1. UNCHANGED <<queue, envVars, taken, crossed>>
  BY DEF ThreadsAfterExit
<1>2. CASE Ended /\ UNCHANGED <<activeThread, activeFrame, initialSnapshot, caps, requests,
                                adapter>>
  <2>1. SessionOK' /\ CallOK'
    BY <1>2, EndedTypes DEF TypeOK, SessionOK
  <2>2. HistoryOK'
    BY <1>1, <1>2, EndedTypes DEF TypeOK, HistoryOK
  <2> QED
    BY <1>1, <2>1, <2>2, SameEnvironment DEF TypeOK
<1>3. CASE /\ pc' \in {"poll", "untilStop"}
           /\ UNCHANGED <<sessionVars, call, todo, left, draft, kept, shown>>
  <2>1. CallOK'
    BY <1>3 DEF TypeOK, CallOK
  <2> QED
    BY <1>1, <1>3, <2>1, SameSession, SameEnvironment, SameHistory DEF TypeOK, historyVars
<1> QED
  BY <1>2, <1>3 DEF ThreadsAfterExit

LEMMA EndOfWaitTypes ==
    ASSUME TypeOK, PollEnds \/ UntilStopTimesOut
    PROVE  TypeOK'
<1>1. CASE PollEnds
  <2>1. CallOK'
    BY <1>1, ReturnTypes DEF PollEnds, TypeOK, CallOK
  <2> QED
    BY <1>1, <2>1, SameSession, SameEnvironment, SameHistory DEF PollEnds, TypeOK
<1> QED
  BY <1>1, GiveUpTypes DEF UntilStopTimesOut

LEMMA LaunchTypes ==
    ASSUME TypeOK, NEW c \in {"launch", "restart"}, Launch(c)
    PROVE  TypeOK'
<1>1. kept' \in Session
  BY SavedSession, SessionTypes DEF Launch
<1>2. CallOK'
  BY <1>1 DEF Launch, Enter, TypeOK, CallOK
<1>3. SessionOK'
  <2>1. /\ open' = FALSE /\ live' = live /\ state' = "Disconnected" /\ activeThread' = NoThread
        /\ activeFrame' = 0 /\ initialSnapshot' = NoSnapshot /\ caps' = {} /\ requests' = {}
    BY DEF Launch
  <2>2. adapter' \in Adapters
    BY DEF Launch, TypeOK, SessionOK
  <2>3. activeFrame' \in 0..MaxStops /\ activeThread' \in Threads \cup {NoThread}
    BY <2>1, SessionAssumption
  <2> QED
    BY <2>1, <2>2, <2>3, SnapshotTypes DEF TypeOK, SessionOK, Lives
<1>4. EnvironmentOK'
  <2>1. /\ up' = TRUE /\ prog' = "unborn" /\ at' = NoThread /\ named' = TRUE /\ alive' = {}
        /\ made' = 0 /\ chatter' = chatter /\ late' = FALSE
    BY DEF Launch
  <2>2. launches' \in 0..MaxLaunches
    BY SessionAssumption DEF Launch, TypeOK, EnvironmentOK
  <2>3. made' \in 0..MaxStops /\ chatter' \in 0..MaxChatter /\ at' \in Threads \cup {NoThread}
    BY <2>1, SessionAssumption DEF TypeOK, EnvironmentOK
  <2> QED
    BY <2>1, <2>2, <2>3 DEF EnvironmentOK
<1>5. HistoryOK'
  <2>1. taken' = 0 /\ crossed' = FALSE /\ shown' = NoSnapshot
    BY DEF Launch, Enter
  <2>2. taken' \in 0..MaxStops /\ shown' \in Snapshot
    BY <2>1, SnapshotTypes, SessionAssumption
  <2> QED
    BY <2>1, <2>2 DEF HistoryOK
<1>6. queue' \in Seq(Event)
  <2>1. queue' = <<>>
    BY DEF Launch
  <2> QED
    BY <2>1
<1> QED
  BY <1>2, <1>3, <1>4, <1>5, <1>6 DEF TypeOK

LEMMA ConnectTypes ==
    ASSUME TypeOK, NEW answered \in BOOLEAN, Initialized(answered) \/ Configured(answered)
    PROVE  TypeOK'
<1>1. CASE GiveUp
  BY <1>1, GiveUpTypes
<1>2. CASE ~GiveUp /\ Initialized(answered)
  <2>1. SessionOK'
    BY <1>2 DEF Initialized, TypeOK, SessionOK
  <2>2. CallOK'
    BY <1>2 DEF Initialized, TypeOK, CallOK
  <2> QED
    BY <1>2, <2>1, <2>2, SameEnvironment, SameHistory DEF Initialized, TypeOK
<1>3. CASE ~GiveUp /\ Configured(answered)
  <2>1. EnvironmentOK'
    BY <1>3 DEF Configured, TypeOK, EnvironmentOK
  <2>2. CallOK'
    BY <1>3 DEF Configured, TypeOK, CallOK
  <2> QED
    BY <1>3, <2>1, <2>2, SameSession, SameHistory DEF Configured, TypeOK
<1> QED
  BY <1>1, <1>2, <1>3

\* A call that begins and sets nothing of the session.
LEMMA EnterTypes ==
    ASSUME TypeOK, CallOK', shown' = NoSnapshot,
           UNCHANGED <<sessionVars, queue, envVars, taken, crossed>>
    PROVE  TypeOK'
BY SameSession, SameEnvironment, SnapshotTypes DEF TypeOK, HistoryOK

LEMMA CallerTypes == TypeOK /\ (Caller \/ Poll) => TypeOK'
<1> SUFFICES ASSUME TypeOK, Caller \/ Poll PROVE TypeOK'
  OBVIOUS
<1>1. ASSUME NEW c \in {"launch", "restart"}, Launch(c) PROVE TypeOK'
  BY <1>1, LaunchTypes
<1>2. CASE Poll
  <2>1. CallOK'
    BY <1>2, SessionAssumption DEF Poll, Enter, TypeOK, CallOK
  <2> QED
    BY <1>2, <2>1, EnterTypes DEF Poll, Enter
<1>3. ASSUME NEW r \in Resumes, Resume(r) PROVE TypeOK'
  <2>1. CallOK'
    BY <1>3 DEF Resume, Enter, TypeOK, CallOK
  <2> QED
    BY <1>3, <2>1, EnterTypes DEF Resume, Enter
<1>4. ASSUME NEW q \in DOMAIN Queries, Ask(q) PROVE TypeOK'
  <2>1. CallOK'
    BY <1>4 DEF Ask, Enter, TypeOK, CallOK
  <2> QED
    BY <1>4, <2>1, EnterTypes DEF Ask, Enter
<1>5. ASSUME NEW p \in Paths, NEW some \in BOOLEAN, SetBreakpoints(p, some) PROVE TypeOK'
  <2>1. CallOK'
    BY <1>5 DEF SetBreakpoints, Enter, TypeOK, CallOK
  <2>2. requests' \subseteq Paths
    BY <1>5 DEF SetBreakpoints, TypeOK, SessionOK
  <2>3. UNCHANGED <<open, live, state, activeThread, activeFrame, initialSnapshot, caps, adapter,
                    queue, envVars, taken, crossed>> /\ shown' = NoSnapshot
    BY <1>5 DEF SetBreakpoints, Enter
  <2>4. SessionOK'
    BY <2>2, <2>3 DEF TypeOK, SessionOK
  <2>5. HistoryOK'
    BY <2>3, SnapshotTypes DEF TypeOK, HistoryOK
  <2> QED
    BY <2>1, <2>3, <2>4, <2>5, SameEnvironment DEF TypeOK
<1>6. CASE Sync
  <2>1. UNCHANGED <<open, live, state, activeThread, activeFrame, caps, requests, adapter, queue,
                    envVars, taken, crossed>>
    BY <1>6 DEF Sync
  <2>2. initialSnapshot' \in Snapshot /\ shown' \in Snapshot
    <3>1. CASE shown' = initialSnapshot /\ initialSnapshot' = NoSnapshot
      BY <3>1, SnapshotTypes DEF TypeOK, SessionOK
    <3>2. CASE shown' = EmptySnapshot(state) /\ initialSnapshot' = initialSnapshot
      BY <3>2, LifeTypes DEF TypeOK, SessionOK
    <3>3. CASE shown' = NoSnapshot /\ initialSnapshot' = initialSnapshot
      BY <3>3, SnapshotTypes DEF TypeOK, SessionOK
    <3> QED
      BY <1>6, <3>1, <3>2, <3>3 DEF Sync
  <2>3. CallOK'
    <3>1. CASE UNCHANGED callVars
      BY <3>1, SameCall DEF TypeOK
    <3>2. CASE call' = "sync" /\ Enrich(state) /\ UNCHANGED <<left, kept>>
      BY <3>2, EnrichTypes DEF TypeOK, CallOK, SessionOK
    <3> QED
      BY <1>6, <3>1, <3>2 DEF Sync
  <2>4. SessionOK'
    BY <2>1, <2>2 DEF TypeOK, SessionOK
  <2>5. HistoryOK'
    BY <2>1, <2>2 DEF TypeOK, HistoryOK
  <2> QED
    BY <2>1, <2>3, <2>4, <2>5, SameEnvironment DEF TypeOK
<1>7. ASSUME /\ state' \in Lives /\ activeThread' = NoThread /\ activeFrame' = 0
             /\ initialSnapshot' \in Snapshot /\ live' \in BOOLEAN
             /\ UNCHANGED <<open, caps, requests, adapter>>
      PROVE  SessionOK'
  <2>1. activeFrame' \in 0..MaxStops /\ activeThread' \in Threads \cup {NoThread}
    BY <1>7, SessionAssumption
  <2> QED
    BY <1>7, <2>1 DEF TypeOK, SessionOK
<1>8. CASE Terminate
  <2>1. UNCHANGED <<open, live, initialSnapshot, caps, requests, adapter, queue, todo, left,
                    draft, kept, envVars, taken, crossed>>
    BY <1>8 DEF Terminate
  <2>2. shown' = NoSnapshot
    BY <1>8 DEF Terminate, Enter
  <2>3. SessionOK'
    <3>1. CASE UNCHANGED <<state, activeThread, activeFrame>>
      BY <2>1, <3>1 DEF TypeOK, SessionOK
    <3>2. CASE state' = "Exited" /\ activeThread' = NoThread /\ activeFrame' = 0
      BY <1>7, <2>1, <3>2 DEF TypeOK, SessionOK, Lives
    <3> QED
      BY <1>8, <3>1, <3>2 DEF Terminate
  <2>4. CallOK'
    BY <1>8, <2>1 DEF Terminate, Enter, TypeOK, CallOK
  <2>5. HistoryOK'
    BY <2>1, <2>2, SnapshotTypes DEF TypeOK, HistoryOK
  <2> QED
    BY <2>1, <2>3, <2>4, <2>5, SameEnvironment DEF TypeOK
<1>9. CASE Disconnect
  <2>1. /\ live' = FALSE /\ shown' = NoSnapshot
        /\ UNCHANGED <<open, initialSnapshot, caps, requests, adapter, queue, callVars, at,
                       named, alive, made, chatter, launches, taken, crossed>>
    BY <1>9 DEF Disconnect
  <2>2. SessionOK' /\ EnvironmentOK'
    <3>1. CASE UNCHANGED <<up, prog, late, state, activeThread, activeFrame>>
      BY <2>1, <3>1, SameEnvironment DEF TypeOK, SessionOK, envVars
    <3>2. CASE /\ up' = FALSE /\ prog' = "gone" /\ late' = FALSE
               /\ state' = "Disconnected" /\ activeThread' = NoThread /\ activeFrame' = 0
      <4>1. SessionOK'
        BY <1>7, <2>1, <3>2 DEF TypeOK, SessionOK, Lives
      <4>2. EnvironmentOK'
        BY <2>1, <3>2 DEF TypeOK, EnvironmentOK
      <4> QED
        BY <4>1, <4>2
    <3> QED
      BY <1>9, <3>1, <3>2 DEF Disconnect
  <2>4. HistoryOK'
    BY <2>1, SnapshotTypes DEF TypeOK, HistoryOK
  <2> QED
    BY <2>1, <2>2, <2>4, SameCall DEF TypeOK
<1> QED
  BY <1>1, <1>2, <1>3, <1>4, <1>5, <1>6, <1>8, <1>9 DEF Caller

LEMMA ResumedTypes ==
    ASSUME TypeOK, Resumed \/ ResumeTimesOut
    PROVE  TypeOK'
<1>1. CASE ResumeTimesOut
  <2>1. CallOK'
    BY <1>1, ReturnTypes DEF ResumeTimesOut, TypeOK, CallOK
  <2>2. late' \in BOOLEAN
    <3>1. late' = (late \/ call # "pause")
      BY <1>1 DEF ResumeTimesOut
    <3> QED
      BY <3>1
  <2>3. EnvironmentOK'
    BY <1>1, <2>2 DEF ResumeTimesOut, TypeOK, EnvironmentOK
  <2> QED
    BY <1>1, <2>1, <2>3, SameSession, SameHistory DEF ResumeTimesOut, TypeOK
<1>2. CASE Resumed
  <2>1. UNCHANGED <<open, live, activeThread, activeFrame, initialSnapshot, caps, requests, adapter,
                    queue, kept, up, named, alive, made, chatter, launches, late, taken, shown>>
    BY <1>2 DEF Resumed
  <2>2. CallOK'
    <3>1. CASE Return
      BY <2>1, <3>1, ReturnTypes DEF TypeOK, CallOK
    <3>2. CASE pc' = "untilStop" /\ UNCHANGED <<call, todo, left, draft>>
      BY <2>1, <3>2 DEF TypeOK, CallOK
    <3> QED
      BY <1>2, <3>1, <3>2 DEF Resumed
  <2>3. /\ state' \in {state, "Running"} /\ prog' \in {prog, "running"}
        /\ at' \in {at, NoThread}
    BY <1>2 DEF Resumed
  <2>4. crossed' \in BOOLEAN
    <3>1. crossed' = crossed \/ crossed' = (crossed \/ Says("stopped"))
      BY <1>2 DEF Resumed
    <3>2. crossed \in BOOLEAN
      BY DEF TypeOK, HistoryOK
    <3> QED
      BY <3>1, <3>2
  <2>5. SessionOK'
    BY <2>1, <2>3 DEF TypeOK, SessionOK, Lives
  <2>6. EnvironmentOK'
    BY <2>1, <2>3 DEF TypeOK, EnvironmentOK
  <2>7. HistoryOK'
    BY <2>1, <2>4 DEF TypeOK, HistoryOK
  <2> QED
    BY <2>1, <2>2, <2>5, <2>6, <2>7 DEF TypeOK
<1> QED
  BY <1>1, <1>2

LEMMA TerminatedTypes == TypeOK /\ Terminated => TypeOK'
<1> SUFFICES ASSUME TypeOK, Terminated PROVE TypeOK'
  OBVIOUS
<1>1. /\ prog' = "gone" /\ queue' = Append(queue, TerminatedEvent)
      /\ state' = "Exited" /\ activeThread' = NoThread /\ activeFrame' = 0 /\ Return
      /\ UNCHANGED <<open, live, initialSnapshot, caps, requests, adapter, kept, up, at, named,
                     alive, made, chatter, launches, late, historyVars>>
  BY DEF Terminated
<1>2. activeFrame' \in 0..MaxStops /\ activeThread' \in Threads \cup {NoThread}
  BY <1>1, SessionAssumption
<1>3. SessionOK'
  BY <1>1, <1>2 DEF TypeOK, SessionOK, Lives
<1>4. CallOK'
  BY <1>1, ReturnTypes DEF TypeOK, CallOK
<1>5. EnvironmentOK'
  BY <1>1 DEF TypeOK, EnvironmentOK
<1>6. queue' \in Seq(Event)
  BY <1>1, EventTypes, Appended
<1> QED
  BY <1>1, <1>3, <1>4, <1>5, <1>6, SameHistory DEF TypeOK

LEMMA TypeStep == TypeOK /\ [Next]_vars => TypeOK'
<1> SUFFICES ASSUME TypeOK, [Next]_vars PROVE TypeOK'
  OBVIOUS
<1>1. CASE UNCHANGED vars
  BY <1>1, SameSession, SameCall, SameEnvironment, SameHistory DEF TypeOK, vars
<1>2. ASSUME NEW answered \in BOOLEAN, BreakpointsSet(answered) PROVE TypeOK'
  <2>1. CallOK'
    BY <1>2, ReturnTypes DEF BreakpointsSet, TypeOK, CallOK
  <2> QED
    BY <1>2, <2>1, SameSession, SameEnvironment, SameHistory
       DEF BreakpointsSet, TypeOK, sessionVars
<1>3. CASE Proceed
  BY <1>2, <1>3, ReadTypes, EndOfWaitTypes, ResumedTypes, TerminatedTypes, GiveUpTypes,
     ConnectTypes, ThreadsAfterExitTypes, SnapshotRequestTypes
     DEF Proceed, ResumeRefused, TerminateFails, Answered
<1> QED
  BY <1>1, <1>3, EnvironmentTypes, CallerTypes DEF Next

\* Every variable keeps its type.
THEOREM TypeCorrect == Spec => []TypeOK
BY TypeInit, TypeStep, PTL DEF Spec

-----------------------------------------------------------------------------
(* The inductive invariant.                                                *)

SnapshotPcs == {"hits", "threads", "stacks", "variables", "breakList", "exception"}
FramePcs == {"variables", "breakList", "exception"}
IsStop(e) == e.kind = "stopped"
Stops(events) == {i \in 1..Len(events) : IsStop(events[i])}
Ends(events) == {i \in 1..Len(events) : events[i].kind = "terminated"}

\* The stops in a queue are those numbered first+1 to last, in this order, each once.
Numbered(events, first, last) ==
    /\ first <= last
    /\ \A i \in Stops(events) :
          events[i].n \in first + 1..last /\ events[i].thread \in Threads \cup {NoThread}
    /\ \A i, j \in Stops(events) : i < j => events[i].n < events[j].n
    /\ \A n \in first + 1..last : \E i \in Stops(events) : events[i].n = n

NumberedInv ==
    /\ Numbered(queue, taken, made)
    /\ Numbered(kept.queue, kept.taken, kept.made)

\* Which call may be where, and what it has found when it is there.
CallInv ==
    /\ pc = "idle" => call = "none"
    /\ launching => pc \in {"initialize", "configure", "untilStop"} \cup SnapshotPcs
    /\ pc \in {"initialize", "configure"} => launching
    /\ launching /\ pc \notin SnapshotPcs => state = "Disconnected" /\ activeThread = NoThread
    /\ launching /\ pc \in SnapshotPcs => activeThread # NoThread
    /\ pc \in {"initialize", "configure"} =>
          queue = <<>> /\ made = 0 /\ taken = 0 /\ (up => prog = "unborn")
    /\ pc \in {"initialize", "configure", "resume"} => initialSnapshot = NoSnapshot
    /\ pc = "resume" => call \in {"resume", "pause", "stepBack"}
    /\ pc = "resume" /\ call # "pause" => activeThread # NoThread
    /\ pc \in SnapshotPcs => draft.life = state

\* A program that goes on has not told of its end, and after its end it never stops.
EndsInv ==
    /\ prog # "gone" => Ends(queue) = {}
    /\ up => /\ \A i \in Stops(queue), j \in Ends(queue) : i < j
             /\ prog = "gone" /\ Stops(queue) # {} => Ends(queue) # {}

\* Only a program that has begun stops, and its last stop says of which thread it is if
\* the program told it, ...
NamedInv ==
    up => /\ prog = "unborn" => Stops(queue) = {}
          /\ named => \A i \in Stops(queue) : queue[i].n = made => queue[i].thread # NoThread

\* ... so a program that stands while the session says "Running" has not been heard.
RunningInv ==
    up /\ state = "Running" => prog = "running" \/ News \/ (prog = "stopped" /\ ~named)

\* As long as no resume crossed a stop, at most the last stop is unread, ...
OneStopInv ==
    up /\ ~crossed =>
        /\ made <= taken + 1
        /\ prog \in {"unborn", "running"} => made = taken
        /\ \A i \in Stops(queue) : queue[i].thread \in {at, NoThread}

\* ... a session that says "Stopped" stands where the program stands, ...
StoppedInv ==
    up /\ ~crossed /\ ~late /\ state = "Stopped" =>
        /\ made = taken
        /\ \/ prog = "stopped" /\ at = activeThread
           \/ prog = "gone" /\ Ends(queue) # {}

\* ... and the snapshots are those of the stop read last.
SnapshotInv ==
    ~crossed /\ ~late =>
        /\ pc \in FramePcs /\ draft.life = "Stopped" =>
              draft.frame = taken /\ made = taken /\ prog \in {"stopped", "gone"}
        /\ initialSnapshot.life = "Stopped" =>
              initialSnapshot.frame = taken /\ made = taken /\ prog \in {"stopped", "gone"}

Inv ==
    /\ TypeOK
    /\ NumberedInv /\ NamedInv /\ CallInv /\ EndsInv /\ RunningInv
    /\ OneStopInv /\ StoppedInv /\ SnapshotInv

-----------------------------------------------------------------------------
(* Queues: what an event more or less does to the stops and the ends.      *)

LEMMA StopsAppend ==
    ASSUME NEW q \in Seq(Event), NEW e \in Event
    PROVE  /\ Stops(Append(q, e)) = Stops(q) \cup (IF IsStop(e) THEN {Len(q) + 1} ELSE {})
           /\ Ends(Append(q, e)) =
                 Ends(q) \cup (IF e.kind = "terminated" THEN {Len(q) + 1} ELSE {})
           /\ \A i \in 1..Len(q) : Append(q, e)[i] = q[i]
           /\ Append(q, e)[Len(q) + 1] = e
BY DEF Stops, Ends, IsStop

LEMMA StopsTail ==
    ASSUME NEW q \in Seq(Event), q # <<>>
    PROVE  /\ Stops(Tail(q)) = {i - 1 : i \in Stops(q) \ {1}}
           /\ Ends(Tail(q)) = {i - 1 : i \in Ends(q) \ {1}}
           /\ \A i \in 1..Len(q) - 1 : Tail(q)[i] = q[i + 1]
<1>1. Len(Tail(q)) = Len(q) - 1 /\ Len(q) \in Nat \ {0}
  BY DEF Stops
<1>2. \A i \in 1..Len(q) - 1 : Tail(q)[i] = q[i + 1]
  OBVIOUS
<1>3. Stops(Tail(q)) = {i - 1 : i \in Stops(q) \ {1}}
  <2>1. ASSUME NEW i \in Stops(Tail(q)) PROVE i + 1 \in Stops(q) \ {1} /\ i = (i + 1) - 1
    BY <1>1, <1>2 DEF Stops
  <2>2. ASSUME NEW i \in Stops(q) \ {1} PROVE i - 1 \in Stops(Tail(q))
    <3>1. i - 1 \in 1..Len(q) - 1 /\ (i - 1) + 1 = i /\ IsStop(q[i])
      BY <1>1 DEF Stops
    <3> QED
      BY <1>1, <1>2, <3>1 DEF Stops
  <2> QED
    BY <2>1, <2>2
<1>4. Ends(Tail(q)) = {i - 1 : i \in Ends(q) \ {1}}
  <2>1. ASSUME NEW i \in Ends(Tail(q)) PROVE i + 1 \in Ends(q) \ {1} /\ i = (i + 1) - 1
    BY <1>1, <1>2 DEF Ends
  <2>2. ASSUME NEW i \in Ends(q) \ {1} PROVE i - 1 \in Ends(Tail(q))
    <3>1. i - 1 \in 1..Len(q) - 1 /\ (i - 1) + 1 = i /\ q[i].kind = "terminated"
      BY <1>1 DEF Ends
    <3> QED
      BY <1>1, <1>2, <3>1 DEF Ends
  <2> QED
    BY <2>1, <2>2
<1> QED
  BY <1>2, <1>3, <1>4

\* A queue with its stops numbered: no stops between equal bounds and the other way
\* round, the first stop has the first number, and numbers name their stop.
LEMMA NumberedFacts ==
    ASSUME NEW q \in Seq(Event), NEW first \in Nat, NEW last \in Nat,
           Numbered(q, first, last)
    PROVE  /\ Stops(q) = {} <=> first = last
           /\ q # <<>> /\ IsStop(q[1]) => q[1].n = first + 1
           /\ \A i, j \in Stops(q) : q[i].n = q[j].n => i = j
<1>1. \A i \in Stops(q) : i \in 1..Len(q) /\ q[i].n \in first + 1..last
  BY DEF Numbered, Stops
<1>2. Stops(q) = {} <=> first = last
  <2>1. CASE first = last
    BY <1>1, <2>1
  <2>2. CASE first # last
    <3>1. first + 1 \in first + 1..last
      BY <2>2 DEF Numbered
    <3> QED
      BY <2>2, <3>1 DEF Numbered
  <2> QED
    BY <2>1, <2>2
<1>3. ASSUME q # <<>>, IsStop(q[1]) PROVE q[1].n = first + 1
  <2>1. 1 \in Stops(q)
    BY <1>3 DEF Stops
  <2>2. first + 1 \in first + 1..last
    BY <1>1, <2>1
  <2>3. PICK i \in Stops(q) : q[i].n = first + 1
    BY <2>2 DEF Numbered
  <2>4. i = 1 \/ 1 < i
    BY <1>1
  <2>5. CASE 1 < i
    BY <1>1, <2>1, <2>3, <2>5 DEF Numbered
  <2> QED
    BY <2>3, <2>4, <2>5
<1>4. ASSUME NEW i \in Stops(q), NEW j \in Stops(q), q[i].n = q[j].n PROVE i = j
  <2>1. i < j \/ j < i \/ i = j
    BY <1>1
  <2>2. q[i].n \in Nat /\ q[j].n \in Nat
    BY <1>1
  <2> QED
    BY <1>4, <2>1, <2>2 DEF Numbered
<1> QED
  BY <1>2, <1>3, <1>4

LEMMA NumberedEmpty == ASSUME NEW n \in Nat PROVE Numbered(<<>>, n, n)
<1>1. Stops(<<>>) = {}
  BY DEF Stops
<1> QED
  BY <1>1 DEF Numbered

LEMMA NumberedTold ==
    ASSUME NEW q \in Seq(Event), NEW first \in Nat, NEW last \in Nat,
           Numbered(q, first, last), NEW e \in Event, ~IsStop(e)
    PROVE  Numbered(Append(q, e), first, last)
<1>1. Stops(Append(q, e)) = Stops(q) /\ \A i \in Stops(q) : Append(q, e)[i] = q[i]
  BY StopsAppend DEF Stops
<1> QED
  BY <1>1 DEF Numbered

LEMMA NumberedStop ==
    ASSUME NEW q \in Seq(Event), NEW first \in Nat, NEW last \in Nat,
           Numbered(q, first, last), NEW t \in Threads \cup {NoThread}, last < MaxStops
    PROVE  Numbered(Append(q, StoppedEvent(t, last + 1)), first, last + 1)
<1> DEFINE e == StoppedEvent(t, last + 1)
           r == Append(q, e)
<1>1. e \in Event /\ IsStop(e) /\ e.n = last + 1 /\ e.thread = t
  <2>1. last + 1 \in 0..MaxStops
    BY SessionAssumption
  <2> QED
    BY <2>1, EventTypes DEF StoppedEvent, IsStop
<1> HIDE DEF e
<1>2. /\ Stops(r) = Stops(q) \cup {Len(q) + 1}
      /\ \A i \in Stops(q) : r[i] = q[i] /\ i \in 1..Len(q)
      /\ r[Len(q) + 1] = e
  BY <1>1, StopsAppend DEF Stops
<1> HIDE DEF r
<1>3. Len(q) \in Nat
  OBVIOUS
<1>4. first <= last + 1
  BY DEF Numbered
<1>5. ASSUME NEW i \in Stops(r)
      PROVE  r[i].n \in first + 1..last + 1 /\ r[i].thread \in Threads \cup {NoThread}
  BY <1>1, <1>2, <1>4 DEF Numbered
<1>6. ASSUME NEW i \in Stops(r), NEW j \in Stops(r), i < j PROVE r[i].n < r[j].n
  <2>1. i \in Stops(q)
    BY <1>2, <1>3, <1>6
  <2>2. r[i].n \in first + 1..last /\ r[i] = q[i]
    BY <1>2, <2>1 DEF Numbered
  <2>3. CASE j \in Stops(q)
    BY <1>2, <1>6, <2>1, <2>3 DEF Numbered
  <2>4. CASE j = Len(q) + 1
    BY <1>1, <1>2, <2>2, <2>4
  <2> QED
    BY <1>2, <2>3, <2>4
<1>7. ASSUME NEW n \in first + 1..last + 1 PROVE \E i \in Stops(r) : r[i].n = n
  <2>1. CASE n = last + 1
    BY <1>1, <1>2, <2>1
  <2>2. CASE n # last + 1
    <3>1. n \in first + 1..last
      BY <2>2
    <3> QED
      BY <1>2, <3>1 DEF Numbered
  <2> QED
    BY <2>1, <2>2
<1> QED
  BY <1>4, <1>5, <1>6, <1>7 DEF Numbered, r, e

LEMMA NumberedRead ==
    ASSUME NEW q \in Seq(Event), NEW first \in Nat, NEW last \in Nat,
           Numbered(q, first, last), q # <<>>
    PROVE  /\ ~IsStop(q[1]) => Numbered(Tail(q), first, last)
           /\ IsStop(q[1]) => Numbered(Tail(q), first + 1, last)
<1> DEFINE r == Tail(q)
<1>1. /\ Stops(r) = {i - 1 : i \in Stops(q) \ {1}}
      /\ \A i \in 1..Len(q) - 1 : r[i] = q[i + 1]
  BY StopsTail
<1> HIDE DEF r
<1>2. \A i \in Stops(r) : i \in 1..Len(q) - 1 /\ i + 1 \in Stops(q) /\ r[i] = q[i + 1]
  BY <1>1 DEF Stops
<1>3. \A i \in Stops(q) : i # 1 => i - 1 \in Stops(r) /\ r[i - 1] = q[i]
  <2> SUFFICES ASSUME NEW i \in Stops(q), i # 1 PROVE i - 1 \in Stops(r) /\ r[i - 1] = q[i]
    OBVIOUS
  <2>1. i - 1 \in 1..Len(q) - 1 /\ (i - 1) + 1 = i
    BY DEF Stops
  <2> QED
    BY <1>1, <2>1
<1>4. \A i, j \in Stops(r) : i < j => r[i].n < r[j].n
  <2> SUFFICES ASSUME NEW i \in Stops(r), NEW j \in Stops(r), i < j PROVE r[i].n < r[j].n
    OBVIOUS
  <2>1. i + 1 < j + 1
    BY <1>2
  <2> QED
    BY <1>2, <2>1 DEF Numbered
<1>5. \A i \in Stops(r) :
         r[i].n \in first + 1..last /\ r[i].thread \in Threads \cup {NoThread}
  BY <1>2 DEF Numbered
<1>6. CASE ~IsStop(q[1])
  <2>1. 1 \notin Stops(q)
    BY <1>6 DEF Stops
  <2>2. \A n \in first + 1..last : \E i \in Stops(r) : r[i].n = n
    BY <1>3, <2>1 DEF Numbered
  <2> QED
    BY <1>4, <1>5, <1>6, <2>2 DEF Numbered, r
<1>7. CASE IsStop(q[1])
  <2>1. q[1].n = first + 1 /\ 1 \in Stops(q)
    BY <1>7, NumberedFacts DEF Stops
  <2>2. first + 1 <= last
    BY <2>1 DEF Numbered
  <2>3. \A i \in Stops(r) : r[i].n \in first + 2..last
    <3> SUFFICES ASSUME NEW i \in Stops(r) PROVE r[i].n \in first + 2..last
      OBVIOUS
    <3>1. 1 < i + 1 /\ r[i] = q[i + 1] /\ i + 1 \in Stops(q)
      BY <1>2
    <3>2. q[1].n < q[i + 1].n
      BY <2>1, <3>1 DEF Numbered
    <3> QED
      BY <1>5, <2>1, <3>1, <3>2
  <2>4. \A n \in first + 2..last : \E i \in Stops(r) : r[i].n = n
    <3> SUFFICES ASSUME NEW n \in first + 2..last PROVE \E i \in Stops(r) : r[i].n = n
      OBVIOUS
    <3>1. n \in first + 1..last /\ n # first + 1
      OBVIOUS
    <3>2. PICK i \in Stops(q) : q[i].n = n
      BY <3>1 DEF Numbered
    <3> QED
      BY <1>3, <2>1, <3>1, <3>2
  <2>5. (first + 1) + 1 = first + 2
    OBVIOUS
  <2> QED
    BY <1>4, <1>5, <1>7, <2>2, <2>3, <2>4, <2>5 DEF Numbered, r
<1> QED
  BY <1>6, <1>7

LEMMA QueueWords ==
    /\ Says("stopped") <=> Stops(queue) # {}
    /\ News <=> Stops(queue) \cup Ends(queue) # {}
    /\ News' <=> Stops(queue') \cup Ends(queue') # {}
BY DEF Says, News, Stops, Ends, IsStop

\* An event that is no stop joins the queue, or the one at the head leaves it.
LEMMA QueueTold ==
    ASSUME TypeOK, NEW e \in Event, ~IsStop(e), queue' = Append(queue, e)
    PROVE  /\ Stops(queue') = Stops(queue)
           /\ \A i \in Stops(queue) : queue'[i] = queue[i]
           /\ e.kind = "terminated" => Ends(queue') = Ends(queue) \cup {Len(queue) + 1}
           /\ e.kind # "terminated" => Ends(queue') = Ends(queue)
<1>1. queue \in Seq(Event)
  BY DEF TypeOK
<1>2. /\ Stops(queue') = Stops(queue) \cup (IF IsStop(e) THEN {Len(queue) + 1} ELSE {})
      /\ Ends(queue') =
            Ends(queue) \cup (IF e.kind = "terminated" THEN {Len(queue) + 1} ELSE {})
      /\ \A i \in 1..Len(queue) : queue'[i] = queue[i]
  BY <1>1, StopsAppend
<1>3. \A i \in Stops(queue) : i \in 1..Len(queue)
  BY DEF Stops
<1> QED
  BY <1>2, <1>3

LEMMA QueueRead ==
    ASSUME TypeOK, queue # <<>>, queue' = Tail(queue)
    PROVE  /\ Stops(queue') = {i - 1 : i \in Stops(queue) \ {1}}
           /\ Ends(queue') = {i - 1 : i \in Ends(queue) \ {1}}
           /\ \A i \in Stops(queue') : i + 1 \in Stops(queue) /\ queue'[i] = queue[i + 1]
           /\ ~IsStop(Head1) => 1 \notin Stops(queue)
           /\ Head1.kind # "terminated" => 1 \notin Ends(queue)
           /\ IsStop(Head1) => 1 \in Stops(queue)
           /\ Head1.kind = "terminated" => 1 \in Ends(queue)
<1>1. /\ Stops(queue') = {i - 1 : i \in Stops(queue) \ {1}}
      /\ Ends(queue') = {i - 1 : i \in Ends(queue) \ {1}}
      /\ \A i \in 1..Len(queue) - 1 : queue'[i] = queue[i + 1]
  BY StopsTail DEF TypeOK
<1>2. ASSUME NEW i \in Stops(queue') PROVE i + 1 \in Stops(queue) /\ queue'[i] = queue[i + 1]
  <2>1. PICK j \in Stops(queue) \ {1} : i = j - 1
    BY <1>1
  <2>2. j \in 1..Len(queue) /\ Len(queue) \in Nat
    BY DEF Stops, TypeOK
  <2>3. i + 1 = j /\ i \in 1..Len(queue) - 1
    BY <2>1, <2>2
  <2> QED
    BY <1>1, <2>1, <2>3
<1>3. 1 \in 1..Len(queue)
  BY DEF TypeOK
<1> QED
  BY <1>1, <1>2, <1>3 DEF Stops, Ends, Head1, IsStop

-----------------------------------------------------------------------------
(* What a step does to the queue and the numbers of its stops.             *)

KeepsOrDrops == kept' \in {kept, NoSession}
Quiet == UNCHANGED <<queue, taken, made>> /\ KeepsOrDrops
Tells ==
    /\ \/ \E e \in Event : ~IsStop(e) /\ queue' = Append(queue, e)
       \/ \E e, f \in Event :
             ~IsStop(e) /\ ~IsStop(f) /\ queue' = Append(Append(queue, e), f)
    /\ UNCHANGED <<taken, made, kept>>
Reads ==
    /\ queue # <<>> /\ ~IsStop(Head1) /\ queue' = Tail(queue)
    /\ UNCHANGED <<taken, made>> /\ KeepsOrDrops
Drops ==
    /\ queue # <<>> /\ IsStop(Head1) /\ Head1.thread = NoThread
    /\ queue' = Tail(queue) /\ taken' = Head1.n
    /\ UNCHANGED made /\ KeepsOrDrops
Restores ==
    /\ ~up' /\ queue' = kept.queue /\ taken' = kept.taken /\ made' = kept.made
    /\ kept' = NoSession
Starts ==
    /\ queue' = <<>> /\ taken' = 0 /\ made' = 0
    /\ \/ kept' = NoSession
       \/ kept'.queue = queue /\ kept'.taken = taken /\ kept'.made = made

LEMMA GiveUpQueue == GiveUp => Quiet \/ Restores
BY DEF GiveUp, GiveUpAfter, Quiet, Restores, KeepsOrDrops

LEMMA AfterVariablesQueue ==
    ASSUME NEW s, AfterVariables(s) PROVE KeepsOrDrops
BY DEF AfterVariables, Later, Give, KeepsOrDrops

LEMMA SnapshotRequestQueue ==
    ASSUME NEW answered \in BOOLEAN, SnapshotRequest(answered) \/ ExceptionAnswered
    PROVE  Quiet \/ Restores
<1>1. CASE HitsAnswered(answered)
  BY <1>1 DEF HitsAnswered, Later, Quiet, KeepsOrDrops, envVars
<1>2. CASE ThreadsAnswered(answered)
  BY <1>2, GiveUpQueue DEF ThreadsAnswered, Later, Quiet, KeepsOrDrops, envVars
<1>3. CASE StacksAnswered(answered)
  BY <1>3, GiveUpQueue DEF StacksAnswered, Later, Quiet, KeepsOrDrops, envVars
<1>4. CASE VariablesAnswered(answered)
  BY <1>4, GiveUpQueue, AfterVariablesQueue DEF VariablesAnswered, Quiet, envVars
<1>5. CASE BreakListAnswered(answered)
  BY <1>5, AfterVariablesQueue DEF BreakListAnswered, Quiet, envVars
<1>6. CASE ExceptionAnswered
  BY <1>6, AfterVariablesQueue DEF ExceptionAnswered, Quiet, envVars
<1> QED
  BY <1>1, <1>2, <1>3, <1>4, <1>5, <1>6 DEF SnapshotRequest

LEMMA ReadQueue ==
    ASSUME TypeOK, ReadEvent
    PROVE  Reads \/ ReadStopped \/ Drops \/ Restores
<1>1. CASE ReadTerminated
  <2>1. Head1.kind = "terminated" /\ queue # <<>> /\ queue' = Tail(queue) /\ kept' = NoSession
        /\ UNCHANGED <<taken, made>>
    BY <1>1 DEF ReadTerminated, ReadsEvents, Ended, envVars
  <2> QED
    BY <2>1 DEF Reads, KeepsOrDrops, IsStop
<1>2. CASE ReadThread
  <2>1. Head1.kind = "thread" /\ queue # <<>> /\ queue' = Tail(queue)
        /\ UNCHANGED <<taken, made>>
    BY <1>2 DEF ReadThread, ReadsEvents, Ended, envVars, Skipped, Consumed
  <2>2. KeepsOrDrops
    BY <1>2 DEF ReadThread, Skipped, Ended, KeepsOrDrops
  <2> QED
    BY <2>1, <2>2 DEF Reads, IsStop
<1>3. CASE ReadOther
  <2>1. Head1.kind \in Chatter \cup {"continued"} /\ queue # <<>> /\ queue' = Tail(queue)
        /\ kept' = kept
        /\ UNCHANGED <<taken, made>>
    BY <1>3 DEF ReadOther, ReadsEvents, envVars, historyVars, Skipped, Consumed
  <2> QED
    BY <2>1, SessionAssumption DEF Reads, KeepsOrDrops, IsStop
<1>4. CASE ReadUnreadableStop
  BY <1>4 DEF ReadUnreadableStop, ReadsEvents, GiveUpAfter, Drops, Restores, KeepsOrDrops, IsStop
<1> QED
  BY <1>1, <1>2, <1>3, <1>4 DEF ReadEvent

LEMMA EnvironmentQueue ==
    ASSUME TypeOK, Environment
    PROVE  Quiet \/ Tells \/ \E t \in Threads, told \in BOOLEAN : ProgramStops(t, told)
<1>1. ASSUME NEW t \in Threads, ThreadExits(t) PROVE Tells
  <2>1. ThreadEvent(t) \in Event /\ TerminatedEvent \in Event
        /\ ~IsStop(ThreadEvent(t)) /\ ~IsStop(TerminatedEvent)
    BY EventTypes DEF ThreadEvent, TerminatedEvent, IsStop
  <2>2. queue \o <<ThreadEvent(t), TerminatedEvent>> =
        Append(Append(queue, ThreadEvent(t)), TerminatedEvent)
    BY <2>1 DEF TypeOK
  <2> QED
    BY <1>1, <2>1, <2>2 DEF ThreadExits, Tells, callVars, historyVars
<1>2. ASSUME NEW k \in Chatter, AdapterChatters(k) PROVE Tells
  <2>1. ChatterEvent(k) \in Event /\ ~IsStop(ChatterEvent(k))
    BY EventTypes, SessionAssumption DEF ChatterEvent, IsStop, TypeOK, EnvironmentOK
  <2> QED
    BY <1>2, <2>1 DEF AdapterChatters, Tells, callVars, historyVars
<1>5. CASE ProgramContinues
  <2>1. ContinuedEvent \in Event /\ ~IsStop(ContinuedEvent)
    BY EventTypes DEF ContinuedEvent, IsStop
  <2> QED
    BY <1>5, <2>1 DEF ProgramContinues, Tells, callVars
<1>3. CASE LateResume
  BY <1>3 DEF LateResume, Quiet, KeepsOrDrops, callVars
<1>4. CASE AdapterDies
  BY <1>4 DEF AdapterDies, Quiet, KeepsOrDrops, callVars, historyVars
<1> QED
  BY <1>1, <1>2, <1>3, <1>4, <1>5 DEF Environment

LEMMA ProceedQueue ==
    ASSUME TypeOK, Proceed
    PROVE  Quiet \/ Tells \/ Reads \/ Restores \/ ReadStopped \/ Drops
<1>1. CASE PollEnds
  BY <1>1 DEF PollEnds, Quiet, KeepsOrDrops, envVars, historyVars
<1>2. CASE Resumed \/ ResumeTimesOut
  BY <1>2 DEF Resumed, ResumeTimesOut, Quiet, KeepsOrDrops, historyVars
<1>3. CASE Terminated
  <2>1. TerminatedEvent \in Event /\ ~IsStop(TerminatedEvent)
    BY EventTypes DEF TerminatedEvent, IsStop
  <2> QED
    BY <1>3, <2>1 DEF Terminated, Tells, historyVars
<1>4. ASSUME NEW answered \in BOOLEAN,
             Initialized(answered) \/ Configured(answered) \/ BreakpointsSet(answered)
      PROVE  Quiet \/ Restores
  BY <1>4, GiveUpQueue
     DEF Initialized, Configured, BreakpointsSet, Quiet, KeepsOrDrops, envVars, historyVars
<1>5. ASSUME NEW answered \in BOOLEAN, ThreadsAfterExit(answered)
      PROVE  Quiet
  BY <1>5 DEF ThreadsAfterExit, Quiet, KeepsOrDrops, Ended, envVars
<1> QED
  BY <1>1, <1>2, <1>3, <1>4, <1>5, ReadQueue, GiveUpQueue, SnapshotRequestQueue
     DEF Proceed, UntilStopTimesOut, ResumeRefused, TerminateFails, Answered

LEMMA CallerQueue ==
    ASSUME TypeOK, Caller \/ Poll
    PROVE  Quiet \/ \E c \in {"launch", "restart"} : Launch(c)
<1>1. CASE Poll
  BY <1>1 DEF Poll, Quiet, KeepsOrDrops, envVars
<1>2. CASE Sync
  BY <1>2 DEF Sync, Quiet, KeepsOrDrops, envVars, callVars
<1>3. CASE Terminate \/ Disconnect
  BY <1>3 DEF Terminate, Disconnect, Quiet, KeepsOrDrops, envVars, callVars
<1>4. ASSUME NEW r \in Resumes, Resume(r) PROVE Quiet
  BY <1>4 DEF Resume, Quiet, KeepsOrDrops, envVars
<1>5. ASSUME NEW q \in DOMAIN Queries, Ask(q) PROVE Quiet
  BY <1>5 DEF Ask, Quiet, KeepsOrDrops, envVars
<1>6. ASSUME NEW p \in Paths, NEW some \in BOOLEAN, SetBreakpoints(p, some) PROVE Quiet
  BY <1>6 DEF SetBreakpoints, Quiet, KeepsOrDrops, envVars
<1> QED
  BY <1>1, <1>2, <1>3, <1>4, <1>5, <1>6 DEF Caller

LEMMA LaunchQueue ==
    ASSUME NEW c \in {"launch", "restart"}, Launch(c)
    PROVE  Starts
BY DEF Launch, Starts

LEMMA NumberedStep == TypeOK /\ NumberedInv /\ [Next]_vars => NumberedInv'
<1> SUFFICES ASSUME TypeOK, NumberedInv, [Next]_vars PROVE NumberedInv'
  OBVIOUS
<1>0. /\ queue \in Seq(Event) /\ taken \in Nat /\ made \in Nat
      /\ kept.queue \in Seq(Event) /\ kept.taken \in Nat /\ kept.made \in Nat
      /\ Numbered(queue, taken, made) /\ Numbered(kept.queue, kept.taken, kept.made)
  BY SessionTypes, SessionAssumption DEF TypeOK, CallOK, EnvironmentOK, HistoryOK, NumberedInv
<1>1. Numbered(NoSession.queue, NoSession.taken, NoSession.made)
  BY SessionTypes, NumberedEmpty
<1>2. ASSUME KeepsOrDrops PROVE Numbered(kept.queue, kept.taken, kept.made)'
  BY <1>0, <1>1, <1>2 DEF KeepsOrDrops
<1>3. CASE Quiet
  BY <1>0, <1>2, <1>3 DEF Quiet, NumberedInv
<1>4. CASE Tells
  <2>1. ASSUME NEW e \in Event, NEW f \in Event, ~IsStop(e), ~IsStop(f)
        PROVE  /\ Numbered(Append(queue, e), taken, made)
               /\ Numbered(Append(Append(queue, e), f), taken, made)
    <3>1. Append(queue, e) \in Seq(Event) /\ Numbered(Append(queue, e), taken, made)
      BY <1>0, <2>1, NumberedTold
    <3> QED
      BY <1>0, <2>1, <3>1, NumberedTold
  <2>2. Numbered(queue', taken, made)
    BY <1>4, <2>1 DEF Tells
  <2> QED
    BY <1>0, <1>4, <2>2 DEF Tells, NumberedInv
<1>5. CASE Reads
  BY <1>0, <1>2, <1>5, NumberedRead DEF Reads, NumberedInv, Head1
<1>6. CASE ReadStopped
  <2>1. /\ queue # <<>> /\ IsStop(queue[1]) /\ queue' = Tail(queue) /\ taken' = queue[1].n
        /\ made' = made /\ kept' = kept
    BY <1>6 DEF ReadStopped, ReadsEvents, envVars, Head1, IsStop
  <2>2. taken' = taken + 1
    BY <1>0, <2>1, NumberedFacts
  <2> QED
    BY <1>0, <2>1, <2>2, NumberedRead DEF NumberedInv
<1>11. CASE Drops
  <2>1. /\ queue # <<>> /\ IsStop(queue[1]) /\ queue' = Tail(queue) /\ taken' = queue[1].n
        /\ made' = made
    BY <1>11 DEF Drops, Head1
  <2>2. taken' = taken + 1
    BY <1>0, <2>1, NumberedFacts
  <2>3. Numbered(kept.queue, kept.taken, kept.made)'
    BY <1>2, <1>11 DEF Drops
  <2>4. Numbered(queue, taken, made)'
    BY <1>0, <2>1, <2>2, NumberedRead
  <2> QED
    BY <2>3, <2>4 DEF NumberedInv
<1>7. CASE Restores
  BY <1>0, <1>1, <1>7 DEF Restores, NumberedInv
<1>8. ASSUME NEW t \in Threads, NEW told \in BOOLEAN, ProgramStops(t, told) PROVE NumberedInv'
  <2>1. /\ made < MaxStops /\ made' = made + 1
        /\ \E u \in Threads \cup {NoThread} : queue' = Append(queue, StoppedEvent(u, made + 1))
        /\ UNCHANGED <<taken, kept>>
    BY <1>8 DEF ProgramStops, callVars, historyVars
  <2>2. Numbered(queue', taken, made + 1)
    BY <1>0, <2>1, NumberedStop
  <2> QED
    BY <1>0, <2>1, <2>2 DEF NumberedInv
<1>9. ASSUME NEW c \in {"launch", "restart"}, Launch(c) PROVE NumberedInv'
  <2>1. Starts
    BY <1>9, LaunchQueue
  <2>2. Numbered(kept.queue, kept.taken, kept.made)'
    BY <1>0, <1>1, <2>1 DEF Starts
  <2>3. Numbered(queue', taken', made')
    BY <2>1, NumberedEmpty DEF Starts
  <2> QED
    BY <2>2, <2>3 DEF NumberedInv
<1>10. CASE UNCHANGED vars
  BY <1>3, <1>10 DEF vars, historyVars, envVars, callVars, Quiet, KeepsOrDrops
<1> QED
  BY <1>3, <1>4, <1>5, <1>6, <1>7, <1>8, <1>9, <1>10, <1>11, EnvironmentQueue,
     ProceedQueue, CallerQueue DEF Next

-----------------------------------------------------------------------------
(* Whether the last stop is named.                                         *)

NamedKept == named' = named /\ (up' => up) /\ (prog' = "unborn" => prog = "unborn")

LEMMA GiveUpNamed == GiveUp => NamedKept
BY DEF GiveUp, GiveUpAfter, NamedKept

LEMMA NamedProceed == Proceed => NamedKept
<1>1. ASSUME NEW answered \in BOOLEAN, SnapshotRequest(answered) \/ ExceptionAnswered
      PROVE  NamedKept
  BY <1>1, GiveUpNamed
     DEF SnapshotRequest, HitsAnswered, ThreadsAnswered, StacksAnswered, VariablesAnswered,
         BreakListAnswered, ExceptionAnswered, NamedKept, envVars
<1>2. ASSUME ReadEvent PROVE NamedKept
  BY <1>2 DEF ReadEvent, ReadStopped, ReadUnreadableStop, ReadTerminated, ReadThread, ReadOther,
              GiveUpAfter, NamedKept, envVars
<1>3. ASSUME NEW answered \in BOOLEAN,
             \/ Initialized(answered) \/ Configured(answered) \/ BreakpointsSet(answered)
             \/ ThreadsAfterExit(answered)
      PROVE  NamedKept
  BY <1>3, GiveUpNamed
     DEF Initialized, Configured, BreakpointsSet, ThreadsAfterExit, NamedKept, envVars
<1>4. CASE PollEnds \/ Resumed \/ ResumeTimesOut \/ Terminated
  BY <1>4 DEF PollEnds, Resumed, ResumeTimesOut, Terminated, NamedKept, envVars
<1>5. CASE UntilStopTimesOut \/ ResumeRefused \/ TerminateFails \/ Answered
  BY <1>5, GiveUpNamed DEF UntilStopTimesOut, ResumeRefused, TerminateFails, Answered
<1> QED
  BY <1>1, <1>2, <1>3, <1>4, <1>5 DEF Proceed

LEMMA NamedEnvironment ==
    Environment =>
        NamedKept \/ \E t \in Threads, told \in BOOLEAN : ProgramStops(t, told)
BY DEF Environment, ProgramContinues, ThreadExits, AdapterChatters, LateResume, AdapterDies,
       NamedKept

LEMMA NamedCaller ==
    Caller \/ Poll => NamedKept \/ \E c \in {"launch", "restart"} : Launch(c)
BY DEF Caller, Poll, Sync, Terminate, Disconnect, Resume, Ask, SetBreakpoints, NamedKept, envVars

LEMMA TellsStops ==
    ASSUME TypeOK, Tells
    PROVE  Stops(queue') = Stops(queue) /\ \A i \in Stops(queue) : queue'[i] = queue[i]
<1>1. ASSUME NEW q \in Seq(Event), NEW e \in Event, ~IsStop(e)
      PROVE  /\ Append(q, e) \in Seq(Event) /\ Stops(Append(q, e)) = Stops(q)
             /\ \A i \in Stops(q) : Append(q, e)[i] = q[i]
  <2>1. \A i \in Stops(q) : i \in 1..Len(q)
    BY DEF Stops
  <2>2. /\ Stops(Append(q, e)) = Stops(q) \cup (IF IsStop(e) THEN {Len(q) + 1} ELSE {})
        /\ \A i \in 1..Len(q) : Append(q, e)[i] = q[i]
    BY StopsAppend
  <2> QED
    BY <1>1, <2>1, <2>2
<1>2. CASE \E e \in Event : ~IsStop(e) /\ queue' = Append(queue, e)
  BY <1>1, <1>2 DEF TypeOK
<1>3. CASE \E e, f \in Event :
              ~IsStop(e) /\ ~IsStop(f) /\ queue' = Append(Append(queue, e), f)
  <2>1. PICK e \in Event, f \in Event :
               ~IsStop(e) /\ ~IsStop(f) /\ queue' = Append(Append(queue, e), f)
    BY <1>3
  <2> DEFINE mid == Append(queue, e)
  <2>2. /\ mid \in Seq(Event) /\ Stops(mid) = Stops(queue)
        /\ \A i \in Stops(queue) : mid[i] = queue[i]
    BY <1>1, <2>1 DEF TypeOK
  <2>3. queue' = Append(mid, f)
    BY <2>1
  <2> HIDE DEF mid
  <2>4. Stops(queue') = Stops(mid) /\ \A i \in Stops(mid) : queue'[i] = mid[i]
    BY <1>1, <2>1, <2>2, <2>3
  <2> QED
    BY <2>2, <2>4
<1> QED
  BY <1>2, <1>3 DEF Tells

LEMMA NamedStep == TypeOK /\ NumberedInv /\ NamedInv /\ [Next]_vars => NamedInv'
<1> SUFFICES ASSUME TypeOK, NumberedInv, NamedInv, [Next]_vars PROVE NamedInv'
  OBVIOUS
<1>0. /\ queue \in Seq(Event) /\ taken \in Nat /\ made \in Nat
      /\ Numbered(queue, taken, made)
  BY SessionAssumption DEF TypeOK, EnvironmentOK, HistoryOK, NumberedInv
<1>1. ASSUME NamedKept, made' = made, Stops(queue') = Stops(queue),
             \A i \in Stops(queue) : queue'[i] = queue[i]
      PROVE  NamedInv'
  BY <1>1 DEF NamedInv, NamedKept
<1>2. ASSUME NamedKept, made' = made, queue # <<>>, queue' = Tail(queue)
      PROVE  NamedInv'
  <2>1. \A i \in Stops(queue') : i + 1 \in Stops(queue) /\ queue'[i] = queue[i + 1]
    BY <1>2, QueueRead
  <2> QED
    BY <1>2, <2>1 DEF NamedInv, NamedKept
<1>3. ASSUME Quiet \/ Tells \/ Reads \/ Restores \/ ReadStopped \/ Drops, NamedKept
      PROVE  NamedInv'
  <2>1. CASE Quiet
    BY <1>1, <1>3, <2>1 DEF Quiet
  <2>2. CASE Tells
    BY <1>1, <1>3, <2>2, TellsStops DEF Tells
  <2>3. CASE Reads \/ Drops
    BY <1>2, <1>3, <2>3 DEF Reads, Drops
  <2>4. CASE ReadStopped
    BY <1>2, <1>3, <2>4 DEF ReadStopped, ReadsEvents, envVars
  <2>5. CASE Restores
    BY <2>5 DEF Restores, NamedInv
  <2> QED
    BY <1>3, <2>1, <2>2, <2>3, <2>4, <2>5
<1>4. ASSUME NEW t \in Threads, NEW told \in BOOLEAN, ProgramStops(t, told) PROVE NamedInv'
  <2> DEFINE e == StoppedEvent(IF told THEN t ELSE NoThread, made + 1)
  <2>1. /\ queue' = Append(queue, e) /\ made' = made + 1 /\ named' = told /\ made < MaxStops
        /\ prog' = "stopped"
    BY <1>4 DEF ProgramStops
  <2>2. /\ e \in Event /\ IsStop(e)
        /\ told => e.thread # NoThread
    <3>1. made + 1 \in 0..MaxStops
      BY <2>1, SessionAssumption DEF TypeOK, EnvironmentOK
    <3> QED
      BY <3>1, EventTypes, SessionAssumption DEF StoppedEvent, IsStop
  <2> HIDE DEF e
  <2>3. /\ Stops(queue') = Stops(queue) \cup {Len(queue) + 1}
        /\ \A i \in 1..Len(queue) : queue'[i] = queue[i]
        /\ queue'[Len(queue) + 1] = e
    BY <1>0, <2>1, <2>2, StopsAppend
  <2>4. \A i \in Stops(queue) : i \in 1..Len(queue) /\ queue[i].n \in taken + 1..made
    BY DEF Stops, NumberedInv, Numbered
  <2>5. \A i \in Stops(queue) : queue'[i].n # made'
    BY <1>0, <2>1, <2>3, <2>4
  <2> QED
    BY <2>1, <2>2, <2>3, <2>5 DEF NamedInv
<1>5. ASSUME NEW c \in {"launch", "restart"}, Launch(c) PROVE NamedInv'
  <2>1. queue' = <<>>
    BY <1>5 DEF Launch
  <2>2. Stops(queue') = {}
    BY <2>1 DEF Stops
  <2> QED
    BY <2>2 DEF NamedInv
<1>6. CASE UNCHANGED vars
  <2>1. queue' = queue /\ made' = made /\ named' = named /\ up' = up /\ prog' = prog
    BY <1>6 DEF vars, envVars
  <2> QED
    BY <1>1, <2>1 DEF NamedKept
<1> QED
  BY <1>3, <1>4, <1>5, <1>6, EnvironmentQueue, ProceedQueue, CallerQueue, NamedEnvironment,
     NamedProceed, NamedCaller DEF Next

-----------------------------------------------------------------------------
(* Where a call may be.                                                    *)

LEMMA CallReturn == Return => pc' = "idle" /\ call' = "none"
BY DEF Return

\* A call that is over, and one that began to read what it asked for.
LEMMA CallOver ==
    ASSUME CallInv, pc' = "idle", call' = "none" PROVE CallInv'
BY DEF CallInv, launching, SnapshotPcs

LEMMA CallGoesOn ==
    ASSUME CallInv,
           UNCHANGED <<pc, call, state, activeThread, initialSnapshot, draft>>,
           pc \in {"initialize", "configure"} =>
               UNCHANGED <<queue, made, taken>> /\ (up' => up /\ prog' = prog)
    PROVE  CallInv'
BY DEF CallInv, launching

LEMMA CallEnvironment == CallInv /\ Environment => CallInv'
<1> SUFFICES ASSUME CallInv, Environment PROVE CallInv'
  OBVIOUS
<1>1. UNCHANGED <<pc, call, state, activeThread, initialSnapshot, draft, taken>>
  BY DEF Environment, ProgramStops, ProgramContinues, ThreadExits, AdapterChatters, LateResume,
         AdapterDies, sessionVars, callVars, historyVars
<1>2. ASSUME pc \in {"initialize", "configure"}
      PROVE  UNCHANGED <<queue, made>> /\ (up' => up /\ prog' = prog)
  <2>1. up => prog = "unborn"
    BY <1>2 DEF CallInv
  <2>2. AdapterDies
    BY <2>1 DEF Environment, ProgramStops, ProgramContinues, ThreadExits, AdapterChatters,
                LateResume
  <2> QED
    BY <2>2 DEF AdapterDies
<1> QED
  BY <1>1, <1>2, CallGoesOn

\* Where a call waits for nothing but its answer.
PlainPcs == {"poll", "untilStop", "threadExit", "terminate", "query", "setBreakpoints"}

LEMMA CallPlain ==
    ASSUME CallInv, pc' \in PlainPcs, ~launching'
    PROVE  CallInv'
BY DEF CallInv, PlainPcs, SnapshotPcs

LEMMA CallCaller == TypeOK /\ CallInv /\ (Caller \/ Poll) => CallInv'
<1> SUFFICES ASSUME TypeOK, CallInv, Caller \/ Poll PROVE CallInv'
  OBVIOUS
<1>1. ASSUME NEW c \in {"launch", "restart"}, Launch(c) PROVE CallInv'
  <2>1. /\ pc' = "initialize" /\ call' = c /\ state' = "Disconnected"
        /\ activeThread' = NoThread /\ queue' = <<>> /\ made' = 0 /\ taken' = 0
        /\ prog' = "unborn" /\ initialSnapshot' = NoSnapshot
    BY <1>1 DEF Launch, Enter
  <2> QED
    BY <2>1 DEF CallInv, launching, SnapshotPcs
<1>2. CASE Poll
  <2>1. pc' = "poll" /\ call' = "poll"
    BY <1>2 DEF Poll, Enter
  <2> QED
    BY <2>1, CallPlain DEF PlainPcs, launching
<1>3. ASSUME NEW r \in Resumes, Resume(r) PROVE CallInv'
  <2>1. /\ pc' = "resume" /\ call' \in {"resume", "pause", "stepBack"}
        /\ call' # "pause" => activeThread' # NoThread
        /\ initialSnapshot' = NoSnapshot
    BY <1>3 DEF Resume, Enter, MayResume, Synced, sessionVars
  <2> QED
    BY <2>1 DEF CallInv, launching, SnapshotPcs
<1>4. ASSUME NEW q \in DOMAIN Queries, Ask(q) PROVE CallInv'
  <2>1. pc' = "query" /\ call' = "query"
    BY <1>4 DEF Ask, Enter
  <2> QED
    BY <2>1, CallPlain DEF PlainPcs, launching
<1>5. ASSUME NEW p \in Paths, NEW some \in BOOLEAN, SetBreakpoints(p, some) PROVE CallInv'
  <2>1. pc' = "setBreakpoints" /\ call' = "setBreakpoints"
    BY <1>5 DEF SetBreakpoints, Enter
  <2> QED
    BY <2>1, CallPlain DEF PlainPcs, launching
<1>6. CASE Sync
  <2>1. pc = "idle" /\ call = "none" /\ state' = state
    BY <1>6 DEF Sync, CallInv
  <2>2. CASE UNCHANGED callVars
    BY <2>1, <2>2, CallOver DEF callVars
  <2>3. CASE call' = "sync" /\ Enrich(state)
    <3>1. state \in Lives
      BY DEF TypeOK, SessionOK
    <3>2. pc' \in {"hits", "threads"} /\ draft'.life = state'
      BY <2>1, <2>3, <3>1, EnrichTypes
    <3> QED
      BY <2>3, <3>2 DEF CallInv, launching, SnapshotPcs
  <2> QED
    BY <1>6, <2>2, <2>3 DEF Sync
<1>7. CASE Terminate
  <2>1. pc = "idle" /\ call = "none"
    BY <1>7 DEF Terminate, CallInv
  <2>2. CASE UNCHANGED <<pc, call>>
    BY <2>1, <2>2, CallOver
  <2>3. CASE pc' = "terminate" /\ call' = "terminate"
    BY <2>3, CallPlain DEF PlainPcs, launching
  <2> QED
    BY <1>7, <2>2, <2>3 DEF Terminate, Enter
<1>8. CASE Disconnect
  BY <1>8, CallOver DEF Disconnect, callVars, CallInv
<1> QED
  BY <1>1, <1>2, <1>3, <1>4, <1>5, <1>6, <1>7, <1>8 DEF Caller

LEMMA CallGiveUp == CallInv /\ GiveUp => CallInv'
BY CallOver DEF GiveUp, GiveUpAfter, Return

LEMMA CallSnapshot ==
    ASSUME TypeOK, CallInv, NEW answered \in BOOLEAN,
           SnapshotRequest(answered) \/ ExceptionAnswered
    PROVE  CallInv'
<1>1. CASE GiveUp
  BY <1>1, CallGiveUp
<1>2. CASE Return
  BY <1>2, CallOver DEF Return
<1>3. CASE /\ pc' \in SnapshotPcs
           /\ pc \in SnapshotPcs /\ draft'.life = draft.life
           /\ UNCHANGED <<call, state, activeThread>>
  BY <1>3 DEF CallInv, launching, SnapshotPcs
<1>4. draft \in Snapshot /\ made \in 0..MaxStops
  BY DEF TypeOK, CallOK, EnvironmentOK
<1>5. ASSUME NEW s \in Snapshot, s.life = draft.life, AfterVariables(s), pc \in SnapshotPcs,
             UNCHANGED <<state, activeThread>>
      PROVE  CallInv'
  BY <1>2, <1>3, <1>5 DEF AfterVariables, Later, Give, SnapshotPcs
<1>6. CASE HitsAnswered(answered)
  BY <1>3, <1>6 DEF HitsAnswered, Later, SnapshotPcs
<1>7. CASE ThreadsAnswered(answered)
  BY <1>1, <1>3, <1>7 DEF ThreadsAnswered, Later, SnapshotPcs
<1>8. CASE StacksAnswered(answered) /\ ~GiveUp
  <2>1. draft' = [draft EXCEPT !.frame = made]
    BY <1>8 DEF StacksAnswered
  <2>2. draft'.life = draft.life
    BY <1>4, <2>1, FrameTypes
  <2> QED
    BY <1>3, <1>8, <2>2 DEF StacksAnswered, Later, SnapshotPcs
<1>9. CASE VariablesAnswered(answered) /\ ~GiveUp
  BY <1>4, <1>5, <1>9 DEF VariablesAnswered, SnapshotPcs
<1>10. CASE BreakListAnswered(answered)
  BY <1>4, <1>5, <1>10 DEF BreakListAnswered, SnapshotPcs
<1>11. CASE ExceptionAnswered
  BY <1>4, <1>5, <1>11 DEF ExceptionAnswered, SnapshotPcs
<1> QED
  BY <1>1, <1>6, <1>7, <1>8, <1>9, <1>10, <1>11 DEF SnapshotRequest

LEMMA CallEnded ==
    ASSUME CallInv, Ended PROVE CallInv' /\ ~launching'
<1>1. CASE call = "restart"
  <2>1. call' = "again" /\ pc' = "untilStop"
    BY <1>1 DEF Ended
  <2> QED
    BY <2>1, CallPlain DEF PlainPcs, launching
<1>2. CASE call # "restart"
  BY <1>2, CallOver DEF Ended, Return, launching
<1> QED
  BY <1>1, <1>2

LEMMA CallRead == TypeOK /\ CallInv /\ ReadEvent => CallInv'
<1> SUFFICES ASSUME TypeOK, CallInv, ReadEvent PROVE CallInv'
  OBVIOUS
<1>1. pc \in {"poll", "untilStop"}
  BY DEF ReadEvent, ReadStopped, ReadUnreadableStop, ReadTerminated, ReadThread, ReadOther,
         ReadsEvents, Loops
<1>6. CASE ReadUnreadableStop
  BY <1>6, CallOver DEF ReadUnreadableStop, GiveUpAfter, Return
<1>2. CASE ReadStopped
  <2>1. Enrich("Stopped") /\ state' = "Stopped" /\ activeThread' # NoThread /\ call' = call
    BY <1>2 DEF ReadStopped
  <2>2. pc' \in {"hits", "threads"} /\ draft'.life = state'
    BY <2>1, EnrichTypes DEF Lives
  <2> QED
    BY <2>1, <2>2 DEF CallInv, SnapshotPcs
<1>3. CASE ReadTerminated
  BY <1>3, CallEnded DEF ReadTerminated
<1>4. CASE ReadThread
  <2>1. CASE Ended
    BY <2>1, CallEnded
  <2>2. CASE pc' = pc /\ UNCHANGED <<call, sessionVars>>
    BY <1>1, <2>2 DEF CallInv, launching, SnapshotPcs, sessionVars
  <2>3. CASE pc' = "threadExit" /\ call' = call /\ state = "Running"
    BY <1>1, <2>3, CallPlain DEF CallInv, launching, PlainPcs, SnapshotPcs
  <2> QED
    BY <1>4, <2>1, <2>2, <2>3 DEF ReadThread, Skipped
<1>5. CASE ReadOther
  <2>1. UNCHANGED <<pc, call, state, activeThread>>
    BY <1>5 DEF ReadOther, Skipped
  <2> QED
    BY <1>1, <2>1 DEF CallInv, launching, SnapshotPcs
<1> QED
  BY <1>2, <1>3, <1>4, <1>5, <1>6 DEF ReadEvent

LEMMA CallStep == TypeOK /\ CallInv /\ [Next]_vars => CallInv'
<1> SUFFICES ASSUME TypeOK, CallInv, [Next]_vars PROVE CallInv'
  OBVIOUS
<1>1. CASE UNCHANGED vars
  BY <1>1, CallGoesOn
     DEF vars, sessionVars, callVars, envVars, historyVars
<1>2. CASE PollEnds \/ ResumeTimesOut
  BY <1>2, CallOver DEF PollEnds, ResumeTimesOut, Return
<1>3. CASE UntilStopTimesOut \/ ResumeRefused \/ TerminateFails \/ Answered
  BY <1>3, CallGiveUp DEF UntilStopTimesOut, ResumeRefused, TerminateFails, Answered
<1>4. CASE Resumed
  <2>1. CASE Return
    BY <2>1, CallOver DEF Return
  <2>2. CASE pc' = "untilStop" /\ call' = call
    <3>1. pc = "resume"
      BY <1>4 DEF Resumed
    <3> QED
      BY <2>2, <3>1, CallPlain DEF PlainPcs, CallInv, launching
  <2> QED
    BY <1>4, <2>1, <2>2 DEF Resumed
<1>5. CASE Terminated
  BY <1>5, CallOver DEF Terminated, Return
<1>6. ASSUME NEW answered \in BOOLEAN, Initialized(answered) PROVE CallInv'
  <2>1. CASE GiveUp
    BY <2>1, CallGiveUp
  <2>2. CASE ~GiveUp
    <3>1. pc = "initialize" /\ pc' = "configure"
          /\ UNCHANGED <<call, state, activeThread, queue, made, taken, up, prog,
                         initialSnapshot>>
      BY <1>6, <2>2 DEF Initialized, envVars, historyVars
    <3> QED
      BY <3>1 DEF CallInv, launching, SnapshotPcs
  <2> QED
    BY <2>1, <2>2
<1>7. ASSUME NEW answered \in BOOLEAN, Configured(answered) PROVE CallInv'
  <2>1. CASE GiveUp
    BY <2>1, CallGiveUp
  <2>2. CASE ~GiveUp
    <3>1. pc = "configure" /\ pc' = "untilStop" /\ UNCHANGED <<call, sessionVars>>
      BY <1>7, <2>2 DEF Configured
    <3> QED
      BY <3>1 DEF CallInv, launching, SnapshotPcs, sessionVars
  <2> QED
    BY <2>1, <2>2
<1>8. ASSUME NEW answered \in BOOLEAN, BreakpointsSet(answered) PROVE CallInv'
  BY <1>8, CallOver DEF BreakpointsSet, Return
<1>9. ASSUME NEW answered \in BOOLEAN, ThreadsAfterExit(answered) PROVE CallInv'
  <2>1. CASE Ended
    BY <2>1, CallEnded
  <2>2. CASE pc' \in {"poll", "untilStop"} /\ call' = call
    BY <1>9, <2>2, CallPlain DEF ThreadsAfterExit, CallInv, launching, SnapshotPcs, PlainPcs
  <2> QED
    BY <1>9, <2>1, <2>2 DEF ThreadsAfterExit
<1>10. CASE Proceed
  BY <1>2, <1>3, <1>4, <1>5, <1>6, <1>7, <1>8, <1>9, <1>10, CallRead, CallSnapshot DEF Proceed
<1> QED
  BY <1>1, <1>10, CallEnvironment, CallCaller DEF Next

-----------------------------------------------------------------------------
(* What the session believes of the program.                               *)

LifeInv == EndsInv /\ RunningInv /\ OneStopInv /\ StoppedInv
QueueInv == EndsInv /\ OneStopInv

Calm ==
    /\ UNCHANGED <<queue, taken, made, up, prog, at, named, state, activeThread, crossed>>
    /\ late => late'

LEMMA LifeCalm == LifeInv /\ Calm => LifeInv'
BY DEF LifeInv, Calm, EndsInv, RunningInv, OneStopInv, StoppedInv, News

LEMMA LifeDown == ~up' /\ prog' = "gone" => LifeInv'
BY DEF LifeInv, EndsInv, RunningInv, OneStopInv, StoppedInv

LEMMA LifeOver ==
    state' \in {"Exited", "Disconnected"} => RunningInv' /\ StoppedInv'
BY DEF RunningInv, StoppedInv

LEMMA NumberedNow ==
    ASSUME TypeOK, NumberedInv
    PROVE  /\ queue \in Seq(Event) /\ taken \in Nat /\ made \in Nat /\ taken <= made
           /\ Stops(queue) = {} <=> taken = made
           /\ \A i \in Stops(queue) : queue[i].thread \in Threads \cup {NoThread}
           /\ \A i \in Stops(queue) : i \in 1..Len(queue) /\ queue[i].n \in taken + 1..made
           /\ queue # <<>> /\ IsStop(Head1) => Head1.n = taken + 1
           /\ \A i, j \in Stops(queue) : queue[i].n = queue[j].n => i = j
<1>1. queue \in Seq(Event) /\ taken \in Nat /\ made \in Nat /\ Numbered(queue, taken, made)
  BY SessionAssumption DEF TypeOK, EnvironmentOK, HistoryOK, NumberedInv
<1> QED
  BY <1>1, NumberedFacts DEF Numbered, Head1, Stops

\* The last stop is the only one while no resume crossed a stop.
LEMMA OnlyStop ==
    ASSUME TypeOK, NumberedInv, made <= taken + 1,
           NEW i \in Stops(queue), NEW j \in Stops(queue)
    PROVE  i = j
<1>1. queue[i].n \in taken + 1..made /\ queue[j].n \in taken + 1..made
      /\ taken \in Nat /\ made \in Nat
  BY NumberedNow
<1> QED
  BY <1>1, NumberedNow

LEMMA OnlyOne ==
    ASSUME TypeOK, NumberedInv, NEW j \in Stops(queue), \A i \in Stops(queue) : i = j
    PROVE  queue[j].n = made
<1>1. /\ taken \in Nat /\ made \in Nat /\ Stops(queue) # {}
      /\ \A n \in taken + 1..made : \E i \in Stops(queue) : queue[i].n = n
  BY SessionAssumption DEF TypeOK, EnvironmentOK, HistoryOK, NumberedInv, Numbered
<1>2. taken <= made /\ taken # made
  BY <1>1, NumberedNow
<1>3. made \in taken + 1..made
  BY <1>1, <1>2
<1> QED
  BY <1>1, <1>3

\* An event that is no stop is told while the program does not begin to go on.
LEMMA QueueInvTold ==
    ASSUME TypeOK, QueueInv, NEW e \in Event, ~IsStop(e), queue' = Append(queue, e),
           UNCHANGED <<taken, made, up, at, crossed>>,
           \/ prog' = prog /\ e.kind # "terminated"
           \/ prog' = "gone" /\ e.kind = "terminated"
    PROVE  QueueInv'
<1>1. /\ Stops(queue') = Stops(queue)
      /\ \A i \in Stops(queue) : queue'[i] = queue[i]
      /\ e.kind = "terminated" => Ends(queue') = Ends(queue) \cup {Len(queue) + 1}
      /\ e.kind # "terminated" => Ends(queue') = Ends(queue)
  BY QueueTold
<1>2. OneStopInv'
  BY <1>1 DEF QueueInv, OneStopInv
<1>3. prog' # "gone" => Ends(queue') = {}
  BY <1>1 DEF QueueInv, EndsInv
<1>4. ASSUME up, NEW i \in Stops(queue'), NEW j \in Ends(queue') PROVE i < j
  <2>1. i \in 1..Len(queue) /\ Len(queue) \in Nat
    BY <1>1 DEF Stops, TypeOK
  <2>2. CASE j \in Ends(queue)
    BY <1>1, <1>4, <2>2 DEF QueueInv, EndsInv
  <2>3. CASE j = Len(queue) + 1
    BY <2>1, <2>3
  <2> QED
    BY <1>1, <2>2, <2>3
<1>5. up /\ prog' = "gone" /\ Stops(queue') # {} => Ends(queue') # {}
  BY <1>1 DEF QueueInv, EndsInv
<1> QED
  BY <1>2, <1>3, <1>4, <1>5 DEF QueueInv, EndsInv

LEMMA QueueInvRead ==
    ASSUME TypeOK, NumberedInv, QueueInv, queue # <<>>, queue' = Tail(queue),
           taken' = IF IsStop(Head1) THEN taken + 1 ELSE taken,
           UNCHANGED <<made, up, prog, at, crossed>>
    PROVE  QueueInv'
<1>1. /\ Stops(queue') = {i - 1 : i \in Stops(queue) \ {1}}
      /\ Ends(queue') = {i - 1 : i \in Ends(queue) \ {1}}
      /\ \A i \in Stops(queue') : i + 1 \in Stops(queue) /\ queue'[i] = queue[i + 1]
      /\ IsStop(Head1) => 1 \in Stops(queue)
  BY QueueRead
<1>2. prog' # "gone" => Ends(queue') = {}
  BY <1>1 DEF QueueInv, EndsInv
<1>3. ASSUME up, NEW i \in Stops(queue'), NEW j \in Ends(queue') PROVE i < j
  <2>1. PICK k \in Stops(queue) \ {1} : i = k - 1
    BY <1>1
  <2>2. PICK l \in Ends(queue) \ {1} : j = l - 1
    BY <1>1
  <2>3. k < l /\ k \in Nat /\ l \in Nat
    BY <1>3 DEF QueueInv, EndsInv, Stops, Ends
  <2> QED
    BY <2>1, <2>2, <2>3
<1>4. OneStopInv'
  <2> SUFFICES ASSUME up, ~crossed
               PROVE  /\ made <= taken' + 1
                      /\ prog \in {"unborn", "running"} => made = taken'
                      /\ \A i \in Stops(queue') : queue'[i].thread \in {at, NoThread}
    BY DEF OneStopInv
  <2>1. /\ made <= taken + 1
        /\ prog \in {"unborn", "running"} => made = taken
        /\ \A i \in Stops(queue) : queue[i].thread \in {at, NoThread}
    BY DEF QueueInv, OneStopInv
  <2>2. taken \in Nat /\ made \in Nat /\ (IsStop(Head1) => taken # made)
    BY <1>1, NumberedNow
  <2>3. taken' = taken \/ (taken' = taken + 1 /\ taken # made)
    <3>1. CASE IsStop(Head1)
      BY <2>2, <3>1 DEF IsStop
    <3>2. CASE ~IsStop(Head1)
      BY <3>2 DEF IsStop
    <3> QED
      BY <3>1, <3>2
  <2>4. ASSUME NEW i \in Stops(queue') PROVE queue'[i].thread \in {at, NoThread}
    <3>1. i + 1 \in Stops(queue) /\ queue'[i] = queue[i + 1]
      BY <1>1
    <3>2. queue[i + 1].thread \in {at, NoThread}
      BY <2>1, <3>1
    <3> QED
      BY <3>1, <3>2
  <2>5. made <= taken' + 1 /\ (prog \in {"unborn", "running"} => made = taken')
    BY <2>1, <2>2, <2>3
  <2> QED
    BY <2>4, <2>5
<1>5. ASSUME up, prog = "gone", Stops(queue') # {} PROVE Ends(queue') # {}
  <2>1. PICK k \in Stops(queue) : k # 1
    BY <1>1, <1>5
  <2>2. PICK l \in Ends(queue) : TRUE
    BY <1>5, <2>1 DEF QueueInv, EndsInv
  <2>3. k < l /\ k \in 1..Len(queue) /\ l \in 1..Len(queue)
    BY <1>5, <2>1, <2>2 DEF QueueInv, EndsInv, Stops, Ends
  <2>4. l # 1
    BY <2>3
  <2>5. l - 1 \in Ends(queue')
    BY <1>1, <2>2, <2>4
  <2> QED
    BY <2>5
<1> QED
  BY <1>2, <1>3, <1>4, <1>5 DEF QueueInv, EndsInv

LEMMA LifeEnvironment ==
    ASSUME TypeOK, NumberedInv, LifeInv, Environment PROVE LifeInv'
<1>1. ASSUME NEW t \in Threads, NEW told \in BOOLEAN, ProgramStops(t, told) PROVE LifeInv'
  <2> DEFINE e == StoppedEvent(IF told THEN t ELSE NoThread, made + 1)
  <2>1. /\ prog = "running" /\ up /\ prog' = "stopped" /\ at' = t /\ made' = made + 1
        /\ queue' = Append(queue, e) /\ made < MaxStops
        /\ UNCHANGED <<up, taken, crossed, late, state, activeThread>>
    BY <1>1 DEF ProgramStops, historyVars, sessionVars
  <2>2. e \in Event /\ IsStop(e) /\ e.thread \in {t, NoThread} /\ e.kind = "stopped"
    <3>1. made + 1 \in 0..MaxStops
      BY <2>1, SessionAssumption DEF TypeOK, EnvironmentOK
    <3> QED
      BY <3>1, EventTypes DEF StoppedEvent, IsStop
  <2> HIDE DEF e
  <2>3. /\ Stops(queue') = Stops(queue) \cup {Len(queue) + 1}
        /\ Ends(queue') = Ends(queue)
        /\ queue'[Len(queue) + 1] = e
    <3>1. queue \in Seq(Event)
      BY DEF TypeOK
    <3>2. /\ Stops(queue') = Stops(queue) \cup (IF IsStop(e) THEN {Len(queue) + 1} ELSE {})
          /\ Ends(queue') = Ends(queue) \cup (IF e.kind = "terminated" THEN {Len(queue) + 1}
                                                                     ELSE {})
          /\ queue'[Len(queue) + 1] = e
      BY <2>1, <2>2, <3>1, StopsAppend
    <3> QED
      BY <2>2, <3>2
  <2>4. Ends(queue') = {}
    BY <2>1, <2>3 DEF LifeInv, EndsInv
  <2>5. EndsInv'
    BY <2>1, <2>4 DEF EndsInv
  <2>6. RunningInv'
    BY <2>3, QueueWords DEF RunningInv
  <2>7. OneStopInv'
    <3>1. CASE crossed
      BY <2>1, <3>1 DEF OneStopInv
    <3>2. CASE ~crossed
      <4>1. made = taken /\ Stops(queue) = {}
        BY <2>1, <3>2, NumberedNow DEF LifeInv, OneStopInv
      <4>2. made' <= taken' + 1
        BY <2>1, <4>1, NumberedNow
      <4> QED
        BY <2>1, <2>2, <2>3, <4>1, <4>2 DEF OneStopInv
    <3> QED
      BY <3>1, <3>2 DEF TypeOK, HistoryOK
  <2>8. StoppedInv'
    BY <2>1 DEF LifeInv, StoppedInv
  <2> QED
    BY <2>5, <2>6, <2>7, <2>8 DEF LifeInv
<1>2. ASSUME NEW t \in Threads, ThreadExits(t) PROVE LifeInv'
  <2>1. /\ prog = "running" /\ up
        /\ UNCHANGED <<up, at, named, made, taken, crossed, late, state, activeThread>>
    BY <1>2 DEF ThreadExits, historyVars, sessionVars
  <2>2. ~(~crossed /\ ~late /\ state = "Stopped")
    BY <2>1 DEF LifeInv, StoppedInv
  <2>3. ThreadEvent(t) \in Event /\ ~IsStop(ThreadEvent(t)) /\ ThreadEvent(t).kind = "thread"
        /\ TerminatedEvent \in Event /\ ~IsStop(TerminatedEvent)
        /\ TerminatedEvent.kind = "terminated"
    BY EventTypes DEF ThreadEvent, TerminatedEvent, IsStop
  <2>4. CASE prog' = prog /\ queue' = Append(queue, ThreadEvent(t))
    <3>1. QueueInv'
      BY <2>1, <2>3, <2>4, QueueInvTold DEF LifeInv, QueueInv
    <3> QED
      BY <2>1, <2>2, <2>4, <3>1 DEF LifeInv, QueueInv, RunningInv, StoppedInv
  <2>5. CASE /\ prog' = "gone" 
             /\ queue' = queue \o <<ThreadEvent(t), TerminatedEvent>>
    <3> DEFINE mid == Append(queue, ThreadEvent(t))
    <3>1. mid \in Seq(Event) /\ queue' = Append(mid, TerminatedEvent)
      BY <2>3, <2>5 DEF TypeOK
    <3>2. /\ Stops(mid) = Stops(queue)
          /\ \A i \in Stops(queue) : mid[i] = queue[i] /\ i \in 1..Len(queue)
      BY <2>3, StopsAppend DEF TypeOK, Stops
    <3>3. Ends(queue) = {} /\ Ends(mid) = {}
      BY <2>1, <2>3, StopsAppend DEF LifeInv, EndsInv, TypeOK
    <3> HIDE DEF mid
    <3>4. /\ Stops(queue') = Stops(queue)
          /\ Ends(queue') = {Len(mid) + 1}
          /\ \A i \in Stops(queue) : queue'[i] = queue[i] /\ i < Len(mid) + 1
      <4>1. /\ Stops(queue') = Stops(mid) /\ Ends(queue') = {Len(mid) + 1}
            /\ \A i \in 1..Len(mid) : queue'[i] = mid[i]
        <5>1. /\ Stops(queue') = Stops(mid) \cup (IF IsStop(TerminatedEvent)
                                                  THEN {Len(mid) + 1} ELSE {})
              /\ Ends(queue') = Ends(mid) \cup (IF TerminatedEvent.kind = "terminated"
                                                THEN {Len(mid) + 1} ELSE {})
              /\ \A i \in 1..Len(mid) : queue'[i] = mid[i]
          BY <2>3, <3>1, StopsAppend
        <5> QED
          BY <2>3, <3>3, <5>1
      <4>2. \A i \in Stops(mid) : i \in 1..Len(mid)
        BY DEF Stops
      <4>3. Len(mid) \in Nat
        BY <3>1
      <4> QED
        BY <3>2, <4>1, <4>2, <4>3
    <3>5. EndsInv'
      BY <2>5, <3>4 DEF EndsInv
    <3>6. RunningInv'
      BY <3>4, QueueWords DEF RunningInv
    <3>7. OneStopInv'
      BY <2>1, <2>5, <3>4 DEF LifeInv, OneStopInv
    <3>8. StoppedInv'
      BY <2>1, <2>2 DEF StoppedInv
    <3> QED
      BY <3>5, <3>6, <3>7, <3>8 DEF LifeInv
  <2> QED
    BY <1>2, <2>4, <2>5 DEF ThreadExits
<1>3. ASSUME NEW k \in Chatter, AdapterChatters(k) PROVE LifeInv'
  <2>1. /\ queue' = Append(queue, ChatterEvent(k))
        /\ UNCHANGED <<up, prog, at, named, made, taken, crossed, late, state, activeThread>>
    BY <1>3 DEF AdapterChatters, historyVars, sessionVars
  <2>2. /\ ChatterEvent(k) \in Event /\ ~IsStop(ChatterEvent(k))
        /\ ChatterEvent(k).kind # "terminated"
    BY EventTypes, SessionAssumption DEF ChatterEvent, IsStop, TypeOK, EnvironmentOK
  <2>3. QueueInv'
    BY <2>1, <2>2, QueueInvTold DEF LifeInv, QueueInv
  <2>4. Stops(queue') = Stops(queue) /\ Ends(queue') = Ends(queue)
    BY <2>1, <2>2, QueueTold
  <2>5. RunningInv' /\ StoppedInv'
    BY <2>1, <2>4, QueueWords DEF LifeInv, RunningInv, StoppedInv
  <2> QED
    BY <2>3, <2>5 DEF LifeInv, QueueInv
<1>4. CASE LateResume
  <2>1. /\ prog = "stopped" /\ prog' = "running" /\ crossed' = TRUE
        /\ UNCHANGED <<queue, up, state>>
    BY <1>4 DEF LateResume, sessionVars
  <2> QED
    BY <2>1 DEF LifeInv, EndsInv, RunningInv, OneStopInv, StoppedInv
<1>6. CASE ProgramContinues
  <2>1. /\ prog = "stopped" /\ prog' = "running" /\ crossed' = TRUE
        /\ queue' = Append(queue, ContinuedEvent) /\ up' = up
    BY <1>6 DEF ProgramContinues
  <2>2. /\ ContinuedEvent \in Event /\ ~IsStop(ContinuedEvent)
        /\ ContinuedEvent.kind # "terminated"
    BY EventTypes DEF ContinuedEvent, IsStop
  <2>3. Ends(queue') = Ends(queue)
    BY <2>1, <2>2, QueueTold
  <2>4. EndsInv'
    BY <2>1, <2>3 DEF LifeInv, EndsInv
  <2> QED
    BY <2>1, <2>4 DEF LifeInv, RunningInv, OneStopInv, StoppedInv
<1>5. CASE AdapterDies
  BY <1>5, LifeDown DEF AdapterDies
<1> QED
  BY <1>1, <1>2, <1>3, <1>4, <1>5, <1>6 DEF Environment

LEMMA LifeRead ==
    ASSUME TypeOK, NumberedInv, NamedInv, LifeInv, ReadEvent PROVE LifeInv'
<1>12. CASE ~up' /\ prog' = "gone"
  BY <1>12, LifeDown
<1> SUFFICES ASSUME ~(~up' /\ prog' = "gone") PROVE LifeInv'
  BY <1>12
<1>13. ASSUME ReadUnreadableStop
       PROVE  /\ queue # <<>> /\ IsStop(Head1) /\ Head1.thread = NoThread
              /\ queue' = Tail(queue) /\ taken' = Head1.n
              /\ UNCHANGED <<made, up, prog, at, named, crossed, late, state, activeThread>>
  BY <1>13 DEF ReadUnreadableStop, GiveUpAfter, ReadsEvents, IsStop, sessionVars
<1>0. queue # <<>> /\ queue' = Tail(queue)
      /\ UNCHANGED <<made, up, prog, at, named, crossed, late>>
  BY <1>13 DEF ReadEvent, ReadStopped, ReadTerminated, ReadThread, ReadOther, ReadsEvents,
         Skipped, Consumed, Ended, envVars, historyVars
<1>1. taken' = IF IsStop(Head1) THEN taken + 1 ELSE taken
  <2>1. CASE ReadStopped
    BY <1>0, <2>1, NumberedNow DEF ReadStopped, IsStop
  <2>2. CASE ~IsStop(Head1) /\ taken' = taken
    BY <2>2
  <2>3. CASE ReadUnreadableStop
    BY <1>0, <1>13, <2>3, NumberedNow
  <2> QED
    BY <2>1, <2>2, <2>3, SessionAssumption
       DEF ReadEvent, ReadTerminated, ReadThread, ReadOther, historyVars, IsStop
<1>2. QueueInv'
  BY <1>0, <1>1, QueueInvRead DEF LifeInv, QueueInv
<1>3. /\ Ends(queue') = {i - 1 : i \in Ends(queue) \ {1}}
      /\ \A i \in Stops(queue') : i + 1 \in Stops(queue) /\ queue'[i] = queue[i + 1]
      /\ ~IsStop(Head1) => 1 \notin Stops(queue)
      /\ Head1.kind # "terminated" => 1 \notin Ends(queue)
      /\ IsStop(Head1) => 1 \in Stops(queue)
      /\ Stops(queue') = {i - 1 : i \in Stops(queue) \ {1}}
  BY <1>0, QueueRead
<1>4. CASE ReadStopped
  <2>1. state' = "Stopped" /\ activeThread' = Head1.thread /\ IsStop(Head1) /\ Head1 = queue[1]
        /\ Head1.kind # "terminated"
    BY <1>4 DEF ReadStopped, IsStop, Head1
  <2>2. StoppedInv'
    <3> SUFFICES ASSUME up, ~crossed, ~late
                 PROVE  /\ made = taken'
                        /\ \/ prog = "stopped" /\ at = activeThread'
                           \/ prog = "gone" /\ Ends(queue') # {}
      BY <1>0, <2>1 DEF StoppedInv
    <3>1. made <= taken + 1 /\ taken # made /\ taken <= made /\ taken \in Nat /\ made \in Nat
      BY <1>3, <2>1, NumberedNow DEF LifeInv, OneStopInv
    <3>2. made = taken'
      BY <1>1, <2>1, <3>1
    <3>3. activeThread' = at
      <4>1. Head1.thread # NoThread
        BY <1>4 DEF ReadStopped
      <4> QED
        BY <1>3, <2>1, <4>1 DEF LifeInv, OneStopInv
    <3>4. prog \in {"stopped", "gone"}
      BY <3>1 DEF LifeInv, OneStopInv, TypeOK, EnvironmentOK
    <3>5. prog = "gone" => Ends(queue) # {}
      BY <1>3, <2>1 DEF LifeInv, EndsInv
    <3>6. Ends(queue) # {} => Ends(queue') # {}
      BY <1>3, <2>1
    <3> QED
      BY <3>2, <3>3, <3>4, <3>5, <3>6
  <2> QED
    BY <1>2, <2>1, <2>2 DEF LifeInv, QueueInv, RunningInv
<1>5. CASE state' = "Exited"
  BY <1>2, <1>5, LifeOver DEF LifeInv, QueueInv
<1>6. CASE /\ Head1.kind # "terminated" /\ ~IsStop(Head1)
           /\ UNCHANGED <<state, activeThread>>
  <2>1. Ends(queue) # {} => Ends(queue') # {}
    BY <1>3, <1>6
  <2>2. Stops(queue) # {} => Stops(queue') # {}
    BY <1>3, <1>6
  <2>3. RunningInv'
    BY <1>0, <1>6, <2>1, <2>2, QueueWords DEF LifeInv, RunningInv
  <2>4. StoppedInv'
    BY <1>0, <1>1, <1>6, <2>1 DEF LifeInv, StoppedInv
  <2> QED
    BY <1>2, <2>3, <2>4 DEF LifeInv, QueueInv
<1>10. CASE ReadUnreadableStop
  <2>1. 1 \in Stops(queue) /\ taken # made
    BY <1>3, <1>10, <1>13, NumberedNow
  <2>2. StoppedInv'
    BY <1>0, <1>10, <1>13, <2>1 DEF LifeInv, StoppedInv
  <2>3. RunningInv'
    <3> SUFFICES ASSUME up, state = "Running", ~News'
                 PROVE  prog = "running" \/ (prog = "stopped" /\ ~named)
      BY <1>0, <1>10, <1>13 DEF RunningInv
    <3>1. Stops(queue') = {} /\ Ends(queue') = {}
      BY QueueWords
    <3>2. Ends(queue) = {}
      <4>1. Head1.kind # "terminated"
        BY <1>10 DEF ReadUnreadableStop
      <4> QED
        BY <1>3, <3>1, <4>1
    <3>3. prog # "gone"
      BY <2>1, <3>2 DEF LifeInv, EndsInv
    <3>4. prog # "unborn"
      BY <2>1 DEF NamedInv
    <3>5. \A i \in Stops(queue) : i = 1
      BY <1>3, <3>1
    <3>6. queue[1].n = made
      BY <2>1, <3>5, OnlyOne
    <3>7. ~named
      BY <1>10, <1>13, <2>1, <3>6 DEF NamedInv, Head1
    <3> QED
      BY <3>3, <3>4, <3>7 DEF TypeOK, EnvironmentOK
  <2> QED
    BY <1>2, <2>2, <2>3 DEF LifeInv, QueueInv
<1>7. CASE ReadThread
  BY <1>5, <1>6, <1>7 DEF ReadThread, Ended, sessionVars, IsStop
<1>8. CASE ReadOther
  BY <1>6, <1>8, SessionAssumption DEF ReadOther, IsStop
<1>9. CASE ReadTerminated
  BY <1>5, <1>9 DEF ReadTerminated, Ended
<1> QED
  BY <1>4, <1>7, <1>8, <1>9, <1>10 DEF ReadEvent

LEMMA GiveUpCalm ==
    ASSUME TypeOK, GiveUp
    PROVE  Calm \/ (~up' /\ prog' = "gone" /\ initialSnapshot' = NoSnapshot)
<1>1. CASE call \in {"launch", "restart"}
  BY <1>1 DEF GiveUp, GiveUpAfter
<1>2. CASE call \notin {"launch", "restart"}
  BY <1>2 DEF GiveUp, GiveUpAfter, Calm, sessionVars
<1> QED
  BY <1>1, <1>2

LEMMA SnapshotRequestCalm ==
    ASSUME NEW answered \in BOOLEAN, SnapshotRequest(answered) \/ ExceptionAnswered
    PROVE  Calm \/ GiveUp
<1>1. CASE HitsAnswered(answered)
  BY <1>1 DEF HitsAnswered, Calm, envVars
<1>2. CASE ThreadsAnswered(answered)
  BY <1>2 DEF ThreadsAnswered, Calm, envVars
<1>3. CASE StacksAnswered(answered)
  BY <1>3 DEF StacksAnswered, Calm, envVars
<1>4. CASE VariablesAnswered(answered)
  BY <1>4 DEF VariablesAnswered, Calm, envVars
<1>5. CASE BreakListAnswered(answered)
  BY <1>5 DEF BreakListAnswered, Calm, envVars
<1>6. CASE ExceptionAnswered
  BY <1>6 DEF ExceptionAnswered, Calm, envVars
<1> QED
  BY <1>1, <1>2, <1>3, <1>4, <1>5, <1>6 DEF SnapshotRequest

\* A step after which the session is over and the queue is as it was.
LEMMA LifeEnds ==
    ASSUME LifeInv, state' = "Exited", UNCHANGED <<queue, taken, made, up, prog, at, crossed>>
    PROVE  LifeInv'
BY DEF LifeInv, EndsInv, RunningInv, OneStopInv, StoppedInv

LEMMA LifeCaller == LifeInv /\ (Caller \/ Poll) => LifeInv'
<1> SUFFICES ASSUME LifeInv, Caller \/ Poll PROVE LifeInv'
  OBVIOUS
<1>1. ASSUME NEW c \in {"launch", "restart"}, Launch(c) PROVE LifeInv'
  <2>1. /\ queue' = <<>> /\ made' = 0 /\ taken' = 0 /\ prog' = "unborn"
        /\ state' = "Disconnected"
    BY <1>1 DEF Launch
  <2>2. Stops(queue') = {} /\ Ends(queue') = {}
    BY <2>1 DEF Stops, Ends
  <2> QED
    BY <2>1, <2>2 DEF LifeInv, EndsInv, RunningInv, OneStopInv, StoppedInv
<1>2. CASE Poll
  BY <1>2, LifeCalm DEF Poll, Calm, sessionVars, envVars
<1>3. ASSUME NEW r \in Resumes, Resume(r) PROVE LifeInv'
  BY <1>3, LifeCalm DEF Resume, Calm, sessionVars, envVars
<1>4. ASSUME NEW q \in DOMAIN Queries, Ask(q) PROVE LifeInv'
  BY <1>4, LifeCalm DEF Ask, Calm, sessionVars, envVars
<1>5. ASSUME NEW p \in Paths, NEW some \in BOOLEAN, SetBreakpoints(p, some) PROVE LifeInv'
  BY <1>5, LifeCalm DEF SetBreakpoints, Calm, envVars
<1>6. CASE Sync
  BY <1>6, LifeCalm DEF Sync, Calm, envVars
<1>7. CASE Terminate
  <2>1. UNCHANGED <<queue, taken, made, up, prog, at, named, crossed, late>>
    BY <1>7 DEF Terminate, envVars
  <2>2. state' = "Exited" \/ UNCHANGED <<state, activeThread>>
    BY <1>7 DEF Terminate
  <2> QED
    BY <2>1, <2>2, LifeCalm, LifeEnds DEF Calm
<1>8. CASE Disconnect
  BY <1>8, LifeDown, LifeCalm DEF Disconnect, Calm
<1> QED
  BY <1>1, <1>2, <1>3, <1>4, <1>5, <1>6, <1>7, <1>8 DEF Caller

LEMMA LifeProceed ==
    ASSUME TypeOK, NumberedInv, NamedInv, CallInv, LifeInv, Proceed PROVE LifeInv'
<1>1. CASE GiveUp
  BY <1>1, GiveUpCalm, LifeCalm, LifeDown
<1>2. CASE PollEnds \/ ResumeTimesOut
  <2>1. CASE PollEnds
    BY <2>1, LifeCalm DEF PollEnds, Calm, sessionVars, envVars, historyVars
  <2>2. CASE ResumeTimesOut
    <3>1. UNCHANGED <<queue, taken, made, up, prog, at, named, state, activeThread, crossed>>
      BY <2>2 DEF ResumeTimesOut, sessionVars, historyVars
    <3>2. late' = (late \/ call # "pause")
      BY <2>2 DEF ResumeTimesOut
    <3>3. late => late'
      BY <3>2
    <3> QED
      BY <3>1, <3>3, LifeCalm DEF Calm
  <2> QED
    BY <1>2, <2>1, <2>2
<1>3. CASE Resumed
  <2>1. CASE call = "pause"
    BY <1>3, <2>1, LifeCalm DEF Resumed, Calm
  <2>2. CASE call # "pause"
    <3>1. /\ state' = "Running" /\ prog' = "running" /\ prog \in {"running", "stopped"}
          /\ crossed' = (crossed \/ Says("stopped"))
          /\ UNCHANGED <<queue, taken, made, up, late>>
      BY <1>3, <2>2 DEF Resumed
    <3>2. ~crossed' => Stops(queue) = {} /\ made = taken
      BY <3>1, QueueWords, NumberedNow
    <3>3. EndsInv'
      BY <3>1 DEF LifeInv, EndsInv
    <3>4. OneStopInv'
      BY <3>1, <3>2, NumberedNow DEF OneStopInv
    <3> QED
      BY <3>1, <3>3, <3>4 DEF LifeInv, RunningInv, StoppedInv
  <2> QED
    BY <2>1, <2>2
<1>4. CASE Terminated
  <2>1. /\ up /\ prog' = "gone" /\ state' = "Exited"
        /\ queue' = Append(queue, TerminatedEvent)
        /\ UNCHANGED <<taken, made, up, at, crossed>>
    BY <1>4 DEF Terminated, historyVars
  <2>2. /\ TerminatedEvent \in Event /\ ~IsStop(TerminatedEvent)
        /\ TerminatedEvent.kind = "terminated"
    BY EventTypes DEF TerminatedEvent, IsStop
  <2>3. QueueInv'
    BY <2>1, <2>2, QueueInvTold DEF LifeInv, QueueInv
  <2> QED
    BY <2>1, <2>3, LifeOver DEF LifeInv, QueueInv
<1>5. ASSUME NEW answered \in BOOLEAN, Initialized(answered) PROVE LifeInv'
  <2>1. Calm \/ GiveUp
    BY <1>5 DEF Initialized, Calm, envVars, historyVars
  <2> QED
    BY <1>1, <2>1, LifeCalm
<1>6. ASSUME NEW answered \in BOOLEAN, Configured(answered) PROVE LifeInv'
  <2>1. CASE ~GiveUp
    <3>1. /\ prog' = "running" /\ pc = "configure"
          /\ UNCHANGED <<queue, state, taken, made, up, at, crossed>>
      BY <1>6, <2>1 DEF Configured, sessionVars, historyVars
    <3>2. queue = <<>> /\ made = taken /\ state = "Disconnected"
      BY <3>1 DEF CallInv, SnapshotPcs
    <3>3. Stops(queue) = {} /\ Ends(queue) = {}
      BY <3>2 DEF Stops, Ends
    <3>4. made <= taken + 1
      BY <3>2, NumberedNow
    <3> QED
      BY <3>1, <3>2, <3>3, <3>4 DEF LifeInv, EndsInv, RunningInv, OneStopInv, StoppedInv
  <2> QED
    BY <1>1, <2>1
<1>7. ASSUME NEW answered \in BOOLEAN, BreakpointsSet(answered) PROVE LifeInv'
  BY <1>7, LifeCalm DEF BreakpointsSet, Calm, envVars, historyVars
<1>8. ASSUME NEW answered \in BOOLEAN, ThreadsAfterExit(answered) PROVE LifeInv'
  <2>1. UNCHANGED <<queue, taken, made, up, prog, at, named, crossed, late>>
    BY <1>8 DEF ThreadsAfterExit, envVars
  <2>2. state' = "Exited" \/ UNCHANGED <<state, activeThread>>
    BY <1>8 DEF ThreadsAfterExit, Ended, sessionVars
  <2> QED
    BY <2>1, <2>2, LifeCalm, LifeEnds DEF Calm
<1>9. ASSUME NEW answered \in BOOLEAN, SnapshotRequest(answered) \/ ExceptionAnswered
      PROVE  LifeInv'
  BY <1>1, <1>9, SnapshotRequestCalm, LifeCalm
<1> QED
  BY <1>1, <1>2, <1>3, <1>4, <1>5, <1>6, <1>7, <1>8, <1>9, LifeRead
     DEF Proceed, UntilStopTimesOut, ResumeRefused, TerminateFails, Answered

-----------------------------------------------------------------------------
(* The snapshots.                                                          *)

\* Nothing that a snapshot in the making is judged by changes for the worse.
LEMMA SnapshotKept ==
    ASSUME SnapshotInv, UNCHANGED <<taken, made>>,
           initialSnapshot' \in {initialSnapshot, NoSnapshot},
           prog' \in {prog, "stopped", "gone"},
           crossed => crossed', late => late' \/ crossed',
           pc' \in FramePcs => pc \in FramePcs /\ draft' = draft
    PROVE  SnapshotInv'
BY SnapshotTypes DEF SnapshotInv

LEMMA SnapshotNone ==
    ASSUME initialSnapshot' = NoSnapshot, pc' \notin FramePcs PROVE SnapshotInv'
BY SnapshotTypes DEF SnapshotInv

LEMMA SnapshotGiveUp == SnapshotInv /\ GiveUp => SnapshotInv'
<1> SUFFICES ASSUME SnapshotInv, GiveUp PROVE SnapshotInv'
  OBVIOUS
<1>1. pc' \notin FramePcs
  BY DEF GiveUp, GiveUpAfter, Return, FramePcs
<1>2. CASE call \in {"launch", "restart"}
  BY <1>1, <1>2, SnapshotNone DEF GiveUp, GiveUpAfter
<1>3. CASE call \notin {"launch", "restart"}
  BY <1>1, <1>3, SnapshotKept DEF GiveUp, GiveUpAfter, sessionVars
<1> QED
  BY <1>2, <1>3

LEMMA SnapshotEnvironment == SnapshotInv /\ Environment => SnapshotInv'
<1> SUFFICES ASSUME SnapshotInv, Environment PROVE SnapshotInv'
  OBVIOUS
<1>1. UNCHANGED <<taken, pc, draft, initialSnapshot>>
  BY DEF Environment, ProgramStops, ProgramContinues, ThreadExits, AdapterChatters, LateResume,
         AdapterDies, sessionVars, callVars, historyVars
<1>2. ASSUME NEW t \in Threads, NEW told \in BOOLEAN, ProgramStops(t, told) \/ ThreadExits(t)
      PROVE  SnapshotInv'
  <2>1. prog = "running" /\ UNCHANGED <<crossed, late>>
    BY <1>2 DEF ProgramStops, ThreadExits, historyVars
  <2> QED
    BY <1>1, <2>1 DEF SnapshotInv
<1>3. ASSUME NEW k \in Chatter, AdapterChatters(k) PROVE SnapshotInv'
  BY <1>1, <1>3, SnapshotKept DEF AdapterChatters, historyVars
<1>4. CASE LateResume \/ ProgramContinues
  BY <1>4 DEF LateResume, ProgramContinues, SnapshotInv
<1>5. CASE AdapterDies
  BY <1>1, <1>5, SnapshotKept DEF AdapterDies, historyVars
<1> QED
  BY <1>2, <1>3, <1>4, <1>5 DEF Environment

LEMMA SnapshotCaller == SnapshotInv /\ (Caller \/ Poll) => SnapshotInv'
<1> SUFFICES ASSUME SnapshotInv, Caller \/ Poll PROVE SnapshotInv'
  OBVIOUS
<1>1. ASSUME NEW c \in {"launch", "restart"}, Launch(c) PROVE SnapshotInv'
  BY <1>1, SnapshotNone DEF Launch, Enter, FramePcs
<1>2. CASE Poll
  BY <1>2, SnapshotKept DEF Poll, Enter, sessionVars, envVars, FramePcs
<1>3. ASSUME NEW r \in Resumes, Resume(r) PROVE SnapshotInv'
  BY <1>3, SnapshotKept DEF Resume, Enter, sessionVars, envVars, FramePcs
<1>4. ASSUME NEW q \in DOMAIN Queries, Ask(q) PROVE SnapshotInv'
  BY <1>4, SnapshotKept DEF Ask, Enter, sessionVars, envVars, FramePcs
<1>5. ASSUME NEW p \in Paths, NEW some \in BOOLEAN, SetBreakpoints(p, some) PROVE SnapshotInv'
  BY <1>5, SnapshotKept DEF SetBreakpoints, Enter, envVars, FramePcs
<1>6. CASE Sync
  <2>1. UNCHANGED <<taken, made, prog, crossed, late>>
    BY <1>6 DEF Sync, envVars
  <2>2. initialSnapshot' \in {initialSnapshot, NoSnapshot}
    BY <1>6 DEF Sync
  <2>3. pc' \notin FramePcs
    <3>1. CASE UNCHANGED callVars
      BY <1>6, <3>1 DEF Sync, callVars, FramePcs
    <3>2. CASE Enrich(state)
      BY <3>2 DEF Enrich, FramePcs
    <3> QED
      BY <1>6, <3>1, <3>2 DEF Sync
  <2> QED
    BY <2>1, <2>2, <2>3, SnapshotKept
<1>7. CASE Terminate
  <2>1. UNCHANGED <<initialSnapshot, taken, made, prog, crossed, late>>
    BY <1>7 DEF Terminate, envVars
  <2>2. pc' \notin FramePcs
    BY <1>7 DEF Terminate, Enter, FramePcs
  <2> QED
    BY <2>1, <2>2, SnapshotKept
<1>8. CASE Disconnect
  BY <1>8, SnapshotNone DEF Disconnect, Synced, callVars, FramePcs
<1> QED
  BY <1>1, <1>2, <1>3, <1>4, <1>5, <1>6, <1>7, <1>8 DEF Caller

\* A read of events starts no frame; a stop is not read while a snapshot waits.
LEMMA SnapshotRead ==
    ASSUME TypeOK, NumberedInv, SnapshotInv, ReadEvent PROVE SnapshotInv'
<1>5. CASE ReadUnreadableStop
  <2>1. /\ queue # <<>> /\ IsStop(Head1) /\ pc' \notin FramePcs
        /\ \/ initialSnapshot' = NoSnapshot
           \/ queue' = Tail(queue) /\ UNCHANGED <<made, prog, crossed, late, initialSnapshot>>
    BY <1>5 DEF ReadUnreadableStop, ReadsEvents, GiveUpAfter, Return, IsStop, FramePcs,
                sessionVars
  <2>2. CASE initialSnapshot' = NoSnapshot
    BY <2>1, <2>2, SnapshotNone
  <2>3. CASE queue' = Tail(queue) /\ UNCHANGED <<made, prog, crossed, late, initialSnapshot>>
    <3>1. taken # made
      BY <2>1, <2>3, QueueRead, NumberedNow
    <3> QED
      BY <2>1, <2>3, <3>1 DEF SnapshotInv
  <2> QED
    BY <2>1, <2>2, <2>3
<1> SUFFICES ASSUME ReadStopped \/ ReadTerminated \/ ReadThread \/ ReadOther
             PROVE  SnapshotInv'
  BY <1>5 DEF ReadEvent
<1>1. UNCHANGED <<made, prog, crossed, late, initialSnapshot>>
  BY DEF ReadStopped, ReadTerminated, ReadThread, ReadOther, Skipped, Ended, envVars,
         historyVars, sessionVars
<1>2. pc' \notin FramePcs
  <2>1. pc \in {"poll", "untilStop"}
    BY DEF ReadStopped, ReadTerminated, ReadThread, ReadOther, ReadsEvents, Loops
  <2>2. CASE ReadStopped
    BY <2>2 DEF ReadStopped, Enrich, FramePcs
  <2>3. CASE ReadTerminated
    BY <2>3 DEF ReadTerminated, Ended, Return, FramePcs
  <2>4. CASE ReadThread
    BY <2>1, <2>4 DEF ReadThread, Skipped, Ended, Return, FramePcs
  <2>5. CASE ReadOther
    BY <2>1, <2>5 DEF ReadOther, Skipped, FramePcs
  <2> QED
    BY <2>2, <2>3, <2>4, <2>5
<1>3. CASE taken' = taken
  BY <1>1, <1>2, <1>3, SnapshotKept
<1>4. CASE ReadStopped
  <2>1. queue # <<>> /\ queue' = Tail(queue) /\ IsStop(Head1)
    BY <1>4 DEF ReadStopped, ReadsEvents, IsStop
  <2>2. taken # made
    BY <2>1, QueueRead, NumberedNow
  <2> QED
    BY <1>1, <1>2, <2>2 DEF SnapshotInv
<1> QED
  BY <1>3, <1>4 DEF ReadTerminated, ReadThread, ReadOther, historyVars

LEMMA SnapshotRequestSnapshot ==
    ASSUME TypeOK, CallInv, LifeInv, SnapshotInv, NEW answered \in BOOLEAN,
           SnapshotRequest(answered) \/ ExceptionAnswered
    PROVE  SnapshotInv'
<1>1. CASE GiveUp
  BY <1>1, SnapshotGiveUp
<1>2. CASE ~GiveUp
  <2>1. UNCHANGED <<taken, made, prog, crossed, late, up, state>>
    BY <1>2
       DEF SnapshotRequest, HitsAnswered, ThreadsAnswered, StacksAnswered, VariablesAnswered,
           BreakListAnswered, ExceptionAnswered, envVars
  <2>2. CASE HitsAnswered(answered) \/ ThreadsAnswered(answered)
    <3>1. pc' \notin FramePcs /\ initialSnapshot' = initialSnapshot
      BY <1>2, <2>2 DEF HitsAnswered, ThreadsAnswered, Later, FramePcs
    <3> QED
      BY <2>1, <3>1, SnapshotKept
  <2>3. CASE StacksAnswered(answered)
    <3>1. /\ draft' = [draft EXCEPT !.frame = made] /\ up /\ prog = "stopped" /\ pc = "stacks"
          /\ initialSnapshot' = initialSnapshot
      BY <1>2, <2>3 DEF StacksAnswered, Later
    <3>2. draft'.life = draft.life /\ draft'.frame = made
      BY <3>1, FrameTypes DEF TypeOK, CallOK, EnvironmentOK
    <3>3. draft.life = state
      BY <3>1 DEF CallInv, SnapshotPcs
    <3> QED
      BY <2>1, <3>1, <3>2, <3>3 DEF SnapshotInv, LifeInv, StoppedInv
  <2>4. CASE pc \in FramePcs /\ AfterVariables(draft)
    <3>1. CASE pc' \in FramePcs /\ draft' = draft /\ initialSnapshot' = initialSnapshot
      BY <2>1, <2>4, <3>1, SnapshotKept
    <3>2. CASE Give(draft)
      <4>1. pc' \notin FramePcs /\ initialSnapshot' \in {initialSnapshot, draft}
        BY <3>2 DEF Give, Return, FramePcs
      <4> QED
        BY <2>1, <2>4, <4>1 DEF SnapshotInv
    <3> QED
      BY <2>4, <3>1, <3>2 DEF AfterVariables, Later, FramePcs
  <2> QED
    BY <1>2, <2>2, <2>3, <2>4
       DEF SnapshotRequest, VariablesAnswered, BreakListAnswered, ExceptionAnswered, FramePcs
<1> QED
  BY <1>1, <1>2

LEMMA SnapshotProceed ==
    ASSUME TypeOK, NumberedInv, CallInv, LifeInv, SnapshotInv, Proceed PROVE SnapshotInv'
<1>1. CASE GiveUp
  BY <1>1, SnapshotGiveUp
<1>2. CASE PollEnds \/ ResumeTimesOut
  <2>1. UNCHANGED <<taken, made, initialSnapshot, prog, crossed>>
    BY <1>2 DEF PollEnds, ResumeTimesOut, sessionVars, envVars, historyVars
  <2>2. pc' \notin FramePcs
    BY <1>2 DEF PollEnds, ResumeTimesOut, Return, FramePcs
  <2>3. late' = late \/ late' = (late \/ call # "pause")
    BY <1>2 DEF PollEnds, ResumeTimesOut, envVars
  <2>4. late => late'
    BY <2>3
  <2> QED
    BY <2>1, <2>2, <2>4, SnapshotKept
<1>3. CASE Resumed
  <2>1. initialSnapshot' = NoSnapshot
    BY <1>3 DEF Resumed, CallInv
  <2>2. pc' \notin FramePcs
    BY <1>3 DEF Resumed, Return, FramePcs
  <2> QED
    BY <2>1, <2>2, SnapshotNone
<1>4. CASE Terminated
  <2>1. UNCHANGED <<taken, made, initialSnapshot, crossed, late>> /\ prog' = "gone"
    BY <1>4 DEF Terminated, historyVars
  <2>2. pc' \notin FramePcs
    BY <1>4 DEF Terminated, Return, FramePcs
  <2> QED
    BY <2>1, <2>2, SnapshotKept
<1>5. ASSUME NEW answered \in BOOLEAN, Initialized(answered) \/ Configured(answered)
      PROVE  SnapshotInv'
  <2>1. CASE ~GiveUp
    <3>1. initialSnapshot' = initialSnapshot /\ pc \in {"initialize", "configure"}
          /\ pc' \notin FramePcs
      BY <1>5, <2>1 DEF Initialized, Configured, sessionVars, FramePcs
    <3>2. initialSnapshot = NoSnapshot
      BY <3>1 DEF CallInv
    <3> QED
      BY <3>1, <3>2, SnapshotNone
  <2> QED
    BY <1>1, <2>1
<1>6. ASSUME NEW answered \in BOOLEAN, BreakpointsSet(answered) PROVE SnapshotInv'
  BY <1>6, SnapshotKept DEF BreakpointsSet, Return, envVars, historyVars, FramePcs
<1>7. ASSUME NEW answered \in BOOLEAN, ThreadsAfterExit(answered) PROVE SnapshotInv'
  <2>1. UNCHANGED <<taken, made, prog, crossed, late, initialSnapshot>>
    BY <1>7 DEF ThreadsAfterExit, envVars, sessionVars
  <2>2. pc' \notin FramePcs
    BY <1>7 DEF ThreadsAfterExit, Ended, Return, FramePcs
  <2> QED
    BY <2>1, <2>2, SnapshotKept
<1> QED
  BY <1>1, <1>2, <1>3, <1>4, <1>5, <1>6, <1>7, SnapshotRead, SnapshotRequestSnapshot
     DEF Proceed, UntilStopTimesOut, ResumeRefused, TerminateFails, Answered

-----------------------------------------------------------------------------
LEMMA InvInit == Init => Inv
<1> SUFFICES ASSUME Init PROVE Inv
  OBVIOUS
<1>1. /\ queue = <<>> /\ taken = 0 /\ made = 0 /\ kept = NoSession
      /\ pc = "idle" /\ call = "none" /\ prog = "unborn" /\ up = FALSE
      /\ initialSnapshot = NoSnapshot
  BY DEF Init
<1>2. Stops(queue) = {} /\ Ends(queue) = {}
  BY <1>1 DEF Stops, Ends
<1>3. NumberedInv
  BY <1>1, NumberedEmpty, SessionTypes DEF NumberedInv
<1>4. CallInv
  BY <1>1 DEF CallInv, launching, SnapshotPcs
<1>5. EndsInv /\ RunningInv /\ OneStopInv /\ StoppedInv
  BY <1>1, <1>2 DEF EndsInv, RunningInv, OneStopInv, StoppedInv
<1>6. SnapshotInv /\ NamedInv
  BY <1>1, SnapshotTypes DEF SnapshotInv, FramePcs, NamedInv
<1> QED
  BY <1>3, <1>4, <1>5, <1>6, TypeInit DEF Inv

LEMMA InvStep == Inv /\ [Next]_vars => Inv'
<1> SUFFICES ASSUME Inv, [Next]_vars PROVE Inv'
  OBVIOUS
<1>1. TypeOK /\ NumberedInv /\ NamedInv /\ CallInv /\ LifeInv /\ SnapshotInv
  BY DEF Inv, LifeInv
<1>2. TypeOK' /\ NumberedInv' /\ NamedInv' /\ CallInv'
  BY <1>1, TypeStep, NumberedStep, NamedStep, CallStep
<1>3. CASE UNCHANGED vars
  <2>1. LifeInv'
    BY <1>1, <1>3, LifeCalm DEF Calm, vars, sessionVars, envVars, historyVars
  <2>2. SnapshotInv'
    BY <1>1, <1>3, SnapshotKept DEF vars, sessionVars, callVars, envVars, historyVars
  <2> QED
    BY <1>2, <2>1, <2>2 DEF Inv, LifeInv
<1>4. CASE Next
  <2>1. LifeInv'
    BY <1>1, <1>4, LifeEnvironment, LifeCaller, LifeProceed DEF Next
  <2>2. SnapshotInv'
    BY <1>1, <1>4, SnapshotEnvironment, SnapshotCaller, SnapshotProceed DEF Next
  <2> QED
    BY <1>2, <2>1, <2>2 DEF Inv, LifeInv
<1> QED
  BY <1>3, <1>4

LEMMA InvHolds == Spec => []Inv
BY InvInit, InvStep, PTL DEF Spec

\* A session at rest that says "Running" with nothing queued is right about the program,
\* unless the last stop of the program did not say which thread it was.
THEOREM RunningIsTrue == Spec => []RunningHasNews
<1>1. Inv => RunningHasNews
  BY DEF Inv, RunningInv, RunningHasNews
<1> QED
  BY <1>1, InvHolds, PTL

\* A session at rest that says "Stopped" with nothing queued stands where the program
\* stands, whatever was refused, timed out or skipped on the way, unless a resume
\* crossed a stop or the program went on by itself.
THEOREM StoppedWhereItSays == Spec => []StoppedIsTrue
<1>1. Inv => StoppedIsTrue
  BY QueueWords DEF Inv, StoppedInv, StoppedIsTrue, AtRest
<1> QED
  BY <1>1, InvHolds, PTL

-----------------------------------------------------------------------------
(* What the user interface is given.                                       *)

\* A step that gives the interface something else gives it an empty snapshot, the
\* snapshot of the launch or the one just made.
LEMMA ShownByEnded == Ended => shown' = shown \/ shown' = EmptySnapshot("Exited")
BY DEF Ended

LEMMA ShownByRequest ==
    ASSUME NEW answered \in BOOLEAN, SnapshotRequest(answered) \/ ExceptionAnswered
    PROVE  \/ shown' = shown
           \/ pc \in FramePcs /\ shown' = draft /\ UNCHANGED <<taken, crossed, late>>
<1>1. CASE GiveUp
  BY <1>1 DEF GiveUp, GiveUpAfter
<1>2. CASE ~GiveUp
  <2>1. CASE HitsAnswered(answered) \/ ThreadsAnswered(answered) \/ StacksAnswered(answered)
    BY <1>2, <2>1 DEF HitsAnswered, ThreadsAnswered, StacksAnswered, Later
  <2>2. CASE /\ pc \in FramePcs /\ AfterVariables(draft)
             /\ UNCHANGED <<envVars, taken, crossed>>
    BY <2>2 DEF AfterVariables, Later, Give, envVars
  <2> QED
    BY <1>2, <2>1, <2>2
       DEF SnapshotRequest, VariablesAnswered, BreakListAnswered, ExceptionAnswered, FramePcs
<1> QED
  BY <1>1, <1>2

LEMMA ShownByProceed ==
    ASSUME Proceed
    PROVE  \/ shown' = shown \/ shown' = EmptySnapshot("Exited")
           \/ pc \in FramePcs /\ shown' = draft /\ UNCHANGED <<taken, crossed, late>>
<1>1. CASE ReadEvent
  BY <1>1, ShownByEnded
     DEF ReadEvent, ReadStopped, ReadUnreadableStop, GiveUpAfter, ReadTerminated, ReadThread,
         ReadOther, historyVars
<1>2. CASE PollEnds \/ Resumed \/ ResumeTimesOut \/ Terminated \/ GiveUp
  BY <1>2 DEF PollEnds, Resumed, ResumeTimesOut, Terminated, GiveUp, GiveUpAfter, historyVars
<1>3. ASSUME NEW answered \in BOOLEAN,
             Initialized(answered) \/ Configured(answered) \/ BreakpointsSet(answered)
      PROVE  shown' = shown
  BY <1>3 DEF Initialized, Configured, BreakpointsSet, GiveUp, GiveUpAfter, historyVars
<1>4. ASSUME NEW answered \in BOOLEAN, ThreadsAfterExit(answered)
      PROVE  shown' = shown \/ shown' = EmptySnapshot("Exited")
  BY <1>4, ShownByEnded DEF ThreadsAfterExit
<1> QED
  BY <1>1, <1>2, <1>3, <1>4, ShownByRequest
     DEF Proceed, UntilStopTimesOut, ResumeRefused, TerminateFails, Answered

LEMMA ShownByCaller ==
    ASSUME Caller \/ Poll
    PROVE  \/ shown' = shown \/ shown' = NoSnapshot
           \/ state \in {"Exited", "Disconnected"} /\ shown' = EmptySnapshot(state)
           \/ shown' = initialSnapshot /\ UNCHANGED <<taken, crossed, late>>
<1>1. CASE Sync
  BY <1>1 DEF Sync, envVars
<1>2. CASE ~Sync
  BY <1>2
     DEF Caller, Poll, Launch, Terminate, Disconnect, Resume, Ask, SetBreakpoints, Enter
<1> QED
  BY <1>1, <1>2

LEMMA CurrentStep ==
    ASSUME Inv, Next, shown' # shown, shown'.life = "Stopped", ~crossed', ~late'
    PROVE  shown'.frame = taken'
<1>1. shown' # NoSnapshot /\ \A s \in {"Exited", "Disconnected"} : shown' # EmptySnapshot(s)
  BY SnapshotTypes, LifeTypes DEF Lives
<1>2. CASE Environment
  BY <1>2
     DEF Environment, ProgramStops, ProgramContinues, ThreadExits, AdapterChatters, LateResume,
         AdapterDies, historyVars
<1>3. CASE Caller \/ Poll
  BY <1>1, <1>3, ShownByCaller DEF Inv, SnapshotInv
<1>4. CASE Proceed
  BY <1>1, <1>4, ShownByProceed DEF Inv, SnapshotInv
<1> QED
  BY <1>2, <1>3, <1>4 DEF Next

\* A snapshot of a stopped program that is given to the interface is of the stop read
\* last, even when several polls, a launch's first snapshot or a sync came in between.
THEOREM GivenSnapshotIsCurrent == Spec => SnapshotIsCurrent
<1>1. Inv /\ [Next]_vars =>
          [shown' # shown /\ shown'.life = "Stopped" /\ ~crossed' /\ ~late'
               => shown'.frame = taken']_vars
  BY CurrentStep
<1> QED
  BY <1>1, InvHolds, PTL DEF Spec, SnapshotIsCurrent

-----------------------------------------------------------------------------
(***************************************************************************)
(* A debug session over DAP keeps the promise of SessionLifecycle: what a  *)
(* user interface sees of DebugSession is a behaviour of that module.      *)
(*                                                                         *)
(* The unread stops of the promise are those the queue still holds.  Their *)
(* numbers (NumberedInv) make them a sequence of threads: a stop that      *)
(* happens appends to it, one that is read takes its head, and any other   *)
(* event leaves it alone.  A launch hides the session it replaces, until   *)
(* it ends with a new one or gives the old one back.                       *)
(***************************************************************************)

(* The unread stops as a sequence of threads.                              *)

LEMMA StopInIs ==
    ASSUME NEW q \in Seq(Event), NEW first \in Nat, NEW last \in Nat,
           Numbered(q, first, last), NEW i \in Stops(q)
    PROVE  StopIn(q, q[i].n) = q[i].thread
<1>1. /\ i \in 1..Len(q) /\ q[i] \in Event /\ q[i].kind = "stopped"
      /\ q[i].thread \in Threads \cup {NoThread}
  BY DEF Stops, IsStop, Numbered
<1>2. q[i] = StoppedEvent(q[i].thread, q[i].n)
  BY <1>1 DEF Event, StoppedEvent
<1> DEFINE Is(t) == \E j \in 1..Len(q) : q[j] = StoppedEvent(t, q[i].n)
<1>3. ASSUME NEW t \in Threads \cup {NoThread}, Is(t) PROVE t = q[i].thread
  <2>1. PICK j \in 1..Len(q) : q[j] = StoppedEvent(t, q[i].n)
    BY <1>3
  <2>2. j \in Stops(q) /\ q[j].n = q[i].n /\ q[j].thread = t
    BY <2>1 DEF Stops, IsStop, StoppedEvent
  <2>3. j = i
    BY <2>2, NumberedFacts
  <2> QED
    BY <2>2, <2>3
<1>4. Is(q[i].thread)
  BY <1>1, <1>2
<1>5. StopIn(q, q[i].n) = CHOOSE t \in Threads \cup {NoThread} : Is(t)
  BY DEF StopIn
<1> HIDE DEF Is
<1> QED
  BY <1>1, <1>3, <1>4, <1>5

LEMMA StopWithNumber ==
    ASSUME NEW q \in Seq(Event), NEW first \in Nat, NEW last \in Nat,
           Numbered(q, first, last), NEW n \in first + 1..last
    PROVE  \E i \in Stops(q) : /\ q[i].n = n /\ q[i].thread \in Threads \cup {NoThread}
                               /\ StopIn(q, n) = q[i].thread
<1>1. PICK i \in Stops(q) : q[i].n = n
  BY DEF Numbered
<1>2. q[i].thread \in Threads \cup {NoThread}
  BY DEF Numbered
<1>3. StopIn(q, q[i].n) = q[i].thread
  BY StopInIs
<1> QED
  BY <1>1, <1>2, <1>3

LEMMA ThreadsSeq ==
    ASSUME NEW q \in Seq(Event), NEW first \in Nat, NEW last \in Nat,
           Numbered(q, first, last)
    PROVE  /\ ThreadsOf(q, first, last) \in Seq(Threads \cup {NoThread})
           /\ Len(ThreadsOf(q, first, last)) = last - first
           /\ \A i \in 1..last - first : ThreadsOf(q, first, last)[i] = StopIn(q, first + i)
<1> DEFINE s == ThreadsOf(q, first, last)
           k == last - first
<1>1. k \in Nat
  BY DEF Numbered
<1>2. ASSUME NEW i \in 1..k PROVE StopIn(q, first + i) \in Threads \cup {NoThread}
  <2>1. first + i \in first + 1..last
    BY <1>1
  <2> QED
    BY <2>1, StopWithNumber
<1>3. s = [i \in 1..k |-> StopIn(q, first + i)]
  BY DEF ThreadsOf
<1> HIDE DEF s, k
<1>4. s \in [1..k -> Threads \cup {NoThread}]
  BY <1>2, <1>3
<1>5. s \in Seq(Threads \cup {NoThread})
  BY <1>1, <1>4, SeqDef
<1>6. Len(s) = k
  <2>1. DOMAIN s = 1..k /\ DOMAIN s = 1..Len(s) /\ Len(s) \in Nat
    BY <1>4, <1>5, LenProperties
  <2> QED
    BY <1>1, <2>1
<1> QED
  BY <1>3, <1>5, <1>6 DEF s, k

\* Two queues with the same stops after the first ones tell of the same threads.
LEMMA SameStops ==
    ASSUME NEW q \in Seq(Event), NEW r \in Seq(Event),
           NEW first \in Nat, NEW second \in Nat, NEW last \in Nat, NEW end \in Nat,
           Numbered(q, first, last), Numbered(r, second, end),
           NEW n \in first + 1..last, n \in second + 1..end,
           \A j \in Stops(r) : r[j].n \in first + 1..last => \E i \in Stops(q) : q[i] = r[j]
    PROVE  StopIn(r, n) = StopIn(q, n)
<1>1. PICK j \in Stops(r) : r[j].n = n /\ StopIn(r, n) = r[j].thread
  BY StopWithNumber, SMTT(30)
<1>2. PICK i \in Stops(q) : q[i] = r[j]
  BY <1>1
<1>3. StopIn(q, q[i].n) = q[i].thread
  BY StopInIs
<1> QED
  BY <1>1, <1>2, <1>3

LEMMA ThreadsTold ==
    ASSUME NEW q \in Seq(Event), NEW first \in Nat, NEW last \in Nat,
           Numbered(q, first, last), NEW e \in Event, ~IsStop(e)
    PROVE  ThreadsOf(Append(q, e), first, last) = ThreadsOf(q, first, last)
<1> DEFINE r == Append(q, e)
<1>1. r \in Seq(Event) /\ Numbered(r, first, last)
  BY NumberedTold
<1>2. Stops(r) = Stops(q) /\ \A i \in Stops(q) : r[i] = q[i]
  BY StopsAppend DEF Stops
<1> HIDE DEF r
<1>3. ASSUME NEW n \in first + 1..last PROVE StopIn(r, n) = StopIn(q, n)
  BY <1>1, <1>2, SameStops
<1>4. /\ Len(ThreadsOf(r, first, last)) = last - first
      /\ Len(ThreadsOf(q, first, last)) = last - first
      /\ ThreadsOf(r, first, last) \in Seq(Threads \cup {NoThread})
      /\ ThreadsOf(q, first, last) \in Seq(Threads \cup {NoThread})
      /\ \A i \in 1..last - first : /\ ThreadsOf(q, first, last)[i] = StopIn(q, first + i)
                                    /\ ThreadsOf(r, first, last)[i] = StopIn(r, first + i)
  BY <1>1, ThreadsSeq
<1>5. \A i \in 1..last - first : first + i \in first + 1..last
  BY DEF Numbered
<1>6. ThreadsOf(r, first, last) = ThreadsOf(q, first, last)
  BY <1>3, <1>4, <1>5, SeqEqual
<1> QED
  BY <1>6 DEF r

LEMMA ThreadsRead ==
    ASSUME NEW q \in Seq(Event), NEW first \in Nat, NEW last \in Nat,
           Numbered(q, first, last), q # <<>>, ~IsStop(q[1])
    PROVE  ThreadsOf(Tail(q), first, last) = ThreadsOf(q, first, last)
<1> DEFINE r == Tail(q)
<1>1. r \in Seq(Event) /\ Numbered(r, first, last)
  BY NumberedRead
<1>2. ASSUME NEW j \in Stops(r) PROVE \E i \in Stops(q) : q[i] = r[j]
  <2>1. Stops(r) = {i - 1 : i \in Stops(q) \ {1}} /\ \A i \in 1..Len(q) - 1 : r[i] = q[i + 1]
    BY StopsTail
  <2>2. PICK i \in Stops(q) \ {1} : j = i - 1
    BY <2>1
  <2>3. i \in 1..Len(q) /\ Len(q) \in Nat
    BY DEF Stops
  <2>4. j \in 1..Len(q) - 1 /\ j + 1 = i
    BY <2>2, <2>3
  <2> QED
    BY <2>1, <2>2, <2>4
<1> HIDE DEF r
<1>3. ASSUME NEW n \in first + 1..last PROVE StopIn(r, n) = StopIn(q, n)
  BY <1>1, <1>2, SameStops
<1>4. /\ Len(ThreadsOf(r, first, last)) = last - first
      /\ Len(ThreadsOf(q, first, last)) = last - first
      /\ ThreadsOf(r, first, last) \in Seq(Threads \cup {NoThread})
      /\ ThreadsOf(q, first, last) \in Seq(Threads \cup {NoThread})
      /\ \A i \in 1..last - first : /\ ThreadsOf(q, first, last)[i] = StopIn(q, first + i)
                                    /\ ThreadsOf(r, first, last)[i] = StopIn(r, first + i)
  BY <1>1, ThreadsSeq
<1>5. \A i \in 1..last - first : first + i \in first + 1..last
  BY DEF Numbered
<1>6. ThreadsOf(r, first, last) = ThreadsOf(q, first, last)
  BY <1>3, <1>4, <1>5, SeqEqual
<1> QED
  BY <1>6 DEF r

LEMMA ThreadsTaken ==
    ASSUME NEW q \in Seq(Event), NEW first \in Nat, NEW last \in Nat,
           Numbered(q, first, last), q # <<>>, IsStop(q[1])
    PROVE  /\ ThreadsOf(q, first, last) # <<>>
           /\ Head(ThreadsOf(q, first, last)) = q[1].thread
           /\ ThreadsOf(Tail(q), first + 1, last) = Tail(ThreadsOf(q, first, last))
<1> DEFINE r == Tail(q)
           s == ThreadsOf(q, first, last)
           t == ThreadsOf(r, first + 1, last)
<1>1. r \in Seq(Event) /\ Numbered(r, first + 1, last)
  BY NumberedRead
<1>2. ASSUME NEW j \in Stops(r) PROVE \E i \in Stops(q) : q[i] = r[j]
  <2>1. Stops(r) = {i - 1 : i \in Stops(q) \ {1}} /\ \A i \in 1..Len(q) - 1 : r[i] = q[i + 1]
    BY StopsTail
  <2>2. PICK i \in Stops(q) \ {1} : j = i - 1
    BY <2>1
  <2>3. i \in 1..Len(q) /\ Len(q) \in Nat
    BY DEF Stops
  <2>4. j \in 1..Len(q) - 1 /\ j + 1 = i
    BY <2>2, <2>3
  <2> QED
    BY <2>1, <2>2, <2>4
<1>3. first + 1 <= last
  BY <1>1 DEF Numbered
<1>4. /\ s \in Seq(Threads \cup {NoThread}) /\ Len(s) = last - first
      /\ \A i \in 1..last - first : s[i] = StopIn(q, first + i)
  BY ThreadsSeq
<1>5. /\ t \in Seq(Threads \cup {NoThread}) /\ Len(t) = last - (first + 1)
      /\ \A i \in 1..last - (first + 1) : t[i] = StopIn(r, (first + 1) + i)
  <2>1. first + 1 \in Nat
    OBVIOUS
  <2> HIDE DEF r
  <2> QED
    BY <1>1, <2>1, ThreadsSeq
<1>11. StopIn(q, first + 1) = q[1].thread
  <2>1. 1 \in Stops(q)
    BY DEF Stops
  <2>2. q[1].n = first + 1
    BY <2>1, NumberedFacts
  <2> QED
    BY <2>1, <2>2, StopInIs
<1> HIDE DEF r, s, t
<1>6. ASSUME NEW n \in first + 2..last PROVE StopIn(r, n) = StopIn(q, n)
  <2>1. n \in first + 1..last /\ n \in (first + 1) + 1..last
    OBVIOUS
  <2> QED
    BY <1>1, <1>2, <2>1, SameStops
<1>7. s # <<>>
  BY <1>3, <1>4
<1>8. Tail(s) \in Seq(Threads \cup {NoThread}) /\ Len(Tail(s)) = last - (first + 1)
      /\ \A i \in 1..last - (first + 1) : Tail(s)[i] = s[i + 1]
  BY <1>4, <1>7, HeadTailProperties
<1>9. ASSUME NEW i \in 1..last - (first + 1) PROVE t[i] = Tail(s)[i]
  <2>1. (first + 1) + i \in first + 2..last /\ first + (i + 1) = (first + 1) + i
        /\ i + 1 \in 1..last - first
    BY <1>3
  <2> QED
    BY <1>4, <1>5, <1>6, <1>8, <2>1
<1>10. t = Tail(s)
  BY <1>5, <1>8, <1>9, SeqEqual
<1>12. Head(s) = q[1].thread
  <2>1. 1 \in 1..last - first /\ Head(s) = s[1]
    BY <1>3, <1>4, <1>7
  <2> QED
    BY <1>4, <1>11, <2>1
<1> QED
  BY <1>7, <1>10, <1>12 DEF r, s, t

LEMMA ThreadsStop ==
    ASSUME NEW q \in Seq(Event), NEW first \in Nat, NEW last \in Nat,
           Numbered(q, first, last), NEW th \in Threads \cup {NoThread}, last < MaxStops
    PROVE  ThreadsOf(Append(q, StoppedEvent(th, last + 1)), first, last + 1) =
           Append(ThreadsOf(q, first, last), th)
<1> DEFINE e == StoppedEvent(th, last + 1)
           r == Append(q, e)
           s == ThreadsOf(q, first, last)
           t == ThreadsOf(r, first, last + 1)
<1>1. e \in Event /\ IsStop(e) /\ e.n = last + 1 /\ e.thread = th
  <2>1. last + 1 \in 0..MaxStops
    BY SessionAssumption
  <2> QED
    BY <2>1, EventTypes DEF StoppedEvent, IsStop
<1>2. r \in Seq(Event) /\ Numbered(r, first, last + 1)
  BY <1>1, NumberedStop
<1> HIDE DEF e
<1>3. /\ Stops(r) = Stops(q) \cup {Len(q) + 1}
      /\ \A i \in Stops(q) : r[i] = q[i] /\ i \in 1..Len(q)
      /\ r[Len(q) + 1] = e
  BY <1>1, StopsAppend DEF Stops
<1>4. /\ s \in Seq(Threads \cup {NoThread}) /\ Len(s) = last - first
      /\ \A i \in 1..last - first : s[i] = StopIn(q, first + i)
  BY ThreadsSeq
<1>5. /\ t \in Seq(Threads \cup {NoThread}) /\ Len(t) = (last + 1) - first
      /\ \A i \in 1..(last + 1) - first : t[i] = StopIn(r, first + i)
  <2>1. last + 1 \in Nat
    OBVIOUS
  <2> HIDE DEF r
  <2> QED
    BY <1>2, <2>1, ThreadsSeq
<1>6. first <= last
  BY DEF Numbered
<1> HIDE DEF r, s, t
<1>7. ASSUME NEW n \in first + 1..last PROVE StopIn(r, n) = StopIn(q, n)
  <2>1. ASSUME NEW j \in Stops(r), r[j].n \in first + 1..last
        PROVE  \E i \in Stops(q) : q[i] = r[j]
    BY <1>1, <1>3, <2>1
  <2>2. n \in first + 1..last + 1 /\ last + 1 \in Nat
    OBVIOUS
  <2> DEFINE end == last + 1
  <2> HIDE DEF end
  <2>3. end \in Nat /\ n \in first + 1..end /\ Numbered(r, first, end)
    BY <1>2, <2>2 DEF end
  <2>4. \A j \in Stops(r) : r[j].n \in first + 1..last => \E i \in Stops(q) : q[i] = r[j]
    BY <2>1
  <2>5. r \in Seq(Event)
    BY <1>2
  <2> QED
    BY ONLY <2>3, <2>4, <2>5, SameStops, Numbered(q, first, last), q \in Seq(Event),
       first \in Nat, last \in Nat, n \in first + 1..last
<1>8. StopIn(r, last + 1) = th
  <2>1. Len(q) + 1 \in Stops(r)
    BY <1>3
  <2> QED
    BY <1>1, <1>2, <1>3, <2>1, StopInIs
<1>9. /\ Append(s, th) \in Seq(Threads \cup {NoThread}) /\ Len(Append(s, th)) = (last + 1) - first
      /\ \A i \in 1..last - first : Append(s, th)[i] = s[i]
      /\ Append(s, th)[(last - first) + 1] = th
  <2>1. /\ Append(s, th) \in Seq(Threads \cup {NoThread}) /\ Len(Append(s, th)) = Len(s) + 1
        /\ \A i \in 1..Len(s) : Append(s, th)[i] = s[i]
        /\ Append(s, th)[Len(s) + 1] = th
    BY <1>4, AppendProperties
  <2>2. (last - first) + 1 = (last + 1) - first
    BY <1>6
  <2> QED
    BY <1>4, <2>1, <2>2
<1>10. ASSUME NEW i \in 1..(last + 1) - first PROVE t[i] = Append(s, th)[i]
  <2>1. CASE i \in 1..last - first
    <3>1. first + i \in first + 1..last
      BY <1>6, <2>1
    <3> QED
      BY <1>4, <1>5, <1>7, <1>9, <2>1, <3>1
  <2>2. CASE i = (last - first) + 1
    <3>1. first + i = last + 1
      BY <2>2
    <3> QED
      BY <1>5, <1>8, <1>9, <2>2, <3>1
  <2>3. i \in 1..last - first \/ i = (last - first) + 1
    BY <1>6
  <2> QED
    BY <2>1, <2>2, <2>3
<1>11. t = Append(s, th)
  BY <1>5, <1>9, <1>10, SeqEqual
<1> QED
  BY <1>11 DEF e, r, s, t
-----------------------------------------------------------------------------
(* The state of the promise as the session keeps it.                       *)

Life == IF launching THEN "Disconnected" ELSE state
Known == ~launching /\ activeThread # NoThread
Unread == IF launching THEN ThreadsOf(kept.queue, kept.taken, kept.made)
                       ELSE ThreadsOf(queue, taken, made)

Stutters == UNCHANGED <<Life, Known, Unread>>

\* The snapshot a launch ends with is of a stopped program.
LaunchInv == launching /\ pc \in SnapshotPcs => state = "Stopped"

LEMMA LaunchInvStep ==
    ASSUME TypeOK, CallInv, LaunchInv, [Next]_vars PROVE LaunchInv'
<1>1. CASE UNCHANGED vars
  BY <1>1 DEF LaunchInv, launching, vars, sessionVars, callVars
<1>2. CASE Environment
  BY <1>2 DEF LaunchInv, launching, Environment, ProgramStops, ProgramContinues, ThreadExits,
     AdapterChatters, LateResume, AdapterDies, sessionVars, callVars
<1>3. CASE Caller \/ Poll
  <2>1. ASSUME NEW c \in {"launch", "restart"}, Launch(c) PROVE LaunchInv'
    BY <2>1 DEF LaunchInv, Launch, Enter, SnapshotPcs
  <2>2. CASE Sync
    <3>1. call' = "sync" \/ UNCHANGED <<call, pc, state>>
      BY <2>2 DEF Sync, callVars
    <3> QED
      BY <3>1 DEF LaunchInv, launching
  <2>3. CASE Terminate
    <3>1. pc = "idle" /\ (call' = "terminate" \/ UNCHANGED <<pc, call>>)
      BY <2>3 DEF Terminate, Enter
    <3> QED
      BY <3>1 DEF LaunchInv, launching, SnapshotPcs
  <2>4. CASE Disconnect
    BY <2>4 DEF Disconnect, LaunchInv, SnapshotPcs, callVars
  <2>5. ASSUME NEW r \in Resumes, Resume(r) PROVE LaunchInv'
    BY <2>5 DEF Resume, Enter, LaunchInv, SnapshotPcs
  <2>6. ASSUME NEW q \in DOMAIN Queries, Ask(q) PROVE LaunchInv'
    BY <2>6 DEF Ask, Enter, LaunchInv, SnapshotPcs
  <2>7. ASSUME NEW p \in Paths, NEW some \in BOOLEAN, SetBreakpoints(p, some) PROVE LaunchInv'
    BY <2>7 DEF SetBreakpoints, Enter, LaunchInv, SnapshotPcs
  <2>8. CASE Poll
    BY <2>8 DEF Poll, Enter, LaunchInv, SnapshotPcs
  <2> QED
    BY <1>3, <2>1, <2>2, <2>3, <2>4, <2>5, <2>6, <2>7, <2>8 DEF Caller
<1>4. CASE Proceed
  <2>1. ASSUME GiveUp PROVE LaunchInv'
    BY <2>1 DEF GiveUp, GiveUpAfter, Return, LaunchInv, launching
  <2>2. ASSUME Ended PROVE LaunchInv'
    BY <2>2 DEF Ended, Return, LaunchInv, launching
  <2>3. ASSUME ReadEvent PROVE LaunchInv'
    <3>1. CASE ReadStopped
      BY <3>1 DEF ReadStopped, LaunchInv
    <3>5. CASE ReadUnreadableStop
      BY <3>5 DEF ReadUnreadableStop, GiveUpAfter, Return, LaunchInv, launching
    <3>2. CASE ReadTerminated
      BY <2>2, <3>2 DEF ReadTerminated
    <3>3. CASE ReadThread
      <4>1. Ended \/ pc' \in {"poll", "untilStop", "threadExit"}
        BY <3>3 DEF ReadThread, Skipped, ReadsEvents, Loops
      <4> QED
        BY <2>2, <4>1 DEF LaunchInv, SnapshotPcs
    <3>4. CASE ReadOther
      BY <3>4 DEF ReadOther, Skipped, ReadsEvents, Loops, LaunchInv, SnapshotPcs
    <3> QED
      BY <2>3, <3>1, <3>2, <3>3, <3>4, <3>5 DEF ReadEvent
  <2>4. ASSUME PollEnds \/ Resumed \/ ResumeTimesOut \/ Terminated PROVE LaunchInv'
    <3>1. pc' \in {"idle", "untilStop"}
      BY <2>4 DEF PollEnds, Resumed, ResumeTimesOut, Terminated, Return
    <3> QED
      BY <3>1 DEF LaunchInv, SnapshotPcs
  <2>5. ASSUME UntilStopTimesOut \/ ResumeRefused \/ TerminateFails \/ Answered
        PROVE  LaunchInv'
    BY <2>1, <2>5 DEF UntilStopTimesOut, ResumeRefused, TerminateFails, Answered
  <2>6. ASSUME NEW answered \in BOOLEAN, Initialized(answered) \/ Configured(answered)
        PROVE  LaunchInv'
    <3>1. GiveUp \/ pc' \in {"configure", "untilStop"}
      BY <2>6 DEF Initialized, Configured
    <3> QED
      BY <2>1, <3>1 DEF LaunchInv, SnapshotPcs
  <2>7. ASSUME NEW answered \in BOOLEAN, BreakpointsSet(answered) PROVE LaunchInv'
    BY <2>7 DEF BreakpointsSet, Return, LaunchInv, SnapshotPcs
  <2>8. ASSUME NEW answered \in BOOLEAN, ThreadsAfterExit(answered) PROVE LaunchInv'
    <3>1. Ended \/ pc' \in {"poll", "untilStop"}
      BY <2>8 DEF ThreadsAfterExit
    <3> QED
      BY <2>2, <3>1 DEF LaunchInv, SnapshotPcs
  <2>9. ASSUME NEW answered \in BOOLEAN, SnapshotRequest(answered) \/ ExceptionAnswered
        PROVE  LaunchInv'
    <3>1. GiveUp \/ call' = "none" \/ (call' = call /\ state' = state /\ pc \in SnapshotPcs)
      BY <2>9 DEF SnapshotRequest, HitsAnswered, ThreadsAnswered, StacksAnswered,
         VariablesAnswered, BreakListAnswered, ExceptionAnswered, AfterVariables, Later, Give,
         Return, SnapshotPcs
    <3> QED
      BY <2>1, <3>1 DEF LaunchInv, launching
  <2> QED
    BY <1>4, <2>3, <2>4, <2>5, <2>6, <2>7, <2>8, <2>9 DEF Proceed
<1> QED
  BY <1>1, <1>2, <1>3, <1>4 DEF Next
-----------------------------------------------------------------------------
(* Each step of the session is one of the promise, or shows nothing.       *)

Inner == Inv /\ LaunchInv

\* What the promise allows, in the words of the session.
StopHappens(t) ==
    Len(Unread) < MaxStops /\ Unread' = Append(Unread, t) /\ UNCHANGED <<Life, Known>>
TakesStop ==
    /\ Unread # <<>> /\ Head(Unread) # NoThread
    /\ Life' = "Stopped" /\ Known' = TRUE /\ Unread' = Tail(Unread)
DropsStop ==
    /\ Unread # <<>> /\ Head(Unread) = NoThread
    /\ Unread' = Tail(Unread) /\ UNCHANGED <<Life, Known>>
Goes == Known /\ Life' = "Running" /\ UNCHANGED <<Known, Unread>>
EndsLife == Life' = "Exited" /\ Known' \in {Known, FALSE} /\ UNCHANGED Unread
Closes == Life' = "Disconnected" /\ Known' = FALSE /\ Unread' \in {Unread, <<>>}
Opens ==
    /\ Life = "Disconnected" /\ Life' \in {"Stopped", "Exited"}
    /\ Known' = (Life' = "Stopped") /\ Unread' \in Seq(Threads \cup {NoThread})

Allowed ==
    \/ Stutters \/ \E t \in Threads \cup {NoThread} : StopHappens(t)
    \/ TakesStop \/ DropsStop \/ Goes \/ EndsLife \/ Closes \/ Opens

LEMMA AllowedIsNext == Allowed => [Lifecycle!Next]_(Lifecycle!vars)
<1> USE DEF Life, Known, Unread
<1>1. CASE Stutters
  BY <1>1 DEF Stutters, Lifecycle!vars
<1>2. ASSUME NEW t \in Threads \cup {NoThread}, StopHappens(t) PROVE Lifecycle!Next
  BY <1>2 DEF StopHappens, Lifecycle!Next, Lifecycle!StopHappens
<1>3. CASE TakesStop
  BY <1>3 DEF TakesStop, Lifecycle!Next, Lifecycle!TakeStop
<1>8. CASE DropsStop
  BY <1>8 DEF DropsStop, Lifecycle!Next, Lifecycle!DropStop
<1>4. CASE Goes
  BY <1>4 DEF Goes, Lifecycle!Next, Lifecycle!Resume
<1>5. CASE EndsLife
  BY <1>5 DEF EndsLife, Lifecycle!Next, Lifecycle!End
<1>6. CASE Closes
  BY <1>6 DEF Closes, Lifecycle!Next, Lifecycle!Close
<1>7. CASE Opens
  BY <1>7 DEF Opens, Lifecycle!Next, Lifecycle!Open
<1> QED
  BY <1>1, <1>2, <1>3, <1>4, <1>5, <1>6, <1>7, <1>8 DEF Allowed

\* The unread stops are a sequence of threads, before the step and after it.
LEMMA NumbersOf ==
    ASSUME TypeOK, NumberedInv
    PROVE  /\ queue \in Seq(Event) /\ taken \in Nat /\ made \in Nat
           /\ Numbered(queue, taken, made)
           /\ kept.queue \in Seq(Event) /\ kept.taken \in Nat /\ kept.made \in Nat
           /\ Numbered(kept.queue, kept.taken, kept.made)
<1>1. queue \in Seq(Event) /\ taken \in 0..MaxStops /\ made \in 0..MaxStops /\ kept \in Session
  BY DEF TypeOK, EnvironmentOK, HistoryOK, CallOK
<1>2. kept.queue \in Seq(Event) /\ kept.taken \in 0..MaxStops /\ kept.made \in 0..MaxStops
  BY <1>1, SessionTypes
<1> QED
  BY <1>1, <1>2, SessionAssumption DEF NumberedInv

LEMMA UnreadTypes ==
    TypeOK /\ NumberedInv =>
        /\ ThreadsOf(queue, taken, made) \in Seq(Threads \cup {NoThread})
        /\ Len(ThreadsOf(queue, taken, made)) = made - taken
BY NumbersOf, ThreadsSeq

LEMMA NothingUnread ==
    ASSUME NEW q, q = <<>>, NEW n \in Nat PROVE ThreadsOf(q, n, n) = <<>>
<1>1. q \in Seq(Event) /\ Numbered(q, n, n)
  BY NumberedEmpty
<1>2. ThreadsOf(q, n, n) \in Seq(Threads \cup {NoThread}) /\ Len(ThreadsOf(q, n, n)) = n - n
  BY <1>1, ThreadsSeq
<1>3. n - n = 0
  OBVIOUS
<1> QED
  BY <1>2, <1>3, EmptySeq

\* Outside a launch: nothing the promise speaks of changes.
LEMMA StuttersOutside ==
    ASSUME ~launching, ~launching',
           UNCHANGED <<state, activeThread>>,
           ThreadsOf(queue, taken, made)' = ThreadsOf(queue, taken, made)
    PROVE  Stutters
BY DEF Stutters, Life, Known, Unread

\* Inside a launch: the parts of the old session wait.
LEMMA StuttersInside ==
    ASSUME launching, launching', kept' = kept PROVE Stutters
BY DEF Stutters, Life, Known, Unread

LEMMA UnreadTold ==
    ASSUME TypeOK, NumberedInv, Tells
    PROVE  ThreadsOf(queue, taken, made)' = ThreadsOf(queue, taken, made)
<1>1. ASSUME NEW q \in Seq(Event), Numbered(q, taken, made), NEW e \in Event, ~IsStop(e)
      PROVE  /\ Append(q, e) \in Seq(Event) /\ Numbered(Append(q, e), taken, made)
             /\ ThreadsOf(Append(q, e), taken, made) = ThreadsOf(q, taken, made)
  <2>1. Append(q, e) \in Seq(Event)
    BY AppendProperties
  <2> QED
    BY <1>1, <2>1, NumbersOf, NumberedTold, ThreadsTold
<1>2. UNCHANGED <<taken, made>>
  BY DEF Tells
<1>3. CASE \E e \in Event : ~IsStop(e) /\ queue' = Append(queue, e)
  BY <1>1, <1>2, <1>3, NumbersOf
<1>4. CASE \E e, f \in Event :
             ~IsStop(e) /\ ~IsStop(f) /\ queue' = Append(Append(queue, e), f)
  <2>1. PICK e \in Event, f \in Event :
             ~IsStop(e) /\ ~IsStop(f) /\ queue' = Append(Append(queue, e), f)
    BY <1>4
  <2>2. /\ Append(queue, e) \in Seq(Event) /\ Numbered(Append(queue, e), taken, made)
        /\ ThreadsOf(Append(queue, e), taken, made) = ThreadsOf(queue, taken, made)
    BY <1>1, <2>1, NumbersOf
  <2>3. ThreadsOf(Append(Append(queue, e), f), taken, made) = ThreadsOf(queue, taken, made)
    BY <1>1, <2>1, <2>2
  <2> QED
    BY <1>2, <2>1, <2>3
<1> QED
  BY <1>3, <1>4 DEF Tells

LEMMA UnreadQuiet ==
    ASSUME TypeOK, NumberedInv, Quiet \/ Tells \/ Reads
    PROVE  ThreadsOf(queue, taken, made)' = ThreadsOf(queue, taken, made)
<1>1. CASE Quiet
  BY <1>1 DEF Quiet
<1>2. CASE Tells
  BY <1>2, UnreadTold
<1>3. CASE Reads
  BY <1>3, NumbersOf, ThreadsRead DEF Reads, Head1
<1> QED
  BY <1>1, <1>2, <1>3

-----------------------------------------------------------------------------
LEMMA EnvironmentAllowed ==
    ASSUME TypeOK, NumberedInv, Environment PROVE Allowed
<1>1. UNCHANGED <<call, kept, state, activeThread, taken>>
  BY DEF Environment, ProgramStops, ProgramContinues, ThreadExits, AdapterChatters, LateResume,
     AdapterDies, sessionVars, callVars, historyVars
<1>2. launching' = launching
  BY <1>1 DEF launching
<1>3. CASE launching
  BY <1>1, <1>2, <1>3, StuttersInside DEF Allowed
<1>4. CASE ~launching /\ (Quiet \/ Tells)
  BY <1>1, <1>2, <1>4, UnreadQuiet, StuttersOutside DEF Allowed
<1>5. ASSUME ~launching, NEW t \in Threads, NEW told \in BOOLEAN, ProgramStops(t, told)
      PROVE  \E u \in Threads \cup {NoThread} : StopHappens(u)
  <2>1. PICK u \in Threads \cup {NoThread} :
            queue' = Append(queue, StoppedEvent(u, made + 1)) /\ made' = made + 1
            /\ made < MaxStops
    BY <1>5 DEF ProgramStops
  <2>2. ThreadsOf(queue, taken, made)' = Append(ThreadsOf(queue, taken, made), u)
    BY <1>1, <2>1, NumbersOf, ThreadsStop
  <2>3. Len(ThreadsOf(queue, taken, made)) < MaxStops
    BY <2>1, UnreadTypes, NumbersOf, SessionAssumption
  <2> QED
    BY <1>1, <1>2, <1>5, <2>2, <2>3 DEF StopHappens, Life, Known, Unread
<1> QED
  BY <1>3, <1>4, <1>5, EnvironmentQueue DEF Allowed

LEMMA CallerAllowed ==
    ASSUME TypeOK, NumberedInv, CallInv, Caller \/ Poll PROVE Allowed
<1>1. pc = "idle"
  BY DEF Caller, Poll, Launch, Sync, Terminate, Disconnect, Resume, Ask, SetBreakpoints, Enter
<1>2. ~launching
  BY <1>1 DEF CallInv, launching
<1>3. ASSUME NEW c \in {"launch", "restart"}, Launch(c) PROVE Closes
  <2>1. launching' /\ call' = c
    BY <1>3 DEF Launch, Enter, launching
  <2>2. Life' = "Disconnected" /\ Known' = FALSE
    BY <2>1 DEF Life, Known
  <2>3. Unread = ThreadsOf(queue, taken, made)
    BY <1>2 DEF Unread
  <2>4. Unread' = ThreadsOf(kept'.queue, kept'.taken, kept'.made)
    BY <2>1 DEF Unread, ThreadsOf, StopIn
  <2>5. CASE c = "restart"
    <3>1. kept' = [queue |-> queue, requests |-> requests, caps |-> caps,
                   taken |-> taken, made |-> made]
      BY <1>3, <2>5 DEF Launch
    <3>2. kept'.queue = queue /\ kept'.taken = taken /\ kept'.made = made
      BY <3>1
    <3>3. Unread' = Unread
      BY <2>3, <2>4, <3>2
    <3> QED
      BY <2>2, <3>3 DEF Closes
  <2>6. CASE c = "launch"
    <3>1. kept' = NoSession
      BY <1>3, <2>6 DEF Launch
    <3>2. /\ kept'.queue = <<>> /\ kept'.taken = 0 /\ kept'.made = 0
      BY <3>1, SessionTypes
    <3>3. Unread' = <<>>
      BY <2>4, <3>2, NothingUnread
    <3> QED
      BY <2>2, <3>3 DEF Closes
  <2> QED
    BY <2>5, <2>6
<1>4. ASSUME Quiet, ~launching', UNCHANGED <<state, activeThread>> PROVE Stutters
  BY <1>2, <1>4, UnreadQuiet, StuttersOutside
<1>5. CASE Terminate
  <2>1. UNCHANGED <<queue, taken, made, kept>> /\ (call' = call \/ call' = "terminate")
    BY <1>5 DEF Terminate, Enter, envVars
  <2>2. ~launching'
    BY <1>2, <2>1 DEF launching
  <2>3. CASE UNCHANGED <<state, activeThread>>
    BY <1>4, <2>1, <2>2, <2>3 DEF Allowed, Quiet, KeepsOrDrops
  <2>4. CASE state' = "Exited" /\ activeThread' = NoThread
    BY <1>2, <2>1, <2>2, <2>4 DEF Allowed, EndsLife, Life, Known, Unread
  <2> QED
    BY <1>5, <2>3, <2>4 DEF Terminate
<1>6. CASE Disconnect
  <2>1. /\ UNCHANGED <<queue, taken, made, call, kept>>
        /\ \/ state' = "Disconnected" /\ activeThread' = NoThread
           \/ UNCHANGED <<state, activeThread>>
    BY <1>6 DEF Disconnect, callVars
  <2>2. CASE state' = "Disconnected" /\ activeThread' = NoThread
    BY <1>2, <2>1, <2>2 DEF Allowed, Closes, Life, Known, Unread, launching
  <2>3. CASE UNCHANGED <<state, activeThread>>
    BY <1>2, <1>4, <2>1, <2>3 DEF Allowed, Quiet, KeepsOrDrops, launching
  <2> QED
    BY <2>1, <2>2, <2>3
<1>7. CASE Sync
  <2>1. UNCHANGED <<queue, taken, made, kept, state, activeThread>> /\ call' \in {call, "sync"}
    BY <1>7 DEF Sync, Enrich, envVars, callVars
  <2> QED
    BY <1>2, <1>4, <2>1 DEF Allowed, Quiet, KeepsOrDrops, launching
<1>8. ASSUME NEW c \in {"query", "setBreakpoints", "poll", "pause", "stepBack", "resume"},
             call' = c, UNCHANGED <<queue, taken, made, kept, state, activeThread>>
      PROVE  Allowed
  BY <1>4, <1>8 DEF Allowed, Quiet, KeepsOrDrops, launching
<1>9. ASSUME NEW r \in Resumes, Resume(r) PROVE Allowed
  <2>1. call' \in {"pause", "stepBack", "resume"}
    BY <1>9 DEF Resume, Enter
  <2>2. UNCHANGED <<queue, taken, made, kept, state, activeThread>>
    BY <1>9 DEF Resume, sessionVars, envVars
  <2> QED
    BY <1>8, <2>1, <2>2
<1>10. ASSUME NEW q \in DOMAIN Queries, Ask(q) PROVE Allowed
  BY <1>8, <1>10 DEF Ask, Enter, sessionVars, envVars
<1>11. ASSUME NEW p \in Paths, NEW some \in BOOLEAN, SetBreakpoints(p, some) PROVE Allowed
  BY <1>8, <1>11 DEF SetBreakpoints, Enter, envVars
<1>12. CASE Poll
  BY <1>8, <1>12 DEF Poll, Enter, sessionVars, envVars
<1> QED
  BY <1>3, <1>5, <1>6, <1>7, <1>9, <1>10, <1>11, <1>12 DEF Caller, Allowed
\* A launch that ends well puts its session in the place of the old one.
LEMMA OpensSession ==
    ASSUME TypeOK', NumberedInv', launching, ~launching', state' \in {"Stopped", "Exited"},
           activeThread' # NoThread <=> state' = "Stopped"
    PROVE  Opens
<1>1. (TypeOK /\ NumberedInv => ThreadsOf(queue, taken, made) \in Seq(Threads \cup {NoThread}))'
  BY UnreadTypes, PTL
<1> QED
  BY <1>1 DEF Opens, Life, Known, Unread

\* One that fails leaves the old one as it was.
LEMMA GiveUpInLaunch ==
    ASSUME NEW n, NEW events, launching, GiveUpAfter(n, events) PROVE Stutters
<1>1. call' = "none" /\ ~launching'
  BY DEF GiveUpAfter, Return, launching
<1>2. call \in {"launch", "restart"}
  BY DEF launching
<1>3. /\ queue' = kept.queue /\ taken' = kept.taken /\ made' = kept.made
      /\ state' = "Disconnected" /\ activeThread' = NoThread
  BY <1>2 DEF GiveUpAfter
<1> QED
  BY <1>1, <1>3 DEF Stutters, Life, Known, Unread, ThreadsOf, StopIn

LEMMA GiveUpAllowed ==
    ASSUME TypeOK, NumberedInv, GiveUp PROVE Stutters
<1>1. CASE launching
  BY <1>1, GiveUpInLaunch DEF GiveUp
<1>2. CASE ~launching
  <2>1. call \notin {"launch", "restart"} /\ ~launching'
    BY <1>2 DEF GiveUp, GiveUpAfter, Return, launching
  <2>2. UNCHANGED <<sessionVars, queue, taken, made>>
    BY <2>1 DEF GiveUp, GiveUpAfter
  <2> QED
    BY <1>2, <2>1, <2>2, StuttersOutside DEF sessionVars
<1> QED
  BY <1>1, <1>2

\* The end of the program, read or asked for.
LEMMA EndedAllowed ==
    ASSUME TypeOK, NumberedInv, CallInv, TypeOK', NumberedInv', Ended,
           Quiet \/ Reads, activeThread' = activeThread, pc \notin SnapshotPcs
    PROVE  Allowed
<1>1. state' = "Exited" /\ ~launching'
  BY DEF Ended, Return, launching
<1>2. CASE launching
  <2>1. activeThread' = NoThread
    BY <1>2 DEF CallInv
  <2> QED
    BY <1>1, <1>2, <2>1, OpensSession DEF Allowed
<1>3. CASE ~launching
  BY <1>1, <1>3, UnreadQuiet DEF Allowed, EndsLife, Life, Known, Unread
<1> QED
  BY <1>2, <1>3

\* A step that goes on with its call, or ends one that is no launch.
LEMMA GoesOnAllowed ==
    ASSUME TypeOK, NumberedInv, UNCHANGED <<state, activeThread>>, Quiet \/ Tells \/ Reads,
           \/ UNCHANGED <<call, kept>>
           \/ ~launching /\ ~launching'
    PROVE  Allowed
<1>1. CASE launching
  BY <1>1, StuttersInside DEF launching, Allowed
<1>2. CASE ~launching /\ ~launching'
  BY <1>2, UnreadQuiet, StuttersOutside DEF Allowed
<1> QED
  BY <1>1, <1>2 DEF launching

LEMMA ReadAllowed ==
    ASSUME TypeOK, NumberedInv, CallInv, TypeOK', NumberedInv', ReadEvent PROVE Allowed
<1>1. pc \in Loops
  BY DEF ReadEvent, ReadStopped, ReadUnreadableStop, ReadTerminated, ReadThread, ReadOther,
     ReadsEvents
<1>2. pc \notin SnapshotPcs
  BY <1>1 DEF Loops, SnapshotPcs
<1>5. CASE ReadUnreadableStop
  <2>1. CASE launching
    BY <1>5, <2>1, GiveUpInLaunch DEF ReadUnreadableStop, Allowed
  <2>2. CASE ~launching
    <3>1. /\ queue # <<>> /\ IsStop(Head1) /\ queue' = Tail(queue) /\ taken' = Head1.n
          /\ Head1.thread = NoThread /\ ~launching'
          /\ UNCHANGED <<made, state, activeThread>>
      BY <1>5, <2>2 DEF ReadUnreadableStop, ReadsEvents, GiveUpAfter, Return, IsStop, launching,
                        sessionVars
    <3>2. taken' = taken + 1
      BY <3>1, NumberedNow
    <3>3. /\ ThreadsOf(queue, taken, made) # <<>>
          /\ Head(ThreadsOf(queue, taken, made)) = NoThread
          /\ ThreadsOf(queue, taken, made)' = Tail(ThreadsOf(queue, taken, made))
      BY <3>1, <3>2, NumbersOf, ThreadsTaken DEF Head1
    <3> QED
      BY <2>2, <3>1, <3>3 DEF Allowed, DropsStop, Life, Known, Unread
  <2> QED
    BY <2>1, <2>2
<1>3. CASE ReadStopped
  <2>1. /\ queue # <<>> /\ IsStop(Head1) /\ queue' = Tail(queue) /\ taken' = Head1.n
        /\ state' = "Stopped" /\ activeThread' = Head1.thread /\ Head1.thread # NoThread
        /\ UNCHANGED <<made, call, kept>>
    BY <1>3 DEF ReadStopped, ReadsEvents, IsStop, envVars
  <2>2. CASE launching
    BY <2>1, <2>2, StuttersInside DEF Allowed, launching
  <2>3. CASE ~launching
    <3>1. taken' = taken + 1
      BY <2>1, NumberedNow
    <3>2. /\ ThreadsOf(queue, taken, made) # <<>>
          /\ Head(ThreadsOf(queue, taken, made)) # NoThread
          /\ ThreadsOf(queue, taken, made)' = Tail(ThreadsOf(queue, taken, made))
      BY <2>1, <3>1, NumbersOf, ThreadsTaken DEF Head1
    <3>4. ~launching'
      BY <2>1, <2>3 DEF launching
    <3> QED
      BY <2>1, <2>3, <3>2, <3>4 DEF Allowed, TakesStop, Life, Known, Unread
  <2> QED
    BY <2>2, <2>3
<1>4. CASE Reads
  <2>1. CASE ReadTerminated
    BY <1>2, <1>4, <2>1, EndedAllowed DEF ReadTerminated
  <2>2. CASE ReadThread
    <3>1. activeThread' = activeThread
      BY <2>2 DEF ReadThread, sessionVars
    <3>2. Ended \/ UNCHANGED <<state, call, kept>>
      BY <2>2 DEF ReadThread, Skipped, sessionVars
    <3> QED
      BY <1>2, <1>4, <3>1, <3>2, EndedAllowed, GoesOnAllowed
  <2>3. CASE ReadOther
    BY <1>4, <2>3, GoesOnAllowed DEF ReadOther, Skipped
  <2> QED
    BY <1>3, <1>5, <2>1, <2>2, <2>3 DEF ReadEvent
<1>6. ReadStopped \/ ReadUnreadableStop \/ Reads
  BY SessionAssumption
     DEF ReadEvent, ReadTerminated, ReadThread, ReadOther, Reads, ReadsEvents, Skipped, Consumed,
         Ended, KeepsOrDrops, IsStop, envVars, historyVars
<1> QED
  BY <1>3, <1>4, <1>5, <1>6

LEMMA SnapshotRequestAllowed ==
    ASSUME Inner, TypeOK', NumberedInv', NEW answered \in BOOLEAN,
           SnapshotRequest(answered) \/ ExceptionAnswered
    PROVE  Allowed
<1>1. TypeOK /\ NumberedInv /\ CallInv /\ LaunchInv
  BY DEF Inner, Inv
<1>2. pc \in SnapshotPcs
  BY DEF SnapshotRequest, HitsAnswered, ThreadsAnswered, StacksAnswered, VariablesAnswered,
     BreakListAnswered, ExceptionAnswered, SnapshotPcs
<1>3. CASE GiveUp
  BY <1>1, <1>3, GiveUpAllowed DEF Allowed
<1>4. CASE ~GiveUp
  <2>1. UNCHANGED <<state, activeThread, queue, taken, made>>
    BY <1>4 DEF SnapshotRequest, HitsAnswered, ThreadsAnswered, StacksAnswered,
       VariablesAnswered, BreakListAnswered, ExceptionAnswered, envVars
  <2>2. UNCHANGED <<call, kept>> \/ Give(draft)
    BY <1>4 DEF SnapshotRequest, HitsAnswered, ThreadsAnswered, StacksAnswered,
       VariablesAnswered, BreakListAnswered, ExceptionAnswered, AfterVariables, Later
  <2>3. CASE UNCHANGED <<call, kept>>
    BY <1>1, <2>1, <2>3, GoesOnAllowed DEF Quiet, KeepsOrDrops
  <2>4. CASE Give(draft)
    <3>1. ~launching' /\ kept' = NoSession
      BY <2>4 DEF Give, Return, launching
    <3>2. CASE launching
      <4>1. state = "Stopped" /\ activeThread # NoThread
        BY <1>1, <1>2, <3>2 DEF LaunchInv, CallInv
      <4> QED
        BY <2>1, <3>1, <3>2, <4>1, OpensSession DEF Allowed
    <3>3. CASE ~launching
      BY <1>1, <2>1, <3>1, <3>3, GoesOnAllowed DEF Quiet, KeepsOrDrops
    <3> QED
      BY <3>2, <3>3
  <2> QED
    BY <2>2, <2>3, <2>4
<1> QED
  BY <1>3, <1>4

LEMMA ProceedAllowed ==
    ASSUME Inner, TypeOK', NumberedInv', Proceed PROVE Allowed
<1>1. TypeOK /\ NumberedInv /\ CallInv /\ LaunchInv
  BY DEF Inner, Inv
<1>2. CASE ReadEvent
  BY <1>1, <1>2, ReadAllowed
<1>3. CASE UntilStopTimesOut \/ ResumeRefused \/ TerminateFails \/ Answered
  BY <1>1, <1>3, GiveUpAllowed
     DEF Allowed, UntilStopTimesOut, ResumeRefused, TerminateFails, Answered
<1>4. CASE PollEnds \/ ResumeTimesOut
  <2>1. ~launching
    BY <1>1, <1>4 DEF CallInv, PollEnds, ResumeTimesOut, SnapshotPcs
  <2>2. ~launching' /\ UNCHANGED <<state, activeThread, queue, taken, made, kept>>
    BY <1>4 DEF PollEnds, ResumeTimesOut, Return, launching, sessionVars, envVars, historyVars
  <2> QED
    BY <1>1, <2>1, <2>2, GoesOnAllowed DEF Quiet, KeepsOrDrops
<1>5. CASE Resumed
  <2>1. ~launching /\ (call # "pause" => activeThread # NoThread)
    BY <1>1, <1>5 DEF CallInv, Resumed, SnapshotPcs
  <2>2. UNCHANGED <<activeThread, queue, taken, made, kept>>
    BY <1>5 DEF Resumed
  <2>3. ~launching'
    BY <1>5, <2>1 DEF Resumed, Return, launching
  <2>4. IF call = "pause" THEN state' = state ELSE state' = "Running"
    BY <1>5 DEF Resumed
  <2>5. CASE call = "pause"
    BY <1>1, <2>1, <2>2, <2>3, <2>4, <2>5, GoesOnAllowed DEF Quiet, KeepsOrDrops
  <2>6. CASE call # "pause"
    BY <2>1, <2>2, <2>3, <2>4, <2>6 DEF Allowed, Goes, Life, Known, Unread, ThreadsOf, StopIn
  <2> QED
    BY <2>5, <2>6
<1>6. CASE Terminated
  <2>1. ~launching /\ ~launching'
    BY <1>1, <1>6 DEF CallInv, Terminated, Return, SnapshotPcs, launching
  <2>2. state' = "Exited" /\ activeThread' = NoThread
    BY <1>6 DEF Terminated
  <2>3. /\ queue' = Append(queue, TerminatedEvent) /\ UNCHANGED <<taken, made, kept>>
    BY <1>6 DEF Terminated, historyVars
  <2>4. TerminatedEvent \in Event /\ ~IsStop(TerminatedEvent)
    BY EventTypes DEF TerminatedEvent, IsStop
  <2>5. Tells
    BY <2>3, <2>4 DEF Tells
  <2>6. ThreadsOf(queue, taken, made)' = ThreadsOf(queue, taken, made)
    BY <1>1, <2>5, UnreadTold
  <2> QED
    BY <2>1, <2>2, <2>6 DEF Allowed, EndsLife, Life, Known, Unread
<1>7. CASE ExceptionAnswered
  BY <1>7, SnapshotRequestAllowed
<1>8. ASSUME NEW answered \in BOOLEAN, Initialized(answered) \/ Configured(answered)
      PROVE  Allowed
  <2>1. \/ GiveUp
        \/ UNCHANGED <<state, activeThread, queue, taken, made, call, kept>>
    BY <1>8 DEF Initialized, Configured, sessionVars, envVars, historyVars
  <2> QED
    BY <1>1, <2>1, GiveUpAllowed, GoesOnAllowed DEF Allowed, Quiet, KeepsOrDrops
<1>9. ASSUME NEW answered \in BOOLEAN, BreakpointsSet(answered) PROVE Allowed
  <2>1. ~launching
    BY <1>1, <1>9 DEF CallInv, BreakpointsSet, SnapshotPcs
  <2>2. ~launching' /\ UNCHANGED <<state, activeThread, queue, taken, made, kept>>
    BY <1>9 DEF BreakpointsSet, Return, launching, envVars, historyVars
  <2> QED
    BY <1>1, <2>1, <2>2, GoesOnAllowed DEF Quiet, KeepsOrDrops
<1>10. ASSUME NEW answered \in BOOLEAN, ThreadsAfterExit(answered) PROVE Allowed
  <2>1. /\ UNCHANGED <<activeThread, queue, taken, made>> /\ pc \notin SnapshotPcs
        /\ Ended \/ UNCHANGED <<state, call, kept>>
    BY <1>10 DEF ThreadsAfterExit, sessionVars, envVars, SnapshotPcs
  <2>2. Quiet
    BY <2>1 DEF Quiet, KeepsOrDrops, Ended
  <2> QED
    BY <1>1, <2>1, <2>2, EndedAllowed, GoesOnAllowed
<1>11. ASSUME NEW answered \in BOOLEAN, SnapshotRequest(answered) PROVE Allowed
  BY <1>11, SnapshotRequestAllowed
<1> QED
  BY <1>2, <1>3, <1>4, <1>5, <1>6, <1>7, <1>8, <1>9, <1>10, <1>11 DEF Proceed

LEMMA StepAllowed == Inner /\ TypeOK' /\ NumberedInv' /\ [Next]_vars => Allowed
<1> SUFFICES ASSUME Inner, TypeOK', NumberedInv', [Next]_vars PROVE Allowed
  OBVIOUS
<1>1. TypeOK /\ NumberedInv /\ CallInv
  BY DEF Inner, Inv
<1>2. CASE UNCHANGED vars
  BY <1>2 DEF Allowed, Stutters, Life, Known, Unread, launching, ThreadsOf, StopIn,
     vars, sessionVars, callVars, envVars, historyVars
<1> QED
  BY <1>1, <1>2, EnvironmentAllowed, CallerAllowed, ProceedAllowed DEF Next

LEMMA InitAllowed == Init => Lifecycle!Init
<1> SUFFICES ASSUME Init PROVE Lifecycle!Init
  OBVIOUS
<1>1. /\ call = "none" /\ state = "Disconnected" /\ activeThread = NoThread
      /\ queue = <<>> /\ taken = 0 /\ made = 0
  BY DEF Init
<1>2. ~launching
  BY <1>1 DEF launching
<1>3. ThreadsOf(queue, taken, made) = <<>>
  BY <1>1, NothingUnread
<1> QED
  BY <1>1, <1>2, <1>3 DEF Lifecycle!Init

\* The session keeps the promise of SessionLifecycle but for its liveness: stops are
\* taken one at a time in the order they happened, none is passed over but one that
\* does not name its thread, and only a stop, a resume, an end,
\* a shutdown or a launch changes what the interface knows.
THEOREM SessionKeepsPromise == Spec => Lifecycle!Safety
<1>1. Init => LaunchInv
  BY DEF Init, LaunchInv, launching
<1>2. Inv => TypeOK /\ NumberedInv /\ CallInv
  BY DEF Inv
<1>3. Inv /\ LaunchInv /\ Inv' /\ [Next]_vars => [Lifecycle!Next]_(Lifecycle!vars)
  <2>1. Inv' => TypeOK' /\ NumberedInv'
    BY DEF Inv
  <2> QED
    BY <2>1, StepAllowed, AllowedIsNext DEF Inner
<1>4. TypeOK /\ CallInv /\ LaunchInv /\ [Next]_vars => LaunchInv'
  BY LaunchInvStep
<1> QED
  BY <1>1, <1>2, <1>3, <1>4, InvHolds, InitAllowed, PTL DEF Spec, Lifecycle!Safety
=============================================================================
