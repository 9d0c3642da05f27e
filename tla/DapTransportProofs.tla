------------------------- MODULE DapTransportProofs -------------------------
(***************************************************************************)
(* Proofs about the DAP transport, for every bound on the requests, the    *)
(* messages and the rounds of a wait.                                      *)
(*                                                                         *)
(* The queues of the transport are sequences of messages; the lemmas say   *)
(* what taking the head of one and appending to one do to the ids in it.   *)
(* The invariants are proved on top of each other: the types, the backlog, *)
(* the responses, the messages, and their order.                           *)
(***************************************************************************)
EXTENDS DapTransport, TLAPS, SequenceTheorems

-----------------------------------------------------------------------------
(* Sequences.                                                              *)

\* Appending an element keeps the type of a sequence.
LEMMA AppendType ==
  ASSUME NEW S, NEW s \in Seq(S), NEW e \in S
  PROVE  Append(s, e) \in Seq(S)
  OBVIOUS

\* One element makes a sequence.
LEMMA SingletonType ==
  ASSUME NEW S, NEW e \in S
  PROVE  <<e>> \in Seq(S)
  OBVIOUS

-----------------------------------------------------------------------------
(* Types.                                                                  *)

\* The seqs in use leave one for the disconnect request of the shutdown.
SeqLeftForShutdown == ~shutDown => nextSeq <= MaxRequests + 1

TypeInv == TypeOK /\ SeqLeftForShutdown

\* Initially every variable has its type.
LEMMA InitTypeInv == Init => TypeInv
  <1> SUFFICES ASSUME Init PROVE TypeInv
    OBVIOUS
  <1>1. \A S : <<>> \in Seq(S)
    OBVIOUS
  <1>2. nextSeq \in 1..(MaxRequests + 2) /\ emitted \in 0..MaxMessages /\ budget \in Nat
    BY BoundsAssumption DEF Init
  <1>3. SeqLeftForShutdown
    BY BoundsAssumption DEF Init, SeqLeftForShutdown
  <1> QED
    BY <1>1, <1>2, <1>3 DEF Init, TypeInv, TypeOK

\* A message the client takes is one of those the reader forwards.
LEMMA AvailableType ==
  ASSUME TypeOK, Available # <<>>
  PROVE  /\ Available \in Seq(Inbound)
         /\ Head(Available) \in Inbound
         /\ Tail(Available) \in Seq(Inbound)
  <1>1. [kind : EventKinds, id : Ids] \subseteq Inbound
    BY DEF Inbound
  <1>2. backlog \in Seq(Inbound) /\ inbound \in Seq(Inbound)
    BY <1>1, SeqMonotonic DEF TypeOK
  <1>3. Available \in Seq(Inbound)
    BY <1>2 DEF Available
  <1> QED
    BY <1>3, HeadTailProperties

\* A step of the adapter leaves every variable in its type.
LEMMA AdapterTypeInv == TypeInv /\ Adapter => TypeInv'
  <1> SUFFICES ASSUME TypeInv, Adapter PROVE TypeInv'
    OBVIOUS
  <1> USE DEF TypeInv, TypeOK, SeqLeftForShutdown, readerVars, queueVars, callVars
  <1>1. CASE \E s \in Seqs : AdapterRespond(s)
    <2> PICK s \in Seqs : AdapterRespond(s)
      BY <1>1
    <2>1. [kind |-> "response", id |-> s] \in WireMessage
      BY DEF WireMessage, Response
    <2>2. wire' \in Seq(WireMessage) /\ replied' \subseteq Seqs
      BY <2>1 DEF AdapterRespond
    <2> QED
      BY <2>2 DEF AdapterRespond
  <1>2. CASE \E k \in Kinds : AdapterEmit(k)
    <2> PICK k \in Kinds : AdapterEmit(k)
      BY <1>2
    <2>1. emitted + 1 \in Ids /\ emitted' \in 0..MaxMessages
      BY BoundsAssumption DEF AdapterEmit, Ids
    <2>2. [kind |-> k, id |-> emitted + 1] \in WireMessage
      BY <2>1 DEF WireMessage
    <2>3. wire' \in Seq(WireMessage)
      BY <2>2 DEF AdapterEmit
    <2> QED
      BY <2>1, <2>3 DEF AdapterEmit
  <1>3. CASE AdapterExit
    BY <1>3 DEF AdapterExit
  <1> QED
    BY <1>1, <1>2, <1>3 DEF Adapter

\* A step of the reader thread leaves every variable in its type.
LEMMA ReaderTypeInv == TypeInv /\ Reader => TypeInv'
  <1> SUFFICES ASSUME TypeInv, Reader PROVE TypeInv'
    OBVIOUS
  <1> USE DEF TypeInv, TypeOK, SeqLeftForShutdown, adapterVars, readerVars, queueVars, callVars
  <1>1. wire # <<>> => /\ Head(wire) \in WireMessage
                       /\ Tail(wire) \in Seq(WireMessage)
    BY HeadTailProperties
  <1>2. CASE ReadResponse
    <2>1. Head(wire).id \in Seqs
      BY <1>1, <1>2 DEF ReadResponse, WireMessage, Response, Kinds, EventKinds
    <2> QED
      BY <1>1, <1>2, <2>1 DEF ReadResponse
  <1>3. CASE ReadUnasked
    <2>1. Head(wire) \in Inbound
      BY <1>1, <1>3 DEF ReadUnasked, WireMessage, Response, Inbound, EventKinds
    <2>2. inbound' \in Seq(Inbound)
      BY <1>3, <2>1 DEF ReadUnasked
    <2> QED
      BY <1>1, <1>3, <2>2 DEF ReadUnasked
  <1>4. CASE SkipMalformed
    <2>1. Head(wire).id \in Ids
      BY <1>1, <1>4 DEF SkipMalformed, WireMessage, Response
    <2> QED
      BY <1>1, <1>4, <2>1 DEF SkipMalformed
  <1>5. CASE ReaderExit
    BY <1>5 DEF ReaderExit
  <1> QED
    BY <1>2, <1>3, <1>4, <1>5 DEF Reader

\* Copying a message to the console buffer keeps a sequence of ids.
LEMMA BufferType ==
  ASSUME TypeOK, NEW m \in Inbound
  PROVE  Buffer(m) \in Seq(Ids)
  <1>1. m.id \in Ids
    BY DEF Inbound
  <1> QED
    BY <1>1 DEF TypeOK, Buffer

\* Taking a message leaves sequences of their types in both queues.
LEMMA PopAvailableType ==
  ASSUME TypeOK, Available # <<>>, PopAvailable
  PROVE  /\ inbound' \in Seq(Inbound)
         /\ backlog' \in Seq([kind : EventKinds, id : Ids])
  <1>1. CASE backlog # <<>>
    BY <1>1, HeadTailProperties DEF PopAvailable, TypeOK
  <1>2. CASE backlog = <<>>
    BY <1>2, HeadTailProperties DEF PopAvailable, Available, TypeOK
  <1> QED
    BY <1>1, <1>2

\* A step of a wait leaves every variable in its type: above all, what it sets
\* aside is an event.
LEMMA WaitTypeInv == TypeInv /\ WaitStep => TypeInv'
  <1> SUFFICES ASSUME TypeInv, WaitStep PROVE TypeInv'
    OBVIOUS
  <1> USE DEF TypeInv, SeqLeftForShutdown, adapterVars, readerVars, queueVars, callVars
  <1>1. CASE WaitTimeout
    BY <1>1 DEF WaitTimeout, EndWait, TypeOK
  <1>2. CASE TakeResponse
    <2>1. waiting \in Seqs
      BY <1>2 DEF TakeResponse, TypeOK
    <2> QED
      BY <1>2, <2>1 DEF TakeResponse, EndWait, TypeOK
  <1>3. CASE NoResponseYet
    BY <1>3 DEF NoResponseYet, TypeOK
  <1>4. CASE PumpEvent
    <2>1. /\ Head(Available) \in Inbound
          /\ Head(Available).kind \in EventKinds
          /\ Head(Available) \in [kind : EventKinds, id : Ids]
      BY <1>4, AvailableType DEF PumpEvent, Inbound
    <2>2. inbound' \in Seq(Inbound) /\ backlog' \in Seq([kind : EventKinds, id : Ids])
      <3>1. CASE backlog # <<>>
        <4>1. Head(backlog) = Head(Available) /\ Tail(backlog) \in Seq([kind : EventKinds, id : Ids])
          BY <3>1, HeadTailProperties DEF Available, TypeOK
        <4>2. Append(Tail(backlog), Head(backlog)) \in Seq([kind : EventKinds, id : Ids])
          BY <2>1, <4>1, AppendType
        <4> QED
          BY <1>4, <3>1, <4>2 DEF PumpEvent, TypeOK
      <3>2. CASE backlog = <<>>
        <4>1. Head(inbound) = Head(Available) /\ Tail(inbound) \in Seq(Inbound)
          BY <1>4, <3>2, HeadTailProperties DEF Available, TypeOK, PumpEvent
        <4>2. <<Head(inbound)>> \in Seq([kind : EventKinds, id : Ids])
          BY <2>1, <4>1, SingletonType
        <4> QED
          BY <1>4, <3>2, <4>1, <4>2 DEF PumpEvent
      <3> QED
        BY <3>1, <3>2
    <2>3. outputBuffer' \in Seq(Ids)
      BY <1>4, <2>1, BufferType DEF PumpEvent
    <2> QED
      BY <1>4, <2>2, <2>3 DEF PumpEvent, TypeOK
  <1>5. CASE PumpRequest
    <2>1. inbound' \in Seq(Inbound) /\ backlog' \in Seq([kind : EventKinds, id : Ids])
      BY <1>5, PopAvailableType DEF PumpRequest
    <2>2. Head(Available).id \in Ids
      BY <1>5, AvailableType DEF PumpRequest, Inbound
    <2> QED
      BY <1>5, <2>1, <2>2, SMTT(30) DEF PumpRequest, EndWait, TypeOK
  <1>6. CASE PumpNothing
    BY <1>6 DEF PumpNothing, TypeOK
  <1> QED
    BY <1>1, <1>2, <1>3, <1>4, <1>5, <1>6 DEF WaitStep

\* Polling and draining leave every variable in its type.
LEMMA PollTypeInv == TypeInv /\ (PollEvent \/ PollRequest \/ TakeOutput) => TypeInv'
  <1> SUFFICES ASSUME TypeInv, PollEvent \/ PollRequest \/ TakeOutput PROVE TypeInv'
    OBVIOUS
  <1> USE DEF TypeInv, SeqLeftForShutdown, adapterVars, readerVars, queueVars, callVars
  <1>1. CASE PollEvent
    <2>1. inbound' \in Seq(Inbound) /\ backlog' \in Seq([kind : EventKinds, id : Ids])
      BY <1>1, PopAvailableType DEF PollEvent
    <2>2. Head(Available) \in Inbound
      BY <1>1, AvailableType DEF PollEvent
    <2>3. Head(Available) \in [kind : EventKinds, id : Ids]
      BY <1>1, <2>2 DEF PollEvent, Inbound
    <2>4. delivered' \in Seq([kind : EventKinds, id : Ids])
      BY <1>1, <2>3, AppendType DEF PollEvent, TypeOK
    <2>5. outputBuffer' \in Seq(Ids)
      BY <1>1, <2>2, BufferType DEF PollEvent
    <2> QED
      BY <1>1, <2>1, <2>4, <2>5 DEF PollEvent, TypeOK
  <1>2. CASE PollRequest
    <2>1. inbound' \in Seq(Inbound) /\ backlog' \in Seq([kind : EventKinds, id : Ids])
      BY <1>2, PopAvailableType DEF PollRequest
    <2>2. Head(Available).id \in Ids
      BY <1>2, AvailableType DEF PollRequest, Inbound
    <2> QED
      BY <1>2, <2>1, <2>2 DEF PollRequest, TypeOK
  <1>3. CASE TakeOutput
    <2>1. console' \in Seq(Ids) /\ outputBuffer' \in Seq(Ids)
      BY <1>3, ConcatProperties, EmptySeq DEF TakeOutput, TypeOK
    <2> QED
      BY <1>3, <2>1 DEF TakeOutput, TypeOK
  <1> QED
    BY <1>1, <1>2, <1>3

\* A call that begins, a request that is sent and a shutdown leave every variable
\* in its type.
LEMMA CallTypeInv ==
  /\ TypeInv
  /\ \/ SendRequest \/ BeginShutdown \/ ShutdownStep
     \/ \E s \in Seqs, b \in WaitBudgets : BeginWait(s, b)
  => TypeInv'
  <1> SUFFICES ASSUME TypeInv,
                      \/ SendRequest \/ BeginShutdown \/ ShutdownStep
                      \/ \E s \in Seqs, b \in WaitBudgets : BeginWait(s, b)
               PROVE  TypeInv'
    OBVIOUS
  <1> USE DEF TypeInv, SeqLeftForShutdown, adapterVars, readerVars, queueVars, callVars
  <1>1. CASE SendRequest
    <2>1. nextSeq \in Seqs /\ nextSeq + 1 \in 1..(MaxRequests + 1)
      BY <1>1, BoundsAssumption DEF SendRequest, TypeOK, Seqs
    <2>2. nextSeq' \in 1..(MaxRequests + 2) /\ nextSeq' <= MaxRequests + 1
      BY <1>1, <2>1, BoundsAssumption DEF SendRequest, Transmit
    <2> QED
      BY <1>1, <2>1, <2>2 DEF SendRequest, Transmit, TypeOK
  <1>2. CASE BeginShutdown
    <2>1. nextSeq \in Seqs /\ nextSeq + 1 \in 1..(MaxRequests + 2)
      BY <1>2, BoundsAssumption DEF BeginShutdown, TypeOK, Seqs
    <2> QED
      BY <1>2, <2>1 DEF BeginShutdown, Transmit, TypeOK
  <1>3. CASE ShutdownStep
    BY <1>3 DEF ShutdownStep, KillAdapter, JoinReader, TypeOK
  <1>4. CASE \E s \in Seqs, b \in WaitBudgets : BeginWait(s, b)
    <2> PICK s \in Seqs, b \in WaitBudgets : BeginWait(s, b)
      BY <1>4
    <2>1. RequestsIn(inbound) \subseteq Ids
      <3>1. \A i \in DOMAIN inbound : inbound[i] \in Inbound
        BY ElementOfSeq, LenProperties DEF TypeOK
      <3>2. \A i \in DOMAIN inbound : inbound[i].id \in Ids
        BY <3>1 DEF Inbound
      <3> QED
        BY <3>2 DEF RequestsIn, IdsOf
    <2> QED
      BY <2>1, BudgetAssumption DEF BeginWait, TypeOK
  <1> QED
    BY <1>1, <1>2, <1>3, <1>4

\* The types are an invariant together with the seq kept for the shutdown.
LEMMA TypeInvStep == TypeInv /\ [Next]_vars => TypeInv'
  <1>1. TypeInv /\ UNCHANGED vars => TypeInv'
    BY DEF TypeInv, TypeOK, SeqLeftForShutdown, vars, adapterVars, readerVars, queueVars,
           callVars
  <1> QED
    BY <1>1, AdapterTypeInv, ReaderTypeInv, WaitTypeInv, PollTypeInv, CallTypeInv
    DEF Next, Client

LEMMA TypeInvariant == Spec => []TypeInv
  BY InitTypeInv, TypeInvStep, PTL DEF Spec

\* Every variable keeps its type.  In particular the backlog holds events only, so
\* a request of the adapter is never set aside behind an event (wait_response
\* answers it at once), and a shutdown has a seq left.
THEOREM TypeCorrect == Spec => []TypeOK
  <1>1. TypeInv => TypeOK
    BY DEF TypeInv
  <1> QED
    BY <1>1, TypeInvariant, PTL


-----------------------------------------------------------------------------
(* The backlog.                                                            *)

\* A wait finds the backlog empty and puts one event there, or takes an event
\* out of it and puts it back.
LEMMA BacklogStep == TypeOK /\ BacklogAtMostOne /\ [Next]_vars => BacklogAtMostOne'
  <1> SUFFICES ASSUME TypeOK, BacklogAtMostOne, [Next]_vars PROVE BacklogAtMostOne'
    OBVIOUS
  <1>1. CASE UNCHANGED backlog
    BY <1>1 DEF BacklogAtMostOne
  <1>2. CASE PopAvailable /\ Available # <<>>
    BY <1>2, HeadTailProperties, LenProperties DEF PopAvailable, BacklogAtMostOne, TypeOK
  <1>3. CASE PumpEvent
    <2>1. CASE backlog # <<>>
      <3>1. backlog' = Append(Tail(backlog), Head(backlog))
        BY <1>3, <2>1 DEF PumpEvent
      <3>2. Len(backlog') = Len(backlog)
        BY <2>1, <3>1, HeadTailProperties, LenProperties DEF TypeOK
      <3> QED
        BY <3>2 DEF BacklogAtMostOne
    <2>2. CASE backlog = <<>>
      <3>1. backlog' = <<Head(inbound)>>
        BY <1>3, <2>2 DEF PumpEvent
      <3> QED
        BY <3>1 DEF BacklogAtMostOne
    <2> QED
      BY <2>1, <2>2
  <1> QED
    BY <1>1, <1>2, <1>3
    DEF Next, vars, queueVars, Adapter, AdapterRespond, AdapterEmit, AdapterExit,
        Reader, ReadResponse, ReadUnasked, SkipMalformed, ReaderExit,
        Client, SendRequest, BeginWait, WaitStep, WaitTimeout, EndWait, TakeResponse,
        NoResponseYet, PumpRequest, PumpNothing, PollEvent, PollRequest, TakeOutput,
        BeginShutdown, ShutdownStep, KillAdapter, JoinReader

\* A wait sets at most one event aside.
THEOREM BacklogBounded == Spec => []BacklogAtMostOne
  <1>1. Init => BacklogAtMostOne
    BY DEF Init, BacklogAtMostOne
  <1> QED
    BY <1>1, BacklogStep, TypeCorrect, PTL DEF Spec

-----------------------------------------------------------------------------
(* The ids in a queue.                                                     *)

\* The id of a queue's head, if it is of some kinds.
HeadIds(s, kinds) == IF Head(s).kind \in kinds THEN {Head(s).id} ELSE {}

\* A queue's ids are its head's and those of its tail.
LEMMA IdsOfTail ==
  ASSUME NEW S, NEW s \in Seq(S), s # <<>>, NEW kinds
  PROVE  IdsOf(s, kinds) = HeadIds(s, kinds) \cup IdsOf(Tail(s), kinds)
  <1>1. /\ Len(s) \in Nat \ {0} /\ DOMAIN s = 1..Len(s) /\ Head(s) = s[1]
        /\ DOMAIN Tail(s) = 1..(Len(s) - 1)
        /\ \A i \in 1..(Len(s) - 1) : Tail(s)[i] = s[i + 1]
    BY HeadTailProperties, LenProperties, EmptySeq
  <1>2. IdsOf(s, kinds) \subseteq HeadIds(s, kinds) \cup IdsOf(Tail(s), kinds)
    <2> SUFFICES ASSUME NEW i \in DOMAIN s, s[i].kind \in kinds
                 PROVE  s[i].id \in HeadIds(s, kinds) \cup IdsOf(Tail(s), kinds)
      BY DEF IdsOf
    <2>1. CASE i = 1
      BY <1>1, <2>1 DEF HeadIds
    <2>2. CASE i # 1
      <3>1. i - 1 \in DOMAIN Tail(s) /\ Tail(s)[i - 1] = s[i]
        BY <1>1, <2>2
      <3> QED
        BY <3>1 DEF IdsOf
    <2> QED
      BY <2>1, <2>2
  <1>3. HeadIds(s, kinds) \subseteq IdsOf(s, kinds)
    BY <1>1 DEF HeadIds, IdsOf
  <1>4. IdsOf(Tail(s), kinds) \subseteq IdsOf(s, kinds)
    <2> SUFFICES ASSUME NEW i \in DOMAIN Tail(s), Tail(s)[i].kind \in kinds
                 PROVE  Tail(s)[i].id \in IdsOf(s, kinds)
      BY DEF IdsOf
    <2>1. i + 1 \in DOMAIN s /\ Tail(s)[i] = s[i + 1]
      BY <1>1
    <2> QED
      BY <2>1 DEF IdsOf
  <1> QED
    BY <1>2, <1>3, <1>4

\* Appending a message adds its id.
LEMMA IdsOfAppend ==
  ASSUME NEW S, NEW s \in Seq(S), NEW m, NEW kinds
  PROVE  IdsOf(Append(s, m), kinds) =
             IdsOf(s, kinds) \cup (IF m.kind \in kinds THEN {m.id} ELSE {})
  <1>1. /\ Len(s) \in Nat /\ DOMAIN s = 1..Len(s)
        /\ DOMAIN Append(s, m) = 1..(Len(s) + 1)
        /\ \A i \in 1..Len(s) : Append(s, m)[i] = s[i]
        /\ Append(s, m)[Len(s) + 1] = m
    BY LenProperties
  <1>2. IdsOf(Append(s, m), kinds) \subseteq
            IdsOf(s, kinds) \cup (IF m.kind \in kinds THEN {m.id} ELSE {})
    <2> SUFFICES ASSUME NEW i \in DOMAIN Append(s, m), Append(s, m)[i].kind \in kinds
                 PROVE  Append(s, m)[i].id \in
                            IdsOf(s, kinds) \cup (IF m.kind \in kinds THEN {m.id} ELSE {})
      BY DEF IdsOf
    <2>1. CASE i = Len(s) + 1
      BY <1>1, <2>1
    <2>2. CASE i # Len(s) + 1
      <3>1. i \in DOMAIN s /\ Append(s, m)[i] = s[i]
        BY <1>1, <2>2
      <3> QED
        BY <3>1 DEF IdsOf
    <2> QED
      BY <2>1, <2>2
  <1>3. IdsOf(s, kinds) \subseteq IdsOf(Append(s, m), kinds)
    <2> SUFFICES ASSUME NEW i \in DOMAIN s, s[i].kind \in kinds
                 PROVE  s[i].id \in IdsOf(Append(s, m), kinds)
      BY DEF IdsOf
    <2>1. i \in DOMAIN Append(s, m) /\ Append(s, m)[i] = s[i]
      BY <1>1
    <2> QED
      BY <2>1 DEF IdsOf
  <1>4. (IF m.kind \in kinds THEN {m.id} ELSE {}) \subseteq IdsOf(Append(s, m), kinds)
    <2>1. Len(s) + 1 \in DOMAIN Append(s, m)
      BY <1>1
    <2> QED
      BY <1>1, <2>1 DEF IdsOf
  <1> QED
    BY <1>2, <1>3, <1>4


-----------------------------------------------------------------------------
(* The account of the responses.                                           *)

\* No seq has two responses on the wire.
DistinctResponses ==
  \A i, j \in DOMAIN wire :
      i # j /\ wire[i].kind = "response" /\ wire[j].kind = "response"
          => wire[i].id # wire[j].id

\* A wait in progress was begun.
WaitingIsAwaited == pc \in {"check", "pump"} => waiting \in awaited

ResponseInv == ResponseAccounting /\ DistinctResponses /\ WaitingIsAwaited

\* A step that leaves the wire, the map and the accounts alone keeps the account.
LEMMA ResponsesUntouched ==
  ASSUME ResponseInv, UNCHANGED <<wire, pending, taken, replied>>,
         sent \subseteq sent', awaited \subseteq awaited', WaitingIsAwaited'
  PROVE  ResponseInv'
  BY DEF ResponseInv, ResponseAccounting, DistinctResponses, ResponsesOnWire, IdsOf

\* The adapter answers a request once.
LEMMA RespondResponseInv ==
  ASSUME TypeOK, ResponseInv, NEW s \in Seqs, AdapterRespond(s)
  PROVE  ResponseInv'
  <1> DEFINE m == [kind |-> "response", id |-> s]
  <1>1. /\ wire' = Append(wire, m) /\ replied' = replied \cup {s}
        /\ s \in sent \ replied
        /\ UNCHANGED <<sent, pending, taken, awaited, pc, waiting>>
    BY DEF AdapterRespond, readerVars, callVars
  <1>2. wire \in Seq(WireMessage)
    BY DEF TypeOK
  <1>3. ResponsesOnWire' = ResponsesOnWire \cup {s}
    <2>1. IdsOf(Append(wire, m), {"response"}) = IdsOf(wire, {"response"}) \cup {s}
      BY <1>2, IdsOfAppend
    <2> QED
      BY <1>1, <2>1 DEF ResponsesOnWire, IdsOf
  <1>4. ResponseAccounting'
    BY <1>1, <1>3 DEF ResponseInv, ResponseAccounting
  <1>5. DistinctResponses'
    <2>1. s \notin ResponsesOnWire
      BY <1>1 DEF ResponseInv, ResponseAccounting
    <2>2. \A i \in DOMAIN wire : wire[i].kind = "response" => wire[i].id # s
      BY <2>1 DEF ResponsesOnWire, IdsOf
    <2>3. /\ Len(wire) \in Nat /\ DOMAIN wire = 1..Len(wire)
          /\ DOMAIN wire' = 1..(Len(wire) + 1)
          /\ \A i \in 1..Len(wire) : wire'[i] = wire[i]
          /\ wire'[Len(wire) + 1] = m
      BY <1>1, <1>2, LenProperties
    <2> SUFFICES ASSUME NEW i \in DOMAIN wire', NEW j \in DOMAIN wire', i # j,
                        wire'[i].kind = "response", wire'[j].kind = "response"
                 PROVE  wire'[i].id # wire'[j].id
      BY DEF DistinctResponses
    <2>4. CASE i \in DOMAIN wire /\ j \in DOMAIN wire
      BY <2>3, <2>4 DEF ResponseInv, DistinctResponses
    <2>5. CASE i = Len(wire) + 1
      <3>1. j \in DOMAIN wire /\ wire'[j] = wire[j]
        BY <2>3, <2>5
      <3> QED
        BY <2>2, <2>3, <2>5, <3>1
    <2>6. CASE j = Len(wire) + 1
      <3>1. i \in DOMAIN wire /\ wire'[i] = wire[i]
        BY <2>3, <2>6
      <3> QED
        BY <2>2, <2>3, <2>6, <3>1
    <2> QED
      BY <2>3, <2>4, <2>5, <2>6
  <1>6. WaitingIsAwaited'
    BY <1>1 DEF ResponseInv, WaitingIsAwaited
  <1> QED
    BY <1>4, <1>5, <1>6 DEF ResponseInv

\* Responses on the wire stay distinct when its head is read.
LEMMA DistinctTail ==
  ASSUME TypeOK, DistinctResponses, wire # <<>>, wire' = Tail(wire)
  PROVE  /\ DistinctResponses'
         /\ Head(wire).kind = "response" => Head(wire).id \notin ResponsesOnWire'
  <1>1. /\ Len(wire) \in Nat \ {0} /\ DOMAIN wire = 1..Len(wire) /\ Head(wire) = wire[1]
        /\ DOMAIN wire' = 1..(Len(wire) - 1)
        /\ \A i \in 1..(Len(wire) - 1) : wire'[i] = wire[i + 1]
    BY HeadTailProperties, LenProperties, EmptySeq DEF TypeOK
  <1>2. \A i \in DOMAIN wire' : i + 1 \in DOMAIN wire /\ i + 1 # 1 /\ wire'[i] = wire[i + 1]
    BY <1>1
  <1>3. \A i, j \in DOMAIN wire' : i # j => i + 1 # j + 1
    BY <1>1
  <1>4. DistinctResponses'
    BY <1>2, <1>3 DEF DistinctResponses
  <1>5. ASSUME Head(wire).kind = "response"
        PROVE  Head(wire).id \notin ResponsesOnWire'
    <2>1. \A i \in DOMAIN wire' : wire'[i].kind = "response" => wire'[i].id # wire[1].id
      <3>1. 1 \in DOMAIN wire
        BY <1>1
      <3> QED
        BY <1>1, <1>2, <1>5, <3>1 DEF DistinctResponses
    <2> QED
      BY <1>1, <2>1 DEF ResponsesOnWire, IdsOf
  <1> QED
    BY <1>4, <1>5

\* The reader moves a response from the wire to the map.
LEMMA ReaderResponseInv ==
  ASSUME TypeOK, ResponseInv, Reader
  PROVE  ResponseInv'
  <1>1. CASE ReaderExit
    BY <1>1, ResponsesUntouched
    DEF ReaderExit, adapterVars, callVars, ResponseInv, WaitingIsAwaited
  <1>2. CASE ~ReaderExit
    <2>1. /\ wire # <<>> /\ wire' = Tail(wire)
          /\ UNCHANGED <<sent, replied, taken, awaited, pc, waiting>>
      BY <1>2 DEF Reader, ReadResponse, ReadUnasked, SkipMalformed, callVars
    <2>2. DistinctResponses' /\ WaitingIsAwaited'
      BY <2>1, DistinctTail DEF ResponseInv, WaitingIsAwaited
    <2>3. ResponsesOnWire = HeadIds(wire, {"response"}) \cup ResponsesOnWire'
      <3>1. wire \in Seq(WireMessage)
        BY DEF TypeOK
      <3>2. IdsOf(wire, {"response"}) =
                HeadIds(wire, {"response"}) \cup IdsOf(Tail(wire), {"response"})
        BY <2>1, <3>1, IdsOfTail
      <3> QED
        BY <2>1, <3>2 DEF ResponsesOnWire, IdsOf
    <2>4. CASE ReadResponse
      <3>1. /\ pending' = pending \cup {Head(wire).id}
            /\ HeadIds(wire, {"response"}) = {Head(wire).id}
            /\ Head(wire).id \notin ResponsesOnWire'
        BY <2>1, <2>4, DistinctTail DEF ReadResponse, HeadIds, ResponseInv
      <3>2. ResponseAccounting'
        BY <2>1, <2>3, <3>1 DEF ResponseInv, ResponseAccounting
      <3> QED
        BY <2>2, <3>2 DEF ResponseInv
    <2>5. CASE ReadUnasked \/ SkipMalformed
      <3>1. pending' = pending /\ HeadIds(wire, {"response"}) = {}
        BY <2>5 DEF ReadUnasked, SkipMalformed, HeadIds, EventKinds, readerVars
      <3>2. ResponseAccounting'
        BY <2>1, <2>3, <3>1 DEF ResponseInv, ResponseAccounting
      <3> QED
        BY <2>2, <3>2 DEF ResponseInv
    <2> QED
      BY <1>2, <2>4, <2>5 DEF Reader
  <1> QED
    BY <1>1, <1>2

\* A wait takes its response out of the map.
LEMMA TakeResponseInv ==
  ASSUME TypeOK, ResponseInv, TakeResponse
  PROVE  ResponseInv'
  <1>1. /\ waiting \in pending /\ waiting \in awaited
        /\ pending' = pending \ {waiting} /\ taken' = taken \cup {waiting}
        /\ pc' = "idle" /\ UNCHANGED <<wire, sent, replied, awaited>>
    BY DEF TakeResponse, EndWait, adapterVars, ResponseInv, WaitingIsAwaited
  <1>2. ResponsesOnWire' = ResponsesOnWire /\ DistinctResponses'
    BY <1>1 DEF ResponsesOnWire, IdsOf, ResponseInv, DistinctResponses
  <1>3. ResponseAccounting'
    BY <1>1, <1>2 DEF ResponseInv, ResponseAccounting
  <1>4. WaitingIsAwaited'
    BY <1>1 DEF WaitingIsAwaited
  <1> QED
    BY <1>2, <1>3, <1>4 DEF ResponseInv

LEMMA ResponseInvStep ==
  ASSUME TypeOK, ResponseInv, [Next]_vars
  PROVE  ResponseInv'
  <1> USE DEF adapterVars, readerVars, queueVars, callVars
  <1>1. CASE UNCHANGED vars
    BY <1>1, ResponsesUntouched DEF vars, ResponseInv, WaitingIsAwaited
  <1>2. CASE Adapter
    <2>1. CASE \E s \in Seqs : AdapterRespond(s)
      BY <2>1, RespondResponseInv
    <2>2. CASE \E k \in Kinds : AdapterEmit(k)
      <3> PICK k \in Kinds : AdapterEmit(k)
        BY <2>2
      <3> DEFINE m == [kind |-> k, id |-> emitted + 1]
      <3>1. /\ wire' = Append(wire, m) /\ k # "response"
            /\ UNCHANGED <<sent, replied, pending, taken, awaited, pc, waiting>>
        BY DEF AdapterEmit, Kinds, EventKinds
      <3>2. ResponsesOnWire' = ResponsesOnWire
        <4>1. IdsOf(Append(wire, m), {"response"}) = IdsOf(wire, {"response"})
          <5>1. m.kind \notin {"response"}
            BY <3>1
          <5>2. wire \in Seq(WireMessage)
            BY DEF TypeOK
          <5>3. IdsOf(Append(wire, m), {"response"}) =
                    IdsOf(wire, {"response"})
                        \cup (IF m.kind \in {"response"} THEN {m.id} ELSE {})
            BY <5>2, IdsOfAppend, Zenon
          <5> HIDE DEF m
          <5> QED
            BY <5>1, <5>3
        <4> QED
          BY <3>1, <4>1 DEF ResponsesOnWire, IdsOf
      <3>3. DistinctResponses'
        <4>1. /\ DOMAIN wire' = 1..(Len(wire) + 1) /\ DOMAIN wire = 1..Len(wire)
              /\ Len(wire) \in Nat /\ \A i \in 1..Len(wire) : wire'[i] = wire[i]
              /\ wire'[Len(wire) + 1] = m
          <5>1. wire \in Seq(WireMessage)
            BY DEF TypeOK
          <5> HIDE DEF m
          <5> QED
            BY <3>1, <5>1, LenProperties
        <4>2. \A i \in DOMAIN wire' :
                  wire'[i].kind = "response" => i \in DOMAIN wire /\ wire'[i] = wire[i]
          BY <3>1, <4>1
        <4> QED
          BY <4>2 DEF ResponseInv, DistinctResponses
      <3> QED
        BY <3>1, <3>2, <3>3 DEF ResponseInv, ResponseAccounting, WaitingIsAwaited
    <2>3. CASE AdapterExit
      BY <2>3, ResponsesUntouched DEF AdapterExit, ResponseInv, WaitingIsAwaited
    <2> QED
      BY <1>2, <2>1, <2>2, <2>3 DEF Adapter
  <1>3. CASE Reader
    BY <1>3, ReaderResponseInv
  <1>4. CASE TakeResponse
    BY <1>4, TakeResponseInv
  <1>5. CASE WaitStep /\ ~TakeResponse
    BY <1>5, ResponsesUntouched
    DEF WaitStep, WaitTimeout, EndWait, NoResponseYet, PumpEvent, PumpRequest, PumpNothing,
        ResponseInv, WaitingIsAwaited
  <1>6. CASE PollEvent \/ PollRequest \/ TakeOutput \/ ShutdownStep
    BY <1>6, ResponsesUntouched
    DEF PollEvent, PollRequest, TakeOutput, ShutdownStep, KillAdapter, JoinReader,
        ResponseInv, WaitingIsAwaited
  <1>7. CASE SendRequest \/ BeginShutdown
    BY <1>7, ResponsesUntouched
    DEF SendRequest, BeginShutdown, Transmit, ResponseInv, WaitingIsAwaited
  <1>8. CASE \E s \in Seqs, b \in WaitBudgets : BeginWait(s, b)
    BY <1>8, ResponsesUntouched DEF BeginWait, ResponseInv, WaitingIsAwaited
  <1> QED
    BY <1>1, <1>2, <1>3, <1>4, <1>5, <1>6, <1>7, <1>8 DEF Next, Client

\* A response is on the wire, in the map or with the wait that asked for it, and
\* in one of these only (wait_response, try_take_response, the reader thread).
THEOREM ResponsesAccounted == Spec => []ResponseAccounting
  <1>1. Init => ResponseInv
    BY EmptySeq DEF Init, ResponseInv, ResponseAccounting, DistinctResponses,
       WaitingIsAwaited, ResponsesOnWire, IdsOf
  <1>2. TypeOK /\ ResponseInv /\ [Next]_vars => ResponseInv'
    BY ResponseInvStep
  <1>3. ResponseInv => ResponseAccounting
    BY DEF ResponseInv
  <1> QED
    BY <1>1, <1>2, <1>3, TypeCorrect, PTL DEF Spec


-----------------------------------------------------------------------------
(* The account of the messages.                                            *)

\* Taking the head of a queue, and putting a message at its end, for a message
\* that the adapter emitted unasked.
LEMMA IdsInTail ==
  ASSUME NEW S, NEW s \in Seq(S), s # <<>>, Head(s).kind \in Kinds
  PROVE  IdsIn(s) = {Head(s).id} \cup IdsIn(Tail(s))
  <1>1. IdsOf(s, Kinds) = HeadIds(s, Kinds) \cup IdsOf(Tail(s), Kinds)
    BY IdsOfTail
  <1> QED
    BY <1>1 DEF IdsIn, HeadIds

LEMMA IdsInAppend ==
  ASSUME NEW S, NEW s \in Seq(S), NEW m, m.kind \in Kinds
  PROVE  IdsIn(Append(s, m)) = IdsIn(s) \cup {m.id}
  <1>1. IdsOf(Append(s, m), Kinds) =
            IdsOf(s, Kinds) \cup (IF m.kind \in Kinds THEN {m.id} ELSE {})
    BY IdsOfAppend
  <1> QED
    BY <1>1 DEF IdsIn

LEMMA IdsInEmpty == IdsIn(<<>>) = {}
  BY DEF IdsIn, IdsOf

\* The message that the client takes leaves the queue it was in, and the other
\* queue stays as it is.
LEMMA PopAvailableIds ==
  ASSUME TypeOK, Available # <<>>, PopAvailable
  PROVE  /\ Head(Available).kind \in Kinds
         /\ IdsIn(backlog) \cup IdsIn(inbound) =
                {Head(Available).id} \cup IdsIn(backlog') \cup IdsIn(inbound')
  <1>1. Head(Available).kind \in Kinds
    BY AvailableType DEF Inbound, Kinds
  <1>2. CASE backlog # <<>>
    <2>1. IdsIn(backlog) = {Head(backlog).id} \cup IdsIn(Tail(backlog))
      <3>1. backlog \in Seq([kind : EventKinds, id : Ids]) /\ Head(backlog).kind \in Kinds
        BY <1>1, <1>2 DEF TypeOK, Available
      <3> QED
        BY <1>2, <3>1, IdsInTail
    <2> QED
      BY <1>1, <1>2, <2>1 DEF PopAvailable, Available
  <1>3. CASE backlog = <<>>
    <2>1. IdsIn(inbound) = {Head(inbound).id} \cup IdsIn(Tail(inbound))
      <3>1. /\ inbound \in Seq(Inbound) /\ Head(inbound).kind \in Kinds
            /\ inbound # <<>>
        BY <1>1, <1>3 DEF TypeOK, Available
      <3> QED
        BY <3>1, IdsInTail
    <2> QED
      BY <1>1, <1>3, <2>1 DEF PopAvailable, Available
  <1> QED
    BY <1>2, <1>3

\* A pumped event is in the backlog afterwards.
LEMMA PumpEventIds ==
  ASSUME TypeOK, PumpEvent
  PROVE  IdsIn(backlog') \cup IdsIn(inbound') = IdsIn(backlog) \cup IdsIn(inbound)
  <1>1. Available # <<>> /\ Head(Available).kind \in Kinds
    BY AvailableType DEF PumpEvent, Inbound, Kinds
  <1>2. CASE backlog # <<>>
    <2>1. /\ backlog \in Seq([kind : EventKinds, id : Ids])
          /\ Tail(backlog) \in Seq([kind : EventKinds, id : Ids])
          /\ Head(backlog).kind \in Kinds
      BY <1>1, <1>2, HeadTailProperties DEF TypeOK, Available
    <2>2. IdsIn(backlog) = {Head(backlog).id} \cup IdsIn(Tail(backlog))
      BY <1>2, <2>1, IdsInTail
    <2>3. IdsIn(Append(Tail(backlog), Head(backlog))) =
              IdsIn(Tail(backlog)) \cup {Head(backlog).id}
      BY <2>1, IdsInAppend
    <2> QED
      BY <1>2, <2>2, <2>3 DEF PumpEvent
  <1>3. CASE backlog = <<>>
    <2>1. /\ inbound \in Seq(Inbound) /\ inbound # <<>>
          /\ Head(inbound).kind \in Kinds
      BY <1>1, <1>3 DEF TypeOK, Available
    <2>2. IdsIn(inbound) = {Head(inbound).id} \cup IdsIn(Tail(inbound))
      BY <2>1, IdsInTail
    <2>3. IdsIn(<<Head(inbound)>>) = {Head(inbound).id}
      BY <2>1 DEF IdsIn, IdsOf
    <2> QED
      BY <1>3, <2>2, <2>3, IdsInEmpty DEF PumpEvent
  <1> QED
    BY <1>2, <1>3

\* The reader moves a message on, or drops one that is malformed.
LEMMA ReaderAccount ==
  ASSUME TypeOK, NoMessageLost, Reader
  PROVE  NoMessageLost'
  <1> USE DEF queueVars, readerVars, adapterVars
  <1>1. CASE ReaderExit
    BY <1>1 DEF ReaderExit, NoMessageLost, IdsIn, IdsOf
  <1>2. CASE ~ReaderExit
    <2>1. /\ wire \in Seq(WireMessage) /\ wire # <<>> /\ wire' = Tail(wire)
          /\ emitted' = emitted
      BY <1>2 DEF Reader, ReadResponse, ReadUnasked, SkipMalformed, TypeOK
    <2>2. IdsIn(wire) = HeadIds(wire, Kinds) \cup IdsIn(wire')
      <3>1. IdsOf(wire, Kinds) = HeadIds(wire, Kinds) \cup IdsOf(Tail(wire), Kinds)
        BY <2>1, IdsOfTail
      <3> QED
        BY <2>1, <3>1 DEF IdsIn
    <2>3. CASE ReadResponse
      <3>1. HeadIds(wire, Kinds) = {}
        BY <2>3 DEF ReadResponse, HeadIds, Kinds, EventKinds
      <3> QED
        BY <2>1, <2>2, <2>3, <3>1 DEF ReadResponse, NoMessageLost
    <2>4. CASE ReadUnasked
      <3>1. HeadIds(wire, Kinds) = {Head(wire).id} /\ Head(wire).kind \in Kinds
        BY <2>4 DEF ReadUnasked, HeadIds, Kinds
      <3>2. IdsIn(inbound') = IdsIn(inbound) \cup {Head(wire).id}
        BY <2>4, <3>1, IdsInAppend DEF ReadUnasked, TypeOK
      <3> QED
        BY <2>1, <2>2, <2>4, <3>1, <3>2 DEF ReadUnasked, NoMessageLost
    <2>5. CASE SkipMalformed
      <3>1. HeadIds(wire, Kinds) = {Head(wire).id}
        BY <2>5 DEF SkipMalformed, HeadIds, Kinds
      <3> QED
        BY <2>1, <2>2, <2>5, <3>1 DEF SkipMalformed, NoMessageLost
    <2> QED
      BY <1>2, <2>3, <2>4, <2>5 DEF Reader
  <1> QED
    BY <1>1, <1>2


\* The adapter emits the next message.
LEMMA EmitAccount ==
  ASSUME TypeOK, NoMessageLost, NEW k \in Kinds, AdapterEmit(k)
  PROVE  NoMessageLost'
  <1> DEFINE m == [kind |-> k, id |-> emitted + 1]
  <1>1. /\ wire' = Append(wire, m) /\ emitted' = emitted + 1 /\ emitted \in Nat
        /\ UNCHANGED <<inbound, backlog, delivered, handled, dropped>>
    BY BoundsAssumption DEF AdapterEmit, queueVars, TypeOK
  <1>2. IdsIn(wire') = IdsIn(wire) \cup {emitted + 1}
    <2>1. wire \in Seq(WireMessage) /\ m.kind \in Kinds /\ m.id = emitted + 1
      BY DEF TypeOK
    <2> HIDE DEF m
    <2> QED
      BY <1>1, <2>1, IdsInAppend
  <1>3. 1..(emitted + 1) = 1..emitted \cup {emitted + 1}
    BY <1>1
  <1> QED
    BY <1>1, <1>2, <1>3 DEF NoMessageLost

\* An answer of the adapter is not a message it emits unasked.
LEMMA RespondAccount ==
  ASSUME TypeOK, NoMessageLost, NEW s \in Seqs, AdapterRespond(s)
  PROVE  NoMessageLost'
  <1> DEFINE m == [kind |-> "response", id |-> s]
  <1>1. wire' = Append(wire, m) /\ UNCHANGED <<emitted, queueVars>>
    BY DEF AdapterRespond
  <1>2. IdsIn(wire') = IdsIn(wire)
    <2>1. wire \in Seq(WireMessage) /\ m.kind \notin Kinds
      BY DEF TypeOK, Kinds, EventKinds
    <2> HIDE DEF m
    <2>2. IdsOf(Append(wire, m), Kinds) =
              IdsOf(wire, Kinds) \cup (IF m.kind \in Kinds THEN {m.id} ELSE {})
      BY <2>1, IdsOfAppend
    <2> QED
      BY <1>1, <2>1, <2>2 DEF IdsIn
  <1> QED
    BY <1>1, <1>2 DEF NoMessageLost, queueVars

\* The client takes a message out of a queue to one of its destinations.
LEMMA TakeAccount ==
  ASSUME TypeOK, NoMessageLost, PumpRequest \/ PollEvent \/ PollRequest
  PROVE  NoMessageLost'
  <1>1. /\ Available # <<>> /\ PopAvailable
        /\ UNCHANGED <<wire, emitted>>
    BY DEF PumpRequest, PollEvent, PollRequest, adapterVars
  <1>2. /\ Head(Available).kind \in Kinds
        /\ IdsIn(backlog) \cup IdsIn(inbound) =
               {Head(Available).id} \cup IdsIn(backlog') \cup IdsIn(inbound')
    BY <1>1, PopAvailableIds
  <1>3. IdsIn(delivered') \cup handled' \cup dropped' =
            IdsIn(delivered) \cup handled \cup dropped \cup {Head(Available).id}
    <2>1. CASE PumpRequest
      BY <2>1 DEF PumpRequest
    <2>2. CASE PollEvent
      <3>1. delivered' = Append(delivered, Head(Available)) /\ UNCHANGED <<handled, dropped>>
        BY <2>2 DEF PollEvent
      <3>2. IdsIn(Append(delivered, Head(Available))) =
                IdsIn(delivered) \cup {Head(Available).id}
        <4>1. delivered \in Seq([kind : EventKinds, id : Ids])
          BY DEF TypeOK
        <4> QED
          BY <1>2, <4>1, IdsInAppend
      <3> QED
        BY <3>1, <3>2
    <2>3. CASE PollRequest
      BY <2>3 DEF PollRequest
    <2> QED
      BY <2>1, <2>2, <2>3
  <1> QED
    BY <1>1, <1>2, <1>3 DEF NoMessageLost

LEMMA AccountStep ==
  ASSUME TypeOK, NoMessageLost, [Next]_vars
  PROVE  NoMessageLost'
  <1>1. ASSUME UNCHANGED <<wire, inbound, backlog, delivered, handled, dropped, emitted>>
        PROVE  NoMessageLost'
    BY <1>1 DEF NoMessageLost
  <1>2. CASE Adapter
    <2>1. CASE AdapterExit
      BY <1>1, <2>1 DEF AdapterExit, queueVars
    <2> QED
      BY <1>2, <2>1, EmitAccount, RespondAccount DEF Adapter
  <1>3. CASE Reader
    BY <1>3, ReaderAccount
  <1>4. CASE PumpEvent
    <2>1. UNCHANGED <<wire, delivered, handled, dropped, emitted>>
      BY <1>4 DEF PumpEvent, adapterVars
    <2> QED
      BY <1>4, <2>1, PumpEventIds DEF NoMessageLost
  <1>5. CASE PumpRequest \/ PollEvent \/ PollRequest
    BY <1>5, TakeAccount
  <1>6. CASE WaitStep /\ ~PumpEvent /\ ~PumpRequest
    BY <1>1, <1>6
    DEF WaitStep, WaitTimeout, EndWait, TakeResponse, NoResponseYet, PumpNothing,
        adapterVars, queueVars
  <1>7. CASE TakeOutput
    BY <1>1, <1>7 DEF TakeOutput, adapterVars
  <1>8. CASE SendRequest \/ BeginShutdown \/ ShutdownStep
    BY <1>1, <1>8 DEF SendRequest, BeginShutdown, ShutdownStep, KillAdapter, JoinReader,
                      adapterVars, queueVars
  <1>9. CASE \E s \in Seqs, b \in WaitBudgets : BeginWait(s, b)
    BY <1>1, <1>9 DEF BeginWait, adapterVars, queueVars
  <1>10. CASE UNCHANGED vars
    BY <1>1, <1>10 DEF vars, adapterVars, queueVars
  <1> QED
    BY <1>2, <1>3, <1>4, <1>5, <1>6, <1>7, <1>8, <1>9, <1>10 DEF Next, Client

\* A message the adapter emitted is on its way or at its destination, whatever the
\* reader, a wait loop and a poll did with it (enqueue_event, try_recv_event).
THEOREM MessagesAccounted == Spec => []NoMessageLost
  <1>1. Init => NoMessageLost
    BY IdsInEmpty DEF Init, NoMessageLost
  <1>2. TypeOK /\ NoMessageLost /\ [Next]_vars => NoMessageLost'
    BY AccountStep
  <1> QED
    BY <1>1, <1>2, TypeCorrect, PTL DEF Spec


-----------------------------------------------------------------------------
(* The order of the messages.                                              *)

\* The messages emitted unasked stand in a queue in the order of their ids.
Rising(s) ==
  \A i, j \in DOMAIN s :
      i < j /\ s[i].kind \in Kinds /\ s[j].kind \in Kinds => s[i].id < s[j].id

Before(S, T) == \A x \in S, y \in T : x < y

\* Delivered before set aside, set aside before in the channel, in the channel
\* before on the wire: DeliveredInOrder alone is not inductive.
OrderInv ==
  /\ Rising(delivered) /\ Rising(backlog) /\ Rising(inbound) /\ Rising(wire)
  /\ Before(IdsIn(delivered), IdsIn(backlog) \cup IdsIn(inbound) \cup IdsIn(wire))
  /\ Before(IdsIn(backlog), IdsIn(inbound) \cup IdsIn(wire))
  /\ Before(IdsIn(inbound), IdsIn(wire))

LEMMA RisingTail ==
  ASSUME NEW S, NEW s \in Seq(S), s # <<>>, Rising(s)
  PROVE  /\ Rising(Tail(s))
         /\ Head(s).kind \in Kinds => Before({Head(s).id}, IdsIn(Tail(s)))
  <1>1. /\ Len(s) \in Nat \ {0} /\ DOMAIN s = 1..Len(s) /\ Head(s) = s[1]
        /\ DOMAIN Tail(s) = 1..(Len(s) - 1)
        /\ \A i \in 1..(Len(s) - 1) : Tail(s)[i] = s[i + 1]
    BY HeadTailProperties, LenProperties, EmptySeq
  <1>2. \A i \in DOMAIN Tail(s) : i + 1 \in DOMAIN s /\ 1 < i + 1 /\ Tail(s)[i] = s[i + 1]
    BY <1>1
  <1>3. \A i, j \in DOMAIN Tail(s) : i < j => i + 1 < j + 1
    BY <1>1
  <1>4. Rising(Tail(s))
    BY <1>2, <1>3 DEF Rising
  <1>5. ASSUME Head(s).kind \in Kinds
        PROVE  Before({Head(s).id}, IdsIn(Tail(s)))
    <2>1. 1 \in DOMAIN s
      BY <1>1
    <2> SUFFICES ASSUME NEW i \in DOMAIN Tail(s), Tail(s)[i].kind \in Kinds
                 PROVE  Head(s).id < Tail(s)[i].id
      BY DEF Before, IdsIn, IdsOf
    <2> QED
      BY <1>1, <1>2, <1>5, <2>1 DEF Rising
  <1> QED
    BY <1>4, <1>5

LEMMA RisingAppend ==
  ASSUME NEW S, NEW s \in Seq(S), NEW m, Rising(s),
         m.kind \in Kinds => Before(IdsIn(s), {m.id})
  PROVE  Rising(Append(s, m))
  <1>1. /\ Len(s) \in Nat /\ DOMAIN s = 1..Len(s)
        /\ DOMAIN Append(s, m) = 1..(Len(s) + 1)
        /\ \A i \in 1..Len(s) : Append(s, m)[i] = s[i]
        /\ Append(s, m)[Len(s) + 1] = m
    BY LenProperties
  <1> SUFFICES ASSUME NEW i \in DOMAIN Append(s, m), NEW j \in DOMAIN Append(s, m), i < j,
                      Append(s, m)[i].kind \in Kinds, Append(s, m)[j].kind \in Kinds
               PROVE  Append(s, m)[i].id < Append(s, m)[j].id
    BY DEF Rising
  <1>2. i \in DOMAIN s /\ Append(s, m)[i] = s[i]
    BY <1>1
  <1>3. CASE j \in DOMAIN s
    BY <1>1, <1>2, <1>3 DEF Rising
  <1>4. CASE j = Len(s) + 1
    <2>1. s[i].id \in IdsIn(s)
      BY <1>2 DEF IdsIn, IdsOf
    <2> QED
      BY <1>1, <1>2, <1>4, <2>1 DEF Before
  <1> QED
    BY <1>1, <1>3, <1>4

LEMMA RisingSingleton == \A m : Rising(<<m>>)
  BY DEF Rising

\* The next message of the adapter has a higher id than all before it.
LEMMA EmitOrder ==
  ASSUME TypeOK, NoMessageLost, OrderInv, NEW k \in Kinds, AdapterEmit(k)
  PROVE  OrderInv'
  <1> DEFINE m == [kind |-> k, id |-> emitted + 1]
  <1>1. /\ wire' = Append(wire, m) /\ emitted \in Nat
        /\ UNCHANGED <<inbound, backlog, delivered>>
    BY BoundsAssumption DEF AdapterEmit, queueVars, TypeOK
  <1>2. wire \in Seq(WireMessage) /\ m.kind \in Kinds /\ m.id = emitted + 1
    BY DEF TypeOK
  <1>3. Before(IdsIn(wire) \cup IdsIn(inbound) \cup IdsIn(backlog) \cup IdsIn(delivered),
               {emitted + 1})
    <2>1. IdsIn(wire) \cup IdsIn(inbound) \cup IdsIn(backlog) \cup IdsIn(delivered)
              \subseteq 1..emitted
      BY DEF NoMessageLost
    <2> QED
      BY <1>1, <2>1 DEF Before
  <1> HIDE DEF m
  <1>4. IdsIn(wire') = IdsIn(wire) \cup {emitted + 1}
    BY <1>1, <1>2, IdsInAppend
  <1>5. Before(IdsIn(wire), {m.id})
    BY <1>2, <1>3 DEF Before
  <1>6. Rising(wire')
    BY <1>1, <1>2, <1>5, RisingAppend DEF OrderInv
  <1> QED
    BY <1>1, <1>3, <1>4, <1>6 DEF OrderInv, Before

\* An answer of the adapter stands between the messages and has no part in them.
LEMMA RespondOrder ==
  ASSUME TypeOK, OrderInv, NEW s \in Seqs, AdapterRespond(s)
  PROVE  OrderInv'
  <1> DEFINE m == [kind |-> "response", id |-> s]
  <1>1. wire' = Append(wire, m) /\ UNCHANGED <<inbound, backlog, delivered>>
    BY DEF AdapterRespond, queueVars
  <1>2. wire \in Seq(WireMessage) /\ m.kind \notin Kinds
    BY DEF TypeOK, Kinds, EventKinds
  <1> HIDE DEF m
  <1>3. IdsIn(wire') = IdsIn(wire)
    <2>1. IdsOf(Append(wire, m), Kinds) =
              IdsOf(wire, Kinds) \cup (IF m.kind \in Kinds THEN {m.id} ELSE {})
      BY <1>2, IdsOfAppend
    <2> QED
      BY <1>1, <1>2, <2>1 DEF IdsIn
  <1>4. Rising(wire')
    BY <1>1, <1>2, RisingAppend DEF OrderInv
  <1> QED
    BY <1>1, <1>3, <1>4 DEF OrderInv

\* The reader appends to the channel what stood first on the wire.
LEMMA ReaderOrder ==
  ASSUME TypeOK, OrderInv, Reader
  PROVE  OrderInv'
  <1>1. CASE ReaderExit
    BY <1>1 DEF ReaderExit, adapterVars, queueVars, OrderInv
  <1>2. CASE ~ReaderExit
    <2>1. /\ wire \in Seq(WireMessage) /\ wire # <<>> /\ wire' = Tail(wire)
          /\ UNCHANGED <<backlog, delivered>>
      BY <1>2 DEF Reader, ReadResponse, ReadUnasked, SkipMalformed, TypeOK, queueVars
    <2>2. Rising(wire')
      BY <2>1, RisingTail DEF OrderInv
    <2>3. IdsIn(wire) = HeadIds(wire, Kinds) \cup IdsIn(wire')
      <3>1. IdsOf(wire, Kinds) = HeadIds(wire, Kinds) \cup IdsOf(Tail(wire), Kinds)
        BY <2>1, IdsOfTail
      <3> QED
        BY <2>1, <3>1 DEF IdsIn
    <2>4. CASE ReadResponse \/ SkipMalformed
      <3>1. inbound' = inbound
        BY <2>4 DEF ReadResponse, SkipMalformed, queueVars
      <3> QED
        BY <2>1, <2>2, <2>3, <3>1 DEF OrderInv, Before
    <2>5. CASE ReadUnasked
      <3>1. /\ inbound \in Seq(Inbound) /\ inbound' = Append(inbound, Head(wire))
            /\ Head(wire).kind \in Kinds /\ HeadIds(wire, Kinds) = {Head(wire).id}
        BY <2>5 DEF ReadUnasked, TypeOK, HeadIds, Kinds
      <3>2. IdsIn(inbound') = IdsIn(inbound) \cup {Head(wire).id}
        BY <3>1, IdsInAppend
      <3>3. Before({Head(wire).id}, IdsIn(wire'))
        BY <2>1, <3>1, RisingTail DEF OrderInv
      <3>4. Before(IdsIn(inbound), {Head(wire).id})
        BY <2>3, <3>1 DEF OrderInv, Before
      <3>5. Rising(inbound')
        BY <3>1, <3>4, RisingAppend DEF OrderInv
      <3> QED
        BY <2>1, <2>2, <2>3, <3>1, <3>2, <3>3, <3>5 DEF OrderInv, Before
    <2> QED
      BY <1>2, <2>4, <2>5 DEF Reader
  <1> QED
    BY <1>1, <1>2


\* A step that leaves the queues alone leaves their order alone.
LEMMA OrderUntouched ==
  ASSUME OrderInv, UNCHANGED <<wire, inbound, backlog, delivered>>
  PROVE  OrderInv'
  BY DEF OrderInv

\* The head of the two queues comes before all that stays in them.
LEMMA PopAvailableOrder ==
  ASSUME TypeOK, OrderInv, Available # <<>>, PopAvailable
  PROVE  /\ Rising(backlog') /\ Rising(inbound')
         /\ Head(Available).id \in IdsIn(backlog) \cup IdsIn(inbound)
         /\ IdsIn(backlog') \subseteq IdsIn(backlog)
         /\ IdsIn(inbound') \subseteq IdsIn(inbound)
         /\ Before({Head(Available).id}, IdsIn(backlog') \cup IdsIn(inbound') \cup IdsIn(wire))
  <1>1. Head(Available).kind \in Kinds
    BY AvailableType DEF Inbound, Kinds
  <1>2. CASE backlog # <<>>
    <2>1. /\ backlog \in Seq([kind : EventKinds, id : Ids])
          /\ Head(backlog).kind \in Kinds
          /\ Head(Available) = Head(backlog)
          /\ backlog' = Tail(backlog) /\ inbound' = inbound
      BY <1>1, <1>2 DEF TypeOK, Available, PopAvailable
    <2>2. IdsIn(backlog) = {Head(backlog).id} \cup IdsIn(Tail(backlog))
      BY <1>2, <2>1, IdsInTail
    <2>3. Rising(Tail(backlog)) /\ Before({Head(backlog).id}, IdsIn(Tail(backlog)))
      BY <1>2, <2>1, RisingTail DEF OrderInv
    <2> QED
      BY <2>1, <2>2, <2>3 DEF OrderInv, Before
  <1>3. CASE backlog = <<>>
    <2>1. /\ inbound \in Seq(Inbound) /\ inbound # <<>>
          /\ Head(inbound).kind \in Kinds
          /\ Head(Available) = Head(inbound)
          /\ inbound' = Tail(inbound) /\ backlog' = backlog
      BY <1>1, <1>3 DEF TypeOK, Available, PopAvailable
    <2>2. IdsIn(inbound) = {Head(inbound).id} \cup IdsIn(Tail(inbound))
      BY <2>1, IdsInTail
    <2>3. Rising(Tail(inbound)) /\ Before({Head(inbound).id}, IdsIn(Tail(inbound)))
      BY <2>1, RisingTail DEF OrderInv
    <2> QED
      BY <1>3, <2>1, <2>2, <2>3, IdsInEmpty DEF OrderInv, Before
  <1> QED
    BY <1>2, <1>3

\* A wait sets aside the first of the channel when nothing is set aside, and
\* otherwise puts the only event set aside back to where it was.
LEMMA PumpOrder ==
  ASSUME TypeOK, BacklogAtMostOne, OrderInv, PumpEvent
  PROVE  OrderInv'
  <1>1. UNCHANGED <<wire, delivered>> /\ Available # <<>>
    BY DEF PumpEvent, adapterVars
  <1>2. CASE backlog # <<>>
    <2>1. /\ backlog \in Seq([kind : EventKinds, id : Ids])
          /\ Tail(backlog) \in Seq([kind : EventKinds, id : Ids])
          /\ Len(Tail(backlog)) = Len(backlog) - 1 /\ Len(backlog) \in Nat \ {0}
      BY <1>2, HeadTailProperties, EmptySeq DEF TypeOK
    <2>2. backlog' = Append(Tail(backlog), Head(backlog)) /\ inbound' = inbound
      BY <1>2 DEF PumpEvent
    <2>3. Head(backlog).kind \in Kinds
      BY <1>1, <1>2, AvailableType DEF Available, Inbound, Kinds
    <2>4. Tail(backlog) = <<>>
      <3>1. Len(Tail(backlog)) = 0
        BY <2>1 DEF BacklogAtMostOne
      <3> QED
        BY <2>1, <3>1, EmptySeq
    <2>5. IdsIn(backlog') = IdsIn(backlog)
      <3>1. IdsIn(backlog) = {Head(backlog).id} \cup IdsIn(Tail(backlog))
        BY <1>2, <2>1, <2>3, IdsInTail
      <3>2. IdsIn(Append(Tail(backlog), Head(backlog))) =
                IdsIn(Tail(backlog)) \cup {Head(backlog).id}
        BY <2>1, <2>3, IdsInAppend
      <3> QED
        BY <2>2, <3>1, <3>2
    <2>6. Rising(backlog')
      <3>1. Rising(Tail(backlog))
        BY <1>2, <2>1, RisingTail DEF OrderInv
      <3>2. Before(IdsIn(Tail(backlog)), {Head(backlog).id})
        BY <2>4, IdsInEmpty DEF Before
      <3> QED
        BY <2>1, <2>2, <3>1, <3>2, RisingAppend
    <2> QED
      BY <1>1, <2>2, <2>5, <2>6 DEF OrderInv
  <1>3. CASE backlog = <<>>
    <2>1. /\ inbound \in Seq(Inbound) /\ inbound # <<>>
          /\ Head(inbound).kind \in Kinds
          /\ inbound' = Tail(inbound) /\ backlog' = <<Head(inbound)>>
      BY <1>1, <1>3, AvailableType DEF TypeOK, Available, PumpEvent, Inbound, Kinds
    <2>2. IdsIn(inbound) = {Head(inbound).id} \cup IdsIn(Tail(inbound))
      BY <2>1, IdsInTail
    <2>3. IdsIn(<<Head(inbound)>>) = {Head(inbound).id}
      BY <2>1 DEF IdsIn, IdsOf
    <2>4. Rising(Tail(inbound)) /\ Before({Head(inbound).id}, IdsIn(Tail(inbound)))
      BY <2>1, RisingTail DEF OrderInv
    <2> QED
      BY <1>1, <2>1, <2>2, <2>3, <2>4, RisingSingleton DEF OrderInv, Before
  <1> QED
    BY <1>2, <1>3

\* What the session takes comes after all it has, and before all it has not.
LEMMA TakeOrder ==
  ASSUME TypeOK, OrderInv, PumpRequest \/ PollEvent \/ PollRequest
  PROVE  OrderInv'
  <1>1. Available # <<>> /\ PopAvailable /\ wire' = wire
    BY DEF PumpRequest, PollEvent, PollRequest, adapterVars
  <1>2. /\ Rising(backlog') /\ Rising(inbound')
        /\ Head(Available).id \in IdsIn(backlog) \cup IdsIn(inbound)
        /\ IdsIn(backlog') \subseteq IdsIn(backlog)
        /\ IdsIn(inbound') \subseteq IdsIn(inbound)
        /\ Before({Head(Available).id}, IdsIn(backlog') \cup IdsIn(inbound') \cup IdsIn(wire))
    BY <1>1, PopAvailableOrder
  <1>3. CASE PumpRequest \/ PollRequest
    <2>1. delivered' = delivered
      BY <1>3 DEF PumpRequest, PollRequest
    <2> QED
      BY <1>1, <1>2, <2>1 DEF OrderInv, Before
  <1>4. CASE PollEvent
    <2>1. /\ delivered \in Seq([kind : EventKinds, id : Ids])
          /\ delivered' = Append(delivered, Head(Available))
          /\ Head(Available).kind \in Kinds
      BY <1>1, <1>4, PopAvailableIds DEF PollEvent, TypeOK
    <2>2. IdsIn(delivered') = IdsIn(delivered) \cup {Head(Available).id}
      BY <2>1, IdsInAppend
    <2>3. Before(IdsIn(delivered), {Head(Available).id})
      BY <1>2 DEF OrderInv, Before
    <2>4. Rising(delivered')
      BY <2>1, <2>3, RisingAppend DEF OrderInv
    <2> QED
      BY <1>1, <1>2, <2>2, <2>4 DEF OrderInv, Before
  <1> QED
    BY <1>3, <1>4

LEMMA OrderStep ==
  ASSUME TypeOK, BacklogAtMostOne, NoMessageLost, OrderInv, [Next]_vars
  PROVE  OrderInv'
  <1> USE DEF adapterVars, queueVars
  <1>1. CASE Adapter
    <2>1. CASE AdapterExit
      BY <2>1, OrderUntouched DEF AdapterExit
    <2> QED
      BY <1>1, <2>1, EmitOrder, RespondOrder DEF Adapter
  <1>2. CASE Reader
    BY <1>2, ReaderOrder
  <1>3. CASE PumpEvent
    BY <1>3, PumpOrder
  <1>4. CASE PumpRequest \/ PollEvent \/ PollRequest
    BY <1>4, TakeOrder
  <1>5. CASE WaitStep /\ ~PumpEvent /\ ~PumpRequest
    BY <1>5, OrderUntouched
    DEF WaitStep, WaitTimeout, EndWait, TakeResponse, NoResponseYet, PumpNothing
  <1>6. CASE TakeOutput
    BY <1>6, OrderUntouched DEF TakeOutput
  <1>7. CASE SendRequest \/ BeginShutdown \/ ShutdownStep
    BY <1>7, OrderUntouched DEF SendRequest, BeginShutdown, ShutdownStep, KillAdapter,
                                JoinReader
  <1>8. CASE \E s \in Seqs, b \in WaitBudgets : BeginWait(s, b)
    BY <1>8, OrderUntouched DEF BeginWait
  <1>9. CASE UNCHANGED vars
    BY <1>9, OrderUntouched DEF vars
  <1> QED
    BY <1>1, <1>2, <1>3, <1>4, <1>5, <1>6, <1>7, <1>8, <1>9 DEF Next, Client

\* Events reach the session in the order in which the adapter emitted them,
\* though a wait sets one aside in a queue of its own (enqueue_event, try_recv_event).
THEOREM EventsInOrder == Spec => []DeliveredInOrder
  <1>1. Init => OrderInv
    BY IdsInEmpty DEF Init, OrderInv, Rising, Before
  <1>2. TypeOK /\ BacklogAtMostOne /\ NoMessageLost /\ OrderInv /\ [Next]_vars => OrderInv'
    BY OrderStep
  <1>3. TypeOK /\ OrderInv => DeliveredInOrder
    <2>1. TypeOK => \A i \in DOMAIN delivered : delivered[i].kind \in Kinds
      <3>1. ASSUME TypeOK
            PROVE  \A i \in DOMAIN delivered : delivered[i].kind \in EventKinds
        <4>1. \A i \in DOMAIN delivered : delivered[i] \in [kind : EventKinds, id : Ids]
          BY <3>1, ElementOfSeq, LenProperties DEF TypeOK
        <4> QED
          BY <4>1
      <3> QED
        BY <3>1 DEF Kinds
    <2> QED
      BY <2>1 DEF OrderInv, Rising, DeliveredInOrder, IncreasingIds
  <1> QED
    BY <1>1, <1>2, <1>3, TypeCorrect, BacklogBounded, MessagesAccounted, PTL DEF Spec

-----------------------------------------------------------------------------
(* The console.                                                            *)

\* Appending to the console buffer and to the console adds to what is in them.
LEMMA ElementsOfAppend ==
  ASSUME NEW S, NEW s \in Seq(S), NEW e
  PROVE  Elements(Append(s, e)) = Elements(s) \cup {e}
  <1>1. /\ Len(s) \in Nat /\ DOMAIN s = 1..Len(s)
        /\ DOMAIN Append(s, e) = 1..(Len(s) + 1)
        /\ \A i \in 1..Len(s) : Append(s, e)[i] = s[i]
        /\ Append(s, e)[Len(s) + 1] = e
    BY LenProperties
  <1>2. \A x \in Elements(Append(s, e)) : x \in Elements(s) \cup {e}
    <2> SUFFICES ASSUME NEW i \in DOMAIN Append(s, e)
                 PROVE  Append(s, e)[i] \in Elements(s) \cup {e}
      BY DEF Elements
    <2>1. i = Len(s) + 1 \/ i \in DOMAIN s
      BY <1>1
    <2> QED
      BY <1>1, <2>1 DEF Elements
  <1>3. \A x \in Elements(s) : x \in Elements(Append(s, e))
    <2> SUFFICES ASSUME NEW i \in DOMAIN s PROVE s[i] \in Elements(Append(s, e))
      BY DEF Elements
    <2>1. i \in DOMAIN Append(s, e) /\ Append(s, e)[i] = s[i]
      BY <1>1
    <2> QED
      BY <2>1 DEF Elements
  <1>4. e \in Elements(Append(s, e))
    <2>1. Len(s) + 1 \in DOMAIN Append(s, e)
      BY <1>1
    <2> QED
      BY <1>1, <2>1 DEF Elements
  <1> QED
    BY <1>2, <1>3, <1>4

LEMMA ElementsOfConcat ==
  ASSUME NEW S, NEW s \in Seq(S), NEW t \in Seq(S)
  PROVE  Elements(s) \cup Elements(t) \subseteq Elements(s \o t)
  <1>1. /\ Len(s) \in Nat /\ DOMAIN s = 1..Len(s) /\ Len(t) \in Nat /\ DOMAIN t = 1..Len(t)
        /\ DOMAIN (s \o t) = 1..(Len(s) + Len(t))
        /\ \A i \in 1..Len(s) : (s \o t)[i] = s[i]
        /\ \A i \in 1..Len(t) : (s \o t)[Len(s) + i] = t[i]
    BY LenProperties, ConcatProperties
  <1>2. \A x \in Elements(s) : x \in Elements(s \o t)
    <2> SUFFICES ASSUME NEW i \in DOMAIN s PROVE s[i] \in Elements(s \o t)
      BY DEF Elements
    <2>1. i \in DOMAIN (s \o t) /\ (s \o t)[i] = s[i]
      BY <1>1
    <2> QED
      BY <2>1 DEF Elements
  <1>3. \A x \in Elements(t) : x \in Elements(s \o t)
    <2> SUFFICES ASSUME NEW i \in DOMAIN t PROVE t[i] \in Elements(s \o t)
      BY DEF Elements
    <2>1. Len(s) + i \in DOMAIN (s \o t) /\ (s \o t)[Len(s) + i] = t[i]
      BY <1>1
    <2> QED
      BY <2>1 DEF Elements
  <1> QED
    BY <1>2, <1>3

\* What has been copied to the console buffer, or shown.
Copied == Elements(outputBuffer) \cup Elements(console)
OutputOf(m) == IF m.kind = "output" THEN {m.id} ELSE {}

LEMMA BufferCopies ==
  ASSUME TypeOK, NEW m, outputBuffer' = Buffer(m), UNCHANGED console
  PROVE  Copied' = Copied \cup OutputOf(m)
  <1>1. outputBuffer \in Seq(Ids)
    BY DEF TypeOK
  <1>2. Elements(Append(outputBuffer, m.id)) = Elements(outputBuffer) \cup {m.id}
    BY <1>1, ElementsOfAppend
  <1>3. CASE m.kind = "output"
    <2>1. Elements(outputBuffer)' = Elements(outputBuffer) \cup {m.id}
      BY <1>2, <1>3 DEF Buffer, Elements
    <2>2. Elements(console)' = Elements(console)
      BY DEF Elements
    <2> QED
      BY <1>3, <2>1, <2>2 DEF Copied, OutputOf
  <1>4. CASE m.kind # "output"
    BY <1>4 DEF Buffer, Elements, Copied, OutputOf
  <1> QED
    BY <1>3, <1>4

\* The outputs in the two queues that events wait or end in.
LEMMA OutputsInAppend ==
  ASSUME NEW S, NEW s \in Seq(S), NEW m
  PROVE  OutputsIn(Append(s, m)) = OutputsIn(s) \cup OutputOf(m)
  <1>1. IdsOf(Append(s, m), {"output"}) =
            IdsOf(s, {"output"}) \cup (IF m.kind \in {"output"} THEN {m.id} ELSE {})
    BY IdsOfAppend
  <1> QED
    BY <1>1 DEF OutputsIn, OutputOf

LEMMA OutputsInTail ==
  ASSUME NEW S, NEW s \in Seq(S), s # <<>>
  PROVE  OutputsIn(s) = OutputOf(Head(s)) \cup OutputsIn(Tail(s))
  <1>1. IdsOf(s, {"output"}) = HeadIds(s, {"output"}) \cup IdsOf(Tail(s), {"output"})
    BY IdsOfTail
  <1> QED
    BY <1>1 DEF OutputsIn, HeadIds, OutputOf

\* A step that takes nothing out of the console keeps what is shown.
LEMMA ConsoleUntouched ==
  ASSUME OutputReachesConsole, UNCHANGED <<delivered, backlog, outputBuffer, console>>
  PROVE  OutputReachesConsole'
  BY DEF OutputReachesConsole, OutputsIn, IdsOf, Elements

LEMMA PumpShows ==
  ASSUME TypeOK, OutputReachesConsole, PumpEvent
  PROVE  OutputReachesConsole'
  <1>1. /\ outputBuffer' = Buffer(Head(Available)) /\ UNCHANGED <<console, delivered>>
        /\ Available # <<>>
    BY DEF PumpEvent
  <1>2. Copied' = Copied \cup OutputOf(Head(Available))
    BY <1>1, BufferCopies
  <1>3. OutputsIn(backlog)' \subseteq OutputsIn(backlog) \cup OutputOf(Head(Available))
    <2>1. CASE backlog # <<>>
      <3>1. backlog \in Seq([kind : EventKinds, id : Ids])
        BY DEF TypeOK
      <3>2. Tail(backlog) \in Seq([kind : EventKinds, id : Ids])
        BY <2>1, <3>1, HeadTailProperties
      <3>3. backlog' = Append(Tail(backlog), Head(backlog)) /\ Head(Available) = Head(backlog)
        BY <2>1 DEF PumpEvent, Available
      <3>4. OutputsIn(Append(Tail(backlog), Head(backlog))) =
                OutputsIn(Tail(backlog)) \cup OutputOf(Head(backlog))
        BY <3>2, OutputsInAppend
      <3>5. OutputsIn(Tail(backlog)) \subseteq OutputsIn(backlog)
        BY <2>1, <3>1, OutputsInTail
      <3>6. OutputsIn(backlog)' = OutputsIn(Append(Tail(backlog), Head(backlog)))
        BY <3>3 DEF OutputsIn, IdsOf
      <3> QED
        BY <3>3, <3>4, <3>5, <3>6
    <2>2. CASE backlog = <<>>
      <3>1. backlog' = <<Head(inbound)>> /\ Head(Available) = Head(inbound)
        BY <2>2 DEF PumpEvent, Available
      <3>2. OutputsIn(<<Head(inbound)>>) \subseteq OutputOf(Head(inbound))
        BY DEF OutputsIn, IdsOf, OutputOf
      <3>3. OutputsIn(backlog)' = OutputsIn(<<Head(inbound)>>)
        BY <3>1 DEF OutputsIn, IdsOf
      <3> QED
        BY <3>1, <3>2, <3>3
    <2> QED
      BY <2>1, <2>2
  <1>4. OutputsIn(delivered)' = OutputsIn(delivered)
    BY <1>1 DEF OutputsIn, IdsOf
  <1> QED
    BY <1>2, <1>3, <1>4 DEF OutputReachesConsole, Copied

\* Taking a message leaves no more outputs in the backlog than there were.
LEMMA PopShows ==
  ASSUME TypeOK, PopAvailable
  PROVE  OutputsIn(backlog)' \subseteq OutputsIn(backlog)
  <1>1. CASE backlog # <<>>
    <2>1. backlog \in Seq([kind : EventKinds, id : Ids]) /\ backlog' = Tail(backlog)
      BY <1>1 DEF TypeOK, PopAvailable
    <2>2. OutputsIn(Tail(backlog)) \subseteq OutputsIn(backlog)
      BY <1>1, <2>1, OutputsInTail
    <2> QED
      BY <2>1, <2>2 DEF OutputsIn, IdsOf
  <1>2. CASE backlog = <<>>
    BY <1>2 DEF PopAvailable, OutputsIn, IdsOf
  <1> QED
    BY <1>1, <1>2

LEMMA PollShows ==
  ASSUME TypeOK, OutputReachesConsole, PollEvent
  PROVE  OutputReachesConsole'
  <1>1. /\ outputBuffer' = Buffer(Head(Available)) /\ UNCHANGED console /\ PopAvailable
        /\ delivered' = Append(delivered, Head(Available))
        /\ delivered \in Seq([kind : EventKinds, id : Ids])
    BY DEF PollEvent, TypeOK
  <1>2. Copied' = Copied \cup OutputOf(Head(Available))
    BY <1>1, BufferCopies
  <1>3. OutputsIn(Append(delivered, Head(Available))) =
            OutputsIn(delivered) \cup OutputOf(Head(Available))
    BY <1>1, OutputsInAppend
  <1>4. OutputsIn(delivered)' = OutputsIn(delivered) \cup OutputOf(Head(Available))
    BY <1>1, <1>3 DEF OutputsIn, IdsOf
  <1>5. OutputsIn(backlog)' \subseteq OutputsIn(backlog)
    BY <1>1, PopShows
  <1> QED
    BY <1>2, <1>4, <1>5 DEF OutputReachesConsole, Copied

LEMMA ShowStep ==
  ASSUME TypeOK, OutputReachesConsole, [Next]_vars
  PROVE  OutputReachesConsole'
  <1> USE DEF adapterVars, readerVars, queueVars
  <1>1. CASE Adapter
    BY <1>1, ConsoleUntouched DEF Adapter, AdapterRespond, AdapterEmit, AdapterExit
  <1>2. CASE Reader
    BY <1>2, ConsoleUntouched
    DEF Reader, ReadResponse, ReadUnasked, SkipMalformed, ReaderExit
  <1>3. CASE PumpEvent
    BY <1>3, PumpShows
  <1>4. CASE PollEvent
    BY <1>4, PollShows
  <1>5. CASE PumpRequest \/ PollRequest
    <2>1. PopAvailable /\ UNCHANGED <<delivered, outputBuffer, console>>
      BY <1>5 DEF PumpRequest, PollRequest
    <2>2. OutputsIn(backlog)' \subseteq OutputsIn(backlog)
      BY <2>1, PopShows
    <2>3. OutputsIn(delivered)' = OutputsIn(delivered) /\ Copied' = Copied
      BY <2>1 DEF OutputsIn, IdsOf, Copied, Elements
    <2> QED
      BY <2>2, <2>3 DEF OutputReachesConsole, Copied
  <1>6. CASE TakeOutput
    <2>1. /\ console' = console \o outputBuffer /\ UNCHANGED <<delivered, backlog>>
          /\ console \in Seq(Ids) /\ outputBuffer \in Seq(Ids)
      BY <1>6 DEF TakeOutput, TypeOK
    <2>2. Elements(console) \cup Elements(outputBuffer) \subseteq Elements(console \o outputBuffer)
      BY <2>1, ElementsOfConcat
    <2>3. Copied \subseteq Copied'
      BY <2>1, <2>2 DEF Copied, Elements
    <2>4. /\ OutputsIn(delivered)' = OutputsIn(delivered)
          /\ OutputsIn(backlog)' = OutputsIn(backlog)
      BY <2>1 DEF OutputsIn, IdsOf
    <2> QED
      BY <2>3, <2>4 DEF OutputReachesConsole, Copied
  <1>7. CASE WaitStep /\ ~PumpEvent /\ ~PumpRequest
    BY <1>7, ConsoleUntouched
    DEF WaitStep, WaitTimeout, EndWait, TakeResponse, NoResponseYet, PumpNothing
  <1>8. CASE SendRequest \/ BeginShutdown \/ ShutdownStep
    BY <1>8, ConsoleUntouched DEF SendRequest, BeginShutdown, ShutdownStep, KillAdapter,
                                  JoinReader
  <1>9. CASE \E s \in Seqs, b \in WaitBudgets : BeginWait(s, b)
    BY <1>9, ConsoleUntouched DEF BeginWait
  <1>10. CASE UNCHANGED vars
    BY <1>10, ConsoleUntouched DEF vars
  <1> QED
    BY <1>1, <1>2, <1>3, <1>4, <1>5, <1>6, <1>7, <1>8, <1>9, <1>10 DEF Next, Client

\* The text of every output event that has left the channel is in the console buffer
\* or on the screen, by whichever of the two loops it left (enqueue_event, poll_events).
THEOREM OutputIsShown == Spec => []OutputReachesConsole
  <1>1. Init => OutputReachesConsole
    BY DEF Init, OutputReachesConsole, OutputsIn, IdsOf
  <1>2. TypeOK /\ OutputReachesConsole /\ [Next]_vars => OutputReachesConsole'
    BY ShowStep
  <1> QED
    BY <1>1, <1>2, TypeCorrect, PTL DEF Spec
=============================================================================
