--------------------------- MODULE NetworkCapture ---------------------------
(* The traffic of the debuggee and the requests of the Compose view.  The    *)
(* proxy (network/proxy.rs) sees requests and responses of many connections  *)
(* and pairs them through one slot; what it captured waits (capture.rs)      *)
(* until the session worker drains it into an event.  A composed request     *)
(* (compose.rs) is sent by that same worker, and its result comes back as    *)
(* an event of the same kind, NetworkJson: the UI tells the two apart only   *)
(* by whether it is waiting for a result.                                    *)
EXTENDS Integers, Sequences

CONSTANTS
    Requests,      \* the requests the debuggee makes, each once
    Sends,         \* the composed requests, sent in this order: 1..n
    MaxSyncs       \* bound on the launches, each of which announces the proxy

VARIABLES
    flight,        \* by request: "idle", "asked", "reading" or "done"
    slot,          \* CaptureHandler.pending: a request or None
    taken,         \* by request: what its response found in the slot
    pending,       \* CaptureInner.pending
    mailbox,       \* network_compose_send_request_: a send or None
    sending,       \* the send the worker is busy with, or None
    events,        \* the NetworkJson events the UI has not handled
    waiting,       \* compose_send_pending_, and the panel's compose_pending_
    posted,        \* how many composed requests the UI has posted
    shown,         \* network_session.exchanges
    address,       \* network_session.proxy_address is known
    live,          \* network_capture_live
    fallback,      \* network_show_mock_fallback
    syncs,
    overlapped,    \* the requests that were in flight with another
    swallowed,     \* the exchanges of a drain that a wait made vanish
    crossed        \* a drain, a sync or a second send crossed a send

proxyVars == <<flight, slot, taken, overlapped>>
uiVars == <<waiting, posted, shown, address, live, fallback, swallowed>>
vars == <<proxyVars, pending, mailbox, sending, events, uiVars, syncs, crossed>>

None == 0
Phases == {"idle", "asked", "reading", "done"}

Captured(request, response) == [origin |-> "captured", request |-> request, response |-> response]

(* The result of a composed request: its status, 0 when it could not be sent *)
(* and the exchange counts as dropped.                                       *)
Statuses == {0, 200}
Composed(send, status) == [origin |-> "compose", request |-> send, response |-> status]
Exchanges ==
    [origin : {"captured"}, request : Requests, response : Requests]
    \cup [origin : {"compose"}, request : Sends, response : Statuses]

(* A NetworkJson event: it succeeded or not, names the proxy or an empty     *)
(* address, and holds exchanges.                                             *)
Event(ok, named, exchanges) == [ok |-> ok, named |-> named, exchanges |-> exchanges]

----------------------------------------------------------------------------
(* The proxy: handle_request stores the request in the slot once its body is *)
(* read, handle_response empties the slot before it reads the body.          *)

InFlight == {r \in Requests : flight[r] = "asked"}

HandleRequest(r) ==
    /\ flight[r] = "idle"
    /\ flight' = [flight EXCEPT ![r] = "asked"]
    /\ slot' = r
    /\ overlapped' = IF InFlight = {} THEN overlapped ELSE overlapped \cup InFlight \cup {r}
    /\ UNCHANGED <<taken, pending, mailbox, sending, events, uiVars, syncs, crossed>>

HandleResponse(r) ==
    /\ flight[r] = "asked"
    /\ flight' = [flight EXCEPT ![r] = "reading"]
    /\ taken' = [taken EXCEPT ![r] = slot]
    /\ slot' = None
    /\ UNCHANGED <<overlapped, pending, mailbox, sending, events, uiVars, syncs, crossed>>

(* The body is there: the exchange is pushed, if the slot held a request.    *)
PushExchange(r) ==
    /\ flight[r] = "reading"
    /\ flight' = [flight EXCEPT ![r] = "done"]
    /\ pending' = IF taken[r] = None THEN pending ELSE Append(pending, Captured(taken[r], r))
    /\ UNCHANGED <<slot, taken, overlapped, mailbox, sending, events, uiVars, syncs, crossed>>

(* A request may get no response: a CONNECT, an upgrade or a dead server. *)
NoResponse(r) ==
    /\ flight[r] = "asked"
    /\ flight' = [flight EXCEPT ![r] = "idle"]
    /\ overlapped' = overlapped \ {r}
    /\ UNCHANGED <<slot, taken, pending, mailbox, sending, events, uiVars, syncs, crossed>>

----------------------------------------------------------------------------
(* The worker. *)

(* drain_network_json, when there is something to say. *)
Drain ==
    /\ sending = None /\ pending # <<>>
    /\ events' = Append(events, Event(TRUE, TRUE, pending))
    /\ pending' = <<>>
    /\ crossed' = (crossed \/ waiting)
    /\ UNCHANGED <<proxyVars, mailbox, sending, uiVars, syncs>>

(* sync_initial_state names the proxy, with no exchange. *)
SyncInitialState ==
    /\ syncs < MaxSyncs
    /\ syncs' = syncs + 1
    /\ events' = Append(events, Event(TRUE, TRUE, <<>>))
    /\ crossed' = (crossed \/ waiting)
    /\ UNCHANGED <<proxyVars, pending, mailbox, sending, uiVars>>

(* process_network_compose_send: the worker does nothing else until the      *)
(* request is answered or its timeout is over.                               *)
BeginSend ==
    /\ sending = None /\ mailbox # None
    /\ sending' = mailbox
    /\ mailbox' = None
    /\ UNCHANGED <<proxyVars, pending, events, uiVars, syncs, crossed>>

(* A request that cannot be sent is an exchange, too; one that cannot be     *)
(* built, or whose body cannot be read, is an error.                         *)
SendResults == {Event(TRUE, FALSE, <<Composed(sending, s)>>) : s \in Statuses}
               \cup {Event(FALSE, FALSE, <<>>)}

EndSend ==
    /\ sending # None
    /\ \E event \in SendResults : events' = Append(events, event)
    /\ sending' = None
    /\ UNCHANGED <<proxyVars, pending, mailbox, uiVars, syncs, crossed>>

----------------------------------------------------------------------------
(* The UI. *)

(* The panel's send: nothing stops a second one, whose text replaces the     *)
(* first in the mailbox if that was not taken.                               *)
PostSend ==
    /\ posted + 1 \in Sends
    /\ posted' = posted + 1
    /\ waiting' = TRUE
    /\ mailbox' = posted + 1
    /\ crossed' = (crossed \/ waiting \/ events # <<>> \/ sending # None)
    /\ UNCHANGED <<proxyVars, pending, sending, events, shown, address, live, fallback, swallowed, syncs>>

(* apply_compose_send_json: only the front exchange counts. *)
ApplyAsResult(event) ==
    /\ shown' = Append(shown, Head(event.exchanges))
    /\ swallowed' = swallowed \o Tail(event.exchanges)
    /\ waiting' = FALSE
    /\ live' = TRUE /\ fallback' = FALSE
    /\ UNCHANGED address

(* Bug: a drain replaces what is shown. *)
AddedInPlaceOf(exchanges) == exchanges

AddedToShown(exchanges) == shown \o exchanges

(* Composed exchanges are left out. *)
Traffic(exchanges) ==
    LET Kept[n \in 0..Len(exchanges)] ==
            IF n = 0 THEN <<>>
            ELSE IF exchanges[n].origin = "compose" THEN Kept[n - 1]
            ELSE Append(Kept[n - 1], exchanges[n])
    IN Kept[Len(exchanges)]

(* apply_network_json *)
ApplyAsTraffic(event) ==
    /\ shown' = AddedToShown(Traffic(event.exchanges))
    /\ address' = event.named
    /\ waiting' = FALSE
    /\ IF address' \/ shown' # <<>> THEN live' = TRUE /\ fallback' = FALSE ELSE UNCHANGED <<live, fallback>>
    /\ UNCHANGED swallowed

(* Bug: a request that could not be sent is not taken for the result. *)
IsResultUnlessDropped(event) == waiting /\ event.exchanges # <<>> /\ Head(event.exchanges).response # 0

IsResult(event) == waiting /\ event.exchanges # <<>>

HandleEvent ==
    /\ events # <<>>
    /\ LET event == Head(events) IN
       IF ~event.ok THEN waiting' = FALSE /\ UNCHANGED <<shown, address, live, fallback, swallowed>>
       ELSE IF IsResult(event) THEN ApplyAsResult(event) ELSE ApplyAsTraffic(event)
    /\ events' = Tail(events)
    /\ crossed' = (crossed /\ (waiting' \/ mailbox # None \/ sending # None \/ events' # <<>>))
    /\ UNCHANGED <<proxyVars, pending, mailbox, sending, posted, syncs>>

(* handle_launch_complete shows demo traffic when none is captured. *)
LaunchComplete ==
    /\ ~live
    /\ fallback' = TRUE
    /\ UNCHANGED <<proxyVars, pending, mailbox, sending, events, waiting, posted, shown, address, live, swallowed, syncs, crossed>>

----------------------------------------------------------------------------
Init ==
    /\ flight = [r \in Requests |-> "idle"]
    /\ slot = None
    /\ taken = [r \in Requests |-> None]
    /\ pending = <<>> /\ mailbox = None /\ sending = None /\ events = <<>>
    /\ waiting = FALSE /\ posted = 0 /\ shown = <<>> /\ address = FALSE
    /\ live = FALSE /\ fallback = FALSE /\ syncs = 0
    /\ overlapped = {} /\ swallowed = <<>> /\ crossed = FALSE

Next ==
    \/ \E r \in Requests : HandleRequest(r) \/ HandleResponse(r) \/ PushExchange(r) \/ NoResponse(r)
    \/ Drain \/ SyncInitialState \/ BeginSend \/ EndSend
    \/ PostSend \/ HandleEvent \/ LaunchComplete

Spec == Init /\ [][Next]_vars

TypeOK ==
    /\ flight \in [Requests -> Phases]
    /\ slot \in Requests \cup {None} /\ taken \in [Requests -> Requests \cup {None}]
    /\ pending \in Seq(Exchanges) /\ shown \in Seq(Exchanges) /\ swallowed \in Seq(Exchanges)
    /\ mailbox \in Sends \cup {None} /\ sending \in Sends \cup {None} /\ posted \in Sends \cup {None}
    /\ \A i \in DOMAIN events :
          events[i].ok \in BOOLEAN /\ events[i].named \in BOOLEAN /\ events[i].exchanges \in Seq(Exchanges)
    /\ waiting \in BOOLEAN /\ address \in BOOLEAN /\ live \in BOOLEAN /\ fallback \in BOOLEAN
    /\ syncs \in 0..MaxSyncs /\ overlapped \subseteq Requests /\ crossed \in BOOLEAN

(* Every exchange on its way to the network panel, or lost on it: where an   *)
(* exchange is among the lists that hold some.                               *)
Lists == <<pending, shown, swallowed>> \o [i \in DOMAIN events |-> events[i].exchanges]
Places(e) ==
    UNION {{<<list, i>> : i \in {j \in DOMAIN Lists[list] : Lists[list][j] = e}} : list \in DOMAIN Lists}

(* A request that met no other between its request and its response is       *)
(* captured with its own response, and exactly once, whatever drains, waits  *)
(* and launches its exchange passes on the way.                              *)
CapturedOnce ==
    \A r \in Requests :
        flight[r] = "done" /\ r \notin overlapped
            => \E place \in Places(Captured(r, r)) : Places(Captured(r, r)) = {place}

ShowsResult ==
    \A n \in Sends, s \in Statuses :
        /\ ~crossed /\ events # <<>> /\ events' = Tail(events)
        /\ Head(events).exchanges = <<Composed(n, s)>>
        => shown' = Append(shown, Composed(n, s)) /\ address' = address

(* A composed request whose result came back is shown, once, unless captured *)
(* traffic, the announcement of the proxy or another send crossed it.        *)
ResultShown == [][ShowsResult]_vars
=============================================================================
