------------------------------- MODULE Parts -------------------------------
(***************************************************************************)
(* The parts of the program that are specified one by one, checked side by *)
(* side: part says which of them runs.  An rr session and the tabs of the  *)
(* panes have their own variables; the other parts share nothing, so the   *)
(* one that runs has all the variables x1, x2, ..., x1 being its first     *)
(* one; those it does not need stay 0.                                     *)
(***************************************************************************)
EXTENDS RrSession, PaneFocus

CONSTANTS
    Sizes,                                        \* of CApi
    Requests, Sends, MaxSyncs,                    \* of NetworkCapture
    PanelRows, MaxExchanges, MaxTemplates, MaxText,              \* of NetworkPanel
    Refs, Sought, EditedRows, MaxStops, MaxEvents,              \* of MemoryView, and
    MemoryPanels, MaxMatches, MaxTouches,         \* ... when it has memory panels only
    MixedPanels, MixedMatches, MixedTouches,      \* ... or listings among them
    Letters, Marks, Replies, MaxTyped, MaxQuestions,            \* of ReplCompletion
    SourceLines, DemoLine, Programs, JumpLines, Values, MaxMockLaunches    \* of MockSession

VARIABLES part,
          x1, x2, x3, x4, x5, x6, x7, x8, x9, x10, x11, x12, x13, x14, x15, x16, x17

rest17 == <<x17>>
rest13 == <<x13, x14, x15, x16, rest17>>
rest10 == <<x10, x11, x12, rest13>>
rest9 == <<x9, rest10>>
others == <<x1, x2, x3, x4, x5, x6, x7, x8, rest9>>

Idle17 == x17 = 0
Idle13 == x13 = 0 /\ x14 = 0 /\ x15 = 0 /\ x16 = 0 /\ Idle17
Idle10 == x10 = 0 /\ x11 = 0 /\ x12 = 0 /\ Idle13
Idle9 == x9 = 0 /\ Idle10
Idle == x1 = 0 /\ x2 = 0 /\ x3 = 0 /\ x4 = 0 /\ x5 = 0 /\ x6 = 0 /\ x7 = 0 /\ x8 = 0 /\ Idle9

RrInit == Init
RrNext == Next
rrVars == vars

(* While another part runs there are no panes. *)
FocusIdle ==
    /\ panes = <<>> /\ shown = <<>> /\ keyboard = NoWidget
    /\ focus = "source" /\ focused = 0 /\ memory = 0 /\ nextTab = 0 /\ nextPane = 0 /\ changes = 0

(* The C API and its callers. *)
CA == INSTANCE CApi WITH
    session <- x1, lastError <- x2, owed <- x3, pointed <- x4, intruded <- x5, told <- x6,
    held <- x7, highlight <- x8

(* The network capture. *)
NC == INSTANCE NetworkCapture WITH
    flight <- x1, slot <- x2, taken <- x3, pending <- x4, mailbox <- x5, sending <- x6,
    events <- x7, waiting <- x8, posted <- x9, shown <- x10, address <- x11, live <- x12,
    fallback <- x13, syncs <- x14, overlapped <- x15, swallowed <- x16, crossed <- x17

(* The network panel. *)
NP == INSTANCE NetworkPanel WITH
    Rows <- PanelRows,
    exchanges <- x1, pane <- x2, templates <- x3, editing <- x4, field <- x5, backup <- x6,
    timeoutText <- x7, disk <- x8, writable <- x9, waiting <- x10, before <- x11, strayed <- x12

(* The memory panels and the listings of a layout. *)
MV(panels, matches, touched) == INSTANCE MemoryView WITH
    Panels <- panels, MaxMatches <- matches, MaxTouches <- touched, Rows <- EditedRows,
    Queries <- Sought,
    stopped <- x1, frame <- x2, slot <- x3, text <- x4, bar <- x5, edit <- x6, disowned <- x7,
    began <- x8, focus <- x9, toolbar <- x10, writing <- x11, writer <- x12, asker <- x13,
    mailbox <- x14, events <- x15, touches <- x16, stops <- x17

(* The input of the REPL and its completions. *)
RC == INSTANCE ReplCompletion WITH
    Others <- Marks, MaxText <- MaxTyped, MaxRequests <- MaxQuestions,
    text <- x1, cursor <- x2, active <- x3, age <- x4, sent <- x5, pending <- x6, id <- x7,
    asked <- x8, candidates <- x9, selected <- x10, ghost <- x11, strayed <- x12, posted <- x13,
    working <- x14, replies <- x15, stopped <- x16

(* The session that stands in for a debugger. *)
MS == INSTANCE MockSession WITH
    MaxLaunches <- MaxMockLaunches, Lines <- SourceLines,
    program <- x1, launched <- x2, state <- x3, stopped <- x4, line <- x5, step <- x6,
    value <- x7, console <- x8, launches <- x9

PartsInit ==
    \/ part = "rr" /\ RrInit /\ FocusIdle /\ Idle
    \/ part = "focus" /\ RrInit /\ FocusInit /\ Idle
    \/ /\ RrInit /\ FocusIdle
       /\ \/ part = "c_api" /\ CA!Init /\ Idle9
          \/ part = "capture" /\ NC!Init
          \/ part = "network" /\ NP!Init /\ Idle13
          \/ part = "memory" /\ MV(MemoryPanels, MaxMatches, MaxTouches)!Init
          \/ part = "listings" /\ MV(MixedPanels, MixedMatches, MixedTouches)!Init
          \/ part = "repl" /\ RC!Init /\ Idle17
          \/ part = "mock" /\ MS!Init /\ Idle10

PartsNext ==
    /\ UNCHANGED part
    /\ \/ part = "rr" /\ RrNext /\ UNCHANGED <<focusVars, others>>
       \/ part = "focus" /\ FocusNext /\ UNCHANGED <<rrVars, others>>
       \/ /\ UNCHANGED <<rrVars, focusVars>>
          /\ \/ part = "c_api" /\ CA!Next /\ UNCHANGED rest9
             \/ part = "capture" /\ NC!Next
             \/ part = "network" /\ NP!Next /\ UNCHANGED rest13
             \/ part = "memory" /\ MV(MemoryPanels, MaxMatches, MaxTouches)!Next
             \/ part = "listings" /\ MV(MixedPanels, MixedMatches, MixedTouches)!Next
             \/ part = "repl" /\ RC!Next /\ UNCHANGED rest17
             \/ part = "mock" /\ MS!Next /\ UNCHANGED rest10

partsVars == <<part, rrVars, focusVars, others>>

PartsSpec == PartsInit /\ [][PartsNext]_partsVars

-----------------------------------------------------------------------------
(* What the constants are. *)

SizesAreSound == Sizes \subseteq Nat

(* The sends are numbered. *)
CaptureIsSound ==
    /\ NC!None \notin Requests /\ MaxSyncs \in Nat
    /\ Sends = {} \/ \E n \in Sends : Sends = 1..n

PanelIsSound ==
    PanelRows \in Nat \ {0} /\ MaxExchanges \in Nat /\ MaxTemplates \in Nat \ {0} /\ MaxText \in Nat \ {0}

(* p are the panels, at least one a memory panel; m and t bound the matches *)
(* and what the user does.                                                  *)
ViewsAreSound(p, m, t) ==
    /\ m \in Nat /\ t \in Nat /\ MaxStops \in Nat /\ MaxEvents \in Nat
    /\ p \in Seq({"memory", "disassembly", "runtime"}) /\ \E s \in DOMAIN p : p[s] = "memory"
    /\ MV(p, m, t)!NoText \notin Sought /\ MV(p, m, t)!Nowhere \notin Refs

(* An adapter may have nothing to offer; app.cpp drops empty labels. *)
RepliesAreSound ==
    /\ MaxTyped \in Nat /\ MaxQuestions \in Nat
    /\ <<>> \in Replies
    /\ \A reply \in Replies :
          /\ reply \in Seq(RC!Range(reply))
          /\ \A label \in RC!Range(reply) : label \in Seq(RC!Range(label)) /\ label # <<>>

(* No line comes twice, and the first is line 1. *)
LinesAreSound ==
    /\ SourceLines \in Seq(Nat \ {0}) /\ SourceLines # <<>> /\ SourceLines[1] = 1
    /\ \A m, n \in DOMAIN SourceLines : SourceLines[m] = SourceLines[n] => m = n
    /\ DemoLine \in Nat \ {0} /\ JumpLines \subseteq Nat \ {0} /\ MaxMockLaunches \in Nat

PartsAreSound ==
    /\ ParametersAreSound /\ ConfigIsSound
    /\ SizesAreSound /\ CaptureIsSound /\ PanelIsSound /\ RepliesAreSound /\ LinesAreSound
    /\ ViewsAreSound(MemoryPanels, MaxMatches, MaxTouches)
    /\ ViewsAreSound(MixedPanels, MixedMatches, MixedTouches)

-----------------------------------------------------------------------------
(* Every part is in one of its states. *)
PartsTypeOK ==
    /\ part = "rr" => TypeOK
    /\ part = "focus" => FocusTypeOK
    /\ part = "c_api" => CA!TypeOK
    /\ part = "capture" => NC!TypeOK
    /\ part = "network" => NP!TypeOK
    /\ part = "memory" => MV(MemoryPanels, MaxMatches, MaxTouches)!TypeOK
    /\ part = "listings" => MV(MixedPanels, MixedMatches, MixedTouches)!TypeOK
    /\ part = "repl" => RC!TypeOK
    /\ part = "mock" => MS!TypeOK

(* The error text a caller of the C API copies is that of its own failed     *)
(* call, and it gives up on the lines of a viewport only if they fit none of *)
(* its four buffers, unless another call came between: LAST_ERROR is shared. *)
CallersAreTold == [][part = "c_api" => CA!TellsOwnError /\ CA!GivesUpOnlyLarge]_partsVars

(* A request that was alone in the proxy is recorded with its own response,  *)
(* and exactly once, wherever the record is on its way to the panel.         *)
CapturedOnce == part = "capture" => NC!CapturedOnce

(* A composed request whose result came back is shown, once, unless captured *)
(* traffic, the announcement of the proxy or another send crossed it.        *)
ResultShown == [][part = "capture" => NC!ShowsResult]_partsVars

(* An edit changes the template it began on and no other, and Escape leaves  *)
(* every template as the edit found it, unless a click led it elsewhere.  A  *)
(* panel made anew during the edit has the templates of the file.            *)
EditIsLocal == [][part = "network" => NP!EndsLocally]_partsVars

(* What is shown belongs to what it is shown for, whatever came in since:    *)
(* the match a memory panel highlights and the row it edits are those of its *)
(* dump, a completion the REPL offers is one for what is typed, unless       *)
(* ReplCompletion says otherwise, and the session that stands in for a       *)
(* debugger is at the line it shows.                                         *)
ShownIsCurrent ==
    /\ part = "memory" => MV(MemoryPanels, MaxMatches, MaxTouches)!PanelMatchesDump
    /\ part = "listings" => MV(MixedPanels, MixedMatches, MixedTouches)!PanelMatchesDump
    /\ part = "repl" => RC!OfferFits
    /\ part = "mock" => MS!Steady
=============================================================================
