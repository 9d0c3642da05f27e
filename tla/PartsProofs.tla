---------------------------- MODULE PartsProofs ----------------------------
(***************************************************************************)
(* Proof of what Parts states of the program's smaller parts, for every    *)
(* value of the constants that PartsAreSound allows: one section for each  *)
(* part, with its inductive invariant and the steps that keep it, and the  *)
(* theorems at the end.  The rr session and the panes are proved about in  *)
(* RrAndPanesProofs.                                                       *)
(***************************************************************************)
EXTENDS Parts, RrAndPanesProofs, SequenceTheorems

-----------------------------------------------------------------------------
(* The C API. *)

(* Unless another call came between, LAST_ERROR has the error a caller is to *)
(* fetch.  The one of a viewport says that its buffer was too small only if  *)
(* it was.                                                                   *)
ErrorInv ==
    /\ CA!TypeOK
    /\ \A c \in CA!Callers : x3[c] # "" /\ ~x5[c] => x2 = x3[c]
    /\ \A c \in CA!Callers : x4[c] => x3[c] # ""
    /\ x8 # CA!Idle /\ x3["worker"] # "" =>
          \/ x3["worker"] = "bad text"
          \/ x3["worker"] = "too small" /\ ~CA!Fits(x8.size, CA!HighlightCapacity(x8.attempt))

\* The ways a call fails are texts of LAST_ERROR.
LEMMA FailuresAreErrors == ASSUME NEW f PROVE CA!Failures(f) \subseteq CA!Errors
  BY DEF CA!Failures, CA!EngineErrors, CA!Errors

\* A call answers with an error of its own or with none.
LEMMA AnswerSound ==
  ASSUME NEW c \in CA!Callers, NEW f, NEW error \in CA!Texts, CA!Answer(c, f, error), ErrorInv, CA!Free(c)
  PROVE  /\ x2' \in CA!Texts /\ x3' \in [CA!Callers -> CA!Texts]
         /\ x4' \in [CA!Callers -> BOOLEAN] /\ x5' \in [CA!Callers -> BOOLEAN] /\ x6' \in CA!Told
         /\ \A d \in CA!Callers : x3'[d] # "" /\ ~x5'[d] => x2' = x3'[d]
         /\ \A d \in CA!Callers : x4'[d] => x3'[d] # ""
         /\ x3'[c] \in {"", error}
         /\ \A d \in CA!Callers \ {c} : x3'[d] = x3[d]
  BY DEF ErrorInv, CA!TypeOK, CA!Answer, CA!Texts, CA!Told, CA!Free

\* What the C API starts from is sound.
LEMMA ErrorInit == ASSUME CA!Init PROVE ErrorInv
  BY DEF CA!Init, ErrorInv, CA!TypeOK, CA!Texts, CA!Told, CA!Idle

\* A call of the worker, which is not about a viewport, keeps it so.
LEMMA WorkerAnswers ==
  ASSUME ErrorInv, CA!WorkerIsFree, NEW f, NEW error \in CA!Texts, CA!Answer("worker", f, error),
         UNCHANGED <<x1, x8>>, x7' \subseteq CA!Kinds
  PROVE  ErrorInv'
<1>1. "worker" \in CA!Callers
  BY DEF CA!Callers
<1>2. /\ x2' \in CA!Texts /\ x3' \in [CA!Callers -> CA!Texts]
      /\ x4' \in [CA!Callers -> BOOLEAN] /\ x5' \in [CA!Callers -> BOOLEAN] /\ x6' \in CA!Told
      /\ \A d \in CA!Callers : x3'[d] # "" /\ ~x5'[d] => x2' = x3'[d]
      /\ \A d \in CA!Callers : x4'[d] => x3'[d] # ""
  BY <1>1, AnswerSound DEF CA!WorkerIsFree
<1> QED BY <1>2 DEF ErrorInv, CA!TypeOK, CA!WorkerIsFree, CA!Callers

\* Every call keeps the errors right.
LEMMA ErrorStep == ASSUME SizesAreSound, ErrorInv, [CA!Next]_(CA!vars) PROVE ErrorInv'
<1>c. "worker" \in CA!Callers /\ "launcher" \in CA!Callers /\ CA!Callers = {"worker", "launcher"}
  BY DEF CA!Callers
<1>e. /\ "" \in CA!Texts /\ CA!Errors \subseteq CA!Texts
      /\ {"bad text", "refused", "too small", "unknown op", "not in rr"} \subseteq CA!Texts
  BY DEF CA!Texts, CA!Errors
<1>1. CASE CA!Launch
  <2>1. PICK error \in CA!Texts : CA!Answer("launcher", "launch_resolved", error)
    BY <1>1, <1>e, FailuresAreErrors DEF CA!Launch
  <2>2. x1' \in {"none"} \cup CA!Engines /\ x7' \subseteq CA!Kinds /\ x8' = x8
    BY <1>1 DEF CA!Launch, CA!EngineOf, CA!Engines, CA!Kinds
  <2>3. /\ x2' \in CA!Texts /\ x3' \in [CA!Callers -> CA!Texts]
        /\ x4' \in [CA!Callers -> BOOLEAN] /\ x5' \in [CA!Callers -> BOOLEAN] /\ x6' \in CA!Told
        /\ \A d \in CA!Callers : x3'[d] # "" /\ ~x5'[d] => x2' = x3'[d]
        /\ \A d \in CA!Callers : x4'[d] => x3'[d] # ""
        /\ x3'["worker"] = x3["worker"]
    BY <1>1, <1>c, <2>1, AnswerSound DEF CA!Launch
  <2> QED BY <2>2, <2>3 DEF ErrorInv, CA!TypeOK
<1>2. CASE CA!FreeSession
  BY <1>2 DEF CA!FreeSession, ErrorInv, CA!TypeOK
<1>3. ASSUME NEW f \in CA!Reads, CA!Read(f) PROVE ErrorInv'
  <2>1. PICK error \in CA!Texts : CA!Answer("worker", f, error)
    BY <1>3, <1>e, FailuresAreErrors DEF CA!Read
  <2>2. UNCHANGED <<x1, x8>> /\ x7' \subseteq CA!Kinds /\ CA!WorkerIsFree
    BY <1>3 DEF CA!Read, CA!SessionIsOpen, ErrorInv, CA!TypeOK
  <2> QED BY <2>1, <2>2, WorkerAnswers
<1>4. ASSUME NEW f \in CA!Queries \cup CA!Replacements, CA!Query(f) PROVE ErrorInv'
  <2>1. PICK error \in CA!Texts : CA!Answer("worker", f, error)
    BY <1>4, <1>e, FailuresAreErrors DEF CA!Query
  <2>2. UNCHANGED <<x1, x8>> /\ x7' \subseteq CA!Kinds /\ CA!WorkerIsFree
    BY <1>4 DEF CA!Query, CA!SessionIsOpen, ErrorInv, CA!TypeOK
  <2> QED BY <2>1, <2>2, WorkerAnswers
<1>5. ASSUME NEW op \in CA!Ops("Dap"), CA!Command(op) PROVE ErrorInv'
  <2>1. PICK error \in CA!Texts : CA!Answer("worker", "command", error)
    BY <1>5, <1>e DEF CA!Command, CA!CommandErrors
  <2>2. UNCHANGED <<x1, x8>> /\ x7' \subseteq CA!Kinds /\ CA!WorkerIsFree
    BY <1>5 DEF CA!Command, CA!SessionIsOpen, ErrorInv, CA!TypeOK
  <2> QED BY <2>1, <2>2, WorkerAnswers
<1>6. CASE CA!TerminalWrite
  <2>1. PICK error \in CA!Texts : CA!Answer("worker", "terminal_write", error)
    BY <1>6, <1>e, FailuresAreErrors DEF CA!TerminalWrite
  <2>2. UNCHANGED <<x1, x8>> /\ x7' \subseteq CA!Kinds /\ CA!WorkerIsFree
    BY <1>6 DEF CA!TerminalWrite, CA!SessionIsOpen, ErrorInv, CA!TypeOK
  <2> QED BY <2>1, <2>2, WorkerAnswers
<1>7. CASE CA!ProxyAddress
  <2>1. UNCHANGED <<x1, x8>> /\ x7' \subseteq CA!Kinds /\ CA!WorkerIsFree
    BY <1>7 DEF CA!ProxyAddress, CA!SessionIsOpen, ErrorInv, CA!TypeOK
  <2> QED BY <1>7, <1>e, <2>1, WorkerAnswers DEF CA!ProxyAddress
<1>8. CASE CA!Compose
  <2>1. PICK error \in CA!Texts : CA!Answer("worker", "send_network_compose", error)
    BY <1>8, <1>e DEF CA!Compose
  <2>2. UNCHANGED <<x1, x8>> /\ x7' \subseteq CA!Kinds /\ CA!WorkerIsFree
    BY <1>8 DEF CA!Compose, ErrorInv, CA!TypeOK
  <2> QED BY <2>1, <2>2, WorkerAnswers
<1>9. ASSUME NEW f \in CA!UiCalls, CA!AskAboutSource(f) PROVE ErrorInv'
  <2>1. x2' \in CA!Texts
    BY <1>9, <1>e DEF CA!AskAboutSource
  <2>2. /\ UNCHANGED <<x1, x3, x4, x6, x7, x8>>
        /\ x5' = [c \in CA!Callers |-> x5[c] \/ x3[c] # ""]
    BY <1>9 DEF CA!AskAboutSource
  <2> QED BY <2>1, <2>2 DEF ErrorInv, CA!TypeOK
<1>10. CASE CA!BeginHighlight
  <2>1. PICK size \in Sizes : x8' = [size |-> size, attempt |-> 1]
    BY <1>10 DEF CA!BeginHighlight
  <2>2. UNCHANGED <<x1, x2, x3, x4, x5, x6, x7>> /\ x3["worker"] = ""
    BY <1>10 DEF CA!BeginHighlight, CA!WorkerIsFree, CA!Free
  <2>3. x8' \in [size : Sizes, attempt : 1..4]
    BY <2>1
  <2> QED BY <2>2, <2>3 DEF ErrorInv, CA!TypeOK
<1>11. CASE CA!TryHighlight
  <2>1. x3["worker"] = "" /\ x8 # CA!Idle /\ UNCHANGED <<x1, x7>>
    BY <1>11 DEF CA!TryHighlight, CA!Free
  <2>2. CA!Failures("highlight_viewport") = {"bad text"}
    BY DEF CA!Failures, CA!NeedsSession, CA!TakesText, CA!TakesJson, CA!EngineErrors, CA!NotInRr,
           CA!CannotFail, CA!Reads, CA!Queries, CA!ReplQueries, CA!VariableQueries, CA!MemoryQueries,
           CA!Replacements, CA!NamedBreakpoints, CA!Launches
  <2>3. PICK error \in CA!Texts :
           /\ CA!Answer("worker", "highlight_viewport", error)
           /\ x8' = x8 \/ x8' = CA!Idle
           /\ error # "" => \/ error = "bad text"
                            \/ error = "too small" /\ ~CA!Fits(x8.size, CA!HighlightCapacity(x8.attempt))
    BY <1>11, <1>e, <2>2 DEF CA!TryHighlight
  <2>4. /\ x2' \in CA!Texts /\ x3' \in [CA!Callers -> CA!Texts]
        /\ x4' \in [CA!Callers -> BOOLEAN] /\ x5' \in [CA!Callers -> BOOLEAN] /\ x6' \in CA!Told
        /\ \A d \in CA!Callers : x3'[d] # "" /\ ~x5'[d] => x2' = x3'[d]
        /\ \A d \in CA!Callers : x4'[d] => x3'[d] # ""
        /\ x3'["worker"] \in {"", error}
    BY <1>11, <1>c, <2>3, AnswerSound DEF CA!TryHighlight
  <2>5. x8' # CA!Idle /\ x3'["worker"] # "" =>
          \/ x3'["worker"] = "bad text"
          \/ x3'["worker"] = "too small" /\ ~CA!Fits(x8'.size, CA!HighlightCapacity(x8'.attempt))
    BY <2>3, <2>4
  <2> QED BY <2>1, <2>3, <2>4, <2>5 DEF ErrorInv, CA!TypeOK
<1>12. ASSUME NEW c \in CA!Callers, CA!Point(c) PROVE ErrorInv'
  BY <1>12 DEF CA!Point, ErrorInv, CA!TypeOK
<1>13. ASSUME NEW c \in CA!Callers, CA!Copy(c) PROVE ErrorInv'
  <2>1. PICK text \in CA!CopiedText(c) :
           x6' = text /\ x8' = IF c = "worker" THEN CA!AfterText(text) ELSE x8
    BY <1>13 DEF CA!Copy
  <2>2. x6' \in CA!Told
    BY <2>1 DEF CA!CopiedText, ErrorInv, CA!TypeOK, CA!Texts, CA!Told
  <2>3. x8' = CA!Idle \/ x8' \in [size : Sizes, attempt : 1..4]
    <3>1. CASE c # "worker" \/ x8 = CA!Idle \/ text # "too small" \/ x8.attempt = 4
      BY <2>1, <3>1 DEF CA!AfterText, ErrorInv, CA!TypeOK
    <3>2. CASE c = "worker" /\ x8 # CA!Idle /\ text = "too small" /\ x8.attempt # 4
      <4>1. PICK size \in Sizes, n \in 1..4 : x8 = [size |-> size, attempt |-> n]
        BY <3>2 DEF ErrorInv, CA!TypeOK
      <4>2. x8.attempt = n
        BY <4>1
      <4>3. n # 4
        BY <3>2, <4>2
      <4>4. n + 1 \in 1..4
        BY <4>3
      <4>5. x8' = [x8 EXCEPT !.attempt = x8.attempt + 1]
        BY <2>1, <3>2 DEF CA!AfterText
      <4>6. x8' = [size |-> size, attempt |-> n + 1]
        BY <4>1, <4>5
      <4> QED BY <4>4, <4>6
    <3> QED BY <3>1, <3>2
  <2>4. /\ UNCHANGED <<x1, x2, x7>> /\ x3' = [x3 EXCEPT ![c] = ""]
        /\ x4' = [x4 EXCEPT ![c] = FALSE] /\ x5' = [x5 EXCEPT ![c] = FALSE]
    BY <1>13 DEF CA!Copy
  <2>5. x3' \in [CA!Callers -> CA!Texts] /\ x3'[c] = "" /\ \A d \in CA!Callers \ {c} : x3'[d] = x3[d]
    BY <1>e, <2>4 DEF ErrorInv, CA!TypeOK
  <2>6. x4' \in [CA!Callers -> BOOLEAN] /\ x5' \in [CA!Callers -> BOOLEAN]
        /\ \A d \in CA!Callers \ {c} : x5'[d] = x5[d]
    BY <2>4 DEF ErrorInv, CA!TypeOK
  <2>7. /\ \A d \in CA!Callers : x3'[d] # "" /\ ~x5'[d] => x2' = x3'[d]
        /\ \A d \in CA!Callers : x4'[d] => x3'[d] # ""
    BY <2>4, <2>5, <2>6 DEF ErrorInv, CA!TypeOK
  <2>8. x3'["worker"] # "" => x8' = x8 /\ x3'["worker"] = x3["worker"]
    BY <1>c, <2>1, <2>5
  <2> QED BY <2>2, <2>3, <2>4, <2>5, <2>6, <2>7, <2>8 DEF ErrorInv, CA!TypeOK
<1>14. ASSUME NEW kind \in CA!Kinds, CA!Produce(kind) PROVE ErrorInv'
  BY <1>14 DEF CA!Produce, ErrorInv, CA!TypeOK
<1>15. CASE UNCHANGED CA!vars
  BY <1>15 DEF CA!vars, ErrorInv, CA!TypeOK
<1> QED
  BY <1>1, <1>2, <1>3, <1>4, <1>5, <1>6, <1>7, <1>8, <1>9, <1>10, <1>11, <1>12, <1>13, <1>14, <1>15
     DEF CA!Next

\* A caller is told its own error, and that a viewport did not fit only when
\* it is larger than the last of the four buffers.
LEMMA ErrorTold ==
  ASSUME SizesAreSound, ErrorInv, CA!Next
  PROVE  CA!TellsOwnError /\ CA!GivesUpOnlyLarge
<1>1. ASSUME NEW c \in CA!Callers, x4[c], ~x4'[c] PROVE CA!Copy(c)
  <2>1. x4' # x4
    BY <1>1
  <2>2. PICK d \in CA!Callers : CA!Point(d) \/ CA!Copy(d)
    BY <2>1 DEF CA!Next, CA!Launch, CA!FreeSession, CA!Read, CA!Query, CA!Command, CA!TerminalWrite,
       CA!ProxyAddress, CA!Compose, CA!AskAboutSource, CA!BeginHighlight, CA!TryHighlight,
       CA!Produce, CA!Answer
  <2> QED BY <1>1, <2>2 DEF CA!Point, CA!Copy, ErrorInv, CA!TypeOK
<1>2. ASSUME NEW c \in CA!Callers, CA!Copy(c), ~x5[c] PROVE x6' = x3[c]
  <2>1. x3[c] # ""
    BY <1>2 DEF ErrorInv, CA!Copy
  <2>2. x2 = x3[c]
    BY <1>2, <2>1 DEF ErrorInv
  <2> QED BY <1>2, <2>1, <2>2 DEF CA!Copy, CA!CopiedText
<1>3. CA!TellsOwnError
  BY <1>1, <1>2 DEF CA!TellsOwnError
<1>4. ASSUME x8 # CA!Idle, x8' = CA!Idle, x3["worker"] # "", ~x5["worker"], x3["worker"] # "bad text"
      PROVE  x8.size > CA!LargestViewport
  <2>1. CA!Copy("worker")
    BY <1>4 DEF CA!Next, CA!Launch, CA!FreeSession, CA!Read, CA!Query, CA!Command, CA!TerminalWrite,
       CA!ProxyAddress, CA!Compose, CA!AskAboutSource, CA!BeginHighlight, CA!TryHighlight,
       CA!Produce, CA!Free, CA!Point, CA!Copy, CA!SessionIsOpen, CA!WorkerIsFree
  <2>2. x2 = "too small" /\ x3["worker"] = "too small"
    BY <1>4 DEF ErrorInv, CA!Callers
  <2>3. x8' = CA!AfterText("too small")
    BY <1>4, <2>1, <2>2 DEF CA!Copy, CA!CopiedText
  <2>4. x8 \in [size : Sizes, attempt : 1..4]
    BY <1>4 DEF ErrorInv, CA!TypeOK
  <2>5. PICK size \in Sizes, n \in 1..4 : x8 = [size |-> size, attempt |-> n]
    BY <2>4
  <2>6. n = 4
    <3> SUFFICES ASSUME n # 4 PROVE FALSE
      OBVIOUS
    <3>1. x8' = [x8 EXCEPT !.attempt = x8.attempt + 1]
      BY <1>4, <2>3, <2>5 DEF CA!AfterText
    <3>2. x8' = [size |-> size, attempt |-> n + 1] /\ n + 1 # 0
      BY <2>5, <3>1
    <3>3. x8'.attempt = n + 1
      BY <3>2
    <3>4. x8'.attempt = 0
      BY <1>4 DEF CA!Idle
    <3> QED BY <3>2, <3>3, <3>4
  <2>7. ~CA!Fits(size, CA!HighlightCapacity(4))
    BY <1>4, <2>2, <2>5, <2>6 DEF ErrorInv
  <2>8. ~(size <= 2097152)
    BY <2>7, SMT DEF CA!Fits, CA!HighlightCapacity
  <2> QED BY <2>5, <2>8, SMT DEF SizesAreSound, CA!LargestViewport
<1> QED BY <1>3, <1>4 DEF CA!GivesUpOnlyLarge

-----------------------------------------------------------------------------
(* The network panel. *)

Panes ==
    [view : {"Traffic", "Compose"}, focus : {"List", "Detail"}, exchange : 0..MaxExchanges,
     template : 0..MaxTemplates, list : 0..MaxExchanges + MaxTemplates, detail : 0..PanelRows + 1]

SomeTemplates(list) == list \in Seq(NP!Template) /\ Len(list) \in 1..MaxTemplates
SomeExchanges(list) == list \in Seq(NP!States) /\ Len(list) \in 0..MaxExchanges

(* While a template is edited, the file is as it was, and so are the other   *)
(* templates and the backup, unless a click led the edit to another.         *)
EditInv ==
    /\ SomeExchanges(x1) /\ x2 \in Panes /\ SomeTemplates(x3) /\ SomeTemplates(x8)
    /\ x4 \in BOOLEAN /\ x5 \in {"text", "timeout"} /\ x7 \in NP!TimeoutTexts
    /\ x9 \in BOOLEAN /\ x10 \in NP!Answers /\ x12 \in BOOLEAN
    /\ x2.template < Len(x3)
    /\ ~x4 => x6 = <<>>
    /\ x4 =>
         /\ x6 \in [1..1 -> NP!Template]
         /\ x8 = x11.saved
         /\ ~x12 =>
              /\ Len(x11.list) = Len(x3) /\ x11.list \in Seq(NP!Template)
              /\ x2.template = x11.index /\ x6[1] = x11.list[x11.index + 1]
              /\ \A i \in DOMAIN x3 : i = x11.index + 1 \/ x3[i] = x11.list[i]

(* Another selection, with the detail pane at its first line. *)
Selecting(p, e, t) == [p EXCEPT !.detail = 0, !.exchange = e, !.template = t]

\* A clamped number is between its limits.
LEMMA ClampBounds ==
  \A x \in Int, n \in Nat : NP!Clamp(x, 0, n) \in 0..n
<1> TAKE x \in Int, n \in Nat
<1>1. CASE x < n
  BY <1>1 DEF NP!Clamp, NP!LargerOf
<1>2. CASE ~(x < n)
  BY <1>2 DEF NP!Clamp, NP!LargerOf
<1> QED BY <1>1, <1>2

\* How far the lists scroll.
LEMMA ScrollRanges ==
  ASSUME PanelIsSound, SomeExchanges(x1), SomeTemplates(x3), NEW p \in Panes
  PROVE  /\ NP!Count(p) \in Nat /\ NP!MaxListScroll(p) \in 0..MaxExchanges + MaxTemplates
         /\ NP!MaxDetailScroll(p) \in 0..1
         /\ NP!Selected(p) \in 0..MaxExchanges + MaxTemplates
<1>1. NP!Count(p) \in 0..MaxExchanges + MaxTemplates /\ NP!Selected(p) \in 0..MaxExchanges + MaxTemplates
  BY DEF SomeExchanges, SomeTemplates, PanelIsSound, Panes, NP!Count, NP!Selected
<1>2. NP!Lines(p) \in 0..PanelRows + 1
  BY DEF PanelIsSound, NP!Lines
<1>3. NP!MaxListScroll(p) \in 0..MaxExchanges + MaxTemplates
  BY <1>1 DEF NP!MaxListScroll, NP!LargerOf, PanelIsSound
<1>4. NP!MaxDetailScroll(p) \in 0..1
  BY <1>2 DEF NP!MaxDetailScroll, NP!LargerOf, PanelIsSound
<1> QED BY <1>1, <1>3, <1>4

\* Following the selection moves nothing but the two offsets.
LEMMA SyncedPane ==
  ASSUME PanelIsSound, SomeExchanges(x1), SomeTemplates(x3), NEW p \in Panes
  PROVE  /\ NP!Synced(p) \in Panes
         /\ NP!Synced(p).template = p.template
<1> DEFINE n == NP!MaxListScroll(p)
           list == NP!Clamp(p.list, 0, n)
           detail == NP!Clamp(p.detail, 0, NP!MaxDetailScroll(p))
<1>1. list \in 0..MaxExchanges + MaxTemplates /\ detail \in 0..PanelRows + 1
  <2>1. p.list \in Int /\ p.detail \in Int
    BY DEF Panes
  <2>2. n \in Nat /\ NP!MaxDetailScroll(p) \in Nat
    BY ScrollRanges
  <2>3. list \in 0..n /\ detail \in 0..NP!MaxDetailScroll(p)
    <3> HIDE DEF n
    <3> QED BY <2>1, <2>2, ClampBounds
  <2> HIDE DEF list, detail
  <2> QED BY <2>3, ScrollRanges DEF PanelIsSound
<1>2. NP!Followed(p, list) \in 0..MaxExchanges + MaxTemplates
  BY <1>1, ScrollRanges DEF NP!Followed, NP!LargerOf, PanelIsSound
<1>3. PICK l \in 0..MaxExchanges + MaxTemplates : NP!Synced(p) = [p EXCEPT !.list = l, !.detail = detail]
  BY <1>1, <1>2 DEF NP!Synced
<1> HIDE DEF list, detail
<1> QED BY <1>1, <1>3 DEF Panes

\* Scrolling moves nothing but an offset.
LEMMA ScrolledPane ==
  ASSUME PanelIsSound, SomeExchanges(x1), SomeTemplates(x3), NEW p \in Panes, NEW delta \in Int
  PROVE  /\ NP!ScrollList(p, delta) \in Panes /\ NP!ScrollList(p, delta).template = p.template
         /\ NP!ScrollDetail(p, delta) \in Panes /\ NP!ScrollDetail(p, delta).template = p.template
<1> DEFINE list == NP!Clamp(p.list + delta, 0, NP!MaxListScroll(p))
           detail == NP!Clamp(p.detail + delta, 0, NP!MaxDetailScroll(p))
<1>1. p.list \in Int /\ p.detail \in Int
  BY DEF Panes
<1>2. list \in 0..MaxExchanges + MaxTemplates /\ detail \in 0..PanelRows + 1
  <2>1. NP!MaxListScroll(p) \in Nat /\ NP!MaxDetailScroll(p) \in Nat
    BY ScrollRanges
  <2>2. list \in 0..NP!MaxListScroll(p) /\ detail \in 0..NP!MaxDetailScroll(p)
    <3>1. p.list + delta \in Int /\ p.detail + delta \in Int
      BY <1>1
    <3> QED BY <2>1, <3>1, ClampBounds
  <2> HIDE DEF list, detail
  <2> QED BY <2>2, ScrollRanges DEF PanelIsSound
<1>3. NP!ScrollList(p, delta) = [p EXCEPT !.list = list] /\ NP!ScrollDetail(p, delta) = [p EXCEPT !.detail = detail]
  BY DEF NP!ScrollList, NP!ScrollDetail
<1> HIDE DEF list, detail
<1> QED BY <1>2, <1>3 DEF Panes

\* It is a state of the pane.
LEMMA SelectedPane ==
  ASSUME PanelIsSound, NEW p \in Panes, NEW e \in 0..MaxExchanges, NEW t \in 0..MaxTemplates
  PROVE  Selecting(p, e, t) \in Panes /\ Selecting(p, e, t).template = t
<1>1. 0 \in 0..PanelRows + 1
  BY DEF PanelIsSound
<1> QED BY <1>1 DEF Panes, Selecting

\* A selection that moves stays in its list, and is another one of the view shown.
LEMMA MovedPane ==
  ASSUME PanelIsSound, SomeExchanges(x1), SomeTemplates(x3), NEW p \in Panes, NEW delta \in {-1, 1},
         p.template < Len(x3)
  PROVE  /\ NP!Moved(p, delta) \in Panes
         /\ NP!Moved(p, delta).template < Len(x3)
         /\ p.view = "Traffic" => NP!Moved(p, delta).template = p.template
<1>1. CASE NP!Selected(p) + delta \notin 0..NP!Count(p) - 1
  BY <1>1 DEF NP!Moved
<1>2. CASE NP!Selected(p) + delta \in 0..NP!Count(p) - 1
  <2>1. PICK e \in 0..MaxExchanges, t \in 0..MaxTemplates :
           /\ NP!Moved(p, delta) = NP!Synced(Selecting(p, e, t))
           /\ t < Len(x3) /\ (p.view = "Traffic" => t = p.template)
    <3> DEFINE exchange == IF p.view = "Traffic" THEN p.exchange + delta ELSE p.exchange
               template == IF p.view = "Compose" THEN p.template + delta ELSE p.template
    <3>1. exchange \in 0..MaxExchanges /\ template \in 0..MaxTemplates /\ template < Len(x3)
      BY <1>2 DEF NP!Selected, NP!Count, SomeExchanges, SomeTemplates, PanelIsSound, Panes
    <3>2. NP!Moved(p, delta) = NP!Synced(Selecting(p, exchange, template))
      BY <1>2 DEF NP!Moved, Selecting
    <3>3. p.view = "Traffic" => template = p.template
      OBVIOUS
    <3> HIDE DEF exchange, template
    <3> QED BY <3>1, <3>2, <3>3
  <2> QED BY <2>1, SelectedPane, SyncedPane
<1> QED BY <1>1, <1>2

\* What a refresh shows, and what a new panel does.
LEMMA SomeSessions ==
  ASSUME PanelIsSound
  PROVE  SomeExchanges(NP!Demo) /\ \A list \in NP!Sessions : SomeExchanges(list)
<1>1. SomeExchanges(<<>>)
  BY DEF SomeExchanges, PanelIsSound
<1>2. SomeExchanges(NP!Demo)
  <2>1. NP!Demo \in [1..MaxExchanges -> NP!States]
    BY DEF NP!Demo, NP!States
  <2> HIDE DEF NP!Demo
  <2> QED BY <2>1 DEF SomeExchanges, PanelIsSound
<1> QED BY <1>1, <1>2 DEF NP!Sessions

\* The panel starts without an edit.
LEMMA EditInit == ASSUME PanelIsSound, NP!Init PROVE EditInv
<1>1. SomeExchanges(x1)
  BY SomeSessions DEF NP!Init
<1>2. x3 = <<0>> /\ x8 = x3
  BY DEF NP!Init, NP!Default
<1>3. SomeTemplates(x3) /\ Len(x3) = 1
  <2>1. 0 \in NP!Template
    BY DEF NP!Template, NP!Default, PanelIsSound
  <2>2. x3 \in Seq(NP!Template) /\ Len(x3) = 1
    BY <1>2, <2>1
  <2> QED BY <1>2, <2>2 DEF SomeTemplates, PanelIsSound
<1>4. x2 \in Panes /\ x2.template = 0
  <2>1. x2 = [view |-> "Traffic", focus |-> "List", exchange |-> 0, template |-> 0, list |-> 0, detail |-> 0]
    BY DEF NP!Init, NP!NewPane
  <2>2. 0 \in 0..MaxExchanges /\ 0 \in 0..MaxTemplates /\ 0 \in 0..MaxExchanges + MaxTemplates
        /\ 0 \in 0..PanelRows + 1
    BY DEF PanelIsSound
  <2> QED BY <2>1, <2>2 DEF Panes
<1>5. x4 = FALSE /\ x5 = "text" /\ x6 = <<>> /\ x7 = "" /\ x9 \in BOOLEAN /\ x10 = "none" /\ x12 = FALSE
  BY DEF NP!Init
<1>6. x2.template < Len(x3)
  BY <1>3, <1>4
<1> QED
  BY <1>1, <1>2, <1>3, <1>4, <1>5, <1>6, Zenon DEF EditInv, NP!TimeoutTexts, NP!Answers

\* Only the pane and what it sends has changed, and no other template is selected.
LEMMA PaneStep ==
  ASSUME EditInv, x2' \in Panes, UNCHANGED <<x3, x4, x5, x6, x7, x8, x9, x11, x12>>,
         SomeExchanges(x1)', x10' \in NP!Answers,
         x2'.template < Len(x3), x4 => x2'.template = x2.template
  PROVE  EditInv'
  BY DEF EditInv, SomeTemplates, SomeExchanges

\* Keys and the mouse select no other template during an edit but by a click in the list.
LEMMA MoveStep ==
  ASSUME PanelIsSound, EditInv,
         \/ \E key \in NP!Arrows : NP!Arrow(key)
         \/ NP!CycleView \/ NP!Layout \/ NP!DragScrollbar \/ NP!ClickDetail
         \/ \E view \in {"Traffic", "Compose"} : NP!ClickTab(view)
         \/ \E delta \in {-1, 1} : NP!Wheel(delta)
  PROVE  EditInv'
<1>1. /\ SomeExchanges(x1) /\ SomeTemplates(x3) /\ x2 \in Panes
      /\ x2.template < Len(x3) /\ x10 \in NP!Answers
  BY DEF EditInv
<1>2. UNCHANGED <<x1, x3, x4, x5, x6, x7, x8, x9, x10, x11, x12>>
  BY DEF NP!Arrow, NP!CycleView, NP!Layout, NP!DragScrollbar, NP!ClickDetail, NP!ClickTab, NP!Wheel,
     NP!edit
<1>3. \A f \in {"List", "Detail"} :
        /\ [x2 EXCEPT !.focus = f] \in Panes
        /\ [x2 EXCEPT !.focus = f].template = x2.template
  BY <1>1 DEF Panes
<1>4. x2' \in Panes /\ x2'.template < Len(x3) /\ (x4 => x2'.template = x2.template)
  <2>1. ASSUME NEW key \in NP!Arrows, NP!Arrow(key)
        PROVE  x2' \in Panes /\ x2'.template < Len(x3) /\ (x4 => x2'.template = x2.template)
    <3>1. ~x4 \/ x2.view = "Traffic"
      BY <1>1, <2>1 DEF NP!Arrow, NP!EditTakesKeys, Panes
    <3>2. \/ \E f \in {"List", "Detail"} : x2' = NP!Synced([x2 EXCEPT !.focus = f])
          \/ \E delta \in Int : x2' \in {NP!ScrollDetail(x2, delta), NP!ScrollList(x2, delta)}
          \/ \E delta \in {-1, 1} : x2' = NP!Moved(x2, delta)
          \/ x2' = x2
      <4>1. PanelRows \in Int /\ -PanelRows \in Int /\ -(PanelRows + 1) \in Int /\ PanelRows + 1 \in Int
        BY DEF PanelIsSound
      <4> QED BY <2>1, <4>1 DEF NP!Arrow, NP!AfterArrow, NP!Arrows
    <3>3. CASE \E f \in {"List", "Detail"} : x2' = NP!Synced([x2 EXCEPT !.focus = f])
      BY <1>1, <1>3, <3>3, SyncedPane
    <3>4. CASE \E delta \in Int : x2' \in {NP!ScrollDetail(x2, delta), NP!ScrollList(x2, delta)}
      BY <1>1, <3>4, ScrolledPane
    <3>5. CASE \E delta \in {-1, 1} : x2' = NP!Moved(x2, delta)
      BY <1>1, <3>1, <3>5, MovedPane
    <3> QED BY <1>1, <3>2, <3>3, <3>4, <3>5
  <2>2. ASSUME NEW view \in {"Traffic", "Compose"}, x2' = NP!SetView(x2, view)
        PROVE  x2' \in Panes /\ x2'.template = x2.template
    <3>1. 0 \in 0..MaxExchanges + MaxTemplates /\ 0 \in 0..PanelRows + 1
      BY DEF PanelIsSound
    <3>2. [x2 EXCEPT !.view = view, !.list = 0, !.detail = 0] \in Panes
      BY <1>1, <3>1 DEF Panes
    <3>3. [x2 EXCEPT !.view = view, !.list = 0, !.detail = 0].template = x2.template
      BY <1>1 DEF Panes
    <3> QED BY <1>1, <2>2, <3>2, <3>3 DEF NP!SetView
  <2>3. CASE NP!CycleView \/ \E view \in {"Traffic", "Compose"} : NP!ClickTab(view)
    BY <1>1, <2>2, <2>3 DEF NP!CycleView, NP!ClickTab, NP!Other
  <2>4. CASE NP!Layout
    BY <1>1, <2>4, SyncedPane DEF NP!Layout
  <2>5. CASE NP!ClickDetail
    BY <1>1, <1>3, <2>5 DEF NP!ClickDetail
  <2>6. ASSUME NEW delta \in {-1, 1}, NP!Wheel(delta)
        PROVE  x2' \in Panes /\ x2'.template = x2.template
    <3>1. PICK f \in {"List", "Detail"} :
            x2' \in {NP!Synced(NP!ScrollDetail([x2 EXCEPT !.focus = f], delta)),
                     NP!Synced(NP!ScrollList([x2 EXCEPT !.focus = f], delta))}
      BY <2>6 DEF NP!Wheel
    <3>2. NP!ScrollDetail([x2 EXCEPT !.focus = f], delta) \in Panes
          /\ NP!ScrollList([x2 EXCEPT !.focus = f], delta) \in Panes
          /\ NP!ScrollDetail([x2 EXCEPT !.focus = f], delta).template = x2.template
          /\ NP!ScrollList([x2 EXCEPT !.focus = f], delta).template = x2.template
      <4> DEFINE q == [x2 EXCEPT !.focus = f]
      <4>1. q \in Panes /\ q.template = x2.template /\ delta \in Int
        BY <1>3
      <4> HIDE DEF q
      <4>2. /\ NP!ScrollDetail(q, delta) \in Panes /\ NP!ScrollDetail(q, delta).template = x2.template
            /\ NP!ScrollList(q, delta) \in Panes /\ NP!ScrollList(q, delta).template = x2.template
        BY <1>1, <4>1, ScrolledPane
      <4> QED BY <4>2 DEF q
    <3> QED BY <1>1, <3>1, <3>2, SyncedPane
  <2>7. CASE NP!DragScrollbar
    <3>1. ASSUME NEW p \in Panes, p.template = x2.template, NEW f \in {"List", "Detail"},
                 x2' = NP!Synced([NP!Synced(p) EXCEPT !.focus = f])
          PROVE  x2' \in Panes /\ x2'.template = x2.template
      <4> DEFINE q == NP!Synced(p)
      <4>1. q \in Panes /\ q.template = x2.template
        BY <1>1, <3>1, SyncedPane
      <4> HIDE DEF q
      <4>2. [q EXCEPT !.focus = f] \in Panes /\ [q EXCEPT !.focus = f].template = x2.template
        BY <4>1 DEF Panes
      <4>3. x2' = NP!Synced([q EXCEPT !.focus = f])
        BY <3>1 DEF q
      <4> QED BY <1>1, <4>2, <4>3, SyncedPane
    <3>2. \A y \in 0..NP!MaxListScroll(x2) :
            [x2 EXCEPT !.list = y] \in Panes /\ [x2 EXCEPT !.list = y].template = x2.template
      <4>1. \A y \in 0..NP!MaxListScroll(x2) : y \in 0..MaxExchanges + MaxTemplates
        BY <1>1, ScrollRanges DEF PanelIsSound
      <4> QED BY <1>1, <4>1 DEF Panes
    <3>3. \A y \in 0..NP!MaxDetailScroll(x2) :
            [x2 EXCEPT !.detail = y] \in Panes /\ [x2 EXCEPT !.detail = y].template = x2.template
      <4>1. \A y \in 0..NP!MaxDetailScroll(x2) : y \in 0..PanelRows + 1
        BY <1>1, ScrollRanges DEF PanelIsSound
      <4> QED BY <1>1, <4>1 DEF Panes
    <3> QED BY <1>1, <2>7, <3>1, <3>2, <3>3 DEF NP!DragScrollbar
  <2> QED BY <1>1, <2>1, <2>3, <2>4, <2>5, <2>6, <2>7
<1> QED
  BY <1>1, <1>2, <1>4, PaneStep DEF SomeExchanges

\* A click in the list may select another template, and then says so.
LEMMA ClickStep ==
  ASSUME PanelIsSound, EditInv, NEW y \in 0..PanelRows - 1, NP!ClickRow(y)
  PROVE  EditInv'
<1>1. /\ SomeExchanges(x1) /\ SomeTemplates(x3) /\ x2 \in Panes
      /\ x2.template < Len(x3) /\ x10 \in NP!Answers
  BY DEF EditInv
<1>2. PICK p : p = [x2 EXCEPT !.focus = "List"]
  OBVIOUS
<1>3. p \in Panes /\ p.template = x2.template /\ p.exchange = x2.exchange
  BY <1>1, <1>2 DEF Panes
<1>4. x2' \in Panes /\ x2'.template < Len(x3)
  <2> DEFINE row == y + x2.list
  <2>1. CASE row >= NP!Count(x2)
    BY <1>1, <1>2, <1>3, <2>1, SyncedPane DEF NP!ClickRow
  <2>2. CASE ~(row >= NP!Count(x2))
    <3>1. PICK e \in 0..MaxExchanges, t \in 0..MaxTemplates :
             x2' = NP!Synced(Selecting(p, e, t)) /\ t < Len(x3)
      <4> DEFINE exchange == IF x2.view = "Traffic" THEN row ELSE p.exchange
                 template == IF x2.view = "Compose" THEN row ELSE p.template
      <4>1. row \in Nat
        BY <1>1 DEF Panes, PanelIsSound
      <4>2. exchange \in 0..MaxExchanges /\ template \in 0..MaxTemplates /\ template < Len(x3)
        BY <1>1, <1>3, <2>2, <4>1 DEF NP!Count, SomeExchanges, SomeTemplates, PanelIsSound, Panes
      <4>3. x2' = NP!Synced(Selecting(p, exchange, template))
        BY <1>2, <2>2 DEF NP!ClickRow, Selecting
      <4> HIDE DEF exchange, template
      <4> QED BY <4>2, <4>3
    <3> QED BY <1>1, <1>3, <3>1, SelectedPane, SyncedPane
  <2> QED BY <2>1, <2>2
<1>5. /\ x12' = (x4 /\ (x12 \/ x2'.template # x2.template))
      /\ UNCHANGED <<x1, x3, x4, x5, x6, x7, x8, x9, x10, x11>>
  BY DEF NP!ClickRow
<1>6. x4 /\ ~x12' => ~x12 /\ x2'.template = x2.template
  BY <1>5
<1>7. x12' \in BOOLEAN
  BY <1>5
<1> QED BY <1>1, <1>4, <1>5, <1>6, <1>7 DEF EditInv, SomeTemplates, SomeExchanges

\* An edit starts with the template it is for as backup.
LEMMA BeginEditStep ==
  ASSUME PanelIsSound, EditInv, NP!BeginEdit \/ NP!AddTemplate
  PROVE  EditInv'
<1>1. /\ SomeExchanges(x1) /\ SomeTemplates(x3) /\ SomeTemplates(x8) /\ x2 \in Panes
      /\ x2.template < Len(x3) /\ x10 \in NP!Answers /\ x9 \in BOOLEAN /\ x7 \in NP!TimeoutTexts
  BY DEF EditInv
<1>2. UNCHANGED <<x1, x7, x8, x9, x10>>
  BY DEF NP!BeginEdit, NP!AddTemplate, NP!BeginOn
<1>3. /\ SomeTemplates(x3') /\ x2' \in Panes /\ x2'.template < Len(x3')
      /\ NP!BeginOn(x3', x2'.template)
  <2>1. CASE NP!BeginEdit
    BY <1>1, <2>1 DEF NP!BeginEdit, Panes
  <2>2. CASE NP!AddTemplate
    <3>1. x3' = Append(x3, 0) /\ Len(x3) < MaxTemplates /\ NP!BeginOn(x3', Len(x3))
      BY <2>2 DEF NP!AddTemplate, NP!Default
    <3>2. SomeTemplates(x3') /\ Len(x3') = Len(x3) + 1
      BY <1>1, <3>1 DEF SomeTemplates, NP!Template, NP!Default, PanelIsSound
    <3>3. x2' = [x2 EXCEPT !.template = Len(x3), !.detail = 0, !.focus = "Detail"]
      BY <2>2 DEF NP!AddTemplate
    <3>4. Len(x3) \in 0..MaxTemplates /\ 0 \in 0..PanelRows + 1
      BY <1>1, <3>1 DEF SomeTemplates, PanelIsSound
    <3>5. x2' \in Panes /\ x2'.template = Len(x3)
      BY <1>1, <3>3, <3>4 DEF Panes
    <3> QED BY <3>1, <3>2, <3>4, <3>5 DEF PanelIsSound
  <2> QED BY <2>1, <2>2
<1>4. /\ x4' = TRUE /\ x6' = <<x3'[x2'.template + 1]>> /\ x5' = "text" /\ x12' = FALSE
      /\ x11' = [list |-> x3', index |-> x2'.template, saved |-> x8]
  BY <1>3 DEF NP!BeginOn
<1>5. x3'[x2'.template + 1] \in NP!Template
  BY <1>3 DEF SomeTemplates, Panes
<1>6. x6' \in [1..1 -> NP!Template] /\ x6'[1] = x3'[x2'.template + 1]
  BY <1>4, <1>5
<1>7. x11'.list = x3' /\ x11'.index = x2'.template /\ x11'.saved = x8' /\ x3' \in Seq(NP!Template)
  BY <1>2, <1>3, <1>4 DEF SomeTemplates
<1> QED BY <1>1, <1>2, <1>3, <1>4, <1>6, <1>7 DEF EditInv, SomeTemplates, SomeExchanges

\* Typing, Tab and Enter change the template the edit is for only; Escape brings it back.
LEMMA FieldStep ==
  ASSUME PanelIsSound, EditInv,
         \/ \E text \in 0..MaxText : NP!TypeText(text)
         \/ \E text \in NP!TimeoutTexts : NP!TypeTimeout(text)
         \/ NP!NextField \/ NP!CommitEdit \/ NP!CancelEdit
  PROVE  /\ EditInv'
         /\ ~x4' /\ ~x12 =>
               /\ Len(x3') = Len(x11.list)
               /\ \A i \in DOMAIN x3' : i = x11.index + 1 \/ x3'[i] = x11.list[i]
               /\ NP!CancelEdit => x3' = x11.list
<1>1. /\ SomeExchanges(x1) /\ SomeTemplates(x3) /\ SomeTemplates(x8) /\ x2 \in Panes
      /\ x2.template < Len(x3) /\ x10 \in NP!Answers /\ x9 \in BOOLEAN /\ x7 \in NP!TimeoutTexts
      /\ x5 \in {"text", "timeout"} /\ x12 \in BOOLEAN /\ x4 \in BOOLEAN
      /\ x4 /\ x6 \in [1..1 -> NP!Template]
  BY DEF EditInv, NP!TypeText, NP!TypeTimeout, NP!NextField, NP!CommitEdit, NP!CancelEdit, NP!EditTakesKeys
<1>2. UNCHANGED <<x1, x2, x9, x10>>
  BY DEF NP!TypeText, NP!TypeTimeout, NP!NextField, NP!CommitEdit, NP!CancelEdit, NP!edit
<1>3. x2.template + 1 \in 1..Len(x3)
  BY <1>1 DEF SomeTemplates, Panes
<1>4. \A text : NP!ParseTimeout(text) \in NP!Template
  BY DEF NP!ParseTimeout, NP!Template, NP!Default, PanelIsSound
<1>5. \/ x3' = x3
      \/ \E t \in NP!Template : x3' = [x3 EXCEPT ![x2.template + 1] = t]
  <2>1. CASE \E text \in 0..MaxText : NP!TypeText(text)
    BY <2>1 DEF NP!TypeText, NP!Template, NP!Default, NP!Current
  <2>2. CASE \E text \in NP!TimeoutTexts : NP!TypeTimeout(text)
    BY <2>2 DEF NP!TypeTimeout
  <2>3. CASE NP!NextField \/ NP!CommitEdit
    BY <1>4, <2>3 DEF NP!NextField, NP!CommitEdit, NP!Flushed, NP!Current
  <2>4. CASE NP!CancelEdit
    <3>1. x6[1] \in NP!Template
      BY <1>1
    <3> QED BY <2>4, <3>1 DEF NP!CancelEdit, NP!Restored, NP!Current
  <2> QED BY <2>1, <2>2, <2>3, <2>4
<1>6. /\ SomeTemplates(x3') /\ Len(x3') = Len(x3)
      /\ \A j \in DOMAIN x3 : j # x2.template + 1 => x3'[j] = x3[j]
  <2>1. CASE x3' = x3
    BY <1>1, <2>1
  <2>2. ASSUME NEW t \in NP!Template, x3' = [x3 EXCEPT ![x2.template + 1] = t]
        PROVE  /\ SomeTemplates(x3') /\ Len(x3') = Len(x3)
               /\ \A j \in DOMAIN x3 : j # x2.template + 1 => x3'[j] = x3[j]
    BY <1>1, <1>3, <2>2 DEF SomeTemplates
  <2> QED BY <1>5, <2>1, <2>2
<1>7. DOMAIN x3' = DOMAIN x3
  BY <1>1, <1>6 DEF SomeTemplates
<1>8. ~x12 => \A i \in DOMAIN x3' : i = x11.index + 1 \/ x3'[i] = x11.list[i]
  BY <1>1, <1>6, <1>7 DEF EditInv
<1>9. CASE NP!CommitEdit \/ NP!CancelEdit
  <2>1. x4' = FALSE /\ x6' = <<>> /\ x5' = "text" /\ x7' = "" /\ x12' = FALSE /\ x8' \in {x3', x8}
    BY <1>9 DEF NP!CommitEdit, NP!CancelEdit, NP!EndEdit, NP!Save
  <2>2. SomeTemplates(x8')
    BY <1>1, <1>6, <2>1
  <2>3. EditInv'
    BY <1>1, <1>2, <1>6, <2>1, <2>2 DEF EditInv, NP!TimeoutTexts, SomeTemplates, SomeExchanges
  <2>4. ASSUME NP!CancelEdit, ~x12 PROVE x3' = x11.list
    <3>1. /\ Len(x11.list) = Len(x3) /\ x11.list \in Seq(NP!Template) /\ x2.template = x11.index
          /\ x6[1] = x11.list[x11.index + 1]
      BY <1>1, <2>4 DEF EditInv
    <3>2. x3' = [x3 EXCEPT ![x2.template + 1] = x6[1]]
      BY <2>4 DEF NP!CancelEdit, NP!Restored, NP!Current
    <3>3. x3'[x2.template + 1] = x6[1]
      BY <1>1, <1>3, <3>2 DEF SomeTemplates
    <3>4. \A i \in 1..Len(x3') : x3'[i] = x11.list[i]
      BY <1>1, <1>6, <1>8, <2>4, <3>1, <3>3 DEF SomeTemplates
    <3> QED BY <1>6, <3>1, <3>4, SeqEqual DEF SomeTemplates
  <2> QED BY <1>1, <1>6, <1>8, <2>3, <2>4 DEF EditInv
<1>10. CASE ~(NP!CommitEdit \/ NP!CancelEdit)
  <2>1. UNCHANGED <<x4, x6, x8, x11, x12>>
    BY <1>10 DEF NP!TypeText, NP!TypeTimeout, NP!NextField, NP!edit
  <2>2. x5' \in {"text", "timeout"} /\ x7' \in NP!TimeoutTexts
    BY <1>1, <1>10 DEF NP!TypeText, NP!TypeTimeout, NP!NextField, NP!edit, NP!TextOf, NP!TimeoutTexts
  <2>3. EditInv'
    BY <1>1, <1>2, <1>6, <1>8, <2>1, <2>2 DEF EditInv, SomeTemplates, SomeExchanges
  <2> QED BY <1>1, <2>1, <2>3
<1> QED BY <1>9, <1>10

\* A list of templates with one removed.
LEMMA TemplateRemoved ==
  ASSUME PanelIsSound, NEW list, SomeTemplates(list), Len(list) > 1, NEW i \in 1..Len(list)
  PROVE  SomeTemplates(NP!RemoveAt(list, i)) /\ Len(NP!RemoveAt(list, i)) = Len(list) - 1
<1>1. SubSeq(list, 1, i - 1) \in Seq(NP!Template) /\ Len(SubSeq(list, 1, i - 1)) = i - 1
  BY DEF SomeTemplates
<1>2. SubSeq(list, i + 1, Len(list)) \in Seq(NP!Template) /\ Len(SubSeq(list, i + 1, Len(list))) = Len(list) - i
  BY DEF SomeTemplates
<1> DEFINE a == SubSeq(list, 1, i - 1)
           b == SubSeq(list, i + 1, Len(list))
<1>3. NP!RemoveAt(list, i) = a \o b
  BY DEF NP!RemoveAt
<1>4. Len(list) \in 1..MaxTemplates
  BY DEF SomeTemplates
<1> HIDE DEF a, b
<1>5. a \in Seq(NP!Template) /\ b \in Seq(NP!Template) /\ Len(a) = i - 1 /\ Len(b) = Len(list) - i
  BY <1>1, <1>2 DEF a, b
<1>6. a \o b \in Seq(NP!Template) /\ Len(a \o b) = Len(a) + Len(b)
  BY <1>5
<1>7. Len(a \o b) = Len(list) - 1 /\ Len(list) - 1 \in 1..MaxTemplates
  BY <1>4, <1>5, <1>6 DEF PanelIsSound
<1> QED BY <1>3, <1>6, <1>7 DEF SomeTemplates

\* Without an edit, templates are removed and read again from the file.
LEMMA ListStep ==
  ASSUME PanelIsSound, EditInv, NP!DeleteTemplate \/ NP!Reload
  PROVE  EditInv'
<1>1. /\ SomeTemplates(x3) /\ SomeTemplates(x8) /\ x2 \in Panes /\ x2.template < Len(x3) /\ ~x4
  BY DEF EditInv, NP!DeleteTemplate, NP!Reload, NP!AtTemplates
<1>2. UNCHANGED <<x1, x4, x5, x6, x7, x9, x10, x11, x12>>
  BY DEF NP!DeleteTemplate, NP!Reload, NP!edit
<1>3. SomeTemplates(x3') /\ SomeTemplates(x8') /\ x2' \in Panes /\ x2'.template < Len(x3')
  <2>1. CASE NP!DeleteTemplate
    <3>1. /\ Len(x3) > 1 /\ x3' = NP!RemoveAt(x3, x2.template + 1) /\ x8' \in {x3', x8}
          /\ x2' = [x2 EXCEPT !.template = NP!Clamp(x2.template, 0, Len(x3) - 2)]
      BY <2>1 DEF NP!DeleteTemplate, NP!Save, NP!Current
    <3>2. x2.template + 1 \in 1..Len(x3) /\ x2.template \in Int /\ Len(x3) - 2 \in Nat
      BY <1>1, <3>1 DEF Panes, SomeTemplates
    <3>3. SomeTemplates(x3') /\ Len(x3') = Len(x3) - 1
      BY <1>1, <3>1, <3>2, TemplateRemoved
    <3>4. NP!Clamp(x2.template, 0, Len(x3) - 2) \in 0..Len(x3) - 2
      BY <3>2, ClampBounds
    <3>5. PICK t \in 0..Len(x3) - 2 : x2' = [x2 EXCEPT !.template = t]
      BY <3>1, <3>4
    <3>6. t \in 0..MaxTemplates
      BY <1>1, <3>2 DEF SomeTemplates, PanelIsSound
    <3>7. x2' \in Panes /\ x2'.template = t
      BY <1>1, <3>5, <3>6 DEF Panes
    <3>8. t < Len(x3')
      BY <3>2, <3>3
    <3> QED BY <1>1, <3>1, <3>3, <3>7, <3>8
  <2>2. CASE NP!Reload
    <3>1. x3' = x8 /\ x8' = x8
          /\ x2' = [x2 EXCEPT !.template = IF x2.template >= Len(x8) THEN 0 ELSE x2.template, !.detail = 0]
      BY <2>2 DEF NP!Reload, NP!Loaded
    <3>2. PICK t \in 0..MaxTemplates : t < Len(x8) /\ x2' = [x2 EXCEPT !.template = t, !.detail = 0]
      <4> DEFINE t == IF x2.template >= Len(x8) THEN 0 ELSE x2.template
      <4>1. t \in 0..MaxTemplates /\ t < Len(x8)
        BY <1>1 DEF SomeTemplates, Panes, PanelIsSound
      <4>2. x2' = [x2 EXCEPT !.template = t, !.detail = 0]
        BY <3>1
      <4> HIDE DEF t
      <4> QED BY <4>1, <4>2
    <3>3. 0 \in 0..PanelRows + 1
      BY DEF PanelIsSound
    <3>4. x2' \in Panes /\ x2'.template = t
      BY <1>1, <3>2, <3>3 DEF Panes
    <3> QED BY <1>1, <3>1, <3>2, <3>4
  <2> QED BY <2>1, <2>2
<1> QED BY <1>1, <1>2, <1>3 DEF EditInv, SomeExchanges

\* What happens to the exchanges leaves the templates and an edit alone.
LEMMA TrafficStep ==
  ASSUME PanelIsSound, EditInv,
         \/ \E to \in {"Completed", "Dropped"} : NP!Act(to)
         \/ NP!SendCompose \/ NP!ShowResult \/ NP!SendFailed
         \/ \E list \in NP!Sessions : NP!SetSession(list)
  PROVE  EditInv'
<1>1. /\ SomeExchanges(x1) /\ SomeTemplates(x3) /\ x2 \in Panes /\ x2.template < Len(x3) /\ x10 \in NP!Answers
  BY DEF EditInv
<1>2. UNCHANGED <<x3, x4, x5, x6, x7, x8, x9, x11, x12>>
  BY DEF NP!Act, NP!SendCompose, NP!ShowResult, NP!SendFailed, NP!SetSession, NP!edit
<1>3. x10' \in NP!Answers
  BY <1>1 DEF NP!Act, NP!SendCompose, NP!ShowResult, NP!SendFailed, NP!SetSession, NP!Answers
<1>4. 0 \in 0..MaxExchanges /\ 0 \in 0..MaxExchanges + MaxTemplates /\ 0 \in 0..PanelRows + 1
  BY DEF PanelIsSound
<1>5. SomeExchanges(x1') /\ x2' \in Panes /\ x2'.template = x2.template
  <2>1. ASSUME NEW to \in {"Completed", "Dropped"}, NP!Act(to)
        PROVE  SomeExchanges(x1') /\ x2' = x2
    <3>1. x2.exchange + 1 \in 1..Len(x1) /\ x1' = [x1 EXCEPT ![x2.exchange + 1] = to] /\ x2' = x2
      BY <1>1, <2>1 DEF NP!Act, Panes, SomeExchanges
    <3> QED BY <1>1, <3>1 DEF SomeExchanges, NP!States
  <2>2. CASE NP!SendCompose
    BY <1>1, <2>2 DEF NP!SendCompose, Panes
  <2>3. CASE NP!ShowResult
    <3>1. PICK list \in NP!Sessions \cup {x1} :
            /\ Len(list) < MaxExchanges /\ x1' = Append(list, "Completed")
            /\ x2' = [x2 EXCEPT !.view = "Traffic", !.exchange = Len(list), !.list = 0, !.detail = 0]
      BY <2>3 DEF NP!ShowResult
    <3>4. SomeExchanges(list)
      BY <1>1, SomeSessions
    <3>2. SomeExchanges(x1')
      BY <3>1, <3>4 DEF SomeExchanges, NP!States, PanelIsSound
    <3>3. Len(list) \in 0..MaxExchanges
      BY <3>4 DEF SomeExchanges
    <3> QED BY <1>1, <1>4, <3>1, <3>2, <3>3 DEF Panes
  <2>4. CASE NP!SendFailed
    BY <1>1, <2>4 DEF NP!SendFailed
  <2>5. ASSUME NEW list \in NP!Sessions, NP!SetSession(list)
        PROVE  SomeExchanges(x1') /\ x2' \in Panes /\ x2'.template = x2.template
    <3>1. x1' = list /\ x2' = [x2 EXCEPT !.exchange = 0, !.list = 0, !.detail = 0]
      BY <2>5 DEF NP!SetSession
    <3>2. SomeExchanges(x1')
      BY <3>1, SomeSessions
    <3> QED BY <1>1, <1>4, <3>1, <3>2 DEF Panes
  <2> QED BY <1>1, <2>1, <2>2, <2>3, <2>4, <2>5
<1> QED BY <1>1, <1>2, <1>3, <1>5, PaneStep DEF SomeExchanges

\* A new panel has no edit and the templates of the file.
LEMMA RebuildStep ==
  ASSUME PanelIsSound, EditInv, NP!Rebuild
  PROVE  EditInv' /\ ~x4' /\ (x4 => x3' = x11.saved)
<1>1. SomeTemplates(x8) /\ x9 \in BOOLEAN /\ (x4 => x8 = x11.saved)
  BY DEF EditInv
<1>2. /\ x1' = NP!Demo /\ x2' = NP!NewPane /\ x3' = x8 /\ x8' = x8 /\ x9' = x9
      /\ x4' = FALSE /\ x5' = "text" /\ x6' = <<>> /\ x7' = "" /\ x12' = FALSE
      /\ x10' \in NP!Answers
  BY DEF NP!Rebuild, NP!EndEdit, NP!Loaded, NP!Answers
<1>3. SomeExchanges(x1')
  BY <1>2, SomeSessions
<1>4. NP!NewPane \in Panes /\ NP!NewPane.template = 0
  <2>1. 0 \in 0..MaxExchanges /\ 0 \in 0..MaxTemplates /\ 0 \in 0..MaxExchanges + MaxTemplates
        /\ 0 \in 0..PanelRows + 1
    BY DEF PanelIsSound
  <2> QED BY <2>1 DEF Panes, NP!NewPane
<1>5. x2' \in Panes /\ x2'.template < Len(x3')
  <2>1. Len(x8) \in 1..MaxTemplates /\ 0 < Len(x8)
    BY <1>1 DEF SomeTemplates, PanelIsSound
  <2>2. x2' \in Panes /\ x2'.template = 0 /\ x3' = x8
    BY <1>2, <1>4, Zenon
  <2> QED BY <2>1, <2>2, Zenon
<1>6. EditInv'
  BY <1>1, <1>2, <1>3, <1>5 DEF EditInv, SomeTemplates, SomeExchanges, NP!TimeoutTexts
<1> QED BY <1>1, <1>2, <1>6

\* Every step keeps an edit to its template, and so it ends.
LEMMA EditStep ==
  ASSUME PanelIsSound, EditInv, [NP!Next]_(NP!vars)
  PROVE  EditInv' /\ NP!EndsLocally
<1>1. CASE x4' = x4 \/ ~x4
  <2>1. NP!EndsLocally
    BY <1>1 DEF NP!EndsLocally
  <2>2. CASE UNCHANGED NP!vars
    <3>1. UNCHANGED <<x1, x2, x3, x4, x5, x6, x7, x8, x9, x10, x11, x12>>
      BY <2>2 DEF NP!vars, NP!edit
    <3> QED BY <2>1, <3>1 DEF EditInv, SomeTemplates, SomeExchanges
  <2> QED BY <2>1, <2>2, MoveStep, ClickStep, BeginEditStep, FieldStep, ListStep, TrafficStep,
     RebuildStep DEF NP!Next
<1>2. CASE ~(x4' = x4 \/ ~x4)
  <2>1. NP!CommitEdit \/ NP!CancelEdit \/ NP!Rebuild
    BY <1>2 DEF NP!Next, NP!vars, NP!edit, NP!Arrow, NP!CycleView, NP!Layout, NP!DragScrollbar,
       NP!ClickDetail, NP!ClickTab, NP!Wheel, NP!ClickRow, NP!Act, NP!BeginEdit, NP!AddTemplate, NP!AtTemplates,
       NP!DeleteTemplate, NP!Reload, NP!TypeText, NP!TypeTimeout, NP!NextField, NP!SendCompose,
       NP!ShowResult, NP!SendFailed, NP!SetSession
  <2>2. CASE NP!Rebuild
    BY <1>2, <2>2, RebuildStep DEF NP!EndsLocally
  <2>3. CASE (NP!CommitEdit \/ NP!CancelEdit) /\ ~NP!Rebuild
    BY <2>3, FieldStep DEF NP!EndsLocally
  <2> QED BY <2>1, <2>2, <2>3
<1> QED BY <1>1, <1>2

\* A sequence that is not too long.
LEMMA BoundedSequence ==
  ASSUME NEW S, NEW list \in Seq(S), NEW n \in Nat, Len(list) <= n
  PROVE  list \in NP!BoundedSeq(S, n)
<1>1. list \in [1..Len(list) -> S] /\ Len(list) \in 0..n
  OBVIOUS
<1> QED BY <1>1 DEF NP!BoundedSeq, NP!SeqOf

\* The types of the panel follow.
LEMMA EditTypes == ASSUME PanelIsSound, EditInv PROVE NP!TypeOK
<1>1. x1 \in NP!BoundedSeq(NP!States, MaxExchanges)
  <2>1. x1 \in Seq(NP!States) /\ Len(x1) <= MaxExchanges /\ MaxExchanges \in Nat
    BY DEF EditInv, SomeExchanges, PanelIsSound
  <2> QED BY <2>1, BoundedSequence
<1>2. x3 \in NP!BoundedSeq(NP!Template, MaxTemplates) /\ x8 \in NP!BoundedSeq(NP!Template, MaxTemplates)
  <2>1. /\ x3 \in Seq(NP!Template) /\ Len(x3) <= MaxTemplates /\ MaxTemplates \in Nat
        /\ x8 \in Seq(NP!Template) /\ Len(x8) <= MaxTemplates
    BY DEF EditInv, SomeTemplates, PanelIsSound
  <2> QED BY <2>1, BoundedSequence
<1>3. x6 \in NP!BoundedSeq(NP!Template, 1)
  <2>1. CASE x4
    <3>1. x6 \in [1..1 -> NP!Template]
      BY <2>1 DEF EditInv
    <3> QED BY <3>1 DEF NP!BoundedSeq, NP!SeqOf
  <2>2. CASE ~x4
    <3>1. x6 = <<>>
      BY <2>2 DEF EditInv
    <3>2. x6 \in Seq(NP!Template) /\ Len(x6) <= 1 /\ 1 \in Nat
      BY <3>1
    <3> QED BY <3>2, BoundedSequence
  <2> QED BY <2>1, <2>2
<1> QED BY <1>1, <1>2, <1>3 DEF EditInv, Panes, NP!TypeOK

-----------------------------------------------------------------------------
(* The network capture. *)

(* Exchanges that were captured, and the result of a composed request. *)
AllCaptured(s) == s \in Seq(NC!Exchanges) /\ \A i \in DOMAIN s : s[i].origin = "captured"
OneComposed(s) == \E n \in Sends, status \in NC!Statuses : s = <<NC!Composed(n, status)>>

LEMMA SendsAre == ASSUME CaptureIsSound PROVE \E n \in Nat : Sends = 1..n
<1>1. Sends = {} => Sends = 1..0
  OBVIOUS
<1>2. ASSUME NEW n \in Sends, Sends = 1..n  PROVE n \in Nat
  BY <1>2
<1> QED BY <1>1, <1>2 DEF CaptureIsSound

\* Nothing is left out of captured exchanges, and all of a result.
LEMMA TrafficIs ==
  ASSUME NEW s, AllCaptured(s) \/ OneComposed(s)
  PROVE  NC!Traffic(s) = IF AllCaptured(s) THEN s ELSE <<>>
<1> DEFINE Step(f, n) ==
             IF n = 0 THEN <<>>
             ELSE IF s[n].origin = "compose" THEN f[n - 1] ELSE Append(f[n - 1], s[n])
           Kept == CHOOSE f : f = [n \in 0..Len(s) |-> Step(f, n)]
           Prefix == [n \in 0..Len(s) |-> IF AllCaptured(s) THEN SubSeq(s, 1, n) ELSE <<>>]
<1>1. NC!Traffic(s) = Kept[Len(s)]
  BY DEF NC!Traffic
<1>2. s \in Seq(NC!Exchanges) /\ Len(s) \in Nat
  <2>1. ASSUME NEW n \in Sends, NEW status \in NC!Statuses
        PROVE  NC!Composed(n, status) \in NC!Exchanges
    BY DEF NC!Exchanges, NC!Composed
  <2>2. OneComposed(s) => s \in Seq(NC!Exchanges)
    BY <2>1 DEF OneComposed
  <2> QED BY <2>2 DEF AllCaptured
<1>3. ASSUME NEW n \in 0..Len(s)  PROVE Prefix[n] = Step(Prefix, n)
  <2>1. CASE AllCaptured(s)
    <3>1. CASE n = 0
      <4>1. SubSeq(s, 1, 0) = <<>>
        BY <1>2, SubSeqEmpty
      <4> QED BY <1>2, <2>1, <3>1, <4>1
    <3>2. CASE n # 0
      <4>1. n - 1 \in 0..Len(s) /\ n \in 1..Len(s) /\ s[n].origin = "captured"
        BY <1>2, <2>1, <3>2 DEF AllCaptured
      <4>2. SubSeq(s, 1, n) = Append(SubSeq(s, 1, n - 1), s[n])
        <5>0. 1 \in 1..Len(s) /\ n \in 1..Len(s)
          BY <1>2, <4>1
        <5>1. SubSeq(s, 1, n) = SubSeq(s, 1, n - 1) \o <<s[n]>>
          BY <1>2, <5>0, SubSeqRecursiveSecond
        <5>2. SubSeq(s, 1, n - 1) \in Seq(NC!Exchanges) /\ s[n] \in NC!Exchanges
          BY <1>2, <4>1, SubSeqProperties
        <5> QED BY <5>1, <5>2
      <4> QED BY <2>1, <3>2, <4>1, <4>2
    <3> QED BY <3>1, <3>2
  <2>2. CASE ~AllCaptured(s)
    <3>1. Len(s) = 1 /\ s[1].origin = "compose"
      BY <2>2 DEF OneComposed, NC!Composed
    <3>2. n = 0 \/ (n = 1 /\ n - 1 = 0)
      BY <3>1
    <3> QED BY <2>2, <3>1, <3>2
  <2> QED BY <2>1, <2>2
<1>4. Prefix = [n \in 0..Len(s) |-> Step(Prefix, n)]
  BY <1>3
<1>5. Kept = [n \in 0..Len(s) |-> Step(Kept, n)]
  BY <1>4
<1> HIDE DEF Kept, Prefix, Step
<1>6. \A n \in 0..Len(s) : Kept[n] = Prefix[n]
  <2>1. SUFFICES ASSUME {n \in 0..Len(s) : Kept[n] # Prefix[n]} # {}  PROVE FALSE
    OBVIOUS
  <2> DEFINE Wrong == {n \in 0..Len(s) : Kept[n] # Prefix[n]}
             m == First(Wrong)
  <2>2. m \in Wrong /\ \A n \in Wrong : m <= n
    <3>1. Wrong \subseteq Nat /\ Wrong # {}
      BY <1>2, <2>1
    <3> HIDE DEF Wrong
    <3> QED BY <3>1, FirstOf
  <2> HIDE DEF m
  <2>3. m \in 0..Len(s) /\ Kept[m] # Prefix[m]
    BY <2>2
  <2>4. Kept[m] = Step(Kept, m) /\ Prefix[m] = Step(Prefix, m)
    BY <1>3, <1>5, <2>3
  <2>5. m # 0 /\ m - 1 \in 0..Len(s) /\ ~(m <= m - 1)
    BY <1>2, <2>3, <2>4 DEF Step
  <2>6. Kept[m - 1] = Prefix[m - 1]
    BY <2>2, <2>5
  <2> QED BY <2>3, <2>4, <2>5, <2>6 DEF Step
<1>7. CASE AllCaptured(s)
  <2>1. Prefix[Len(s)] = SubSeq(s, 1, Len(s))
    BY <1>2, <1>7 DEF Prefix
  <2> QED BY <1>1, <1>2, <1>6, <1>7, <2>1, SubSeqFull
<1>8. CASE ~AllCaptured(s)
  BY <1>1, <1>2, <1>6, <1>8 DEF Prefix
<1> QED BY <1>7, <1>8

(* An event holds captured traffic, the result of a composed request, or     *)
(* nothing, when it failed.                                                  *)
CaptureEvent ==
    {event \in [ok : BOOLEAN, named : BOOLEAN, exchanges : Seq(NC!Exchanges)] :
        /\ AllCaptured(event.exchanges) \/ OneComposed(event.exchanges)
        /\ ~event.ok => event.exchanges = <<>>}

CaptureTypes ==
    /\ x1 \in [Requests -> NC!Phases]
    /\ x2 \in Requests \cup {NC!None} /\ x3 \in [Requests -> Requests \cup {NC!None}]
    /\ AllCaptured(x4) /\ x10 \in Seq(NC!Exchanges) /\ x16 \in Seq(NC!Exchanges)
    /\ x5 \in Sends \cup {NC!None} /\ x6 \in Sends \cup {NC!None} /\ x9 \in Sends \cup {NC!None}
    /\ x7 \in Seq(CaptureEvent)
    /\ x8 \in BOOLEAN /\ x11 \in BOOLEAN /\ x12 \in BOOLEAN /\ x13 \in BOOLEAN
    /\ x14 \in 0..MaxSyncs /\ x15 \subseteq Requests /\ x17 \in BOOLEAN

(* A request that is alone in flight has the slot to itself, and its         *)
(* response finds it there.                                                  *)
SlotIsRight ==
    \A r \in Requests \ x15 :
        /\ x1[r] = "asked" => x2 = r /\ NC!InFlight = {r}
        /\ x1[r] = "reading" => x3[r] = r

(* No exchange has a response that is not there yet; that of a request that  *)
(* met no other is in one place.                                             *)
RecordedOnce ==
    \A r \in Requests :
        LET places == NC!Places(NC!Captured(r, r)) IN
        /\ x1[r] # "done" => places = {}
        /\ x1[r] = "done" /\ r \notin x15 => \E at \in places : places = {at}

(* If nothing crossed the last send, either no result is awaited, or it is   *)
(* in the mailbox, with the worker or in the only event.                     *)
OnlyResult(event) == AllCaptured(event.exchanges) => ~event.ok
SendIsAlone ==
    IF x8
    THEN \/ x5 # NC!None /\ x6 = NC!None /\ x7 = <<>>
         \/ x5 = NC!None /\ x6 # NC!None /\ x7 = <<>>
         \/ x5 = NC!None /\ x6 = NC!None /\ Len(x7) = 1 /\ OnlyResult(x7[1])
    ELSE x5 = NC!None /\ x6 = NC!None /\ \A i \in DOMAIN x7 : x7[i].ok /\ AllCaptured(x7[i].exchanges)

CaptureInv == CaptureTypes /\ SlotIsRight /\ RecordedOnce /\ (~x17 => SendIsAlone)

\* Events the worker makes.
LEMMA EventsAre ==
  /\ AllCaptured(<<>>)
  /\ \A ok, named \in BOOLEAN : NC!Event(ok, named, <<>>) \in CaptureEvent
  /\ \A s : AllCaptured(s) => NC!Event(TRUE, TRUE, s) \in CaptureEvent
<1>1. AllCaptured(<<>>)
  BY DEF AllCaptured
<1>2. \A s : AllCaptured(s) => s \in Seq(NC!Exchanges)
  BY DEF AllCaptured
<1> QED BY <1>1, <1>2 DEF NC!Event, CaptureEvent

LEMMA CaptureInit ==
  ASSUME CaptureIsSound, NC!Init
  PROVE  CaptureInv
<1> USE DEF NC!Init
<1>3. CaptureTypes
  <2>1. 0 \in 0..MaxSyncs
    BY SendsAre DEF CaptureIsSound
  <2>2. AllCaptured(x4) /\ x7 \in Seq(CaptureEvent)
    BY EventsAre
  <2>3. x10 \in Seq(NC!Exchanges) /\ x16 \in Seq(NC!Exchanges)
    OBVIOUS
  <2>4. x8 \in BOOLEAN /\ x11 \in BOOLEAN /\ x12 \in BOOLEAN /\ x13 \in BOOLEAN /\ x17 \in BOOLEAN
    OBVIOUS
  <2>5. x1 \in [Requests -> NC!Phases] /\ x3 \in [Requests -> Requests \cup {NC!None}]
    BY DEF NC!Phases
  <2>6. x2 \in Requests \cup {NC!None} /\ x5 \in Sends \cup {NC!None} /\ x6 \in Sends \cup {NC!None}
    OBVIOUS
  <2>7. x9 \in Sends \cup {NC!None} /\ x14 \in 0..MaxSyncs /\ x15 \subseteq Requests
    BY <2>1 DEF NC!None
  <2> HIDE DEF NC!Init
  <2> QED BY <2>2, <2>3, <2>4, <2>5, <2>6, <2>7 DEF CaptureTypes
<1>4. SlotIsRight
  BY DEF SlotIsRight
<1>5. RecordedOnce
  <2>1. NC!Lists = <<<<>>, <<>>, <<>>>>
    BY DEF NC!Lists
  <2>2. ASSUME NEW e  PROVE NC!Places(e) = {}
    BY <2>1 DEF NC!Places
  <2> QED BY <2>2 DEF RecordedOnce
<1> QED BY <1>3, <1>4, <1>5 DEF CaptureInv, SendIsAlone

\* The types after every step.
LEMMA CaptureTypesStep ==
  ASSUME CaptureIsSound, CaptureTypes, NC!Next
  PROVE  CaptureTypes'
<1> USE DEF CaptureTypes
<1>1. ASSUME NEW r \in Requests, NC!HandleRequest(r)  PROVE CaptureTypes'
  BY <1>1 DEF NC!HandleRequest, NC!uiVars, NC!Phases, NC!InFlight
<1>2. ASSUME NEW r \in Requests, NC!HandleResponse(r)  PROVE CaptureTypes'
  BY <1>2 DEF NC!HandleResponse, NC!uiVars, NC!Phases
<1>3. ASSUME NEW r \in Requests, NC!PushExchange(r)  PROVE CaptureTypes'
  <2>1. NC!Captured(x3[r], r) \in NC!Exchanges \/ x3[r] = NC!None
    BY DEF NC!Captured, NC!Exchanges
  <2>2. AllCaptured(x4)'
    BY <1>3, <2>1 DEF NC!PushExchange, NC!Captured, AllCaptured
  <2> QED BY <1>3, <2>2 DEF NC!PushExchange, NC!uiVars, NC!Phases
<1>4. ASSUME NEW r \in Requests, NC!NoResponse(r)  PROVE CaptureTypes'
  BY <1>4 DEF NC!NoResponse, NC!uiVars, NC!Phases
<1>5. ASSUME NC!Drain  PROVE CaptureTypes'
  <2>1. NC!Event(TRUE, TRUE, x4) \in CaptureEvent
    BY EventsAre
  <2>2. x7' = Append(x7, NC!Event(TRUE, TRUE, x4)) /\ x4' = <<>>
    BY <1>5 DEF NC!Drain
  <2>3. x7' \in Seq(CaptureEvent) /\ AllCaptured(x4')
    <3>1. AllCaptured(x4')
      BY <2>2, EventsAre, Zenon
    <3> QED BY <2>1, <2>2, <3>1, AppendProperties
  <2>4. x17' \in BOOLEAN
    BY <1>5 DEF NC!Drain
  <2> QED BY <1>5, <2>3, <2>4 DEF NC!Drain, NC!uiVars, NC!proxyVars
<1>6. ASSUME NC!SyncInitialState  PROVE CaptureTypes'
  <2>1. NC!Event(TRUE, TRUE, <<>>) \in CaptureEvent
    BY EventsAre
  <2>2. x7' = Append(x7, NC!Event(TRUE, TRUE, <<>>))
    BY <1>6 DEF NC!SyncInitialState
  <2>3. x7' \in Seq(CaptureEvent)
    BY <2>1, <2>2, AppendProperties
  <2>4. x17' \in BOOLEAN
    BY <1>6 DEF NC!SyncInitialState
  <2>5. x14' \in 0..MaxSyncs
    BY <1>6, SendsAre DEF NC!SyncInitialState, CaptureIsSound
  <2> QED BY <1>6, <2>3, <2>4, <2>5 DEF NC!SyncInitialState, NC!uiVars, NC!proxyVars
<1>7. ASSUME NC!BeginSend  PROVE CaptureTypes'
  BY <1>7 DEF NC!BeginSend, NC!uiVars, NC!proxyVars
<1>8. ASSUME NC!EndSend  PROVE CaptureTypes'
  <2>1. x6 \in Sends
    BY <1>8 DEF NC!EndSend
  <2>2. NC!SendResults \subseteq CaptureEvent
    <3>1. NC!Event(FALSE, FALSE, <<>>) \in CaptureEvent
      BY EventsAre
    <3>2. ASSUME NEW s \in NC!Statuses
          PROVE  NC!Event(TRUE, FALSE, <<NC!Composed(x6, s)>>) \in CaptureEvent
      <4>1. NC!Composed(x6, s) \in NC!Exchanges
        BY <2>1 DEF NC!Composed, NC!Exchanges
      <4>2. OneComposed(<<NC!Composed(x6, s)>>)
        BY <2>1 DEF OneComposed
      <4> QED BY <4>1, <4>2 DEF NC!Event, CaptureEvent
    <3> QED BY <3>1, <3>2 DEF NC!SendResults
  <2> QED BY <1>8, <2>2 DEF NC!EndSend, NC!uiVars, NC!proxyVars
<1>9. ASSUME NC!PostSend  PROVE CaptureTypes'
  BY <1>9 DEF NC!PostSend, NC!proxyVars
<1>10. ASSUME NC!HandleEvent  PROVE CaptureTypes'
  <2> DEFINE event == Head(x7)
  <2>1. x7 \in Seq(CaptureEvent) /\ x7 # <<>> /\ event \in CaptureEvent /\ Tail(x7) \in Seq(CaptureEvent)
    BY <1>10 DEF NC!HandleEvent
  <2>2. event.exchanges \in Seq(NC!Exchanges) /\ event.named \in BOOLEAN
    BY <2>1 DEF CaptureEvent
  <2>3. NC!Traffic(event.exchanges) \in Seq(NC!Exchanges)
    <3>1. AllCaptured(event.exchanges) \/ OneComposed(event.exchanges)
      BY <2>1 DEF CaptureEvent
    <3>2. NC!Traffic(event.exchanges) = event.exchanges \/ NC!Traffic(event.exchanges) = <<>>
      BY <3>1, TrafficIs
    <3>3. <<>> \in Seq(NC!Exchanges)
      OBVIOUS
    <3> QED BY <2>2, <3>2, <3>3, Zenon
  <2>4. CASE ~event.ok
    BY <1>10, <2>1, <2>4 DEF NC!HandleEvent, NC!proxyVars
  <2>5. CASE event.ok /\ NC!IsResult(event)
    <3>1. Head(event.exchanges) \in NC!Exchanges /\ Tail(event.exchanges) \in Seq(NC!Exchanges)
      BY <2>2, <2>5 DEF NC!IsResult
    <3>2. /\ x10' = Append(x10, Head(event.exchanges)) /\ x16' = x16 \o Tail(event.exchanges)
          /\ x8' = FALSE /\ x12' = TRUE /\ x13' = FALSE /\ x11' = x11
      BY <1>10, <2>5 DEF NC!HandleEvent, NC!ApplyAsResult
    <3>3. x10' \in Seq(NC!Exchanges) /\ x16' \in Seq(NC!Exchanges)
      BY <3>1, <3>2
    <3>4. x17' \in BOOLEAN
      BY <1>10 DEF NC!HandleEvent
    <3>5. x7' = Tail(x7) /\ UNCHANGED <<x1, x2, x3, x15, x4, x5, x6, x9, x14>>
      BY <1>10 DEF NC!HandleEvent, NC!proxyVars
    <3> QED BY <2>1, <3>2, <3>3, <3>4, <3>5
  <2>6. CASE event.ok /\ ~NC!IsResult(event)
    <3>1. /\ x10' = x10 \o NC!Traffic(event.exchanges) /\ x16' = x16
          /\ x8' = FALSE /\ x11' = event.named
          /\ (x12' = TRUE /\ x13' = FALSE) \/ UNCHANGED <<x12, x13>>
      BY <1>10, <2>6 DEF NC!HandleEvent, NC!ApplyAsTraffic, NC!AddedToShown
    <3>2. x10' \in Seq(NC!Exchanges)
      BY <2>3, <3>1
    <3>3. x17' \in BOOLEAN
      BY <1>10 DEF NC!HandleEvent
    <3>4. x7' = Tail(x7) /\ UNCHANGED <<x1, x2, x3, x15, x4, x5, x6, x9, x14>>
      BY <1>10 DEF NC!HandleEvent, NC!proxyVars
    <3> QED BY <2>1, <2>2, <3>1, <3>2, <3>3, <3>4
  <2> QED BY <2>4, <2>5, <2>6
<1>11. ASSUME NC!LaunchComplete  PROVE CaptureTypes'
  BY <1>11 DEF NC!LaunchComplete, NC!proxyVars
<1> QED BY <1>1, <1>2, <1>3, <1>4, <1>5, <1>6, <1>7, <1>8, <1>9, <1>10, <1>11 DEF NC!Next

LEMMA SlotStep ==
  ASSUME CaptureIsSound, CaptureTypes, SlotIsRight, NC!Next
  PROVE  SlotIsRight'
<1> USE DEF CaptureTypes
<1>1. ASSUME NEW q \in Requests, NC!HandleRequest(q)  PROVE SlotIsRight'
  <2>1. CASE NC!InFlight = {}
    <3>1. x1' = [x1 EXCEPT ![q] = "asked"] /\ x2' = q /\ x3' = x3 /\ x15' = x15
      BY <1>1, <2>1 DEF NC!HandleRequest
    <3>2. NC!InFlight' = {q}
      BY <2>1, <3>1 DEF NC!InFlight
    <3> QED BY <2>1, <3>1, <3>2 DEF SlotIsRight, NC!InFlight
  <2>2. CASE NC!InFlight # {}
    <3>1. /\ x1' = [x1 EXCEPT ![q] = "asked"] /\ x3' = x3
          /\ x15' = x15 \cup NC!InFlight \cup {q}
      BY <1>1, <2>2 DEF NC!HandleRequest
    <3>2. \A r \in Requests \ x15' : r \notin x15 /\ x1[r] # "asked" /\ x1'[r] = x1[r]
      BY <3>1 DEF NC!InFlight
    <3> QED BY <3>1, <3>2 DEF SlotIsRight
  <2> QED BY <2>1, <2>2
<1>2. ASSUME NEW q \in Requests, NC!HandleResponse(q)  PROVE SlotIsRight'
  <2>1. /\ x1[q] = "asked" /\ x1' = [x1 EXCEPT ![q] = "reading"]
        /\ x3' = [x3 EXCEPT ![q] = x2] /\ x15' = x15
    BY <1>2 DEF NC!HandleResponse
  <2>2. q \in NC!InFlight
    BY <2>1 DEF NC!InFlight
  <2>3. \A r \in Requests \ x15 : x1[r] = "asked" => r = q
    BY <2>2 DEF SlotIsRight
  <2> QED BY <2>1, <2>3 DEF SlotIsRight
<1>3. ASSUME NEW q \in Requests, NC!PushExchange(q)  PROVE SlotIsRight'
  <2>1. /\ x1[q] = "reading" /\ x1' = [x1 EXCEPT ![q] = "done"]
        /\ x2' = x2 /\ x3' = x3 /\ x15' = x15
    BY <1>3 DEF NC!PushExchange
  <2>2. NC!InFlight' = NC!InFlight
    BY <2>1 DEF NC!InFlight
  <2> QED BY <2>1, <2>2 DEF SlotIsRight
<1>4. ASSUME NEW q \in Requests, NC!NoResponse(q)  PROVE SlotIsRight'
  <2>1. /\ x1[q] = "asked" /\ x1' = [x1 EXCEPT ![q] = "idle"]
        /\ x3' = x3 /\ x15' = x15 \ {q}
    BY <1>4 DEF NC!NoResponse
  <2>2. q \in NC!InFlight
    BY <2>1 DEF NC!InFlight
  <2>3. \A r \in Requests \ x15 : x1[r] = "asked" => r = q
    BY <2>2 DEF SlotIsRight
  <2> QED BY <2>1, <2>3 DEF SlotIsRight
<1>5. ASSUME x1' = x1, x2' = x2, x3' = x3, x15' = x15  PROVE SlotIsRight'
  BY <1>5 DEF SlotIsRight, NC!InFlight
<1>6. CASE NC!Drain \/ NC!SyncInitialState \/ NC!BeginSend \/ NC!EndSend \/ NC!PostSend
  BY <1>5, <1>6 DEF NC!Drain, NC!SyncInitialState, NC!BeginSend, NC!EndSend, NC!PostSend, NC!proxyVars
<1>7. CASE NC!HandleEvent \/ NC!LaunchComplete
  BY <1>5, <1>7 DEF NC!HandleEvent, NC!LaunchComplete, NC!proxyVars
<1> QED BY <1>1, <1>2, <1>3, <1>4, <1>6, <1>7 DEF NC!Next

(* Place <<l, i>> of the lists p, s, w and those of the events holds e.      *)
HoldsIn(p, s, w, events, l, i, e) ==
    \/ l = 1 /\ i \in DOMAIN p /\ p[i] = e
    \/ l = 2 /\ i \in DOMAIN s /\ s[i] = e
    \/ l = 3 /\ i \in DOMAIN w /\ w[i] = e
    \/ \E k \in DOMAIN events :
          l = 3 + k /\ i \in DOMAIN events[k].exchanges /\ events[k].exchanges[i] = e

Holds(l, i, e) == HoldsIn(x4, x10, x16, x7, l, i, e)

\* The places of an exchange, by the list that holds it.
LEMMA PlacesIn ==
  ASSUME NEW p, NEW s, NEW w, NEW S, NEW events \in Seq(S), NEW e
  PROVE  LET lists == <<p, s, w>> \o [i \in DOMAIN events |-> events[i].exchanges] IN
         \A at : at \in UNION {{<<list, i>> : i \in {j \in DOMAIN lists[list] : lists[list][j] = e}} :
                               list \in DOMAIN lists}
                 <=> \E l, i : at = <<l, i>> /\ HoldsIn(p, s, w, events, l, i, e)
<1> DEFINE more == [i \in DOMAIN events |-> events[i].exchanges]
           lists == <<p, s, w>> \o more
<1>1. Len(events) \in Nat /\ DOMAIN events = 1..Len(events)
  OBVIOUS
<1>2. <<p, s, w>> \in Seq({p, s, w}) /\ more \in Seq({events[i].exchanges : i \in DOMAIN events})
      /\ Len(more) = Len(events) /\ \A k \in DOMAIN events : more[k] = events[k].exchanges
  <2>1. more \in [1..Len(events) -> {events[i].exchanges : i \in DOMAIN events}]
    BY <1>1
  <2> HIDE DEF more
  <2>2. more \in Seq({events[i].exchanges : i \in DOMAIN events}) /\ Len(more) = Len(events)
    <3> DEFINE T == {events[i].exchanges : i \in DOMAIN events}
    <3>1. more \in [1..Len(events) -> T]
      BY <2>1
    <3> HIDE DEF T
    <3>2. more \in Seq(T) /\ Len(more) = Len(events)
      BY <1>1, <3>1, SeqDef
    <3> QED BY <3>2 DEF T
  <2> QED BY <2>2 DEF more
<1> HIDE DEF more
<1>3. DOMAIN lists = 1..(3 + Len(events)) /\ lists[1] = p /\ lists[2] = s /\ lists[3] = w
  BY <1>1, <1>2
<1>4. \A k \in DOMAIN events : lists[3 + k] = events[k].exchanges
  BY <1>1, <1>2
<1> HIDE DEF lists
<1>5. \A l : l \in DOMAIN lists <=> l = 1 \/ l = 2 \/ l = 3 \/ \E k \in DOMAIN events : l = 3 + k
  <2>1. ASSUME NEW l \in DOMAIN lists, l # 1, l # 2, l # 3
        PROVE  \E k \in DOMAIN events : l = 3 + k
    <3>1. l - 3 \in DOMAIN events /\ l = 3 + (l - 3)
      BY <1>1, <1>3, <2>1
    <3> QED BY <3>1
  <2> QED BY <1>1, <1>3, <2>1
<1>6. \A l, i : HoldsIn(p, s, w, events, l, i, e)
                <=> l \in DOMAIN lists /\ i \in DOMAIN lists[l] /\ lists[l][i] = e
  BY <1>3, <1>4, <1>5 DEF HoldsIn
<1>7. \A at : at \in UNION {{<<list, i>> : i \in {j \in DOMAIN lists[list] : lists[list][j] = e}} :
                            list \in DOMAIN lists}
              <=> \E l, i : at = <<l, i>> /\ l \in DOMAIN lists /\ i \in DOMAIN lists[l] /\ lists[l][i] = e
  OBVIOUS
<1>8. ASSUME NEW at
      PROVE  at \in UNION {{<<list, i>> : i \in {j \in DOMAIN lists[list] : lists[list][j] = e}} :
                           list \in DOMAIN lists}
             <=> \E l, i : at = <<l, i>> /\ HoldsIn(p, s, w, events, l, i, e)
  <2>1. (\E l, i : at = <<l, i>> /\ l \in DOMAIN lists /\ i \in DOMAIN lists[l] /\ lists[l][i] = e)
        <=> \E l, i : at = <<l, i>> /\ HoldsIn(p, s, w, events, l, i, e)
    BY <1>6
  <2> QED BY <1>7, <2>1
<1> QED BY <1>8, Zenon DEF lists, more

LEMMA PlacesAre ==
  ASSUME NEW S, x7 \in Seq(S), x7' \in Seq(S), NEW e
  PROVE  /\ \A at : at \in NC!Places(e) <=> \E l, i : at = <<l, i>> /\ Holds(l, i, e)
         /\ \A at : at \in NC!Places(e)' <=> \E l, i : at = <<l, i>> /\ Holds(l, i, e)'
<1>1. \A at : at \in NC!Places(e) <=> \E l, i : at = <<l, i>> /\ HoldsIn(x4, x10, x16, x7, l, i, e)
  BY PlacesIn DEF NC!Places, NC!Lists
<1>2. \A at : at \in NC!Places(e)'
              <=> \E l, i : at = <<l, i>> /\ HoldsIn(x4', x10', x16', x7', l, i, e)
  BY PlacesIn DEF NC!Places, NC!Lists
<1> QED BY <1>1, <1>2 DEF Holds

(* Nothing holds e, or one place does. *)
Nowhere(e) == \A l, i : ~Holds(l, i, e)
HeldInOne(e) == \E l, i : Holds(l, i, e) /\ \A m, j : Holds(m, j, e) => m = l /\ j = i

(* RecordedOnce, said of the lists. *)
HeldOnce ==
    \A r \in Requests :
        /\ x1[r] # "done" => Nowhere(NC!Captured(r, r))
        /\ x1[r] = "done" /\ r \notin x15 => HeldInOne(NC!Captured(r, r))

LEMMA OnceIsHeldOnce ==
  ASSUME NEW S, x7 \in Seq(S), x7' \in Seq(S)
  PROVE  /\ RecordedOnce => HeldOnce
         /\ HeldOnce' => RecordedOnce'
<1>1. ASSUME NEW e, NC!Places(e) = {}  PROVE Nowhere(e)
  BY <1>1, PlacesAre DEF Nowhere
<1>2. ASSUME NEW e, NEW at \in NC!Places(e), NC!Places(e) = {at}  PROVE HeldInOne(e)
  <2>1. PICK l, i : at = <<l, i>> /\ Holds(l, i, e)
    BY PlacesAre
  <2>2. ASSUME NEW m, NEW j, Holds(m, j, e)  PROVE m = l /\ j = i
    <3>1. <<m, j>> \in NC!Places(e)
      BY <2>2, PlacesAre
    <3> QED BY <1>2, <2>1, <3>1
  <2> QED BY <2>1, <2>2 DEF HeldInOne
<1>3. ASSUME NEW e, Nowhere(e)'  PROVE NC!Places(e)' = {}
  BY <1>3, PlacesAre DEF Nowhere
<1>4. ASSUME NEW e, HeldInOne(e)'
      PROVE  \E at \in NC!Places(e)' : NC!Places(e)' = {at}
  <2>1. PICK l, i : Holds(l, i, e)' /\ \A m, j : Holds(m, j, e)' => m = l /\ j = i
    BY <1>4 DEF HeldInOne
  <2>2. <<l, i>> \in NC!Places(e)'
    BY <2>1, PlacesAre
  <2>3. ASSUME NEW at \in NC!Places(e)'  PROVE at = <<l, i>>
    BY <2>1, PlacesAre
  <2> QED BY <2>2, <2>3
<1> QED BY <1>1, <1>2, <1>3, <1>4 DEF RecordedOnce, HeldOnce

\* What stays where it is, and what only moves.
LEMMA StillHeld ==
  ASSUME NEW e, \A l, i : Holds(l, i, e)' <=> Holds(l, i, e)
  PROVE  (Nowhere(e) => Nowhere(e)') /\ (HeldInOne(e) => HeldInOne(e)')
BY DEF Nowhere, HeldInOne

(* What is held moves along toList and toPlace, and nothing else comes.      *)
Leads(toList, toPlace, e) ==
    /\ \A l, i : Holds(l, i, e) => Holds(toList[<<l, i>>], toPlace[<<l, i>>], e)'
    /\ \A m, j : Holds(m, j, e)' => \E l, i : Holds(l, i, e) /\ m = toList[<<l, i>>] /\ j = toPlace[<<l, i>>]

LEMMA MovedOver ==
  ASSUME NEW e, NEW toList, NEW toPlace, Leads(toList, toPlace, e)
  PROVE  (Nowhere(e) => Nowhere(e)') /\ (HeldInOne(e) => HeldInOne(e)')
<1>1. /\ \A l, i : Holds(l, i, e) => Holds(toList[<<l, i>>], toPlace[<<l, i>>], e)'
      /\ \A m, j : Holds(m, j, e)' => \E l, i : Holds(l, i, e) /\ m = toList[<<l, i>>] /\ j = toPlace[<<l, i>>]
  BY DEF Leads
<1>2. ASSUME Nowhere(e)  PROVE Nowhere(e)'
  BY <1>1, <1>2 DEF Nowhere
<1>3. ASSUME HeldInOne(e)  PROVE HeldInOne(e)'
  <2>1. PICK l, i : Holds(l, i, e) /\ \A m, j : Holds(m, j, e) => m = l /\ j = i
    BY <1>3 DEF HeldInOne
  <2>2. ASSUME NEW m, NEW j, Holds(m, j, e)'  PROVE m = toList[<<l, i>>] /\ j = toPlace[<<l, i>>]
    <3>1. PICK k, h : Holds(k, h, e) /\ m = toList[<<k, h>>] /\ j = toPlace[<<k, h>>]
      BY <1>1, <2>2
    <3>2. k = l /\ h = i
      BY <2>1, <3>1
    <3> QED BY <3>1, <3>2
  <2>3. Holds(toList[<<l, i>>], toPlace[<<l, i>>], e)'
    BY <1>1, <2>1
  <2> QED BY <2>2, <2>3 DEF HeldInOne
<1> QED BY <1>2, <1>3

\* The places of an item in two sequences one after the other.
LEMMA InConcat ==
  ASSUME NEW S, NEW u \in Seq(S), NEW v \in Seq(S), NEW i, NEW e
  PROVE  i \in DOMAIN (u \o v) /\ (u \o v)[i] = e <=>
            \/ i \in DOMAIN u /\ u[i] = e
            \/ \E k \in DOMAIN v : i = Len(u) + k /\ v[k] = e
<1>1. /\ Len(u) \in Nat /\ Len(v) \in Nat /\ DOMAIN u = 1..Len(u) /\ DOMAIN v = 1..Len(v)
      /\ DOMAIN (u \o v) = 1..(Len(u) + Len(v))
      /\ \A k \in DOMAIN u : (u \o v)[k] = u[k]
      /\ \A k \in DOMAIN v : (u \o v)[Len(u) + k] = v[k]
  OBVIOUS
<1>2. i \in DOMAIN (u \o v) => i \in DOMAIN u \/ (i - Len(u) \in DOMAIN v /\ i = Len(u) + (i - Len(u)))
  BY <1>1
<1>3. \A k \in DOMAIN u : k \in DOMAIN (u \o v)
  BY <1>1
<1>4. \A k \in DOMAIN v : Len(u) + k \in DOMAIN (u \o v)
  BY <1>1
<1> QED BY <1>1, <1>2, <1>3, <1>4

\* A captured request is held once after every step.
LEMMA OnceStep ==
  ASSUME CaptureIsSound, CaptureTypes, SlotIsRight, RecordedOnce, NC!Next
  PROVE  RecordedOnce'
<1>1. CaptureTypes'
  BY CaptureTypesStep
<1>2. x7 \in Seq(CaptureEvent) /\ x7' \in Seq(CaptureEvent)
  BY <1>1 DEF CaptureTypes
<1>3. HeldOnce
  BY <1>2, OnceIsHeldOnce
<1>4. SUFFICES HeldOnce'
  BY <1>2, OnceIsHeldOnce
<1>5. x4 \in Seq(NC!Exchanges) /\ x10 \in Seq(NC!Exchanges) /\ x16 \in Seq(NC!Exchanges)
  BY DEF CaptureTypes, AllCaptured
<1> DEFINE mine(r) == NC!Captured(r, r)
<1> HIDE DEF mine
<1>6. ASSUME x1' = x1, x15' = x15,
             \A r \in Requests :
                /\ Nowhere(mine(r)) => Nowhere(mine(r))'
                /\ HeldInOne(mine(r)) => HeldInOne(mine(r))'
      PROVE  HeldOnce'
  BY <1>3, <1>6 DEF HeldOnce, mine
<1>7. ASSUME x4' = x4, x7' = x7, x10' = x10, x16' = x16
      PROVE  \A r \in Requests : /\ Nowhere(mine(r)) => Nowhere(mine(r))'
                                 /\ HeldInOne(mine(r)) => HeldInOne(mine(r))'
  <2>1. \A e, l, i : Holds(l, i, e)' <=> Holds(l, i, e)
    BY <1>7 DEF Holds
  <2> QED BY <2>1, StillHeld
<1>8. ASSUME NEW q \in Requests, NC!HandleRequest(q) \/ NC!HandleResponse(q) \/ NC!NoResponse(q)
      PROVE  HeldOnce'
  <2>1. x4' = x4 /\ x7' = x7 /\ x10' = x10 /\ x16' = x16
    BY <1>8 DEF NC!HandleRequest, NC!HandleResponse, NC!NoResponse, NC!uiVars
  <2>2. \A r \in Requests : (x1[r] = "done") = (x1'[r] = "done")
    BY <1>8 DEF NC!HandleRequest, NC!HandleResponse, NC!NoResponse, CaptureTypes
  <2>3. \A r \in Requests : r \notin x15' => r \notin x15 \/ x1[r] # "done"
    BY <1>8 DEF NC!HandleRequest, NC!HandleResponse, NC!NoResponse
  <2> QED BY <1>3, <1>7, <2>1, <2>2, <2>3 DEF HeldOnce, mine
<1>9. ASSUME NEW q \in Requests, NC!PushExchange(q)  PROVE HeldOnce'
  <2>1. /\ x1[q] = "reading" /\ x1' = [x1 EXCEPT ![q] = "done"]
        /\ x3' = x3 /\ x15' = x15 /\ x7' = x7 /\ x10' = x10 /\ x16' = x16
        /\ x4' = IF x3[q] = NC!None THEN x4 ELSE Append(x4, NC!Captured(x3[q], q))
    BY <1>9 DEF NC!PushExchange, NC!uiVars
  <2>2. ASSUME NEW r \in Requests, r # q
        PROVE  /\ Nowhere(mine(r)) => Nowhere(mine(r))'
               /\ HeldInOne(mine(r)) => HeldInOne(mine(r))'
    <3>1. mine(r) # NC!Captured(x3[q], q)
      BY <2>2 DEF mine, NC!Captured
    <3>2. \A i : i \in DOMAIN x4' /\ x4'[i] = mine(r) <=> i \in DOMAIN x4 /\ x4[i] = mine(r)
      BY <1>5, <2>1, <3>1
    <3>3. \A l, i : Holds(l, i, mine(r))' <=> Holds(l, i, mine(r))
      BY <2>1, <3>2 DEF Holds, HoldsIn
    <3> QED BY <3>3, StillHeld
  <2>3. ASSUME q \notin x15  PROVE HeldInOne(mine(q))'
    <3>1. x3[q] = q /\ q # NC!None
      BY <2>1, <2>3 DEF SlotIsRight, CaptureIsSound
    <3>2. x4' = Append(x4, mine(q))
      BY <2>1, <3>1 DEF mine
    <3>3. Nowhere(mine(q))
      BY <1>3, <2>1 DEF HeldOnce, mine
    <3>4. \A i : i \in DOMAIN x4' /\ x4'[i] = mine(q) <=> i = Len(x4) + 1
      <4>1. \A i : ~(i \in DOMAIN x4 /\ x4[i] = mine(q))
        BY <3>3 DEF Nowhere, Holds, HoldsIn
      <4> QED BY <1>5, <3>2, <4>1
    <3>5. \A l, i : Holds(l, i, mine(q))' <=> l = 1 /\ i = Len(x4) + 1
      <4>1. \A l, i : Holds(l, i, mine(q))'
                      <=> Holds(l, i, mine(q)) \/ (l = 1 /\ i \in DOMAIN x4' /\ x4'[i] = mine(q))
        BY <1>5, <2>1, <3>2, <3>3, <3>4 DEF Holds, HoldsIn, Nowhere
      <4> QED BY <3>3, <3>4, <4>1 DEF Nowhere
    <3> QED BY <3>5 DEF HeldInOne
  <2> QED BY <1>3, <2>1, <2>2, <2>3 DEF HeldOnce, mine, CaptureTypes
<1>10. CASE NC!BeginSend \/ NC!PostSend \/ NC!LaunchComplete
  BY <1>6, <1>7, <1>10 DEF NC!BeginSend, NC!PostSend, NC!LaunchComplete, NC!uiVars, NC!proxyVars
<1>11. ASSUME NEW event, x7' = Append(x7, event), x4' = x4, x10' = x10, x16' = x16,
              x1' = x1, x15' = x15,
              \A r \in Requests, i \in DOMAIN event.exchanges : event.exchanges[i] # mine(r)
       PROVE  HeldOnce'
  <2>1. ASSUME NEW r \in Requests
        PROVE  \A l, i : Holds(l, i, mine(r))' <=> Holds(l, i, mine(r))
    <3>1. DOMAIN x7 = 1..Len(x7) /\ Len(x7) \in Nat /\ DOMAIN x7' = 1..(Len(x7) + 1)
          /\ x7'[Len(x7) + 1] = event /\ \A k \in DOMAIN x7 : x7'[k] = x7[k]
      BY <1>2, <1>11
    <3>2. \A k : k \in DOMAIN x7' <=> k \in DOMAIN x7 \/ k = Len(x7) + 1
      BY <3>1
    <3> QED BY <1>11, <3>1, <3>2 DEF Holds, HoldsIn
  <2> QED BY <1>6, <1>11, <2>1, StillHeld
<1>12. CASE NC!SyncInitialState
  <2>1. x7' = Append(x7, NC!Event(TRUE, TRUE, <<>>)) /\ x4' = x4 /\ x10' = x10 /\ x16' = x16
        /\ x1' = x1 /\ x15' = x15
    BY <1>12 DEF NC!SyncInitialState, NC!uiVars, NC!proxyVars
  <2> QED BY <1>11, <2>1 DEF NC!Event
<1>13. CASE NC!EndSend
  <2>1. PICK event \in NC!SendResults : x7' = Append(x7, event)
    BY <1>13 DEF NC!EndSend
  <2>2. \A r \in Requests, i \in DOMAIN event.exchanges : event.exchanges[i] # mine(r)
    BY <2>1 DEF NC!SendResults, NC!Event, NC!Composed, mine, NC!Captured
  <2> QED BY <1>11, <1>13, <2>1, <2>2 DEF NC!EndSend, NC!uiVars, NC!proxyVars
<1>14. CASE NC!Drain
  <2>1. x7' = Append(x7, NC!Event(TRUE, TRUE, x4)) /\ x4' = <<>> /\ x10' = x10 /\ x16' = x16
        /\ x1' = x1 /\ x15' = x15
    BY <1>14 DEF NC!Drain, NC!uiVars, NC!proxyVars
  <2>n. PICK n : n = Len(x7)
    OBVIOUS
  <2>l. PICK toList : toList = [at \in Nat \X Nat |-> IF at[1] = 1 THEN 4 + n ELSE at[1]]
    OBVIOUS
  <2>p. PICK toPlace : toPlace = [at \in Nat \X Nat |-> at[2]]
    OBVIOUS
  <2>2. /\ n \in Nat /\ DOMAIN x7 = 1..n /\ DOMAIN x7' = 1..(n + 1)
        /\ x7'[n + 1].exchanges = x4 /\ \A k \in DOMAIN x7 : x7'[k] = x7[k]
    BY <1>2, <2>1, <2>n DEF NC!Event
  <2>3. \A l, i, e : Holds(l, i, e) => l \in Nat /\ i \in Nat
    <3>1. \A k \in DOMAIN x7 : DOMAIN x7[k].exchanges \subseteq Nat
      BY <1>2 DEF CaptureEvent
    <3>2. DOMAIN x4 \subseteq Nat /\ DOMAIN x10 \subseteq Nat /\ DOMAIN x16 \subseteq Nat
      BY <1>5
    <3> QED BY <2>2, <3>1, <3>2 DEF Holds, HoldsIn
  <2>4. ASSUME NEW l \in Nat, NEW i \in Nat
        PROVE  toList[<<l, i>>] = (IF l = 1 THEN 4 + n ELSE l) /\ toPlace[<<l, i>>] = i
    BY <2>l, <2>p
  <2>5. ASSUME NEW e, NEW l, NEW i, Holds(l, i, e)
        PROVE  Holds(toList[<<l, i>>], toPlace[<<l, i>>], e)'
    <3>1. l \in Nat /\ i \in Nat
      BY <2>3, <2>5
    <3>2. Holds(IF l = 1 THEN 4 + n ELSE l, i, e)'
      <4>1. CASE l = 1
        <5>1. n + 1 \in DOMAIN x7' /\ 4 + n = 3 + (n + 1)
          BY <2>2
        <5>2. i \in DOMAIN x4 /\ x4[i] = e
          BY <2>2, <2>5, <4>1 DEF Holds, HoldsIn
        <5> QED BY <2>2, <4>1, <5>1, <5>2 DEF Holds, HoldsIn
      <4>2. CASE l # 1
        <5>1. \A k \in DOMAIN x7 : k \in DOMAIN x7'
          BY <2>2
        <5> QED BY <2>1, <2>2, <2>5, <4>2, <5>1 DEF Holds, HoldsIn
      <4> QED BY <4>1, <4>2
    <3> QED BY <2>4, <3>1, <3>2
  <2>6. ASSUME NEW e, NEW m, NEW j, Holds(m, j, e)'
        PROVE  \E l, i : Holds(l, i, e) /\ m = toList[<<l, i>>] /\ j = toPlace[<<l, i>>]
    <3>1. CASE m = 4 + n
      <4>1. j \in DOMAIN x4 /\ x4[j] = e
        <5>1. \A k \in DOMAIN x7' : m = 3 + k => k = n + 1
          BY <2>2, <3>1
        <5> QED BY <2>2, <2>6, <3>1, <5>1 DEF Holds, HoldsIn
      <4>2. Holds(1, j, e)
        BY <4>1 DEF Holds, HoldsIn
      <4> QED BY <2>3, <2>4, <3>1, <4>2
    <3>2. CASE m # 4 + n
      <4>1. \A k \in DOMAIN x7' : m = 3 + k => k \in DOMAIN x7
        BY <2>2, <3>2
      <4>2. Holds(m, j, e) /\ m # 1
        <5>1. DOMAIN x4' = {}
          BY <2>1
        <5>2. \/ m = 2 /\ j \in DOMAIN x10 /\ x10[j] = e
              \/ m = 3 /\ j \in DOMAIN x16 /\ x16[j] = e
              \/ \E k \in DOMAIN x7 : m = 3 + k /\ j \in DOMAIN x7[k].exchanges
                                      /\ x7[k].exchanges[j] = e
          BY <2>1, <2>2, <2>6, <4>1, <5>1 DEF Holds, HoldsIn
        <5>3. \A k \in DOMAIN x7 : 3 + k # 1
          BY <2>2
        <5> QED BY <5>2, <5>3 DEF Holds, HoldsIn
      <4> QED BY <2>3, <2>4, <3>2, <4>2
    <3> QED BY <3>1, <3>2
  <2>7. ASSUME NEW r \in Requests
        PROVE  /\ Nowhere(mine(r)) => Nowhere(mine(r))'
               /\ HeldInOne(mine(r)) => HeldInOne(mine(r))'
    <3> HIDE DEF mine
    <3> PICK e : e = mine(r)
      OBVIOUS
    <3>1. \A l, i : Holds(l, i, e) => Holds(toList[<<l, i>>], toPlace[<<l, i>>], e)'
      BY <2>5
    <3>2. \A m, j : Holds(m, j, e)' => \E l, i : Holds(l, i, e) /\ m = toList[<<l, i>>] /\ j = toPlace[<<l, i>>]
      BY <2>6
    <3>3. Leads(toList, toPlace, e)
      BY <3>1, <3>2 DEF Leads
    <3>4. (Nowhere(e) => Nowhere(e)') /\ (HeldInOne(e) => HeldInOne(e)')
      BY <3>3, MovedOver
    <3> QED BY <3>4
  <2> QED BY <1>6, <2>1, <2>7
<1>15. CASE NC!HandleEvent
  <2> DEFINE event == Head(x7)
             s == event.exchanges
  <2>1. /\ x7' = Tail(x7) /\ x7 # <<>> /\ event = x7[1] /\ event \in CaptureEvent
        /\ x4' = x4 /\ x1' = x1 /\ x15' = x15
    BY <1>2, <1>15 DEF NC!HandleEvent, NC!proxyVars
  <2>2. s \in Seq(NC!Exchanges)
    BY <2>1 DEF CaptureEvent
  <2>3. PICK A \in Seq(NC!Exchanges), B \in Seq(NC!Exchanges) :
           /\ x10' = x10 \o A /\ x16' = x16 \o B
           /\ \/ s = A \o B
              \/ A = <<>> /\ B = <<>> /\ \A r \in Requests, i \in DOMAIN s : s[i] # mine(r)
    <3>1. CASE ~event.ok
      <4>1. s = <<>> /\ x10' = x10 /\ x16' = x16
        BY <1>15, <2>1, <3>1 DEF CaptureEvent, NC!HandleEvent
      <4> HIDE DEF s
      <4>2. s = <<>> \o <<>> /\ x10 = x10 \o <<>> /\ x16 = x16 \o <<>> /\ <<>> \in Seq(NC!Exchanges)
        BY <1>5, <4>1
      <4> QED BY <4>1, <4>2
    <3>2. CASE event.ok /\ NC!IsResult(event)
      <4>1. s # <<>> /\ x10' = Append(x10, Head(s)) /\ x16' = x16 \o Tail(s)
        BY <1>15, <3>2 DEF NC!HandleEvent, NC!ApplyAsResult, NC!IsResult
      <4> HIDE DEF s
      <4>5. Head(s) \in NC!Exchanges /\ Tail(s) \in Seq(NC!Exchanges)
        BY <2>2, <4>1
      <4>6. s = <<Head(s)>> \o Tail(s)
        BY <2>2, <4>1
      <4>2. <<Head(s)>> \in Seq(NC!Exchanges) /\ Tail(s) \in Seq(NC!Exchanges)
            /\ s = <<Head(s)>> \o Tail(s)
        BY <4>5, <4>6
      <4>3. x10' = x10 \o <<Head(s)>>
        BY <1>5, <4>1, <4>2
      <4>4. /\ x10' = x10 \o <<Head(s)>> /\ x16' = x16 \o Tail(s)
            /\ s = <<Head(s)>> \o Tail(s)
        BY <4>1, <4>2, <4>3, Zenon
      <4> QED BY <4>2, <4>4, Zenon
    <3>3. CASE event.ok /\ ~NC!IsResult(event)
      <4>1. x10' = x10 \o NC!Traffic(s) /\ x16' = x16
        BY <1>15, <3>3 DEF NC!HandleEvent, NC!ApplyAsTraffic, NC!AddedToShown
      <4>2. CASE AllCaptured(s)
        <5>1. NC!Traffic(s) = s
          BY <4>2, TrafficIs
        <5> HIDE DEF s
        <5>2. s = s \o <<>> /\ x16 = x16 \o <<>> /\ <<>> \in Seq(NC!Exchanges)
          BY <1>5, <2>2
        <5> QED BY <2>2, <4>1, <5>1, <5>2
      <4>3. CASE ~AllCaptured(s)
        <5>1. OneComposed(s)
          BY <2>1, <4>3 DEF CaptureEvent
        <5>2. NC!Traffic(s) = <<>>
          BY <4>3, <5>1, TrafficIs
        <5>3. \A r \in Requests, i \in DOMAIN s : s[i] # mine(r)
          BY <5>1 DEF OneComposed, NC!Composed, mine, NC!Captured
        <5> HIDE DEF s
        <5>4. x10 = x10 \o <<>> /\ x16 = x16 \o <<>> /\ <<>> \in Seq(NC!Exchanges)
          BY <1>5
        <5> QED BY <4>1, <5>2, <5>3, <5>4
      <4> QED BY <4>2, <4>3
    <3> QED BY <3>1, <3>2, <3>3
  <2>n. PICK n, a, b, c : n = Len(x7) /\ a = Len(A) /\ b = Len(x10) /\ c = Len(x16)
    OBVIOUS
  <2>l. PICK toList : toList = [at \in Nat \X Nat |->
                                  IF at[1] < 4 THEN at[1]
                                  ELSE IF at[1] = 4 THEN IF at[2] <= a THEN 2 ELSE 3
                                  ELSE at[1] - 1]
    OBVIOUS
  <2>p. PICK toPlace : toPlace = [at \in Nat \X Nat |->
                                    IF at[1] # 4 THEN at[2]
                                    ELSE IF at[2] <= a THEN b + at[2] ELSE c + (at[2] - a)]
    OBVIOUS
  <2>4. /\ n \in Nat /\ DOMAIN x7 = 1..n /\ n # 0
        /\ DOMAIN x7' = 1..(n - 1) /\ \A k \in 1..(n - 1) : x7'[k] = x7[k + 1]
    BY <1>2, <2>1, <2>n
  <2>5. \A l, i, e : Holds(l, i, e) => l \in Nat /\ i \in Nat
    <3>1. \A k \in DOMAIN x7 : DOMAIN x7[k].exchanges \subseteq Nat
      BY <1>2 DEF CaptureEvent
    <3>2. DOMAIN x4 \subseteq Nat /\ DOMAIN x10 \subseteq Nat /\ DOMAIN x16 \subseteq Nat
      BY <1>5
    <3> QED BY <2>4, <3>1, <3>2 DEF Holds, HoldsIn
  <2>6. /\ a \in Nat /\ DOMAIN A = 1..a /\ Len(B) \in Nat /\ DOMAIN B = 1..Len(B)
        /\ b \in Nat /\ DOMAIN x10 = 1..b /\ c \in Nat /\ DOMAIN x16 = 1..c
    BY <1>5, <2>3, <2>n
  <2> HIDE DEF s, event
  <2>7. ASSUME NEW r \in Requests, NEW i
        PROVE  /\ i \in DOMAIN s /\ s[i] = mine(r) =>
                    \/ i \in DOMAIN A /\ A[i] = mine(r) /\ i <= a
                    \/ i - a \in DOMAIN B /\ B[i - a] = mine(r) /\ ~(i <= a)
               /\ i \in DOMAIN A /\ A[i] = mine(r) => i \in DOMAIN s /\ s[i] = mine(r) /\ i <= a
               /\ i \in DOMAIN B /\ B[i] = mine(r) =>
                    a + i \in DOMAIN s /\ s[a + i] = mine(r) /\ ~(a + i <= a)
    <3>1. CASE s = A \o B
      <4>1. ASSUME NEW k
            PROVE  k \in DOMAIN s /\ s[k] = mine(r) <=>
                      \/ k \in DOMAIN A /\ A[k] = mine(r)
                      \/ \E h \in DOMAIN B : k = a + h /\ B[h] = mine(r)
        <5>1. A \in Seq(NC!Exchanges) /\ B \in Seq(NC!Exchanges) /\ a = Len(A) /\ s = A \o B
          BY <2>3, <2>n, <3>1
        <5> QED BY <5>1, InConcat
      <4>2. \A k \in DOMAIN A : k <= a
        BY <2>6
      <4>3. \A h \in DOMAIN B : ~(a + h <= a) /\ (a + h) - a = h
        BY <2>6
      <4> QED BY <4>1, <4>2, <4>3
    <3>2. CASE A = <<>> /\ B = <<>> /\ \A q \in Requests, k \in DOMAIN s : s[k] # mine(q)
      BY <3>2
    <3> QED BY <2>3, <3>1, <3>2
  <2>8. ASSUME NEW e, NEW i
        PROVE  /\ i \in DOMAIN x10' /\ x10'[i] = e <=>
                    \/ i \in DOMAIN x10 /\ x10[i] = e
                    \/ \E k \in DOMAIN A : i = b + k /\ A[k] = e
               /\ i \in DOMAIN x16' /\ x16'[i] = e <=>
                    \/ i \in DOMAIN x16 /\ x16[i] = e
                    \/ \E k \in DOMAIN B : i = c + k /\ B[k] = e
    <3>1. i \in DOMAIN (x10 \o A) /\ (x10 \o A)[i] = e <=>
             \/ i \in DOMAIN x10 /\ x10[i] = e
             \/ \E k \in DOMAIN A : i = b + k /\ A[k] = e
      <4>1. x10 \in Seq(NC!Exchanges) /\ A \in Seq(NC!Exchanges) /\ b = Len(x10)
        BY <1>5, <2>3, <2>n
      <4> QED BY <4>1, InConcat
    <3>2. i \in DOMAIN (x16 \o B) /\ (x16 \o B)[i] = e <=>
             \/ i \in DOMAIN x16 /\ x16[i] = e
             \/ \E k \in DOMAIN B : i = c + k /\ B[k] = e
      <4>1. x16 \in Seq(NC!Exchanges) /\ B \in Seq(NC!Exchanges) /\ c = Len(x16)
        BY <1>5, <2>3, <2>n
      <4> QED BY <4>1, InConcat
    <3> QED BY <2>3, <3>1, <3>2
  <2>9. ASSUME NEW l \in Nat, NEW i \in Nat
        PROVE  /\ l < 4 => toList[<<l, i>>] = l /\ toPlace[<<l, i>>] = i
               /\ l = 4 /\ i <= a => toList[<<l, i>>] = 2 /\ toPlace[<<l, i>>] = b + i
               /\ l = 4 /\ ~(i <= a) => toList[<<l, i>>] = 3 /\ toPlace[<<l, i>>] = c + (i - a)
               /\ l > 4 => toList[<<l, i>>] = l - 1 /\ toPlace[<<l, i>>] = i
    BY <2>6, <2>l, <2>p
  <2>10. \A l, i, e : Holds(l, i, e) <=>
            \/ l < 4 /\ l \in Nat /\ Holds(l, i, e)
            \/ l = 4 /\ i \in DOMAIN s /\ s[i] = e
            \/ l > 4 /\ l \in Nat /\ l - 3 \in DOMAIN x7 /\ i \in DOMAIN x7[l - 3].exchanges
               /\ x7[l - 3].exchanges[i] = e
    <3>1. 1 \in DOMAIN x7 /\ x7[1].exchanges = s
      BY <2>1, <2>4 DEF s
    <3>2. ASSUME NEW l, NEW i, NEW e, l \in Nat
          PROVE  /\ l < 4 => (Holds(l, i, e) <=> l < 4 /\ l \in Nat /\ Holds(l, i, e))
                 /\ l = 4 => (Holds(l, i, e) <=> i \in DOMAIN s /\ s[i] = e)
                 /\ l > 4 => (Holds(l, i, e) <=>
                               l - 3 \in DOMAIN x7 /\ i \in DOMAIN x7[l - 3].exchanges
                               /\ x7[l - 3].exchanges[i] = e)
      <4>1. CASE l = 4
        <5>1. \A k \in DOMAIN x7 : l = 3 + k <=> k = 1
          BY <2>4, <4>1
        <5> QED BY <3>1, <4>1, <5>1 DEF Holds, HoldsIn
      <4>2. CASE l > 4
        <5>1. \A k \in DOMAIN x7 : l = 3 + k <=> k = l - 3
          BY <2>4, <3>2, <4>2
        <5>2. l # 1 /\ l # 2 /\ l # 3
          BY <4>2
        <5>3. Holds(l, i, e) <=> \E k \in DOMAIN x7 : l = 3 + k /\ i \in DOMAIN x7[k].exchanges
                                                     /\ x7[k].exchanges[i] = e
          BY <5>2 DEF Holds, HoldsIn
        <5>4. l - 3 \in DOMAIN x7 => l = 3 + (l - 3)
          BY <5>1
        <5>5. Holds(l, i, e) <=> l - 3 \in DOMAIN x7 /\ i \in DOMAIN x7[l - 3].exchanges
                                 /\ x7[l - 3].exchanges[i] = e
          BY <5>1, <5>3, <5>4
        <5>6. ~(l < 4) /\ l # 4
          BY <3>2, <4>2
        <5> QED BY <5>5, <5>6
      <4> QED BY <3>2, <4>1, <4>2
    <3>3. \A l \in Nat : l < 4 \/ l = 4 \/ l > 4
      OBVIOUS
    <3>4. \A l \in Nat : ~(l < 4 /\ l = 4) /\ ~(l < 4 /\ l > 4) /\ ~(l = 4 /\ l > 4)
      OBVIOUS
    <3> QED BY <2>5, <3>2, <3>3, <3>4
  <2>11. ASSUME NEW r \in Requests, NEW l, NEW i, Holds(l, i, mine(r))
         PROVE  Holds(toList[<<l, i>>], toPlace[<<l, i>>], mine(r))'
    <3>1. l \in Nat /\ i \in Nat
      BY <2>5, <2>11
    <3>2. CASE l < 4
      <4>1. Holds(l, i, mine(r))'
        <5>1. \A k \in DOMAIN x7 : l # 3 + k
          BY <2>4, <3>1, <3>2
        <5>2. \/ l = 1 /\ i \in DOMAIN x4 /\ x4[i] = mine(r)
              \/ l = 2 /\ i \in DOMAIN x10 /\ x10[i] = mine(r)
              \/ l = 3 /\ i \in DOMAIN x16 /\ x16[i] = mine(r)
          BY <2>11, <5>1 DEF Holds, HoldsIn
        <5> QED BY <2>1, <2>8, <5>2 DEF Holds, HoldsIn
      <4> QED BY <2>9, <3>1, <3>2, <4>1
    <3>3. CASE l = 4 /\ i <= a
      <4>1. i \in DOMAIN A /\ A[i] = mine(r)
        BY <2>7, <2>10, <2>11, <3>1, <3>3
      <4>2. Holds(2, b + i, mine(r))'
        BY <2>8, <4>1 DEF Holds, HoldsIn
      <4> QED BY <2>9, <3>1, <3>3, <4>2
    <3>4. CASE l = 4 /\ ~(i <= a)
      <4>1. i - a \in DOMAIN B /\ B[i - a] = mine(r)
        BY <2>7, <2>10, <2>11, <3>1, <3>4
      <4>2. Holds(3, c + (i - a), mine(r))'
        BY <2>8, <4>1 DEF Holds, HoldsIn
      <4> QED BY <2>9, <3>1, <3>4, <4>2
    <3>5. CASE l > 4
      <4>1. l - 3 \in DOMAIN x7 /\ i \in DOMAIN x7[l - 3].exchanges /\ x7[l - 3].exchanges[i] = mine(r)
        BY <2>10, <2>11, <3>5
      <4>2. l - 4 \in DOMAIN x7' /\ x7'[l - 4] = x7[l - 3] /\ l - 1 = 3 + (l - 4)
        BY <2>4, <3>1, <3>5, <4>1
      <4>3. Holds(l - 1, i, mine(r))'
        BY <4>1, <4>2 DEF Holds, HoldsIn
      <4> QED BY <2>9, <3>1, <3>5, <4>3
    <3> QED BY <3>1, <3>2, <3>3, <3>4, <3>5
  <2>12. ASSUME NEW r \in Requests, NEW m, NEW j, Holds(m, j, mine(r))'
         PROVE  \E l, i : Holds(l, i, mine(r)) /\ m = toList[<<l, i>>] /\ j = toPlace[<<l, i>>]
    <3>1. \/ m < 4 /\ m \in Nat /\ Holds(m, j, mine(r))
          \/ m = 2 /\ \E k \in DOMAIN A : j = b + k /\ A[k] = mine(r)
          \/ m = 3 /\ \E k \in DOMAIN B : j = c + k /\ B[k] = mine(r)
          \/ \E k \in DOMAIN x7' : m = 3 + k /\ j \in DOMAIN x7'[k].exchanges
                                   /\ x7'[k].exchanges[j] = mine(r)
      <4>1. \/ m = 1 /\ j \in DOMAIN x4 /\ x4[j] = mine(r)
            \/ m = 2 /\ j \in DOMAIN x10' /\ x10'[j] = mine(r)
            \/ m = 3 /\ j \in DOMAIN x16' /\ x16'[j] = mine(r)
            \/ \E k \in DOMAIN x7' : m = 3 + k /\ j \in DOMAIN x7'[k].exchanges
                                     /\ x7'[k].exchanges[j] = mine(r)
        BY <2>1, <2>12 DEF Holds, HoldsIn
      <4>2. /\ \A k : k \in DOMAIN x4 /\ x4[k] = mine(r) => Holds(1, k, mine(r))
            /\ \A k : k \in DOMAIN x10 /\ x10[k] = mine(r) => Holds(2, k, mine(r))
            /\ \A k : k \in DOMAIN x16 /\ x16[k] = mine(r) => Holds(3, k, mine(r))
        BY DEF Holds, HoldsIn
      <4>3. /\ 1 < 4 /\ 2 < 4 /\ 3 < 4 /\ 1 \in Nat /\ 2 \in Nat /\ 3 \in Nat
        OBVIOUS
      <4>4. j \in DOMAIN x10' /\ x10'[j] = mine(r) =>
               Holds(2, j, mine(r)) \/ \E k \in DOMAIN A : j = b + k /\ A[k] = mine(r)
        BY <2>8, <4>2
      <4>5. j \in DOMAIN x16' /\ x16'[j] = mine(r) =>
               Holds(3, j, mine(r)) \/ \E k \in DOMAIN B : j = c + k /\ B[k] = mine(r)
        BY <2>8, <4>2
      <4> QED BY <4>1, <4>2, <4>3, <4>4, <4>5, Zenon
    <3>2. CASE m < 4 /\ m \in Nat /\ Holds(m, j, mine(r))
      BY <2>5, <2>9, <3>2
    <3>3. CASE m = 2 /\ \E k \in DOMAIN A : j = b + k /\ A[k] = mine(r)
      <4>1. PICK k \in DOMAIN A : j = b + k /\ A[k] = mine(r)
        BY <3>3
      <4>2. Holds(4, k, mine(r)) /\ k <= a /\ k \in Nat
        BY <2>6, <2>7, <2>10, <4>1
      <4> QED BY <2>9, <3>3, <4>1, <4>2
    <3>4. CASE m = 3 /\ \E k \in DOMAIN B : j = c + k /\ B[k] = mine(r)
      <4>1. PICK k \in DOMAIN B : j = c + k /\ B[k] = mine(r)
        BY <3>4
      <4>2. Holds(4, a + k, mine(r)) /\ ~(a + k <= a) /\ a + k \in Nat /\ (a + k) - a = k
        <5>1. k \in Nat /\ a + k \in Nat /\ (a + k) - a = k
          BY <2>6, <4>1
        <5> QED BY <2>7, <2>10, <4>1, <5>1
      <4>3. 4 \in Nat /\ toList[<<4, a + k>>] = 3 /\ toPlace[<<4, a + k>>] = c + ((a + k) - a)
        BY <2>9, <4>2
      <4> QED BY <3>4, <4>1, <4>2, <4>3
    <3>5. CASE \E k \in DOMAIN x7' : m = 3 + k /\ j \in DOMAIN x7'[k].exchanges
                                     /\ x7'[k].exchanges[j] = mine(r)
      <4>1. PICK k \in DOMAIN x7' : m = 3 + k /\ j \in DOMAIN x7'[k].exchanges
                                    /\ x7'[k].exchanges[j] = mine(r)
        BY <3>5
      <4>4. k \in Nat \ {0} /\ k + 1 \in DOMAIN x7 /\ x7'[k] = x7[k + 1]
        BY <2>4, <4>1
      <4>5. m = 3 + k
        BY <4>1
      <4>6. m + 1 = 3 + (k + 1) /\ m + 1 > 4 /\ (m + 1) - 1 = m /\ m + 1 \in Nat
        BY <4>4, <4>5
      <4>2. k \in Nat /\ k + 1 \in DOMAIN x7 /\ x7'[k] = x7[k + 1] /\ m + 1 = 3 + (k + 1) /\ m + 1 > 4
            /\ (m + 1) - 1 = m /\ m + 1 \in Nat
        BY <4>4, <4>6
      <4>3. Holds(m + 1, j, mine(r))
        BY <4>1, <4>2 DEF Holds, HoldsIn
      <4> QED BY <2>5, <2>9, <4>2, <4>3
    <3> QED BY <3>1, <3>2, <3>3, <3>4, <3>5
  <2>13. ASSUME NEW r \in Requests
         PROVE  /\ Nowhere(mine(r)) => Nowhere(mine(r))'
                /\ HeldInOne(mine(r)) => HeldInOne(mine(r))'
    <3> HIDE DEF mine
    <3> PICK e : e = mine(r)
      OBVIOUS
    <3>1. \A l, i : Holds(l, i, e) => Holds(toList[<<l, i>>], toPlace[<<l, i>>], e)'
      BY <2>11
    <3>2. \A m, j : Holds(m, j, e)' => \E l, i : Holds(l, i, e) /\ m = toList[<<l, i>>] /\ j = toPlace[<<l, i>>]
      BY <2>12
    <3>3. Leads(toList, toPlace, e)
      BY <3>1, <3>2 DEF Leads
    <3>4. (Nowhere(e) => Nowhere(e)') /\ (HeldInOne(e) => HeldInOne(e)')
      BY <3>3, MovedOver
    <3> QED BY <3>4
  <2> QED BY <1>6, <2>1, <2>13
<1> QED BY <1>8, <1>9, <1>10, <1>12, <1>13, <1>14, <1>15 DEF NC!Next

\* A send that nothing crossed stays alone, and its result is shown.
LEMMA AloneStep ==
  ASSUME CaptureIsSound, CaptureTypes, ~x17 => SendIsAlone, NC!Next
  PROVE  (~x17' => SendIsAlone') /\ NC!ShowsResult
<1>1. CaptureTypes'
  BY CaptureTypesStep
<1>2. x7 \in Seq(CaptureEvent) /\ x7' \in Seq(CaptureEvent) /\ x17 \in BOOLEAN /\ x8 \in BOOLEAN
  BY <1>1 DEF CaptureTypes
<1>3. ASSUME x7' # Tail(x7)  PROVE NC!ShowsResult
  BY <1>3 DEF NC!ShowsResult
<1>4. NC!None \notin Sends
  BY SendsAre DEF CaptureIsSound, NC!None
<1>5. ASSUME x7' = x7  PROVE NC!ShowsResult
  <2>1. x7 # <<>> => Tail(x7) # x7
    <3>1. x7 # <<>> => Len(Tail(x7)) = Len(x7) - 1 /\ Len(x7) \in Nat
      BY <1>2
    <3> QED BY <3>1
  <2> QED BY <1>5, <2>1 DEF NC!ShowsResult
<1>6. ASSUME NEW event, x7' = Append(x7, event)  PROVE NC!ShowsResult /\ x7' # <<>>
  <2>1. Len(x7') = Len(x7) + 1 /\ (x7 # <<>> => Len(Tail(x7)) = Len(x7) - 1) /\ Len(x7) \in Nat
    BY <1>2, <1>6
  <2> QED BY <2>1 DEF NC!ShowsResult
<1>7. ASSUME NEW r \in Requests,
             NC!HandleRequest(r) \/ NC!HandleResponse(r) \/ NC!PushExchange(r) \/ NC!NoResponse(r)
      PROVE  (~x17' => SendIsAlone') /\ NC!ShowsResult
  <2>1. UNCHANGED <<x5, x6, x7, x8, x17>>
    BY <1>7 DEF NC!HandleRequest, NC!HandleResponse, NC!PushExchange, NC!NoResponse, NC!uiVars
  <2> QED BY <1>5, <2>1 DEF SendIsAlone
<1>8. CASE NC!LaunchComplete
  <2>1. UNCHANGED <<x5, x6, x7, x8, x17>>
    BY <1>8 DEF NC!LaunchComplete
  <2> QED BY <1>5, <2>1 DEF SendIsAlone
<1>9. ASSUME NEW s, AllCaptured(s), x7' = Append(x7, NC!Event(TRUE, TRUE, s)),
             x17' = (x17 \/ x8), UNCHANGED <<x5, x6, x8>>
      PROVE  (~x17' => SendIsAlone') /\ NC!ShowsResult
  <2>1. ASSUME ~x17'  PROVE SendIsAlone'
    <3>1. ~x17 /\ ~x8
      BY <1>9, <2>1
    <3>2. /\ x5 = NC!None /\ x6 = NC!None
          /\ \A i \in DOMAIN x7 : x7[i].ok /\ AllCaptured(x7[i].exchanges)
      BY <3>1 DEF SendIsAlone
    <3>3. \A i \in DOMAIN x7' : \/ i \in DOMAIN x7 /\ x7'[i] = x7[i]
                               \/ x7'[i] = NC!Event(TRUE, TRUE, s)
      <4>1. \A e, i : i \in DOMAIN Append(x7, e) =>
               (i \in DOMAIN x7 /\ Append(x7, e)[i] = x7[i]) \/ Append(x7, e)[i] = e
        BY <1>2
      <4> QED BY <1>9, <4>1
    <3>4. NC!Event(TRUE, TRUE, s).ok /\ NC!Event(TRUE, TRUE, s).exchanges = s
      BY DEF NC!Event
    <3>5. \A i \in DOMAIN x7' : x7'[i].ok /\ AllCaptured(x7'[i].exchanges)
      BY <1>9, <3>2, <3>3, <3>4
    <3> QED BY <1>9, <3>1, <3>2, <3>5 DEF SendIsAlone
  <2> QED BY <1>6, <1>9, <2>1
<1>10. CASE NC!Drain
  <2>1. AllCaptured(x4) /\ x7' = Append(x7, NC!Event(TRUE, TRUE, x4)) /\ x17' = (x17 \/ x8)
        /\ UNCHANGED <<x5, x6, x8>>
    BY <1>10 DEF NC!Drain, NC!uiVars, CaptureTypes
  <2> QED BY <1>9, <2>1
<1>11. CASE NC!SyncInitialState
  <2>1. AllCaptured(<<>>) /\ x7' = Append(x7, NC!Event(TRUE, TRUE, <<>>)) /\ x17' = (x17 \/ x8)
        /\ UNCHANGED <<x5, x6, x8>>
    BY <1>11, EventsAre DEF NC!SyncInitialState, NC!uiVars
  <2> QED BY <1>9, <2>1
<1>12. CASE NC!BeginSend
  <2>1. /\ x6 = NC!None /\ x5 # NC!None /\ x6' = x5 /\ x5' = NC!None
        /\ x7' = x7 /\ x8' = x8 /\ x17' = x17
    BY <1>12 DEF NC!BeginSend, NC!uiVars
  <2> QED BY <1>5, <2>1 DEF SendIsAlone
<1>13. CASE NC!EndSend
  <2>1. PICK event \in NC!SendResults : x7' = Append(x7, event)
    BY <1>13 DEF NC!EndSend
  <2>2. x6 # NC!None /\ x6 \in Sends /\ x6' = NC!None /\ UNCHANGED <<x5, x8, x17>>
    BY <1>13 DEF NC!EndSend, NC!uiVars, CaptureTypes
  <2>3. OnlyResult(event)
    BY <2>1 DEF OnlyResult, NC!SendResults, NC!Event, NC!Composed, AllCaptured
  <2>4. ASSUME ~x17'  PROVE SendIsAlone'
    <3>1. x5 = NC!None /\ x7 = <<>> /\ x8
      BY <2>2, <2>4 DEF SendIsAlone
    <3>2. Len(x7') = 1 /\ x7'[1] = event
      BY <2>1, <3>1
    <3> QED BY <2>2, <2>3, <3>1, <3>2 DEF SendIsAlone
  <2> QED BY <1>6, <2>1, <2>4
<1>14. CASE NC!PostSend
  <2>1. /\ x8' = TRUE /\ x5' = x9 + 1 /\ x9 + 1 \in Sends
        /\ x17' = (x17 \/ x8 \/ x7 # <<>> \/ x6 # NC!None) /\ UNCHANGED <<x6, x7>>
    BY <1>14 DEF NC!PostSend
  <2> QED BY <1>4, <1>5, <2>1 DEF SendIsAlone
<1>15. CASE NC!HandleEvent
  <2> DEFINE event == Head(x7)
  <2>1. /\ x7 # <<>> /\ x7' = Tail(x7) /\ event = x7[1] /\ event \in CaptureEvent
        /\ Len(x7) \in Nat /\ Len(x7') = Len(x7) - 1 /\ 1 \in DOMAIN x7
        /\ \A i \in DOMAIN x7' : i + 1 \in DOMAIN x7 /\ x7'[i] = x7[i + 1]
    BY <1>2, <1>15 DEF NC!HandleEvent
  <2>2. UNCHANGED <<x5, x6>> /\ x8' = FALSE
    BY <1>15 DEF NC!HandleEvent, NC!ApplyAsResult, NC!ApplyAsTraffic
  <2>3. x17' = (x17 /\ (x8' \/ x5 # NC!None \/ x6 # NC!None \/ x7' # <<>>))
    BY <1>15 DEF NC!HandleEvent
  <2>4. ASSUME x17, ~x17'  PROVE SendIsAlone'
    <3>1. x5 = NC!None /\ x6 = NC!None /\ x7' = <<>>
      BY <2>2, <2>3, <2>4
    <3> QED BY <2>2, <3>1 DEF SendIsAlone
  <2>5. ASSUME ~x17  PROVE SendIsAlone'
    <3>1. x5 = NC!None /\ x6 = NC!None /\ \A i \in DOMAIN x7' : x7'[i].ok /\ AllCaptured(x7'[i].exchanges)
      <4>1. CASE x8
        <5>1. x5 = NC!None /\ x6 = NC!None /\ Len(x7) = 1
          BY <2>1, <2>5, <4>1 DEF SendIsAlone
        <5>2. DOMAIN x7' = {}
          BY <1>2, <2>1, <5>1
        <5> QED BY <5>1, <5>2
      <4>2. CASE ~x8
        BY <2>1, <2>5, <4>2 DEF SendIsAlone
      <4> QED BY <4>1, <4>2
    <3> QED BY <2>2, <3>1 DEF SendIsAlone
  <2>6. ASSUME ~x17, NEW n \in Sends, NEW s \in NC!Statuses, event.exchanges = <<NC!Composed(n, s)>>
        PROVE  x10' = Append(x10, NC!Composed(n, s)) /\ x11' = x11
    <3>1. ~AllCaptured(event.exchanges)
      BY <2>6 DEF AllCaptured, NC!Composed
    <3>2. x8
      BY <2>1, <2>6, <3>1 DEF SendIsAlone
    <3>3. event.ok /\ NC!IsResult(event) /\ Head(event.exchanges) = NC!Composed(n, s)
      <4>1. event.exchanges # <<>> /\ Head(event.exchanges) = NC!Composed(n, s)
        BY <2>6
      <4>2. ~event.ok => event.exchanges = <<>>
        BY <2>1 DEF CaptureEvent
      <4> QED BY <3>2, <4>1, <4>2 DEF NC!IsResult
    <3> QED BY <1>15, <3>3 DEF NC!HandleEvent, NC!ApplyAsResult
  <2>7. NC!ShowsResult
    BY <2>6 DEF NC!ShowsResult
  <2> QED BY <1>2, <2>4, <2>5, <2>7
<1> QED BY <1>7, <1>8, <1>10, <1>11, <1>12, <1>13, <1>14, <1>15 DEF NC!Next

LEMMA CaptureStep ==
  ASSUME CaptureIsSound, CaptureInv, NC!Next
  PROVE  CaptureInv' /\ NC!ShowsResult
BY CaptureTypesStep, SlotStep, OnceStep, AloneStep DEF CaptureInv

LEMMA CaptureHolds ==
  ASSUME CaptureInv
  PROVE  NC!TypeOK /\ NC!CapturedOnce
<1>1. NC!TypeOK
  <2>1. x4 \in Seq(NC!Exchanges)
    BY DEF CaptureInv, CaptureTypes, AllCaptured
  <2>2. \A i \in DOMAIN x7 : x7[i] \in CaptureEvent
    BY DEF CaptureInv, CaptureTypes
  <2>3. \A i \in DOMAIN x7 :
           x7[i].ok \in BOOLEAN /\ x7[i].named \in BOOLEAN /\ x7[i].exchanges \in Seq(NC!Exchanges)
    BY <2>2 DEF CaptureEvent
  <2> QED BY <2>1, <2>3 DEF CaptureInv, CaptureTypes, NC!TypeOK
<1>2. NC!CapturedOnce
  BY DEF CaptureInv, RecordedOnce, NC!CapturedOnce
<1> QED BY <1>1, <1>2

-----------------------------------------------------------------------------
(* The memory panels and the listings: p are the panels, m and t the bounds  *)
(* on the matches and on what the user does.                                 *)

(* What holds of what a memory panel has cached. *)
CachedIsRight(p, m, t, c) ==
    /\ c \in MV(p, m, t)!Slot
    /\ c.matches \in {0, MV(p, m, t)!Matches(c, c.query)}
    /\ c.index < c.matches
    /\ c.index = -1 => c.matches = 0
    /\ c.length => c.query # MV(p, m, t)!NoText
    /\ c.lines = "dump" => c.reference \in Refs

(* The request of a panel names it, and a memory panel names a place. *)
IsFor(p, kind, r) ==
    kind \in {"memory", "disassembly", "runtime"} =>
        r.slot \in DOMAIN p /\ p[r.slot] = kind /\ (kind = "memory" => r.reference \in Refs)

BoxIsRight(p, m, t, kind, box) ==
    box = {} \/ \E r \in MV(p, m, t)!Request : box = {r} /\ IsFor(p, kind, r)

BoxesAreRight(p, m, t, boxes) ==
    /\ DOMAIN boxes = MV(p, m, t)!Kinds /\ boxes = [k \in MV(p, m, t)!Kinds |-> boxes[k]]
    /\ \A k \in MV(p, m, t)!Kinds : BoxIsRight(p, m, t, k, boxes[k])

ViewEvent(p, m, t) == {e \in MV(p, m, t)!Event : IsFor(p, e.kind, e)}

ViewTypes(p, m, t) ==
    /\ x1 \in BOOLEAN /\ x2 \in Refs \cup {MV(p, m, t)!Nowhere}
    /\ x3 \in [MV(p, m, t)!Slots -> MV(p, m, t)!Slot]
    /\ x4 \in [MV(p, m, t)!Memory -> [now : Sought \cup {MV(p, m, t)!NoText}, before : Sought \cup {MV(p, m, t)!NoText}]]
    /\ x5 \in [MV(p, m, t)!Memory -> {"None", "Address", "Search"}]
    /\ x9 \in MV(p, m, t)!Memory \cup {0} /\ x12 \in MV(p, m, t)!Memory \cup {0} /\ x13 \in MV(p, m, t)!Memory \cup {0}
    /\ x10 \in BOOLEAN /\ x11 \in BOOLEAN
    /\ x16 \in 0..t /\ x17 \in 0..MaxStops

ViewEdits(p, m, t) ==
    /\ x6 \in [MV(p, m, t)!Memory -> SUBSET EditedRows]
    /\ \A s \in MV(p, m, t)!Memory : x6[s] = {} \/ \E row \in EditedRows : x6[s] = {row}
    /\ x7 \subseteq MV(p, m, t)!Memory /\ \A s \in x7 : x6[s] # {}
    /\ x8 \in [MV(p, m, t)!Memory -> SUBSET (Refs \X EditedRows)]
    /\ \A s \in MV(p, m, t)!Memory : \A row \in x6[s] : x8[s] \subseteq {<<x3[s].reference, row>>}

ViewQueues(p, m, t) ==
    /\ BoxesAreRight(p, m, t, x14)
    /\ x15 \in Seq(ViewEvent(p, m, t)) /\ Len(x15) <= MaxEvents

ViewInv(p, m, t) ==
    /\ ViewTypes(p, m, t)
    /\ \A s \in MV(p, m, t)!Memory : CachedIsRight(p, m, t, x3[s])
    /\ ViewEdits(p, m, t)
    /\ ViewQueues(p, m, t)

LEMMA PanelsAre ==
  ASSUME NEW p, NEW m, NEW t, ViewsAreSound(p, m, t)
  PROVE  /\ Len(p) \in Nat /\ MV(p, m, t)!Slots = 1..Len(p)
         /\ MV(p, m, t)!Memory \subseteq Nat /\ MV(p, m, t)!Memory # {} /\ MV(p, m, t)!Memory \subseteq MV(p, m, t)!Slots
         /\ \A s \in MV(p, m, t)!Slots : p[s] \in {"memory", "disassembly", "runtime"}
         /\ 0 \notin MV(p, m, t)!Memory
BY DEF ViewsAreSound, MV!Slots, MV!Memory

\* The panel that keys go to is a memory panel.
LEMMA KeyPanelIs ==
  ASSUME NEW p, NEW m, NEW t, ViewsAreSound(p, m, t), x9 \in MV(p, m, t)!Memory \cup {0}
  PROVE  MV(p, m, t)!KeyPanel \in MV(p, m, t)!Memory
<1>1. First(MV(p, m, t)!Memory) \in MV(p, m, t)!Memory /\ \A s \in MV(p, m, t)!Memory : First(MV(p, m, t)!Memory) <= s
  BY PanelsAre, FirstOf
<1> QED BY <1>1 DEF MV!KeyPanel

-----------------------------------------------------------------------------
(* What a panel has cached stays right. *)

LEMMA RedumpedIs ==
  ASSUME NEW p, NEW m, NEW t, ViewsAreSound(p, m, t), NEW c, CachedIsRight(p, m, t, c),
         NEW reference \in Refs, NEW data \in MV(p, m, t)!Dumps
  PROVE  /\ CachedIsRight(p, m, t, MV(p, m, t)!Redumped(c, reference, data))
         /\ MV(p, m, t)!Redumped(c, reference, data).reference = reference
<1> USE DEF CachedIsRight, MV!Slot, MV!Matches, MV!Redumped, MV!IndexIn, MV!Dumps, MV!NoText, ViewsAreSound
<1>1. CASE c.query = MV(p, m, t)!NoText
  BY <1>1
<1>2. CASE c.query # MV(p, m, t)!NoText
  <2>1. c.query \in Sought /\ data[c.query] \in 0..m /\ c.index \in -1..m - 1
    BY <1>2
  <2>2. MV(p, m, t)!IndexIn(c, data[c.query]) \in -1..m - 1 /\ MV(p, m, t)!IndexIn(c, data[c.query]) < data[c.query]
        /\ (MV(p, m, t)!IndexIn(c, data[c.query]) = -1 => data[c.query] = 0)
    <3> DEFINE n == data[c.query]
    <3>1. MV(p, m, t)!IndexIn(c, n) = IF n = 0 THEN -1 ELSE IF c.index < 0 \/ c.index >= n THEN 0 ELSE c.index
      BY DEF MV!IndexIn
    <3>2. n \in 0..m /\ c.index \in -1..m - 1 /\ m \in Nat
      BY <2>1 DEF ViewsAreSound
    <3> HIDE DEF n, MV!IndexIn, CachedIsRight, MV!Slot, MV!Matches, MV!Redumped, MV!Dumps, ViewsAreSound
    <3>3. MV(p, m, t)!IndexIn(c, n) \in -1..m - 1 /\ MV(p, m, t)!IndexIn(c, n) < n /\ (MV(p, m, t)!IndexIn(c, n) = -1 => n = 0)
      BY <3>1, <3>2
    <3> QED BY <3>3 DEF n
  <2> HIDE DEF MV!IndexIn
  <2> QED BY <1>2, <2>1, <2>2
<1> QED BY <1>1, <1>2

LEMMA UnreadIs ==
  ASSUME NEW p, NEW m, NEW t, ViewsAreSound(p, m, t), NEW c, CachedIsRight(p, m, t, c)
  PROVE  CachedIsRight(p, m, t, MV(p, m, t)!Unread(c)) /\ MV(p, m, t)!Unread(c).reference = c.reference
BY DEF CachedIsRight, MV!Slot, MV!Matches, MV!Unread

LEMMA NavigatedIs ==
  ASSUME NEW p, NEW m, NEW t, ViewsAreSound(p, m, t), NEW c, CachedIsRight(p, m, t, c),
         NEW reference \in Refs \cup {MV(p, m, t)!Nowhere}
  PROVE  /\ CachedIsRight(p, m, t, MV(p, m, t)!Navigated(c, reference))
         /\ MV(p, m, t)!Navigated(c, reference).reference = c.reference
<1> DEFINE new == MV(p, m, t)!Navigated(c, reference)
<1>1. /\ new.view = reference /\ new.reference = c.reference /\ new.data = c.data /\ new.lines = c.lines
      /\ new.query = c.query /\ new.matches = 0 /\ new.index = -1 /\ new.length = FALSE
  BY DEF CachedIsRight, MV!Slot, MV!Navigated
<1>2. -1 \in -1..m - 1 /\ 0 \in 0..m
  BY DEF ViewsAreSound
<1>3. new \in MV(p, m, t)!Slot
  BY <1>2 DEF CachedIsRight, MV!Slot, MV!Navigated
<1> HIDE DEF new
<1>4. CachedIsRight(p, m, t, new)
  BY <1>1, <1>3 DEF CachedIsRight
<1> QED BY <1>1, <1>4 DEF new

\* A search leads to a match there is, if there is one.
LEMMA SearchedIs ==
  ASSUME NEW p, NEW m, NEW t, ViewsAreSound(p, m, t), NEW c, CachedIsRight(p, m, t, c),
         NEW q \in Sought \cup {MV(p, m, t)!NoText}, NEW index \in Int,
         IF MV(p, m, t)!Matches(c, q) = 0 THEN index = -1 ELSE index \in 0..MV(p, m, t)!Matches(c, q) - 1
  PROVE  /\ CachedIsRight(p, m, t, MV(p, m, t)!Searched(c, q, index))
         /\ MV(p, m, t)!Searched(c, q, index).reference = c.reference
<1>1. MV(p, m, t)!Matches(c, q) \in 0..m
  BY DEF CachedIsRight, MV!Slot, MV!Matches, MV!Dumps, ViewsAreSound
<1>2. MV(p, m, t)!Matches(MV(p, m, t)!Searched(c, q, index), q) = MV(p, m, t)!Matches(c, q)
  BY DEF CachedIsRight, MV!Slot, MV!Matches, MV!Searched
<1>3. index \in -1..m - 1 /\ index < MV(p, m, t)!Matches(c, q) /\ (index = -1 => MV(p, m, t)!Matches(c, q) = 0)
  BY <1>1 DEF ViewsAreSound
<1> HIDE DEF MV!Matches
<1> QED BY <1>1, <1>2, <1>3 DEF CachedIsRight, MV!Slot, MV!Searched

LEMMA FromIs ==
  ASSUME NEW p, NEW m, NEW t, ViewsAreSound(p, m, t), NEW c, CachedIsRight(p, m, t, c),
         NEW q \in Sought \cup {MV(p, m, t)!NoText}
  PROVE  /\ MV(p, m, t)!Matches(c, q) \in Nat
         /\ MV(p, m, t)!From(c, q) \in Int /\ MV(p, m, t)!From(c, q) >= -1
         /\ MV(p, m, t)!From(c, q) < MV(p, m, t)!Matches(c, q) \/ MV(p, m, t)!From(c, q) = -1
<1>1. MV(p, m, t)!Matches(c, q) \in 0..m
  BY DEF CachedIsRight, MV!Slot, MV!Matches, MV!Dumps, ViewsAreSound
<1>2. c.index \in -1..m - 1 /\ c.matches \in 0..m
  BY DEF CachedIsRight, MV!Slot
<1>3. c.query = q => c.index < MV(p, m, t)!Matches(c, q) \/ c.index = -1
  BY <1>1, <1>2 DEF CachedIsRight, ViewsAreSound
<1> QED BY <1>1, <1>2, <1>3 DEF MV!From, ViewsAreSound

LEMMA PreviewIs ==
  ASSUME NEW p, NEW m, NEW t, ViewsAreSound(p, m, t), NEW c, CachedIsRight(p, m, t, c),
         NEW q \in Sought \cup {MV(p, m, t)!NoText}
  PROVE  CachedIsRight(p, m, t, MV(p, m, t)!Preview(c, q)) /\ MV(p, m, t)!Preview(c, q).reference = c.reference
<1> DEFINE index == IF MV(p, m, t)!Matches(c, q) = 0 THEN -1 ELSE IF MV(p, m, t)!From(c, q) < 0 THEN 0 ELSE MV(p, m, t)!From(c, q)
<1>1. index \in Int /\ (IF MV(p, m, t)!Matches(c, q) = 0 THEN index = -1 ELSE index \in 0..MV(p, m, t)!Matches(c, q) - 1)
  BY FromIs
<1>2. MV(p, m, t)!Preview(c, q) = MV(p, m, t)!Searched(c, q, index)
  BY DEF MV!Preview
<1> HIDE DEF index
<1> QED BY <1>1, <1>2, SearchedIs

LEMMA StepIs ==
  ASSUME NEW p, NEW m, NEW t, ViewsAreSound(p, m, t), NEW c, CachedIsRight(p, m, t, c),
         NEW q \in Sought \cup {MV(p, m, t)!NoText}, NEW way \in {"confirm", "next", "previous"}
  PROVE  /\ CachedIsRight(p, m, t, MV(p, m, t)!Searched(c, q, MV(p, m, t)!Step(c, q, way)))
         /\ MV(p, m, t)!Searched(c, q, MV(p, m, t)!Step(c, q, way)).reference = c.reference
<1> DEFINE n == MV(p, m, t)!Matches(c, q)
           from == MV(p, m, t)!From(c, q)
<1>1. n \in Nat /\ from \in Int /\ from >= -1 /\ (from < n \/ from = -1)
  BY FromIs
<1>2. MV(p, m, t)!Step(c, q, way) = CASE n = 0 -> -1
                           [] n > 0 /\ way = "confirm" -> IF from < 0 THEN 0 ELSE from
                           [] n > 0 /\ way = "next" -> (from + 1) % n
                           [] n > 0 /\ way = "previous" -> IF from <= 0 THEN n - 1 ELSE from - 1
  BY DEF MV!Step
<1> HIDE DEF n, from
<1>3. MV(p, m, t)!Step(c, q, way) \in Int /\ (IF n = 0 THEN MV(p, m, t)!Step(c, q, way) = -1 ELSE MV(p, m, t)!Step(c, q, way) \in 0..n - 1)
  <2>1. CASE n = 0
    BY <1>2, <2>1
  <2>2. CASE n # 0 /\ way = "confirm"
    BY <1>1, <1>2, <2>2
  <2>3. CASE n # 0 /\ way = "next"
    <3>1. MV(p, m, t)!Step(c, q, way) = (from + 1) % n
      BY <1>1, <1>2, <2>3
    <3>2. from + 1 \in Nat /\ n \in Nat /\ n > 0
      BY <1>1, <2>3
    <3> QED BY <2>3, <3>1, <3>2
  <2>4. CASE n # 0 /\ way = "previous"
    BY <1>1, <1>2, <2>4
  <2> QED BY <2>1, <2>2, <2>3, <2>4
<1> QED BY <1>3, SearchedIs DEF n

-----------------------------------------------------------------------------
(* The mailboxes stay right. *)

LEMMA AskIs ==
  ASSUME NEW p, NEW m, NEW t, ViewsAreSound(p, m, t), NEW boxes, BoxesAreRight(p, m, t, boxes),
         NEW kind \in MV(p, m, t)!Kinds, NEW s \in MV(p, m, t)!Slots \cup {MV(p, m, t)!ReplSlot}, NEW reference \in Refs \cup {MV(p, m, t)!Nowhere},
         IsFor(p, kind, [slot |-> s, reference |-> reference])
  PROVE  BoxesAreRight(p, m, t, MV(p, m, t)!Ask(boxes, kind, s, reference))
<1> DEFINE r == [slot |-> s, reference |-> reference]
           new == MV(p, m, t)!Ask(boxes, kind, s, reference)
<1>1. r \in MV(p, m, t)!Request
  BY DEF MV!Request
<1>2. new = [boxes EXCEPT ![kind] = {r}]
  BY DEF MV!Ask
<1>3. BoxIsRight(p, m, t, kind, {r})
  BY <1>1 DEF BoxIsRight
<1> HIDE DEF r, new
<1>4. DOMAIN new = MV(p, m, t)!Kinds /\ \A k \in MV(p, m, t)!Kinds : new[k] = IF k = kind THEN {r} ELSE boxes[k]
  BY <1>2 DEF BoxesAreRight
<1>5. new = [k \in MV(p, m, t)!Kinds |-> new[k]]
  BY <1>2, <1>4 DEF BoxesAreRight
<1> QED BY <1>3, <1>4, <1>5 DEF BoxesAreRight, new

LEMMA EmptiedIs ==
  ASSUME NEW p, NEW m, NEW t, NEW boxes, BoxesAreRight(p, m, t, boxes), NEW kind
  PROVE  BoxesAreRight(p, m, t, [boxes EXCEPT ![kind] = {}])
<1> DEFINE new == [boxes EXCEPT ![kind] = {}]
<1>1. DOMAIN new = MV(p, m, t)!Kinds /\ \A k \in MV(p, m, t)!Kinds : new[k] = {} \/ new[k] = boxes[k]
  BY DEF BoxesAreRight
<1>2. new = [k \in MV(p, m, t)!Kinds |-> new[k]]
  BY DEF BoxesAreRight
<1> HIDE DEF new
<1> QED BY <1>1, <1>2 DEF BoxesAreRight, BoxIsRight, new

LEMMA PanelsAskIs ==
  ASSUME NEW p, NEW m, NEW t, ViewsAreSound(p, m, t), NEW boxes, BoxesAreRight(p, m, t, boxes),
         NEW cached \in [MV(p, m, t)!Slots -> MV(p, m, t)!Slot], NEW there \in Refs \cup {MV(p, m, t)!Nowhere}
  PROVE  BoxesAreRight(p, m, t, MV(p, m, t)!PanelsAsk(boxes, cached, there))
<1> DEFINE new == MV(p, m, t)!PanelsAsk(boxes, cached, there)
           askers(k) == {s \in MV(p, m, t)!Slots : p[s] = k /\ MV(p, m, t)!Wanted(cached, s, there) # MV(p, m, t)!Nowhere}
           last(k) == CHOOSE s \in askers(k) : \A u \in askers(k) : u <= s
<1>1. new = [k \in MV(p, m, t)!Kinds |-> IF askers(k) = {} THEN boxes[k]
                              ELSE {[slot |-> last(k), reference |-> MV(p, m, t)!Wanted(cached, last(k), there)]}]
  BY DEF MV!PanelsAsk
<1>2. ASSUME NEW s \in MV(p, m, t)!Slots  PROVE MV(p, m, t)!Wanted(cached, s, there) \in Refs \cup {MV(p, m, t)!Nowhere}
  BY DEF MV!Wanted, MV!Slot
<1>3. ASSUME NEW k, askers(k) # {}  PROVE last(k) \in askers(k)
  <2>1. Len(p) + 1 \in Nat /\ \A s \in askers(k) : s \in Nat /\ s < Len(p) + 1
    BY PanelsAre
  <2>2. \E s \in askers(k) : \A u \in askers(k) : u <= s
    <3> HIDE DEF askers
    <3> QED BY <1>3, <2>1, LastOf
  <2> HIDE DEF askers
  <2> QED BY <2>2
<1>4. ASSUME NEW k \in MV(p, m, t)!Kinds, askers(k) # {}
      PROVE  BoxIsRight(p, m, t, k, {[slot |-> last(k), reference |-> MV(p, m, t)!Wanted(cached, last(k), there)]})
  <2>1. last(k) \in MV(p, m, t)!Slots /\ p[last(k)] = k /\ MV(p, m, t)!Wanted(cached, last(k), there) \in Refs
    BY <1>2, <1>3, <1>4
  <2> HIDE DEF last
  <2>2. [slot |-> last(k), reference |-> MV(p, m, t)!Wanted(cached, last(k), there)] \in MV(p, m, t)!Request
    BY <2>1 DEF MV!Request
  <2> QED BY <2>1, <2>2 DEF BoxIsRight, IsFor, MV!Slots
<1> HIDE DEF askers, last
<1>5. \A k \in MV(p, m, t)!Kinds : BoxIsRight(p, m, t, k, new[k])
  BY <1>1, <1>4 DEF BoxesAreRight
<1>6. DOMAIN new = MV(p, m, t)!Kinds /\ new = [k \in MV(p, m, t)!Kinds |-> new[k]]
  BY <1>1
<1> HIDE DEF new
<1> QED BY <1>5, <1>6 DEF BoxesAreRight, new

-----------------------------------------------------------------------------
(* Steps of the memory panels. *)

CachesIn(s, c) == x3' = [x3 EXCEPT ![s] = c]

\* The places in ViewInv that one panel's new cache touches.
LEMMA CacheStep ==
  ASSUME NEW p, NEW m, NEW t, ViewsAreSound(p, m, t), ViewInv(p, m, t), NEW s \in MV(p, m, t)!Slots, NEW c,
         c \in MV(p, m, t)!Slot, s \in MV(p, m, t)!Memory => CachedIsRight(p, m, t, c), CachesIn(s, c)
  PROVE  /\ x3' \in [MV(p, m, t)!Slots -> MV(p, m, t)!Slot]
         /\ \A u \in MV(p, m, t)!Memory : CachedIsRight(p, m, t, x3'[u])
         /\ \A u \in MV(p, m, t)!Slots : u # s => x3'[u] = x3[u]
         /\ x3'[s] = c
<1>1. x3 \in [MV(p, m, t)!Slots -> MV(p, m, t)!Slot] /\ \A u \in MV(p, m, t)!Memory : CachedIsRight(p, m, t, x3[u])
  BY DEF ViewInv, ViewTypes
<1>2. MV(p, m, t)!Memory \subseteq MV(p, m, t)!Slots
  BY PanelsAre
<1>3. \A u \in MV(p, m, t)!Slots : x3'[u] = IF u = s THEN c ELSE x3[u]
  BY <1>1 DEF CachesIn
<1>4. x3' \in [MV(p, m, t)!Slots -> MV(p, m, t)!Slot]
  BY <1>1 DEF CachesIn
<1> QED BY <1>1, <1>2, <1>3, <1>4

\* An edit is still about its row when what is cached keeps its reference.
LEMMA EditsStep ==
  ASSUME NEW p, NEW m, NEW t, ViewInv(p, m, t), UNCHANGED <<x6, x7, x8>>,
         \A u \in MV(p, m, t)!Memory : x3'[u].reference = x3[u].reference
  PROVE  ViewEdits(p, m, t)'
BY DEF ViewInv, ViewEdits, MV!Memory, MV!Slots

\* The queues when no event comes or goes.
LEMMA BoxesStep ==
  ASSUME NEW p, NEW m, NEW t, ViewInv(p, m, t), BoxesAreRight(p, m, t, x14'), x15' = x15
  PROVE  ViewQueues(p, m, t)'
BY DEF ViewInv, ViewQueues

LEMMA CachesStep ==
  ASSUME NEW p, NEW m, NEW t, ViewInv(p, m, t), \A u \in MV(p, m, t)!Memory : CachedIsRight(p, m, t, x3'[u])
  PROVE  \A u \in MV(p, m, t)!Memory' : CachedIsRight(p, m, t, x3[u])'
BY DEF MV!Memory, MV!Slots

\* What the step of a user leaves of the invariant when nothing is cached,
\* asked for or edited.
LEMMA KeptStep ==
  ASSUME NEW p, NEW m, NEW t, ViewInv(p, m, t), ViewTypes(p, m, t)', UNCHANGED <<x3, x6, x7, x8, x14, x15>>
  PROVE  ViewInv(p, m, t)'
<1>1. ViewEdits(p, m, t)'
  BY EditsStep
<1>2. ViewQueues(p, m, t)'
  BY DEF ViewInv, ViewQueues
<1> QED BY <1>1, <1>2 DEF ViewInv

LEMMA TouchIs ==
  ASSUME NEW p, NEW m, NEW t, ViewsAreSound(p, m, t), ViewInv(p, m, t), MV(p, m, t)!Touch
  PROVE  x16' \in 0..t
BY DEF ViewsAreSound, ViewInv, ViewTypes, MV!Touch

LEMMA ViewInit ==
  ASSUME NEW p, NEW m, NEW t, ViewsAreSound(p, m, t), MV(p, m, t)!Init
  PROVE  ViewInv(p, m, t)
<1>1. MV(p, m, t)!NoData \in MV(p, m, t)!Dumps
  BY DEF ViewsAreSound, MV!NoData, MV!Dumps
<1>2. -1 \in -1..m - 1 /\ 0 \in 0..m
  BY DEF ViewsAreSound
<1>3. MV(p, m, t)!EmptySlot \in MV(p, m, t)!Slot
  BY <1>1, <1>2 DEF MV!EmptySlot, MV!Slot, MV!NoText, MV!Nowhere
<1>4. CachedIsRight(p, m, t, MV(p, m, t)!EmptySlot)
  BY <1>3 DEF MV!EmptySlot, CachedIsRight
<1>5. ViewTypes(p, m, t)
  <2>1. x16 \in 0..t /\ x17 \in 0..MaxStops
    BY DEF MV!Init, ViewsAreSound
  <2>2. x3 \in [MV(p, m, t)!Slots -> MV(p, m, t)!Slot]
    BY <1>3 DEF MV!Init
  <2>3. x4 \in [MV(p, m, t)!Memory -> [now : Sought \cup {MV(p, m, t)!NoText}, before : Sought \cup {MV(p, m, t)!NoText}]]
    BY DEF MV!Init
  <2> QED BY <2>1, <2>2, <2>3 DEF MV!Init, ViewTypes
<1>6. \A s \in MV(p, m, t)!Memory : CachedIsRight(p, m, t, x3[s])
  BY <1>4, PanelsAre DEF MV!Init
<1>7. ViewEdits(p, m, t)
  BY DEF MV!Init, ViewEdits
<1>8. BoxesAreRight(p, m, t, x14)
  BY DEF MV!Init, BoxesAreRight, BoxIsRight
<1>9. x15 \in Seq(ViewEvent(p, m, t)) /\ Len(x15) <= MaxEvents
  BY DEF MV!Init, ViewsAreSound
<1> QED BY <1>5, <1>6, <1>7, <1>8, <1>9 DEF ViewInv, ViewQueues

LEMMA ViewResume ==
  ASSUME NEW p, NEW m, NEW t, ViewsAreSound(p, m, t), ViewInv(p, m, t), MV(p, m, t)!Resume
  PROVE  ViewInv(p, m, t)'
<1>1. ViewTypes(p, m, t)'
  BY DEF ViewInv, ViewTypes, MV!Resume, MV!panelVars
<1>2. BoxesAreRight(p, m, t, x14')
  BY EmptiedIs DEF ViewInv, ViewQueues, MV!Resume
<1>3. ViewEdits(p, m, t)'
  BY EditsStep DEF MV!Resume, MV!panelVars
<1>4. ViewQueues(p, m, t)'
  BY <1>2, BoxesStep DEF MV!Resume
<1> QED BY <1>1, <1>3, <1>4 DEF ViewInv, MV!Resume

LEMMA ViewStop ==
  ASSUME NEW p, NEW m, NEW t, ViewsAreSound(p, m, t), ViewInv(p, m, t), MV(p, m, t)!Stop
  PROVE  ViewInv(p, m, t)'
<1>1. ViewTypes(p, m, t)'
  BY DEF ViewInv, ViewTypes, MV!Stop, MV!panelVars, ViewsAreSound
<1>2. BoxesAreRight(p, m, t, x14')
  BY PanelsAskIs DEF ViewInv, ViewTypes, ViewQueues, MV!Stop
<1>3. ViewEdits(p, m, t)'
  BY EditsStep DEF MV!Stop, MV!panelVars
<1>4. ViewQueues(p, m, t)'
  BY <1>2, BoxesStep DEF MV!Stop
<1> QED BY <1>1, <1>3, <1>4 DEF ViewInv, MV!Stop

LEMMA ViewRestart ==
  ASSUME NEW p, NEW m, NEW t, ViewsAreSound(p, m, t), ViewInv(p, m, t), MV(p, m, t)!Restart
  PROVE  ViewInv(p, m, t)'
<1>1. ViewTypes(p, m, t)'
  BY TouchIs DEF ViewInv, ViewTypes, MV!Restart, MV!panelVars
<1>2. BoxesAreRight(p, m, t, x14')
  BY DEF BoxesAreRight, BoxIsRight, MV!Restart
<1>3. ViewEdits(p, m, t)'
  BY EditsStep DEF MV!Restart, MV!panelVars
<1>4. ViewQueues(p, m, t)'
  BY <1>2, BoxesStep DEF MV!Restart
<1> QED BY <1>1, <1>3, <1>4 DEF ViewInv, MV!Restart

LEMMA ViewServe ==
  ASSUME NEW p, NEW m, NEW t, ViewsAreSound(p, m, t), ViewInv(p, m, t), NEW kind \in MV(p, m, t)!Kinds, MV(p, m, t)!Serve(kind)
  PROVE  ViewInv(p, m, t)'
<1> PICK r \in x14[kind], ok \in BOOLEAN, data \in MV(p, m, t)!Dumps :
            /\ x14' = [x14 EXCEPT ![kind] = {}]
            /\ \E there \in IF kind = "evaluate" /\ ok THEN Refs \cup {MV(p, m, t)!Nowhere} ELSE {r.reference} :
                x15' = Append(x15, [kind |-> kind, success |-> ok, slot |-> r.slot,
                                    reference |-> there, data |-> data])
  BY DEF MV!Serve
<1> PICK there \in IF kind = "evaluate" /\ ok THEN Refs \cup {MV(p, m, t)!Nowhere} ELSE {r.reference} :
            x15' = Append(x15, [kind |-> kind, success |-> ok, slot |-> r.slot,
                                reference |-> there, data |-> data])
  OBVIOUS
<1> DEFINE e == [kind |-> kind, success |-> ok, slot |-> r.slot, reference |-> there, data |-> data]
<1>1. r \in MV(p, m, t)!Request /\ IsFor(p, kind, r)
  BY DEF ViewInv, ViewQueues, BoxesAreRight, BoxIsRight
<1>2. there \in Refs \cup {MV(p, m, t)!Nowhere} /\ (kind # "evaluate" => there = r.reference)
  BY <1>1 DEF MV!Request
<1>3. e \in MV(p, m, t)!Event
  BY <1>1, <1>2 DEF MV!Event, MV!Request
<1>4. IsFor(p, e.kind, e)
  BY <1>1, <1>2 DEF IsFor
<1>5. e \in ViewEvent(p, m, t)
  BY <1>3, <1>4 DEF ViewEvent
<1> HIDE DEF e
<1>6. x15' = Append(x15, e)
  BY DEF e
<1>7. x15' \in Seq(ViewEvent(p, m, t)) /\ Len(x15') <= MaxEvents
  BY <1>5, <1>6, AppendProperties DEF ViewInv, ViewQueues, MV!Serve, ViewsAreSound
<1>8. BoxesAreRight(p, m, t, x14')
  BY EmptiedIs DEF ViewInv, ViewQueues
<1>9. ViewQueues(p, m, t)'
  BY <1>7, <1>8 DEF ViewQueues
<1>10. ViewTypes(p, m, t)'
  BY DEF ViewInv, ViewTypes, MV!Serve, MV!panelVars
<1>11. ViewEdits(p, m, t)'
  BY EditsStep DEF MV!Serve, MV!panelVars
<1> QED BY <1>9, <1>10, <1>11 DEF ViewInv, MV!Serve

-----------------------------------------------------------------------------
(* Answers. *)

\* The event that is handled, and the queue of the others.
LEMMA HeadIs ==
  ASSUME NEW p, NEW m, NEW t, ViewsAreSound(p, m, t), ViewInv(p, m, t), x15 # <<>>
  PROVE  /\ Head(x15) \in ViewEvent(p, m, t)
         /\ Tail(x15) \in Seq(ViewEvent(p, m, t)) /\ Len(Tail(x15)) <= MaxEvents
BY HeadTailProperties DEF ViewInv, ViewQueues, ViewsAreSound

LEMMA PolledIs ==
  ASSUME NEW p, NEW m, NEW t, ViewsAreSound(p, m, t), ViewInv(p, m, t),
         NEW boxes, BoxesAreRight(p, m, t, boxes), NEW cached \in [MV(p, m, t)!Slots -> MV(p, m, t)!Slot]
  PROVE  BoxesAreRight(p, m, t, MV(p, m, t)!Polled(boxes, cached))
BY PanelsAskIs DEF ViewInv, ViewTypes, MV!Polled

LEMMA ViewMemoryReady ==
  ASSUME NEW p, NEW m, NEW t, ViewsAreSound(p, m, t), ViewInv(p, m, t), NEW e \in ViewEvent(p, m, t),
         e.kind = "memory", MV(p, m, t)!MemoryReady(e), UNCHANGED <<x1, x2, x16, x17>>
  PROVE  /\ ViewTypes(p, m, t)' /\ ViewEdits(p, m, t)' /\ BoxesAreRight(p, m, t, x14')
         /\ \A u \in MV(p, m, t)!Memory : CachedIsRight(p, m, t, x3'[u])
<1> PICK s : s = e.slot
  OBVIOUS
<1>1. s \in MV(p, m, t)!Memory /\ s \in MV(p, m, t)!Slots /\ e.reference \in Refs /\ e.data \in MV(p, m, t)!Dumps
  BY PanelsAre DEF ViewEvent, MV!Event, IsFor, MV!Memory, MV!Slots
<1>2. CachedIsRight(p, m, t, x3[s]) /\ x3 \in [MV(p, m, t)!Slots -> MV(p, m, t)!Slot]
  BY <1>1 DEF ViewInv, ViewTypes
<1> PICK c : c = IF e.success THEN MV(p, m, t)!Redumped(x3[s], e.reference, e.data) ELSE MV(p, m, t)!Unread(x3[s])
  OBVIOUS
<1>3. CachedIsRight(p, m, t, c) /\ c.reference = IF e.success THEN e.reference ELSE x3[s].reference
  BY <1>1, <1>2, RedumpedIs, UnreadIs
<1>4. CachesIn(s, c)
  BY DEF CachesIn, MV!MemoryReady
<1>5. c \in MV(p, m, t)!Slot
  BY <1>3 DEF CachedIsRight
<1>6. /\ x3' \in [MV(p, m, t)!Slots -> MV(p, m, t)!Slot]
      /\ \A u \in MV(p, m, t)!Memory : CachedIsRight(p, m, t, x3'[u])
      /\ \A u \in MV(p, m, t)!Slots : u # s => x3'[u] = x3[u]
      /\ x3'[s] = c
  BY <1>1, <1>3, <1>4, <1>5, CacheStep
<1>7. ViewTypes(p, m, t)'
  BY <1>6 DEF ViewInv, ViewTypes, MV!MemoryReady, MV!Slots, MV!Memory
<1>8. BoxesAreRight(p, m, t, x14')
  BY <1>6, PolledIs DEF ViewInv, ViewQueues, MV!MemoryReady
<1>9. ViewEdits(p, m, t)'
  <2>1. x8 \in [MV(p, m, t)!Memory -> SUBSET (Refs \X EditedRows)]
    BY DEF ViewInv, ViewEdits
  <2>2. x8' = [x8 EXCEPT ![s] = IF e.success /\ e.reference # x3[s].reference THEN {} ELSE x8[s]]
    BY DEF MV!MemoryReady
  <2>3. x8' \in [MV(p, m, t)!Memory -> SUBSET (Refs \X EditedRows)]
        /\ \A u \in MV(p, m, t)!Memory : x8'[u] = IF u = s /\ e.success /\ e.reference # x3[s].reference THEN {} ELSE x8[u]
    BY <2>1, <2>2
  <2>4. x6' = x6 /\ x7' = x7
    BY DEF MV!MemoryReady
  <2>5. ASSUME NEW u \in MV(p, m, t)!Memory, NEW row \in x6[u]  PROVE x8'[u] \subseteq {<<x3'[u].reference, row>>}
    <3>1. x8[u] \subseteq {<<x3[u].reference, row>>}
      BY DEF ViewInv, ViewEdits
    <3>2. CASE u # s
      BY <1>6, <2>3, <3>1, <3>2, PanelsAre
    <3>3. CASE u = s
      BY <1>3, <1>6, <2>3, <3>1, <3>3
    <3> QED BY <3>2, <3>3
  <2> QED BY <2>3, <2>4, <2>5 DEF ViewInv, ViewEdits, MV!Memory, MV!Slots
<1> QED BY <1>6, <1>7, <1>8, <1>9

LEMMA ViewListingReady ==
  ASSUME NEW p, NEW m, NEW t, ViewsAreSound(p, m, t), ViewInv(p, m, t), NEW e \in ViewEvent(p, m, t),
         e.kind \in {"disassembly", "runtime"}, MV(p, m, t)!ListingReady(e), UNCHANGED <<x1, x2, x16, x17>>
  PROVE  /\ ViewTypes(p, m, t)' /\ ViewEdits(p, m, t)' /\ BoxesAreRight(p, m, t, x14')
         /\ \A u \in MV(p, m, t)!Memory : CachedIsRight(p, m, t, x3'[u])
<1> PICK s : s = e.slot
  OBVIOUS
<1>1. s \notin MV(p, m, t)!Memory /\ s \in MV(p, m, t)!Slots /\ e.reference \in Refs \cup {MV(p, m, t)!Nowhere}
  BY DEF ViewEvent, MV!Event, IsFor, MV!Memory, MV!Slots
<1>2. x3[s] \in MV(p, m, t)!Slot
  BY <1>1 DEF ViewInv, ViewTypes
<1> PICK c : c = IF e.success THEN [x3[s] EXCEPT !.reference = e.reference, !.lines = "dump"]
                 ELSE [x3[s] EXCEPT !.lines = "failed"]
  OBVIOUS
<1>3. c \in MV(p, m, t)!Slot
  BY <1>1, <1>2 DEF MV!Slot
<1>4. CachesIn(s, c)
  BY DEF CachesIn, MV!ListingReady
<1>5. /\ x3' \in [MV(p, m, t)!Slots -> MV(p, m, t)!Slot]
      /\ \A u \in MV(p, m, t)!Memory : CachedIsRight(p, m, t, x3'[u])
      /\ \A u \in MV(p, m, t)!Slots : u # s => x3'[u] = x3[u]
  BY <1>1, <1>3, <1>4, CacheStep
<1>6. ViewTypes(p, m, t)'
  BY <1>5 DEF ViewInv, ViewTypes, MV!ListingReady, MV!panelVars, MV!Slots, MV!Memory
<1>7. BoxesAreRight(p, m, t, x14')
  BY <1>5, PolledIs DEF ViewInv, ViewQueues, MV!ListingReady
<1>8. \A u \in MV(p, m, t)!Memory : x3'[u].reference = x3[u].reference
  BY <1>1, <1>5, PanelsAre
<1>9. ViewEdits(p, m, t)'
  BY <1>8, EditsStep DEF MV!ListingReady, MV!panelVars
<1> QED BY <1>5, <1>6, <1>7, <1>9

LEMMA ViewWritten ==
  ASSUME NEW p, NEW m, NEW t, ViewsAreSound(p, m, t), ViewInv(p, m, t), NEW e \in ViewEvent(p, m, t),
         MV(p, m, t)!WriteMemoryFinished(e), UNCHANGED <<x1, x2, x16, x17>>
  PROVE  /\ ViewTypes(p, m, t)' /\ ViewEdits(p, m, t)' /\ BoxesAreRight(p, m, t, x14')
         /\ \A u \in MV(p, m, t)!Memory : CachedIsRight(p, m, t, x3'[u])
<1>1. x3 \in [MV(p, m, t)!Slots -> MV(p, m, t)!Slot] /\ x2 \in Refs \cup {MV(p, m, t)!Nowhere} /\ BoxesAreRight(p, m, t, x14)
  BY DEF ViewInv, ViewTypes, ViewQueues
<1> PICK boxes : boxes = IF e.success /\ x1 THEN MV(p, m, t)!PanelsAsk(x14, x3, x2) ELSE x14
  OBVIOUS
<1>2. BoxesAreRight(p, m, t, boxes)
  BY <1>1, PanelsAskIs
<1>3. BoxesAreRight(p, m, t, x14')
  BY <1>1, <1>2, PolledIs DEF MV!WriteMemoryFinished
<1>4. ViewTypes(p, m, t)'
  BY DEF ViewInv, ViewTypes, MV!WriteMemoryFinished
<1>5. ViewEdits(p, m, t)'
  BY EditsStep DEF MV!WriteMemoryFinished
<1> QED BY <1>3, <1>4, <1>5 DEF ViewInv, MV!WriteMemoryFinished

LEMMA ViewEvaluated ==
  ASSUME NEW p, NEW m, NEW t, ViewsAreSound(p, m, t), ViewInv(p, m, t), NEW e \in ViewEvent(p, m, t),
         MV(p, m, t)!EvaluateFinished(e), UNCHANGED <<x1, x2, x16, x17>>
  PROVE  /\ ViewTypes(p, m, t)' /\ ViewEdits(p, m, t)' /\ BoxesAreRight(p, m, t, x14')
         /\ \A u \in MV(p, m, t)!Memory : CachedIsRight(p, m, t, x3'[u])
<1>1. x3 \in [MV(p, m, t)!Slots -> MV(p, m, t)!Slot] /\ BoxesAreRight(p, m, t, x14) /\ x13 \in MV(p, m, t)!Memory \cup {0}
      /\ \A u \in MV(p, m, t)!Memory : CachedIsRight(p, m, t, x3[u])
  BY DEF ViewInv, ViewTypes, ViewQueues
<1>2. e.reference \in Refs \cup {MV(p, m, t)!Nowhere}
  BY DEF ViewEvent, MV!Event
<1>3. x13' = 0 /\ UNCHANGED <<x4, x6, x7, x8, x9, x10, x11, x12>>
  BY DEF MV!EvaluateFinished
<1>4. CASE ~(x13 # 0 /\ e.success /\ e.reference # MV(p, m, t)!Nowhere)
  <2>1. x14' = MV(p, m, t)!Polled(x14, x3) /\ UNCHANGED <<x3, x5>>
    BY <1>4 DEF MV!EvaluateFinished
  <2>2. BoxesAreRight(p, m, t, x14')
    BY <1>1, <2>1, PolledIs
  <2>3. ViewTypes(p, m, t)'
    BY <1>3, <2>1 DEF ViewInv, ViewTypes
  <2>4. ViewEdits(p, m, t)'
    BY <1>3, <2>1, EditsStep
  <2> QED BY <1>1, <2>1, <2>2, <2>3, <2>4
<1>5. CASE x13 # 0 /\ e.success /\ e.reference # MV(p, m, t)!Nowhere
  <2>1. x13 \in MV(p, m, t)!Memory /\ x13 \in MV(p, m, t)!Slots /\ p[x13] = "memory" /\ e.reference \in Refs
    BY <1>1, <1>2, <1>5, PanelsAre DEF MV!Memory
  <2> PICK c : c = MV(p, m, t)!Navigated(x3[x13], e.reference)
    OBVIOUS
  <2>2. CachedIsRight(p, m, t, c) /\ c.reference = x3[x13].reference
    BY <1>1, <1>2, <2>1, NavigatedIs
  <2>3. /\ CachesIn(x13, c) /\ x5' = [x5 EXCEPT ![x13] = "None"]
        /\ x14' = MV(p, m, t)!Polled(MV(p, m, t)!Ask(x14, "memory", x13, e.reference), x3')
    BY <1>5 DEF CachesIn, MV!EvaluateFinished
  <2>4. c \in MV(p, m, t)!Slot
    BY <2>2 DEF CachedIsRight
  <2>5. /\ x3' \in [MV(p, m, t)!Slots -> MV(p, m, t)!Slot]
        /\ \A u \in MV(p, m, t)!Memory : CachedIsRight(p, m, t, x3'[u])
        /\ \A u \in MV(p, m, t)!Slots : u # x13 => x3'[u] = x3[u]
        /\ x3'[x13] = c
    BY <2>1, <2>2, <2>3, <2>4, CacheStep
  <2>6. BoxesAreRight(p, m, t, MV(p, m, t)!Ask(x14, "memory", x13, e.reference))
    <3>1. IsFor(p, "memory", [slot |-> x13, reference |-> e.reference])
      BY <2>1 DEF IsFor, MV!Slots
    <3>2. "memory" \in MV(p, m, t)!Kinds
      BY DEF MV!Kinds
    <3> QED BY <1>1, <1>2, <2>1, <3>1, <3>2, AskIs
  <2>7. BoxesAreRight(p, m, t, x14')
    BY <2>3, <2>5, <2>6, PolledIs
  <2>8. ViewTypes(p, m, t)'
    BY <1>3, <2>3, <2>5 DEF ViewInv, ViewTypes, MV!Slots, MV!Memory
  <2>9. \A u \in MV(p, m, t)!Memory : x3'[u].reference = x3[u].reference
    BY <2>2, <2>5, PanelsAre
  <2>10. ViewEdits(p, m, t)'
    BY <1>3, <2>9, EditsStep
  <2> QED BY <2>5, <2>7, <2>8, <2>10
<1> QED BY <1>4, <1>5

LEMMA ViewHandled ==
  ASSUME NEW p, NEW m, NEW t, ViewsAreSound(p, m, t), ViewInv(p, m, t), MV(p, m, t)!HandleEvent
  PROVE  ViewInv(p, m, t)'
<1> PICK e : e = Head(x15)
  OBVIOUS
<1>1. /\ x15 # <<>> /\ x15' = Tail(x15) /\ UNCHANGED <<x1, x2, x16, x17>>
      /\ CASE e.kind = "memory" -> MV(p, m, t)!MemoryReady(e)
           [] e.kind \in {"disassembly", "runtime"} -> MV(p, m, t)!ListingReady(e)
           [] e.kind = "write" -> MV(p, m, t)!WriteMemoryFinished(e)
           [] e.kind = "evaluate" -> MV(p, m, t)!EvaluateFinished(e)
  BY DEF MV!HandleEvent
<1>2. e \in ViewEvent(p, m, t) /\ x15' \in Seq(ViewEvent(p, m, t)) /\ Len(x15') <= MaxEvents
  BY <1>1, HeadIs
<1>3. e.kind \in {"memory", "disassembly", "runtime", "write", "evaluate"}
  BY <1>2 DEF ViewEvent, MV!Event, MV!Kinds
<1>4. /\ ViewTypes(p, m, t)' /\ ViewEdits(p, m, t)' /\ BoxesAreRight(p, m, t, x14')
      /\ \A u \in MV(p, m, t)!Memory : CachedIsRight(p, m, t, x3'[u])
  <2>1. CASE e.kind = "memory"
    BY <1>1, <1>2, <2>1, ViewMemoryReady
  <2>2. CASE e.kind \in {"disassembly", "runtime"}
    BY <1>1, <1>2, <2>2, ViewListingReady
  <2>3. CASE e.kind = "write"
    BY <1>1, <1>2, <2>3, ViewWritten
  <2>4. CASE e.kind = "evaluate"
    BY <1>1, <1>2, <2>4, ViewEvaluated
  <2> QED BY <1>3, <2>1, <2>2, <2>3, <2>4
<1>5. ViewQueues(p, m, t)'
  BY <1>2, <1>4 DEF ViewQueues
<1> QED BY <1>4, <1>5 DEF ViewInv, MV!Memory, MV!Slots

-----------------------------------------------------------------------------
(* The user's steps in the panels. *)

\* A toolbar gets the keys.
LEMMA FocusInputIs ==
  ASSUME NEW p, NEW m, NEW t, ViewsAreSound(p, m, t), ViewInv(p, m, t), NEW s \in MV(p, m, t)!Memory,
         NEW input \in {"None", "Address", "Search"}, MV(p, m, t)!FocusInput(s, input)
  PROVE  /\ x4' \in [MV(p, m, t)!Memory -> [now : Sought \cup {MV(p, m, t)!NoText}, before : Sought \cup {MV(p, m, t)!NoText}]]
         /\ x5' \in [MV(p, m, t)!Memory -> {"None", "Address", "Search"}]
<1> DEFINE Texts == [now : Sought \cup {MV(p, m, t)!NoText}, before : Sought \cup {MV(p, m, t)!NoText}]
<1>1. x4 \in [MV(p, m, t)!Memory -> Texts] /\ x5 \in [MV(p, m, t)!Memory -> {"None", "Address", "Search"}]
  BY DEF ViewInv, ViewTypes
<1>2. x5' \in [MV(p, m, t)!Memory -> {"None", "Address", "Search"}]
  BY <1>1 DEF MV!FocusInput
<1> PICK new : new = [x4[s] EXCEPT !.before = IF input = "Search" THEN x4[s].now ELSE x4[s].before]
  OBVIOUS
<1>3. new \in Texts
  BY <1>1
<1>4. x4' = [x4 EXCEPT ![s] = new]
  BY <1>1 DEF MV!FocusInput
<1> HIDE DEF Texts
<1>5. x4' \in [MV(p, m, t)!Memory -> Texts]
  BY <1>1, <1>3, <1>4
<1> QED BY <1>2, <1>5 DEF Texts

LEMMA ViewClickList ==
  ASSUME NEW p, NEW m, NEW t, ViewsAreSound(p, m, t), ViewInv(p, m, t), NEW s \in MV(p, m, t)!Memory, MV(p, m, t)!ClickList(s)
  PROVE  ViewInv(p, m, t)'
<1>1. ViewTypes(p, m, t)'
  BY TouchIs DEF ViewInv, ViewTypes, MV!ClickList, MV!Memory, MV!Slots
<1> QED BY <1>1, KeptStep DEF MV!ClickList

LEMMA ViewClickToolbar ==
  ASSUME NEW p, NEW m, NEW t, ViewsAreSound(p, m, t), ViewInv(p, m, t), NEW s \in MV(p, m, t)!Memory,
         NEW input \in {"Address", "Search"}, MV(p, m, t)!ClickToolbar(s, input)
  PROVE  ViewInv(p, m, t)'
<1>1. input \in {"None", "Address", "Search"} /\ MV(p, m, t)!FocusInput(s, input) /\ MV(p, m, t)!Touch
  BY DEF MV!ClickToolbar
<1>2. /\ x4' \in [MV(p, m, t)!Memory -> [now : Sought \cup {MV(p, m, t)!NoText}, before : Sought \cup {MV(p, m, t)!NoText}]]
      /\ x5' \in [MV(p, m, t)!Memory -> {"None", "Address", "Search"}]
  BY <1>1, FocusInputIs
<1>3. x9' = s /\ x10' = TRUE /\ x11' = FALSE /\ UNCHANGED <<x1, x2, x3, x12, x13, x17>>
  BY DEF MV!ClickToolbar
<1>4. ViewTypes(p, m, t)'
  BY <1>1, <1>2, <1>3, TouchIs DEF ViewInv, ViewTypes, MV!Memory, MV!Slots
<1> QED BY <1>4, KeptStep DEF MV!ClickToolbar

LEMMA ViewOpenToolbar ==
  ASSUME NEW p, NEW m, NEW t, ViewsAreSound(p, m, t), ViewInv(p, m, t),
         NEW input \in {"Address", "Search"}, MV(p, m, t)!OpenToolbar(input)
  PROVE  ViewInv(p, m, t)'
<1> PICK s : s = MV(p, m, t)!KeyPanel
  OBVIOUS
<1>1. s \in MV(p, m, t)!Memory
  BY KeyPanelIs DEF ViewInv, ViewTypes
<1>2. input \in {"None", "Address", "Search"} /\ MV(p, m, t)!FocusInput(s, input) /\ MV(p, m, t)!Touch
  BY DEF MV!OpenToolbar
<1>3. /\ x4' \in [MV(p, m, t)!Memory -> [now : Sought \cup {MV(p, m, t)!NoText}, before : Sought \cup {MV(p, m, t)!NoText}]]
      /\ x5' \in [MV(p, m, t)!Memory -> {"None", "Address", "Search"}]
  BY <1>1, <1>2, FocusInputIs
<1>4. x9' = s /\ x10' = TRUE /\ UNCHANGED <<x1, x2, x3, x11, x12, x13, x17>>
  BY DEF MV!OpenToolbar
<1>5. ViewTypes(p, m, t)'
  BY <1>1, <1>2, <1>3, <1>4, TouchIs DEF ViewInv, ViewTypes, MV!Memory, MV!Slots
<1> QED BY <1>5, KeptStep DEF MV!OpenToolbar

LEMMA ViewSwitchInput ==
  ASSUME NEW p, NEW m, NEW t, ViewsAreSound(p, m, t), ViewInv(p, m, t), NEW s \in MV(p, m, t)!Memory, MV(p, m, t)!SwitchInput(s)
  PROVE  ViewInv(p, m, t)'
<1> PICK input \in {"None", "Address", "Search"} : MV(p, m, t)!FocusInput(s, input)
  BY DEF MV!SwitchInput
<1>1. ViewTypes(p, m, t)'
  BY TouchIs, FocusInputIs DEF ViewInv, ViewTypes, MV!SwitchInput, MV!Memory, MV!Slots
<1> QED BY <1>1, KeptStep DEF MV!SwitchInput

LEMMA ViewSubmitRepl ==
  ASSUME NEW p, NEW m, NEW t, ViewsAreSound(p, m, t), ViewInv(p, m, t), MV(p, m, t)!SubmitRepl
  PROVE  ViewInv(p, m, t)'
<1>1. ViewTypes(p, m, t)'
  BY TouchIs DEF ViewInv, ViewTypes, MV!SubmitRepl, MV!panelVars
<1>2. BoxesAreRight(p, m, t, x14')
  <2>1. IsFor(p, "evaluate", [slot |-> MV(p, m, t)!ReplSlot, reference |-> MV(p, m, t)!Nowhere])
    BY DEF IsFor
  <2>2. "evaluate" \in MV(p, m, t)!Kinds
    BY DEF MV!Kinds
  <2>3. BoxesAreRight(p, m, t, x14) /\ x14' = MV(p, m, t)!Ask(x14, "evaluate", MV(p, m, t)!ReplSlot, MV(p, m, t)!Nowhere)
    BY DEF ViewInv, ViewQueues, MV!SubmitRepl
  <2> QED BY <2>1, <2>2, <2>3, AskIs
<1>3. ViewEdits(p, m, t)'
  BY EditsStep DEF MV!SubmitRepl, MV!panelVars
<1>4. ViewQueues(p, m, t)'
  BY <1>2, BoxesStep DEF MV!SubmitRepl
<1> QED BY <1>1, <1>3, <1>4 DEF ViewInv, MV!SubmitRepl

LEMMA ViewReload ==
  ASSUME NEW p, NEW m, NEW t, ViewsAreSound(p, m, t), ViewInv(p, m, t), NEW s \in MV(p, m, t)!Slots, MV(p, m, t)!Reload(s)
  PROVE  ViewInv(p, m, t)'
<1>1. ViewTypes(p, m, t)'
  BY TouchIs DEF ViewInv, ViewTypes, MV!Reload, MV!panelVars
<1> PICK mine : mine = IF p[s] = "memory" /\ x3[s].view # MV(p, m, t)!Nowhere THEN x3[s].view ELSE x3[s].reference
  OBVIOUS
<1>2. x3 \in [MV(p, m, t)!Slots -> MV(p, m, t)!Slot] /\ BoxesAreRight(p, m, t, x14) /\ x2 \in Refs \cup {MV(p, m, t)!Nowhere}
  BY DEF ViewInv, ViewTypes, ViewQueues
<1>3. mine \in Refs \cup {MV(p, m, t)!Nowhere}
  BY <1>2 DEF MV!Slot
<1>4. x14' = IF mine # MV(p, m, t)!Nowhere THEN MV(p, m, t)!Ask(x14, p[s], s, mine)
             ELSE IF x1 THEN MV(p, m, t)!PanelsAsk(x14, x3, x2) ELSE x14
  BY DEF MV!Reload
<1>5. mine # MV(p, m, t)!Nowhere => BoxesAreRight(p, m, t, MV(p, m, t)!Ask(x14, p[s], s, mine))
  <2>1. p[s] \in MV(p, m, t)!Kinds
    BY PanelsAre DEF MV!Kinds
  <2>2. mine # MV(p, m, t)!Nowhere => IsFor(p, p[s], [slot |-> s, reference |-> mine])
    BY <1>3 DEF IsFor, MV!Slots
  <2> QED BY <1>2, <1>3, <2>1, <2>2, AskIs
<1>6. BoxesAreRight(p, m, t, MV(p, m, t)!PanelsAsk(x14, x3, x2))
  BY <1>2, PanelsAskIs
<1>7. BoxesAreRight(p, m, t, x14')
  BY <1>2, <1>4, <1>5, <1>6
<1>8. ViewEdits(p, m, t)'
  BY EditsStep DEF MV!Reload, MV!panelVars
<1>9. ViewQueues(p, m, t)'
  BY <1>7, BoxesStep DEF MV!Reload
<1> QED BY <1>1, <1>8, <1>9 DEF ViewInv, MV!Reload

\* The search input of a panel holds another text, and its cache is searched.
LEMMA RetypedStep ==
  ASSUME NEW p, NEW m, NEW t, ViewsAreSound(p, m, t), ViewInv(p, m, t), NEW s \in MV(p, m, t)!Memory, NEW c,
         CachedIsRight(p, m, t, c), c.reference = x3[s].reference, CachesIn(s, c),
         ViewTypes(p, m, t)', UNCHANGED <<x6, x7, x8, x14, x15>>
  PROVE  ViewInv(p, m, t)'
<1>1. c \in MV(p, m, t)!Slot /\ s \in MV(p, m, t)!Slots
  BY PanelsAre DEF CachedIsRight
<1>2. /\ \A u \in MV(p, m, t)!Memory : CachedIsRight(p, m, t, x3'[u])
      /\ \A u \in MV(p, m, t)!Slots : u # s => x3'[u] = x3[u]
      /\ x3'[s] = c
  BY <1>1, CacheStep
<1>3. \A u \in MV(p, m, t)!Memory : x3'[u].reference = x3[u].reference
  BY <1>2, PanelsAre
<1>4. ViewEdits(p, m, t)'
  BY <1>3, EditsStep
<1>5. ViewQueues(p, m, t)'
  BY DEF ViewInv, ViewQueues
<1> QED BY <1>2, <1>4, <1>5 DEF ViewInv, MV!Memory, MV!Slots

\* A cache of the right shape takes its place.
LEMMA CacheTypes ==
  ASSUME NEW p, NEW m, NEW t, ViewsAreSound(p, m, t), ViewInv(p, m, t), NEW s \in MV(p, m, t)!Memory, NEW c,
         CachedIsRight(p, m, t, c), CachesIn(s, c)
  PROVE  x3' \in [MV(p, m, t)!Slots -> MV(p, m, t)!Slot]
<1>1. c \in MV(p, m, t)!Slot /\ s \in MV(p, m, t)!Slots
  BY PanelsAre DEF CachedIsRight
<1> QED BY <1>1, CacheStep

LEMMA ViewTypeSearch ==
  ASSUME NEW p, NEW m, NEW t, ViewsAreSound(p, m, t), ViewInv(p, m, t), NEW s \in MV(p, m, t)!Memory,
         NEW q \in Sought \cup {MV(p, m, t)!NoText}, MV(p, m, t)!TypeSearch(s, q)
  PROVE  ViewInv(p, m, t)'
<1> PICK c : c = MV(p, m, t)!Preview(x3[s], q)
  OBVIOUS
<1>1. CachedIsRight(p, m, t, x3[s])
  BY DEF ViewInv
<1>2. CachedIsRight(p, m, t, c) /\ c.reference = x3[s].reference
  BY <1>1, PreviewIs
<1>3. CachesIn(s, c)
  BY DEF CachesIn, MV!TypeSearch
<1>4. x3' \in [MV(p, m, t)!Slots -> MV(p, m, t)!Slot]
  BY <1>2, <1>3, CacheTypes
<1>5. x4' \in [MV(p, m, t)!Memory -> [now : Sought \cup {MV(p, m, t)!NoText}, before : Sought \cup {MV(p, m, t)!NoText}]]
  BY DEF ViewInv, ViewTypes, MV!TypeSearch
<1>6. x9' \in MV(p, m, t)!Memory \cup {0} /\ x10' = TRUE
  BY DEF ViewInv, ViewTypes, MV!TypeSearch
<1>7. ViewTypes(p, m, t)'
  BY <1>4, <1>5, <1>6, TouchIs DEF ViewInv, ViewTypes, MV!TypeSearch, MV!Memory, MV!Slots
<1> QED BY <1>2, <1>3, <1>7, RetypedStep DEF MV!TypeSearch

LEMMA ViewSubmitSearch ==
  ASSUME NEW p, NEW m, NEW t, ViewsAreSound(p, m, t), ViewInv(p, m, t), NEW s \in MV(p, m, t)!Memory,
         NEW way \in {"confirm", "next", "previous"}, MV(p, m, t)!SubmitSearch(s, way)
  PROVE  ViewInv(p, m, t)'
<1> PICK q : q = x4[s].now
  OBVIOUS
<1>1. CachedIsRight(p, m, t, x3[s]) /\ q \in Sought \cup {MV(p, m, t)!NoText}
  BY DEF ViewInv, ViewTypes
<1> PICK c : c = MV(p, m, t)!Searched(x3[s], q, MV(p, m, t)!Step(x3[s], q, way))
  OBVIOUS
<1>2. CachedIsRight(p, m, t, c) /\ c.reference = x3[s].reference
  BY <1>1, StepIs
<1>3. CachesIn(s, c)
  BY DEF CachesIn, MV!SubmitSearch
<1>4. x3' \in [MV(p, m, t)!Slots -> MV(p, m, t)!Slot]
  BY <1>2, <1>3, CacheTypes
<1>5. x5' \in [MV(p, m, t)!Memory -> {"None", "Address", "Search"}]
  BY DEF ViewInv, ViewTypes, MV!SubmitSearch
<1>6. x9' \in MV(p, m, t)!Memory \cup {0} /\ x10' \in BOOLEAN
  BY DEF ViewInv, ViewTypes, MV!SubmitSearch
<1>7. ViewTypes(p, m, t)'
  BY <1>4, <1>5, <1>6, TouchIs DEF ViewInv, ViewTypes, MV!SubmitSearch, MV!Memory, MV!Slots
<1> QED BY <1>2, <1>3, <1>7, RetypedStep DEF MV!SubmitSearch

LEMMA ViewCancelToolbar ==
  ASSUME NEW p, NEW m, NEW t, ViewsAreSound(p, m, t), ViewInv(p, m, t), NEW s \in MV(p, m, t)!Memory, MV(p, m, t)!CancelToolbar(s)
  PROVE  ViewInv(p, m, t)'
<1> PICK back : back = IF x5[s] = "Search" THEN x4[s].before ELSE x4[s].now
  OBVIOUS
<1>1. CachedIsRight(p, m, t, x3[s]) /\ back \in Sought \cup {MV(p, m, t)!NoText}
  BY DEF ViewInv, ViewTypes
<1>2. x5' \in [MV(p, m, t)!Memory -> {"None", "Address", "Search"}] /\ x10' = FALSE
  BY DEF ViewInv, ViewTypes, MV!CancelToolbar
<1>3. CASE x5[s] = "None"
  <2>1. UNCHANGED <<x3, x4, x9>>
    BY <1>3 DEF MV!CancelToolbar
  <2>2. ViewTypes(p, m, t)'
    BY <1>2, <2>1, TouchIs DEF ViewInv, ViewTypes, MV!CancelToolbar
  <2> QED BY <2>1, <2>2, KeptStep DEF MV!CancelToolbar
<1>4. CASE x5[s] # "None"
  <2> PICK c : c = MV(p, m, t)!Preview(x3[s], back)
    OBVIOUS
  <2>1. CachedIsRight(p, m, t, c) /\ c.reference = x3[s].reference
    BY <1>1, PreviewIs
  <2>2. CachesIn(s, c)
    BY <1>4 DEF CachesIn, MV!CancelToolbar
  <2>3. x3' \in [MV(p, m, t)!Slots -> MV(p, m, t)!Slot]
    BY <2>1, <2>2, CacheTypes
  <2>4. x4' = [x4 EXCEPT ![s].now = back] /\ x9' = IF MV(p, m, t)!Matches(x3[s], back) > 0 THEN s ELSE x9
    BY <1>4 DEF MV!CancelToolbar
  <2>5. x4' \in [MV(p, m, t)!Memory -> [now : Sought \cup {MV(p, m, t)!NoText}, before : Sought \cup {MV(p, m, t)!NoText}]]
    BY <1>1, <2>4 DEF ViewInv, ViewTypes
  <2>6. x9' \in MV(p, m, t)!Memory \cup {0}
    BY <2>4 DEF ViewInv, ViewTypes
  <2>7. ViewTypes(p, m, t)'
    BY <1>2, <2>3, <2>5, <2>6, TouchIs DEF ViewInv, ViewTypes, MV!CancelToolbar, MV!Memory, MV!Slots
  <2> QED BY <2>1, <2>2, <2>7, RetypedStep DEF MV!CancelToolbar
<1> QED BY <1>3, <1>4

-----------------------------------------------------------------------------
(* Addresses and edits. *)

LEMMA ViewSubmitAddress ==
  ASSUME NEW p, NEW m, NEW t, ViewsAreSound(p, m, t), ViewInv(p, m, t), NEW s \in MV(p, m, t)!Memory, MV(p, m, t)!SubmitAddress(s)
  PROVE  ViewInv(p, m, t)'
<1>1. /\ x10' = FALSE /\ UNCHANGED <<x1, x2, x4, x6, x7, x8, x9, x11, x12, x15, x17>>
      /\ x5' \in [MV(p, m, t)!Memory -> {"None", "Address", "Search"}]
  BY DEF ViewInv, ViewTypes, MV!SubmitAddress
<1>2. x16' \in 0..t
  BY TouchIs DEF MV!SubmitAddress
<1>3. /\ CachedIsRight(p, m, t, x3[s]) /\ BoxesAreRight(p, m, t, x14) /\ s \in MV(p, m, t)!Slots
      /\ {"memory", "evaluate"} \subseteq MV(p, m, t)!Kinds
  BY PanelsAre DEF ViewInv, ViewQueues, MV!Kinds
<1>4. CASE UNCHANGED <<x3, x13, x14>>
  <2>1. ViewTypes(p, m, t)'
    BY <1>1, <1>2, <1>4 DEF ViewInv, ViewTypes, MV!Memory, MV!Slots
  <2> QED BY <1>1, <1>4, <2>1, KeptStep
<1>5. CASE UNCHANGED x13 /\ \E reference \in Refs : /\ x3' = [x3 EXCEPT ![s] = MV(p, m, t)!Navigated(x3[s], reference)]
                                                    /\ x14' = MV(p, m, t)!Ask(x14, "memory", s, reference)
  <2> PICK reference \in Refs : /\ x3' = [x3 EXCEPT ![s] = MV(p, m, t)!Navigated(x3[s], reference)]
                                /\ x14' = MV(p, m, t)!Ask(x14, "memory", s, reference)
    BY <1>5
  <2> PICK c : c = MV(p, m, t)!Navigated(x3[s], reference)
    OBVIOUS
  <2>1. CachedIsRight(p, m, t, c) /\ c.reference = x3[s].reference
    BY <1>3, NavigatedIs
  <2>2. CachesIn(s, c)
    BY DEF CachesIn
  <2>3. c \in MV(p, m, t)!Slot
    BY <2>1 DEF CachedIsRight
  <2>4. /\ x3' \in [MV(p, m, t)!Slots -> MV(p, m, t)!Slot]
        /\ \A u \in MV(p, m, t)!Memory : CachedIsRight(p, m, t, x3'[u])
        /\ \A u \in MV(p, m, t)!Slots : u # s => x3'[u] = x3[u]
        /\ x3'[s] = c
    BY <1>3, <2>1, <2>2, <2>3, CacheStep
  <2>5. BoxesAreRight(p, m, t, x14')
    <3>1. IsFor(p, "memory", [slot |-> s, reference |-> reference])
      BY DEF IsFor, MV!Memory, MV!Slots
    <3> QED BY <1>3, <3>1, AskIs
  <2>6. ViewTypes(p, m, t)'
    BY <1>1, <1>2, <1>5, <2>4 DEF ViewInv, ViewTypes, MV!Memory, MV!Slots
  <2>7. \A u \in MV(p, m, t)!Memory : x3'[u].reference = x3[u].reference
    BY <2>1, <2>4, PanelsAre
  <2>8. ViewEdits(p, m, t)'
    BY <1>1, <2>7, EditsStep
  <2>9. ViewQueues(p, m, t)'
    BY <1>1, <2>5, BoxesStep
  <2> QED BY <2>4, <2>6, <2>8, <2>9 DEF ViewInv, MV!Memory, MV!Slots
<1>6. CASE x13' = s /\ UNCHANGED x3 /\ x14' = MV(p, m, t)!Ask(x14, "evaluate", s, MV(p, m, t)!Nowhere)
  <2>1. BoxesAreRight(p, m, t, x14')
    <3>1. IsFor(p, "evaluate", [slot |-> s, reference |-> MV(p, m, t)!Nowhere])
      BY DEF IsFor
    <3> QED BY <1>3, <1>6, <3>1, AskIs
  <2>2. ViewTypes(p, m, t)'
    BY <1>1, <1>2, <1>6 DEF ViewInv, ViewTypes, MV!Memory, MV!Slots
  <2>3. ViewEdits(p, m, t)'
    BY <1>1, <1>6, EditsStep
  <2>4. ViewQueues(p, m, t)'
    BY <1>1, <2>1, BoxesStep
  <2> QED BY <1>6, <2>2, <2>3, <2>4 DEF ViewInv
<1>7. \/ UNCHANGED <<x3, x13, x14>>
      \/ UNCHANGED x13 /\ \E reference \in Refs : /\ x3' = [x3 EXCEPT ![s] = MV(p, m, t)!Navigated(x3[s], reference)]
                                                  /\ x14' = MV(p, m, t)!Ask(x14, "memory", s, reference)
      \/ x13' = s /\ UNCHANGED x3 /\ x14' = MV(p, m, t)!Ask(x14, "evaluate", s, MV(p, m, t)!Nowhere)
  BY DEF MV!SubmitAddress
<1> QED BY <1>4, <1>5, <1>6, <1>7

LEMMA ViewBeginEdit ==
  ASSUME NEW p, NEW m, NEW t, ViewsAreSound(p, m, t), ViewInv(p, m, t), NEW s \in MV(p, m, t)!Memory,
         NEW row \in EditedRows, MV(p, m, t)!BeginEdit(s, row)
  PROVE  ViewInv(p, m, t)'
<1>1. ViewTypes(p, m, t)'
  BY TouchIs DEF ViewInv, ViewTypes, MV!BeginEdit, MV!Memory, MV!Slots
<1>2. x3[s].reference \in Refs
  BY DEF ViewInv, CachedIsRight, MV!BeginEdit
<1>3. ViewEdits(p, m, t)'
  <2>1. /\ x6 \in [MV(p, m, t)!Memory -> SUBSET EditedRows] /\ x8 \in [MV(p, m, t)!Memory -> SUBSET (Refs \X EditedRows)]
        /\ x6' = [x6 EXCEPT ![s] = {row}] /\ x8' = [x8 EXCEPT ![s] = {<<x3[s].reference, row>>}]
        /\ x7' = x7 /\ x3' = x3
    BY DEF ViewInv, ViewEdits, MV!BeginEdit
  <2>2. /\ \A u \in MV(p, m, t)!Memory : x6'[u] = IF u = s THEN {row} ELSE x6[u]
        /\ \A u \in MV(p, m, t)!Memory : x8'[u] = IF u = s THEN {<<x3[s].reference, row>>} ELSE x8[u]
        /\ x6' \in [MV(p, m, t)!Memory -> SUBSET EditedRows]
    BY <2>1
  <2>3. x8' \in [MV(p, m, t)!Memory -> SUBSET (Refs \X EditedRows)]
    BY <1>2, <2>1
  <2>4. \A u \in MV(p, m, t)!Memory : x6'[u] = {} \/ \E r \in EditedRows : x6'[u] = {r}
    BY <2>2 DEF ViewInv, ViewEdits
  <2>5. x7 \subseteq MV(p, m, t)!Memory /\ \A u \in x7 : x6'[u] # {}
    BY <2>2 DEF ViewInv, ViewEdits
  <2>6. \A u \in MV(p, m, t)!Memory : \A r \in x6'[u] : x8'[u] \subseteq {<<x3[u].reference, r>>}
    BY <2>2 DEF ViewInv, ViewEdits
  <2> QED BY <2>1, <2>2, <2>3, <2>4, <2>5, <2>6 DEF ViewEdits, MV!Memory, MV!Slots
<1>4. ViewQueues(p, m, t)'
  BY DEF ViewInv, ViewQueues, MV!BeginEdit
<1> QED BY <1>1, <1>3, <1>4 DEF ViewInv, MV!BeginEdit

\* An edit that ends leaves the others as they are.
LEMMA EditEnds ==
  ASSUME NEW p, NEW m, NEW t, ViewsAreSound(p, m, t), ViewInv(p, m, t), NEW s \in MV(p, m, t)!Memory,
         x6' = [x6 EXCEPT ![s] = {}], x8' = [x8 EXCEPT ![s] = {}], x7' = x7 \ {s}, x3' = x3
  PROVE  ViewEdits(p, m, t)'
<1>1. x6 \in [MV(p, m, t)!Memory -> SUBSET EditedRows] /\ x8 \in [MV(p, m, t)!Memory -> SUBSET (Refs \X EditedRows)]
  BY DEF ViewInv, ViewEdits
<1>2. /\ \A u \in MV(p, m, t)!Memory : x6'[u] = IF u = s THEN {} ELSE x6[u]
      /\ \A u \in MV(p, m, t)!Memory : x8'[u] = IF u = s THEN {} ELSE x8[u]
      /\ x6' \in [MV(p, m, t)!Memory -> SUBSET EditedRows] /\ x8' \in [MV(p, m, t)!Memory -> SUBSET (Refs \X EditedRows)]
  BY <1>1
<1>3. \A u \in MV(p, m, t)!Memory : x6'[u] = {} \/ \E r \in EditedRows : x6'[u] = {r}
  BY <1>2 DEF ViewInv, ViewEdits
<1>4. x7' \subseteq MV(p, m, t)!Memory /\ \A u \in x7' : x6'[u] # {}
  BY <1>2 DEF ViewInv, ViewEdits
<1>5. \A u \in MV(p, m, t)!Memory : \A r \in x6'[u] : x8'[u] \subseteq {<<x3'[u].reference, r>>}
  BY <1>2 DEF ViewInv, ViewEdits
<1> QED BY <1>2, <1>3, <1>4, <1>5 DEF ViewEdits, MV!Memory, MV!Slots

LEMMA ViewCancelEdit ==
  ASSUME NEW p, NEW m, NEW t, ViewsAreSound(p, m, t), ViewInv(p, m, t), NEW s \in MV(p, m, t)!Memory, MV(p, m, t)!CancelEdit(s)
  PROVE  ViewInv(p, m, t)'
<1> PICK last : last = IF x12 # 0 THEN x12 ELSE s
  OBVIOUS
<1>1. last \in MV(p, m, t)!Memory
  BY DEF ViewInv, ViewTypes
<1>2. x6' = [x6 EXCEPT ![last] = {}] /\ x8' = [x8 EXCEPT ![last] = {}] /\ x7' = x7 \ {last} /\ x3' = x3
  BY DEF MV!CancelEdit
<1>3. ViewEdits(p, m, t)'
  BY <1>1, <1>2, EditEnds
<1>4. ViewTypes(p, m, t)'
  BY TouchIs DEF ViewInv, ViewTypes, MV!CancelEdit
<1>5. ViewQueues(p, m, t)'
  BY DEF ViewInv, ViewQueues, MV!CancelEdit
<1> QED BY <1>2, <1>3, <1>4, <1>5 DEF ViewInv

LEMMA ViewSubmitEdit ==
  ASSUME NEW p, NEW m, NEW t, ViewsAreSound(p, m, t), ViewInv(p, m, t), NEW s \in MV(p, m, t)!Memory,
         NEW valid \in BOOLEAN, MV(p, m, t)!SubmitEdit(s, valid)
  PROVE  ViewInv(p, m, t)'
<1> PICK row \in x6[s] :
      LET open == s \notin x7
          reopened == open /\ ~valid /\ x1
      IN /\ x6' = [x6 EXCEPT ![s] = IF reopened THEN x6[s] ELSE {}]
         /\ x8' = [x8 EXCEPT ![s] = IF reopened THEN x8[s] ELSE {}]
         /\ x7' = IF reopened THEN x7 \cup {s} ELSE x7 \ {s}
         /\ IF open /\ valid
            THEN /\ x11' = TRUE /\ x12' = s
                 /\ x14' = MV(p, m, t)!Ask(x14, "write", s, MV(p, m, t)!WriteTarget(s, row)[1])
            ELSE UNCHANGED <<x11, x12, x14>>
  BY DEF MV!SubmitEdit
<1> PICK reopened \in BOOLEAN : reopened = (s \notin x7 /\ ~valid /\ x1)
  OBVIOUS
<1>1. /\ x6' = [x6 EXCEPT ![s] = IF reopened THEN x6[s] ELSE {}]
      /\ x8' = [x8 EXCEPT ![s] = IF reopened THEN x8[s] ELSE {}]
      /\ x7' = IF reopened THEN x7 \cup {s} ELSE x7 \ {s}
  OBVIOUS
<1>2. /\ UNCHANGED <<x1, x2, x3, x4, x5, x9, x10, x13, x15, x17>> /\ MV(p, m, t)!Touch
      /\ x11' \in BOOLEAN /\ x12' \in MV(p, m, t)!Memory \cup {0}
  BY DEF ViewInv, ViewTypes, MV!SubmitEdit
<1>3. ViewTypes(p, m, t)'
  BY <1>2, TouchIs DEF ViewInv, ViewTypes, MV!Memory, MV!Slots
<1>4. ViewEdits(p, m, t)'
  <2>1. CASE ~reopened
    <3>1. x6' = [x6 EXCEPT ![s] = {}] /\ x8' = [x8 EXCEPT ![s] = {}] /\ x7' = x7 \ {s}
      BY <1>1, <2>1
    <3> QED BY <1>2, <3>1, EditEnds
  <2>2. CASE reopened
    <3>1. x6 \in [MV(p, m, t)!Memory -> SUBSET EditedRows] /\ x8 \in [MV(p, m, t)!Memory -> SUBSET (Refs \X EditedRows)]
      BY DEF ViewInv, ViewEdits
    <3>2. x6' = x6 /\ x8' = x8 /\ x7' = x7 \cup {s}
      BY <1>1, <2>2, <3>1
    <3> QED BY <1>2, <3>2 DEF ViewInv, ViewEdits, MV!Memory, MV!Slots
  <2> QED BY <2>1, <2>2
<1>5. BoxesAreRight(p, m, t, x14')
  <2>1. BoxesAreRight(p, m, t, x14) /\ "write" \in MV(p, m, t)!Kinds /\ s \in MV(p, m, t)!Slots
    BY PanelsAre DEF ViewInv, ViewQueues, MV!Kinds
  <2>2. IsFor(p, "write", [slot |-> s, reference |-> MV(p, m, t)!WriteTarget(s, row)[1]])
    BY DEF IsFor
  <2>3. x3[s] \in MV(p, m, t)!Slot
    BY DEF ViewInv, CachedIsRight
  <2>4. MV(p, m, t)!WriteTarget(s, row)[1] \in Refs \cup {MV(p, m, t)!Nowhere}
    BY <2>3 DEF MV!WriteTarget, MV!Slot
  <2>5. BoxesAreRight(p, m, t, MV(p, m, t)!Ask(x14, "write", s, MV(p, m, t)!WriteTarget(s, row)[1]))
    BY <2>1, <2>2, <2>4, AskIs
  <2>6. x14' = x14 \/ x14' = MV(p, m, t)!Ask(x14, "write", s, MV(p, m, t)!WriteTarget(s, row)[1])
    OBVIOUS
  <2> QED BY <2>1, <2>5, <2>6
<1>6. ViewQueues(p, m, t)'
  BY <1>2, <1>5, BoxesStep
<1> QED BY <1>2, <1>3, <1>4, <1>6 DEF ViewInv

LEMMA ViewStep ==
  ASSUME NEW p, NEW m, NEW t, ViewsAreSound(p, m, t), ViewInv(p, m, t), MV(p, m, t)!Next
  PROVE  ViewInv(p, m, t)'
<1>1. CASE MV(p, m, t)!Resume
  BY <1>1, ViewResume
<1>2. CASE MV(p, m, t)!Stop
  BY <1>2, ViewStop
<1>3. CASE MV(p, m, t)!Restart
  BY <1>3, ViewRestart
<1>4. CASE \E kind \in MV(p, m, t)!Kinds : MV(p, m, t)!Serve(kind)
  BY <1>4, ViewServe
<1>5. CASE MV(p, m, t)!HandleEvent
  BY <1>5, ViewHandled
<1>6. CASE MV(p, m, t)!SubmitRepl
  BY <1>6, ViewSubmitRepl
<1>7. CASE \E s \in MV(p, m, t)!Slots : MV(p, m, t)!Reload(s)
  BY <1>7, ViewReload
<1>8. CASE \E input \in {"Address", "Search"} : MV(p, m, t)!OpenToolbar(input)
  BY <1>8, ViewOpenToolbar
<1>9. ASSUME NEW s \in MV(p, m, t)!Memory, MV(p, m, t)!ClickList(s) \/ MV(p, m, t)!SwitchInput(s) \/ MV(p, m, t)!CancelToolbar(s)
                                \/ MV(p, m, t)!SubmitAddress(s) \/ MV(p, m, t)!CancelEdit(s)
      PROVE  ViewInv(p, m, t)'
  BY <1>9, ViewClickList, ViewSwitchInput, ViewCancelToolbar, ViewSubmitAddress, ViewCancelEdit
<1>10. ASSUME NEW s \in MV(p, m, t)!Memory, NEW input \in {"Address", "Search"}, MV(p, m, t)!ClickToolbar(s, input)
       PROVE  ViewInv(p, m, t)'
  BY <1>10, ViewClickToolbar
<1>11. ASSUME NEW s \in MV(p, m, t)!Memory, NEW q \in Sought \cup {MV(p, m, t)!NoText}, MV(p, m, t)!TypeSearch(s, q)
       PROVE  ViewInv(p, m, t)'
  BY <1>11, ViewTypeSearch
<1>12. ASSUME NEW s \in MV(p, m, t)!Memory, NEW way \in {"confirm", "next", "previous"}, MV(p, m, t)!SubmitSearch(s, way)
       PROVE  ViewInv(p, m, t)'
  BY <1>12, ViewSubmitSearch
<1>13. ASSUME NEW s \in MV(p, m, t)!Memory, NEW row \in EditedRows, MV(p, m, t)!BeginEdit(s, row)
       PROVE  ViewInv(p, m, t)'
  BY <1>13, ViewBeginEdit
<1>14. ASSUME NEW s \in MV(p, m, t)!Memory, NEW valid \in BOOLEAN, MV(p, m, t)!SubmitEdit(s, valid)
       PROVE  ViewInv(p, m, t)'
  BY <1>14, ViewSubmitEdit
<1> QED BY <1>1, <1>2, <1>3, <1>4, <1>5, <1>6, <1>7, <1>8, <1>9, <1>10, <1>11, <1>12, <1>13, <1>14
        DEF MV!Next

\* What the invariant says of the properties.
LEMMA ViewHolds ==
  ASSUME NEW p, NEW m, NEW t, ViewsAreSound(p, m, t), ViewInv(p, m, t)
  PROVE  MV(p, m, t)!TypeOK /\ MV(p, m, t)!PanelMatchesDump
<1>1. ASSUME NEW S, NEW r, S = {} \/ S = {r}  PROVE MV(p, m, t)!Cardinality(S) <= 1
  <2>1. MV(p, m, t)!Cardinality(S) = Cardinality(S)
    BY DEF MV!Cardinality, Cardinality
  <2>2. Cardinality(S) \in {0, 1}
    BY <1>1, FS_EmptySet, FS_Singleton
  <2> QED BY <2>1, <2>2
<1>2. \A s \in MV(p, m, t)!Memory : MV(p, m, t)!Cardinality(x6[s]) <= 1
  <2> SUFFICES ASSUME NEW s \in MV(p, m, t)!Memory  PROVE MV(p, m, t)!Cardinality(x6[s]) <= 1
    OBVIOUS
  <2> PICK r : x6[s] = {} \/ x6[s] = {r}
    BY DEF ViewInv, ViewEdits
  <2> QED BY <1>1
<1>3. x14 \in [MV(p, m, t)!Kinds -> SUBSET MV(p, m, t)!Request] /\ \A k \in MV(p, m, t)!Kinds : MV(p, m, t)!Cardinality(x14[k]) <= 1
  <2>1. x14 = [k \in MV(p, m, t)!Kinds |-> x14[k]] /\ \A k \in MV(p, m, t)!Kinds : BoxIsRight(p, m, t, k, x14[k])
    BY DEF ViewInv, ViewQueues, BoxesAreRight
  <2>2. ASSUME NEW k \in MV(p, m, t)!Kinds  PROVE x14[k] \in SUBSET MV(p, m, t)!Request /\ MV(p, m, t)!Cardinality(x14[k]) <= 1
    <3> PICK r : x14[k] = {} \/ (x14[k] = {r} /\ r \in MV(p, m, t)!Request)
      BY <2>1 DEF BoxIsRight
    <3> QED BY <1>1
  <2> QED BY <2>1, <2>2
<1>4. x15 \in Seq(MV(p, m, t)!Event) /\ Len(x15) <= MaxEvents
  BY SeqMonotonic DEF ViewInv, ViewQueues, ViewEvent
<1>5. {x9, x13, x12} \subseteq MV(p, m, t)!Memory \cup {0}
  BY DEF ViewInv, ViewTypes
<1>6. x7 \in SUBSET {s \in MV(p, m, t)!Memory : x6[s] # {}}
  BY DEF ViewInv, ViewEdits
<1>7. MV(p, m, t)!TypeOK
  BY <1>2, <1>3, <1>4, <1>5, <1>6 DEF ViewInv, ViewTypes, ViewEdits, MV!TypeOK
<1>8. ASSUME NEW s \in MV(p, m, t)!Memory  PROVE MV(p, m, t)!MatchInDump(s)
  <2>1. CachedIsRight(p, m, t, x3[s])
    BY DEF ViewInv
  <2> QED BY <2>1 DEF CachedIsRight, MV!MatchInDump, MV!Highlighted
<1>9. ASSUME NEW s \in MV(p, m, t)!Memory  PROVE MV(p, m, t)!EditInDump(s)
  BY DEF ViewInv, ViewEdits, MV!EditInDump, MV!WriteTarget
<1> QED BY <1>7, <1>8, <1>9 DEF MV!PanelMatchesDump

-----------------------------------------------------------------------------
(* The completions of the REPL. *)

(* What the input may hold: what is typed, and what is taken of an answer. *)
Chars == Letters \cup Marks \cup
         UNION {RC!Range(label) : label \in UNION {RC!Range(reply) : reply \in Replies}}

ReplTypes ==
    /\ x1 \in Seq(Chars) /\ x2 \in 0..Len(x1) /\ x3 \in BOOLEAN /\ x4 \in RC!Ages
    /\ x5 \in BOOLEAN /\ x6 \in {0, x7} /\ x7 \in 0..MaxQuestions
    /\ x9 \in Replies /\ x10 \in 1..(Len(x9) + 1)
    /\ x11 \in [start : Nat, length : Nat, label : Seq(Chars)]
    /\ x12 \in BOOLEAN
    /\ x13 \in 0..x7 /\ x14 \in 0..x7 /\ (x13 # 0 => x14 < x13)
    /\ x15 \in Seq([id : 1..x7, labels : Replies])
    /\ x16 \in BOOLEAN

(* While an answer is awaited nothing is offered, and the candidates there   *)
(* are were asked for what is typed, unless that was left.                   *)
OfferInv ==
    /\ x6 # 0 => x9 = <<>> /\ x11 = RC!NoGhost
    /\ x9 # <<>> /\ ~x12 => x8 = RC!Here
    /\ RC!OfferFits

ReplInv == ReplTypes /\ OfferInv

\* Answers are sequences of labels.
LEMMA RepliesAre ==
  ASSUME RepliesAreSound, NEW reply \in Replies
  PROVE  /\ Len(reply) \in Nat /\ DOMAIN reply = 1..Len(reply)
         /\ \A i \in DOMAIN reply :
               reply[i] \in RC!Range(reply) /\ reply[i] \in Seq(Chars) /\ reply[i] # <<>>
<1>1. reply \in Seq(RC!Range(reply))
  BY DEF RepliesAreSound
<1>2. ASSUME NEW i \in DOMAIN reply
      PROVE  reply[i] \in RC!Range(reply) /\ reply[i] \in Seq(Chars) /\ reply[i] # <<>>
  <2>1. reply[i] \in RC!Range(reply)
    BY DEF RC!Range
  <2>2. reply[i] \in Seq(RC!Range(reply[i])) /\ reply[i] # <<>>
    BY <2>1 DEF RepliesAreSound
  <2>3. RC!Range(reply[i]) \subseteq Chars
    BY <2>1 DEF Chars
  <2> QED BY <2>1, <2>2, <2>3, SeqMonotonic
<1> QED BY <1>1, <1>2

\* Where the name at the cursor begins.
LEMMA TokenIs ==
  ASSUME NEW S, x1 \in Seq(S), x2 \in 0..Len(x1)
  PROVE  RC!TokenStart \in 0..x2
<1> DEFINE good == {s \in 0..x2 : \A i \in (s + 1)..x2 : x1[i] \in Letters}
<1>1. x2 \in Nat
  OBVIOUS
<1>2. good \subseteq Nat /\ x2 \in good
  BY <1>1
<1>3. First(good) \in good /\ \A s \in good : First(good) <= s
  <2> HIDE DEF good
  <2> QED BY <1>2, FirstOf
<1>4. PICK s \in 0..x2 : /\ \A i \in (s + 1)..x2 : x1[i] \in Letters
                         /\ \A t \in good : s <= t
  BY <1>3
<1>5. s = 0 \/ x1[s] \notin Letters
  <2>1. SUFFICES ASSUME s # 0, x1[s] \in Letters  PROVE FALSE
    OBVIOUS
  <2>2. s - 1 \in 0..x2 /\ ~(s <= s - 1)
    BY <1>1, <2>1
  <2>3. \A i \in (s - 1 + 1)..x2 : i = s \/ i \in (s + 1)..x2
    BY <1>1
  <2>4. s - 1 \in good
    BY <1>4, <2>1, <2>2, <2>3
  <2> QED BY <1>4, <2>2, <2>4
<1> QED BY <1>4, <1>5 DEF RC!TokenStart

\* The matches among labels can be counted.
LEMMA MatchesAre ==
  ASSUME RepliesAreSound, NEW labels \in Replies
  PROVE  /\ RC!Matches(labels) \subseteq DOMAIN labels /\ RC!Matches(labels) \subseteq Nat
         /\ \A i : IsFiniteSet({j \in RC!Matches(labels) : j <= i})
         /\ IsFiniteSet(RC!Matches(labels))
         /\ RC!Cardinality(RC!Matches(labels)) \in 0..Len(labels)
<1>1. RC!Matches(labels) \subseteq 1..Len(labels) /\ Len(labels) \in Nat /\ DOMAIN labels = 1..Len(labels)
  BY RepliesAre DEF RC!Matches
<1>2. IsFiniteSet(1..Len(labels)) /\ Cardinality(1..Len(labels)) = Len(labels)
  BY <1>1, FS_Interval
<1>3. IsFiniteSet(RC!Matches(labels)) /\ Cardinality(RC!Matches(labels)) <= Len(labels)
  BY <1>1, <1>2, FS_Subset
<1>4. Cardinality(RC!Matches(labels)) \in Nat
  BY <1>3, FS_CardinalityType
<1>5. RC!Cardinality(RC!Matches(labels)) = Cardinality(RC!Matches(labels))
  BY DEF RC!Cardinality, Cardinality
<1>6. \A i : IsFiniteSet({j \in RC!Matches(labels) : j <= i})
  BY <1>3, FS_Subset
<1>7. RC!Matches(labels) \subseteq Nat
  BY <1>1
<1>8. Cardinality(RC!Matches(labels)) \in 0..Len(labels)
  BY <1>1, <1>3, <1>4
<1> QED BY <1>1, <1>3, <1>5, <1>6, <1>7, <1>8

(* The numbers in M up to i.                                                *)
UpTo(M, i) == {j \in M : j <= i}

\* Of finitely many numbers, one is the n-th.
LEMMA ByRank ==
  ASSUME NEW k \in Nat, NEW M, M \subseteq 1..k, NEW n \in 1..Cardinality(M)
  PROVE  \E i \in M : Cardinality(UpTo(M, i)) = n
<1> DEFINE beyond == {i \in M : n <= Cardinality(UpTo(M, i))}
<1>1. IsFiniteSet(M) /\ M \subseteq Nat
  <2>1. IsFiniteSet(1..k)
    BY FS_Interval
  <2>2. M \in SUBSET (1..k) /\ M \subseteq Nat
    OBVIOUS
  <2> QED BY <2>1, <2>2, FS_Subset
<1>2. \A i : IsFiniteSet(UpTo(M, i)) /\ Cardinality(UpTo(M, i)) \in Nat
  <2>1. ASSUME NEW i  PROVE UpTo(M, i) \in SUBSET M
    BY DEF UpTo
  <2> QED BY <1>1, <2>1, FS_Subset, FS_CardinalityType
<1>3. Cardinality(M) \in Nat /\ n \in Nat /\ n # 0 /\ n <= Cardinality(M)
  BY <1>1, FS_CardinalityType
<1>4. beyond # {} /\ beyond \subseteq Nat
  <2>1. M # {}
    BY <1>3, FS_EmptySet
  <2>2. PICK top \in M : \A i \in M : i <= top
    <3>1. k + 1 \in Nat /\ \A i \in M : i < k + 1
      BY <1>1
    <3> QED BY <1>1, <2>1, <3>1, LastOf
  <2>3. UpTo(M, top) = M
    BY <2>2 DEF UpTo
  <2> QED BY <1>1, <1>3, <2>3
<1>5. PICK i \in M : n <= Cardinality(UpTo(M, i)) /\ \A h \in beyond : i <= h
  <2>1. First(beyond) \in beyond /\ \A h \in beyond : First(beyond) <= h
    <3> HIDE DEF beyond
    <3> QED BY <1>4, FirstOf
  <2> QED BY <2>1
<1> SUFFICES ASSUME Cardinality(UpTo(M, i)) # n  PROVE FALSE
  OBVIOUS
<1> DEFINE before == UpTo(M, i) \ {i}
<1>6. Cardinality(before) \in Nat /\ n <= Cardinality(before)
  <2>1. i \in UpTo(M, i)
    BY <1>1 DEF UpTo
  <2>2. Cardinality(before) = Cardinality(UpTo(M, i)) - 1
    BY <1>2, <2>1, FS_RemoveElement
  <2>3. Cardinality(UpTo(M, i)) \in Nat
    BY <1>2
  <2> HIDE DEF before
  <2> QED BY <1>3, <1>5, <2>2, <2>3
<1>7. before # {}
  BY <1>3, <1>6, FS_EmptySet
<1>8. before \subseteq Nat /\ i \in Nat /\ \A h \in before : h < i
  <2>1. i \in Nat /\ \A h \in before : h \in Nat /\ h <= i /\ h # i
    BY <1>1 DEF UpTo
  <2> HIDE DEF before
  <2> QED BY <2>1
<1>9. PICK h \in before : \A j \in before : j <= h
  <2> HIDE DEF before
  <2> QED BY <1>7, <1>8, LastOf
<1>10. UpTo(M, h) = before
  <2>1. h \in M /\ h \in Nat /\ h < i /\ i \in Nat
    BY <1>1, <1>8, <1>9 DEF UpTo
  <2>2. ASSUME NEW j \in M, j <= h  PROVE j \in before
    <3>1. j \in Nat /\ j <= i /\ j # i
      BY <1>1, <2>1, <2>2
    <3> QED BY <3>1 DEF UpTo
  <2>3. ASSUME NEW j \in before  PROVE j \in M /\ j <= h
    BY <1>9 DEF UpTo
  <2> HIDE DEF before
  <2> QED BY <2>2, <2>3 DEF UpTo
<1>11. h \in beyond
  <2>1. h \in M
    BY <1>9 DEF UpTo
  <2> HIDE DEF before
  <2> QED BY <1>6, <1>10, <2>1
<1>12. i <= h /\ h < i /\ h \in Nat
  BY <1>5, <1>8, <1>9, <1>11
<1> QED BY <1>8, <1>12

\* What is offered is a candidate that goes on from what is typed.
LEMMA GhostIs ==
  ASSUME RepliesAreSound, x1 \in Seq(Chars), x2 \in 0..Len(x1), NEW labels \in Replies,
         NEW n \in 1..(Len(labels) + 1)
  PROVE  /\ RC!InRange(n, labels) \in 1..(Len(labels) + 1)
         /\ RC!Ghost(labels, n) \in [start : Nat, length : Nat, label : Seq(Chars)]
         /\ RC!Ghost(labels, n) # RC!NoGhost =>
               /\ RC!Ghost(labels, n).label \in RC!Range(labels)
               /\ RC!Ghost(labels, n).start = RC!TokenStart
               /\ RC!Ghost(labels, n).start + RC!Ghost(labels, n).length = x2
               /\ RC!Continues(RC!Ghost(labels, n).label, RC!Typed)
<1> DEFINE M == RC!Matches(labels)
           at == RC!InRange(n, labels)
<1>1. /\ Len(labels) \in Nat /\ DOMAIN labels = 1..Len(labels) /\ M \subseteq 1..Len(labels)
      /\ RC!Cardinality(M) = Cardinality(M) /\ Cardinality(M) \in 0..Len(labels) /\ IsFiniteSet(M)
  <2>1. RC!Cardinality(M) = Cardinality(M)
    BY DEF RC!Cardinality, Cardinality
  <2> QED BY <2>1, MatchesAre, RepliesAre
<1>2. at \in 1..(Len(labels) + 1)
  BY <1>1 DEF RC!InRange
<1>3. RC!TokenStart \in 0..x2 /\ x2 \in Nat
  BY TokenIs
<1>4. CASE M = {}
  <2>1. RC!Ghost(labels, n) = RC!NoGhost
    BY <1>4 DEF RC!Ghost
  <2>2. RC!NoGhost \in [start : Nat, length : Nat, label : Seq(Chars)]
    BY DEF RC!NoGhost
  <2> QED BY <1>2, <2>1, <2>2
<1>5. CASE M # {}
  <2>1. Cardinality(M) # 0
    BY <1>1, <1>5, FS_EmptySet
  <2>2. at \in 1..Cardinality(M)
    BY <1>1, <2>1 DEF RC!InRange
  <2>3. \E i \in M : Cardinality(UpTo(M, i)) = at
    <3>1. PICK k \in Nat : M \subseteq 1..k
      BY <1>1
    <3> HIDE DEF M, at
    <3> QED BY <2>2, <3>1, ByRank
  <2>4. \A S : RC!Cardinality(S) = Cardinality(S)
    BY DEF RC!Cardinality, Cardinality
  <2>5. PICK i \in M : RC!Nth(labels, at) = labels[i]
    BY <2>3, <2>4 DEF RC!Nth, UpTo
  <2>6. RC!Ghost(labels, n) = [start |-> RC!TokenStart, length |-> x2 - RC!TokenStart, label |-> labels[i]]
    BY <1>5, <2>5 DEF RC!Ghost
  <2>7. labels[i] \in RC!Range(labels) /\ labels[i] \in Seq(Chars) /\ labels[i] # <<>>
    BY <1>1, <2>5, RepliesAre
  <2>8. RC!Continues(labels[i], RC!Typed)
    <3>1. RC!Typed = <<>> \/ RC!Continues(labels[i], RC!Typed)
      BY <2>5 DEF RC!Matches
    <3>2. CASE RC!Typed = <<>>
      <4>1. Len(labels[i]) > 0 /\ SubSeq(labels[i], 1, 0) = <<>>
        BY <2>7
      <4> QED BY <3>2, <4>1 DEF RC!Continues
    <3> QED BY <3>1, <3>2
  <2>9. x2 - RC!TokenStart \in Nat /\ RC!TokenStart \in Nat /\ RC!TokenStart + (x2 - RC!TokenStart) = x2
    BY <1>3
  <2> QED BY <1>2, <2>6, <2>7, <2>8, <2>9
<1> QED BY <1>4, <1>5

LEMMA ReplInit ==
  ASSUME RepliesAreSound, RC!Init
  PROVE  ReplInv
<1> USE DEF RC!Init
<1>1. ReplTypes
  <2>1. x11 \in [start : Nat, length : Nat, label : Seq(Chars)]
    BY DEF RC!NoGhost
  <2>2. x3 \in BOOLEAN /\ x5 \in BOOLEAN /\ x12 \in BOOLEAN /\ x16 \in BOOLEAN /\ x4 \in RC!Ages
    BY DEF RC!Ages
  <2>3. x1 \in Seq(Chars) /\ x15 \in Seq([id : 1..x7, labels : Replies]) /\ Len(x1) = 0 /\ Len(x9) = 0
    OBVIOUS
  <2>4. x2 \in 0..Len(x1) /\ x6 \in {0, x7} /\ x7 \in 0..MaxQuestions /\ x10 \in 1..(Len(x9) + 1)
        /\ x13 \in 0..x7 /\ x14 \in 0..x7 /\ x13 = 0 /\ x9 \in Replies
    BY <2>3 DEF RepliesAreSound
  <2> HIDE DEF RC!Init
  <2> QED BY <2>1, <2>2, <2>3, <2>4 DEF ReplTypes
<1>2. OfferInv
  BY DEF OfferInv, RC!OfferFits
<1> QED BY <1>1, <1>2 DEF ReplInv

\* The types after each step.
LEMMA EditedTypes ==
  ASSUME RepliesAreSound, ReplInv, NEW t \in Seq(Chars), NEW c \in 0..Len(t), RC!Edited(t, c)
  PROVE  ReplInv'
<1> USE DEF RC!Edited, RC!Clear, RC!workerVars
<1>1. x11' \in [start : Nat, length : Nat, label : Seq(Chars)]
  BY DEF RC!NoGhost
<1>2. x9' \in Replies /\ x10' \in 1..(Len(x9') + 1)
  BY DEF RepliesAreSound
<1>3. ReplTypes'
  BY <1>1, <1>2 DEF ReplInv, ReplTypes, RC!Ages
<1>4. OfferInv'
  BY DEF OfferInv, RC!OfferFits
<1> QED BY <1>3, <1>4 DEF ReplInv

LEMMA ShowKeeps ==
  ASSUME RepliesAreSound, ReplInv, x9 # <<>>, NEW n \in 1..(Len(x9) + 1), RC!Show(n)
  PROVE  ReplInv'
<1> USE DEF RC!Show, RC!inputVars, RC!workerVars
<1>1. x9 \in Replies /\ x1 \in Seq(Chars) /\ x2 \in 0..Len(x1)
  BY DEF ReplInv, ReplTypes
<1>2. /\ x10' \in 1..(Len(x9) + 1)
      /\ x11' \in [start : Nat, length : Nat, label : Seq(Chars)]
      /\ x11' # RC!NoGhost =>
            /\ x11'.label \in RC!Range(x9)
            /\ x11'.start = RC!TokenStart /\ x11'.start + x11'.length = x2
            /\ RC!Continues(x11'.label, RC!Typed)
  BY <1>1, GhostIs
<1>3. UNCHANGED <<x1, x2, x3, x4, x5, x6, x8, x9, x12, x7, x13, x14, x15, x16>>
  OBVIOUS
<1> HIDE DEF RC!Show
<1>4. ReplTypes'
  BY <1>2, <1>3 DEF ReplInv, ReplTypes
<1>5. RC!TokenStart' = RC!TokenStart /\ RC!Typed' = RC!Typed /\ RC!Here' = RC!Here
  BY <1>3 DEF RC!TokenStart, RC!Typed, RC!Here
<1>6. OfferInv'
  <2>1. x6 = 0 /\ (~x12 => x8 = RC!Here)
    BY DEF ReplInv, OfferInv
  <2>2. RC!OfferFits'
    BY <1>2, <1>3, <1>5, <2>1 DEF RC!OfferFits
  <2> QED BY <1>3, <1>5, <2>1, <2>2 DEF OfferInv
<1> QED BY <1>4, <1>6 DEF ReplInv

LEMMA RequestKeeps ==
  ASSUME RepliesAreSound, ReplInv, RC!Request
  PROVE  ReplInv'
<1> USE DEF RC!Request, RC!inputVars
<1>1. x11' \in [start : Nat, length : Nat, label : Seq(Chars)]
  BY DEF RC!NoGhost
<1>2. x9' \in Replies /\ x10' \in 1..(Len(x9') + 1)
  BY DEF RepliesAreSound
<1>3. x7 \in Nat /\ x7' = x7 + 1 /\ x7' \in 0..MaxQuestions
  BY DEF ReplInv, ReplTypes, RepliesAreSound
<1>4. x15' \in Seq([id : 1..x7', labels : Replies])
  <2> DEFINE old == [id : 1..x7, labels : Replies]
             new == [id : 1..x7', labels : Replies]
  <2>1. old \subseteq new
    BY <1>3
  <2>2. x15 \in Seq(old) /\ x15' = x15
    BY DEF ReplInv, ReplTypes
  <2> HIDE DEF old, new
  <2>3. x15 \in Seq(new)
    BY <2>1, <2>2, SeqMonotonic
  <2> QED BY <2>2, <2>3 DEF new
<1>5. x6' \in {0, x7'} /\ x13' \in 0..x7' /\ x14' \in 0..x7' /\ (x13' # 0 => x14' < x13')
  BY <1>3 DEF ReplInv, ReplTypes
<1>6. ReplTypes'
  BY <1>1, <1>2, <1>3, <1>4, <1>5 DEF ReplInv, ReplTypes
<1>7. OfferInv'
  BY DEF OfferInv, RC!OfferFits
<1> QED BY <1>6, <1>7 DEF ReplInv

(* A text with the piece between from and to replaced by m. *)
Spliced(t, from, m, to) == SubSeq(t, 1, from) \o m \o SubSeq(t, to + 1, Len(t))

LEMMA SplicedIs ==
  ASSUME NEW S, NEW t \in Seq(S), NEW m \in Seq(S), NEW from \in 0..Len(t), NEW to \in 0..Len(t)
  PROVE  /\ Spliced(t, from, m, to) \in Seq(S)
         /\ Len(Spliced(t, from, m, to)) = from + Len(m) + (Len(t) - to)
<1>1. Len(t) \in Nat /\ Len(m) \in Nat
  OBVIOUS
<1>2. SubSeq(t, 1, from) \in Seq(S) /\ Len(SubSeq(t, 1, from)) = from
  <2>1. \A i \in 1..from : t[i] \in S
    BY <1>1
  <2> QED BY <1>1, <2>1, SubSeqProperties
<1>3. SubSeq(t, to + 1, Len(t)) \in Seq(S) /\ Len(SubSeq(t, to + 1, Len(t))) = Len(t) - to
  <2>1. \A i \in (to + 1)..Len(t) : t[i] \in S
    BY <1>1
  <2>2. CASE to = Len(t)
    BY <1>1, <2>2
  <2>3. CASE to # Len(t)
    BY <1>1, <2>1, <2>3, SubSeqProperties
  <2> QED BY <2>2, <2>3
<1> DEFINE a == SubSeq(t, 1, from)
           b == SubSeq(t, to + 1, Len(t))
<1>4. a \in Seq(S) /\ Len(a) = from /\ b \in Seq(S) /\ Len(b) = Len(t) - to
  BY <1>2, <1>3
<1> HIDE DEF a, b
<1>5. a \o m \in Seq(S) /\ Len(a \o m) = from + Len(m)
  BY <1>4, ConcatProperties
<1>6. (a \o m) \o b \in Seq(S) /\ Len((a \o m) \o b) = Len(a \o m) + Len(b)
  BY <1>4, <1>5, ConcatProperties, Zenon
<1>7. (a \o m) \o b = Spliced(t, from, m, to)
  BY DEF a, b, Spliced
<1> HIDE DEF Spliced
<1> QED BY <1>4, <1>5, <1>6, <1>7

LEMMA LesserIs ==
  ASSUME NEW a \in Nat, NEW b \in Nat
  PROVE  RC!Min({a, b}) \in 0..b
BY DEF RC!Min

\* The invariant after each step.
LEMMA ReplStep ==
  ASSUME RepliesAreSound, ReplInv, RC!Next
  PROVE  ReplInv'
<1>1. /\ x1 \in Seq(Chars) /\ Len(x1) \in Nat /\ x2 \in 0..Len(x1) /\ x9 \in Replies
      /\ x10 \in 1..(Len(x9) + 1) /\ x11 \in [start : Nat, length : Nat, label : Seq(Chars)]
      /\ x7 \in Nat /\ x15 \in Seq([id : 1..x7, labels : Replies])
  BY DEF ReplInv, ReplTypes, RepliesAreSound
<1>2. RC!NoGhost \in [start : Nat, length : Nat, label : Seq(Chars)]
  BY DEF RC!NoGhost
<1>3. <<>> \in Replies
  BY DEF RepliesAreSound
<1>4. ASSUME NEW char \in Letters \cup Marks, RC!Type(char)  PROVE ReplInv'
  <2>1. RC!Edited(SubSeq(x1, 1, x2) \o <<char>> \o SubSeq(x1, x2 + 1, Len(x1)), x2 + 1)
    BY <1>4 DEF RC!Type
  <2>2. <<char>> \in Seq(Chars) /\ Len(<<char>>) = 1
    BY DEF Chars
  <2> DEFINE t == SubSeq(x1, 1, x2) \o <<char>> \o SubSeq(x1, x2 + 1, Len(x1))
  <2>3. t \in Seq(Chars) /\ Len(t) = x2 + 1 + (Len(x1) - x2)
    <3>1. Spliced(x1, x2, <<char>>, x2) = t
      BY DEF Spliced
    <3> HIDE DEF t
    <3>2. /\ Spliced(x1, x2, <<char>>, x2) \in Seq(Chars)
          /\ Len(Spliced(x1, x2, <<char>>, x2)) = x2 + Len(<<char>>) + (Len(x1) - x2)
      <4>1. ASSUME NEW m \in Seq(Chars)
            PROVE  /\ Spliced(x1, x2, m, x2) \in Seq(Chars)
                   /\ Len(Spliced(x1, x2, m, x2)) = x2 + Len(m) + (Len(x1) - x2)
        BY <1>1, SplicedIs
      <4> QED BY <2>2, <4>1
    <3> QED BY <2>2, <3>1, <3>2
  <2> HIDE DEF t
  <2>4. x2 + 1 \in 0..Len(t)
    BY <1>1, <2>3
  <2>5. RC!Edited(t, x2 + 1)
    BY <2>1 DEF t
  <2> QED BY <2>3, <2>4, <2>5, EditedTypes
<1>5. ASSUME NEW i, RC!Erase(i)  PROVE ReplInv'
  <2>1. i \in 1..Len(x1) /\ RC!Edited(RC!RemoveAt(x1, i), i - 1)
    BY <1>1, <1>5 DEF RC!Erase
  <2>2. RC!RemoveAt(x1, i) = SubSeq(x1, 1, i - 1) \o SubSeq(x1, i + 1, Len(x1))
    BY DEF RC!RemoveAt
  <2>3. <<>> \in Seq(Chars) /\ Len(<<>>) = 0 /\ i - 1 \in 0..Len(x1) /\ i \in 0..Len(x1)
    BY <1>1, <2>1
  <2>4. SubSeq(x1, 1, i - 1) \in Seq(Chars)
    BY <1>1, <2>1, SubSeqProperties
  <2>5. RC!RemoveAt(x1, i) = SubSeq(x1, 1, i - 1) \o <<>> \o SubSeq(x1, i + 1, Len(x1))
    BY <2>2, <2>4
  <2>6. RC!RemoveAt(x1, i) \in Seq(Chars) /\ i - 1 \in 0..Len(RC!RemoveAt(x1, i))
    <3>1. RC!RemoveAt(x1, i) \in Seq(Chars) /\ Len(RC!RemoveAt(x1, i)) = i - 1 + 0 + (Len(x1) - i)
      <4>1. Spliced(x1, i - 1, <<>>, i) = RC!RemoveAt(x1, i)
        BY <2>5 DEF Spliced
      <4>2. /\ Spliced(x1, i - 1, <<>>, i) \in Seq(Chars)
            /\ Len(Spliced(x1, i - 1, <<>>, i)) = i - 1 + Len(<<>>) + (Len(x1) - i)
        <5>1. ASSUME NEW m \in Seq(Chars), NEW from \in 0..Len(x1), NEW to \in 0..Len(x1)
              PROVE  /\ Spliced(x1, from, m, to) \in Seq(Chars)
                     /\ Len(Spliced(x1, from, m, to)) = from + Len(m) + (Len(x1) - to)
          BY <1>1, SplicedIs
        <5> QED BY <2>3, <5>1
      <4> QED BY <2>3, <4>1, <4>2
    <3> QED BY <1>1, <2>1, <3>1
  <2> QED BY <2>1, <2>6, EditedTypes
<1>6. CASE RC!Submit
  <2>1. ReplTypes'
    BY <1>2, <1>6 DEF RC!Submit, RC!workerVars, ReplInv, ReplTypes
  <2>2. OfferInv'
    BY <1>6 DEF RC!Submit, ReplInv, OfferInv, RC!OfferFits
  <2> QED BY <2>1, <2>2 DEF ReplInv
<1>7. ASSUME NEW c \in 0..Len(x1), RC!MoveCursor(c)  PROVE ReplInv'
  <2>1. ReplTypes'
    BY <1>2, <1>3, <1>7 DEF RC!MoveCursor, RC!workerVars, ReplInv, ReplTypes
  <2>2. OfferInv'
    BY <1>7 DEF RC!MoveCursor, ReplInv, OfferInv, RC!OfferFits
  <2> QED BY <2>1, <2>2 DEF ReplInv
<1>8. ASSUME x1' = x1, x2' = x2, x6' = x6, x8' = x8, x9' = x9, x11' = x11, x12' = x12
      PROVE  OfferInv'
  <2>1. RC!TokenStart' = RC!TokenStart /\ RC!Typed' = RC!Typed /\ RC!Here' = RC!Here
    BY <1>8 DEF RC!TokenStart, RC!Typed, RC!Here
  <2> QED BY <1>8, <2>1 DEF ReplInv, OfferInv, RC!OfferFits
<1>9. ASSUME NEW c \in 0..Len(x1), RC!Activate(c)  PROVE ReplInv'
  <2>1. ReplTypes'
    BY <1>9 DEF RC!Activate, RC!workerVars, ReplInv, ReplTypes
  <2>2. CASE c = x2
    <3>1. x12' = x12
      BY <1>9, <2>2 DEF RC!Activate, ReplInv, ReplTypes
    <3>2. OfferInv'
      BY <1>8, <1>9, <2>2, <3>1 DEF RC!Activate
    <3> QED BY <2>1, <3>2 DEF ReplInv
  <2>3. CASE c # x2
    <3>1. OfferInv'
      BY <1>9, <2>3 DEF RC!Activate, ReplInv, OfferInv, RC!OfferFits
    <3> QED BY <2>1, <3>1 DEF ReplInv
  <2> QED BY <2>2, <2>3
<1>10. ASSUME NEW c \in 0..Len(x1), RC!Resize(c)  PROVE ReplInv'
  <2>1. ReplTypes'
    BY <1>2, <1>10 DEF RC!Resize, RC!workerVars, ReplInv, ReplTypes
  <2>2. OfferInv'
    BY <1>10 DEF RC!Resize, ReplInv, OfferInv, RC!OfferFits
  <2> QED BY <2>1, <2>2 DEF ReplInv
<1>11. CASE RC!LoseFocus
  <2>1. ReplTypes'
    BY <1>11 DEF RC!LoseFocus, RC!offerVars, RC!workerVars, ReplInv, ReplTypes
  <2>2. OfferInv'
    BY <1>8, <1>11 DEF RC!LoseFocus, RC!offerVars
  <2> QED BY <2>1, <2>2 DEF ReplInv
<1>12. ASSUME NEW clearing \in BOOLEAN, RC!Deactivate(clearing)  PROVE ReplInv'
  <2>1. x1' \in Seq(Chars) /\ x2' \in 0..Len(x1')
    BY <1>1, <1>12 DEF RC!Deactivate
  <2>2. /\ x6' = 0 /\ x5' = FALSE /\ x9' = <<>> /\ x10' = 1 /\ x11' = RC!NoGhost /\ x12' = FALSE
        /\ x3' = FALSE /\ x4' = "never" /\ UNCHANGED <<x7, x13, x14, x15, x16>>
    BY <1>12 DEF RC!Deactivate, RC!Clear, RC!workerVars
  <2>3. ReplTypes'
    <3>1. x3' \in BOOLEAN /\ x5' \in BOOLEAN /\ x12' \in BOOLEAN /\ x16' \in BOOLEAN
      BY <2>2 DEF ReplInv, ReplTypes
    <3>2. x10' \in 1..(Len(x9') + 1) /\ x9' \in Replies /\ x4' \in RC!Ages
      BY <1>3, <2>2 DEF RC!Ages
    <3> QED BY <1>2, <2>1, <2>2, <3>1, <3>2 DEF ReplInv, ReplTypes
  <2>4. OfferInv'
    BY <2>2 DEF OfferInv, RC!OfferFits
  <2> QED BY <2>3, <2>4 DEF ReplInv
<1>13. CASE RC!Receive
  <2> DEFINE reply == Head(x15)
  <2>1. /\ x15 # <<>> /\ x15' = Tail(x15) /\ reply \in [id : 1..x7, labels : Replies]
        /\ x15' \in Seq([id : 1..x7, labels : Replies])
    <3>1. x15 # <<>> /\ x15' = Tail(x15)
      BY <1>13 DEF RC!Receive, RC!Arrives
    <3> DEFINE S == [id : 1..x7, labels : Replies]
    <3>2. x15 \in Seq(S)
      BY <1>1
    <3> HIDE DEF S
    <3>3. Head(x15) \in S /\ Tail(x15) \in Seq(S)
      BY <3>1, <3>2
    <3> QED BY <3>1, <3>3 DEF S
  <2>2. UNCHANGED <<x1, x2, x3, x4, x5, x8, x7, x13, x14, x16>>
    BY <1>13 DEF RC!Receive, RC!Arrives, RC!inputVars
  <2>3. x6' = (IF reply.id = x6 THEN 0 ELSE x6)
    BY <1>13 DEF RC!Receive, RC!Arrives
  <2>4. CASE reply.id = x6 /\ x8 = RC!Here
    <3>1. reply.labels \in Replies /\ x6' = 0 /\ x6 # 0 /\ x11 = RC!NoGhost
      BY <1>1, <2>1, <2>3, <2>4 DEF ReplInv, OfferInv
    <3>2. RC!Take(reply.labels)
      BY <1>13, <2>4 DEF RC!Receive, RC!Arrives
    <3>3. x9' = reply.labels /\ x10' = 1 /\ x12' = FALSE
      BY <3>2 DEF RC!Take
    <3>4. 1 \in 1..(Len(reply.labels) + 1) /\ Len(reply.labels) \in Nat
      BY <3>1, RepliesAre
    <3>5. x11' = RC!NoGhost \/ x11' = RC!Ghost(reply.labels, 1)
      BY <3>1, <3>2 DEF RC!Take
    <3>6. /\ x11' \in [start : Nat, length : Nat, label : Seq(Chars)]
          /\ x11' # RC!NoGhost =>
                /\ x11'.label \in RC!Range(reply.labels)
                /\ x11'.start = RC!TokenStart /\ x11'.start + x11'.length = x2
                /\ RC!Continues(x11'.label, RC!Typed)
      BY <1>1, <1>2, <3>1, <3>4, <3>5, GhostIs
    <3>7. RC!TokenStart' = RC!TokenStart /\ RC!Typed' = RC!Typed /\ RC!Here' = RC!Here
      BY <2>2 DEF RC!TokenStart, RC!Typed, RC!Here
    <3>8. RC!OfferFits'
      BY <2>2, <2>4, <3>3, <3>6, <3>7 DEF RC!OfferFits
    <3>9. OfferInv'
      BY <2>2, <2>4, <3>1, <3>7, <3>8 DEF OfferInv
    <3>10. ReplTypes'
      BY <2>1, <2>2, <3>1, <3>3, <3>4, <3>6 DEF ReplInv, ReplTypes
    <3> QED BY <3>9, <3>10 DEF ReplInv
  <2>5. CASE ~(reply.id = x6 /\ x8 = RC!Here)
    <3>1. UNCHANGED <<x9, x10, x11, x12>>
      BY <1>13, <2>5 DEF RC!Receive, RC!Arrives
    <3>2. x6' = x6 \/ x6' = 0
      BY <2>3
    <3>3. ReplTypes'
      BY <2>1, <2>2, <3>1, <3>2 DEF ReplInv, ReplTypes
    <3>4. RC!TokenStart' = RC!TokenStart /\ RC!Typed' = RC!Typed /\ RC!Here' = RC!Here
      BY <2>2 DEF RC!TokenStart, RC!Typed, RC!Here
    <3>5. OfferInv'
      BY <2>2, <3>1, <3>2, <3>4 DEF ReplInv, OfferInv, RC!OfferFits
    <3> QED BY <3>3, <3>5 DEF ReplInv
  <2> QED BY <2>4, <2>5
<1>14. CASE RC!Tick
  <2>1. CASE RC!Request
    BY <2>1, RequestKeeps
  <2>2. CASE RC!Ready /\ RC!Show(x10)
    BY <1>1, <2>2, ShowKeeps DEF RC!Ready
  <2> QED BY <1>14, <2>1, <2>2 DEF RC!Tick
<1>15. CASE RC!Tab
  <2>1. CASE RC!Request
    BY <2>1, RequestKeeps
  <2>2. ASSUME NEW c \in 0..(Len(x1) + Len(x11.label)), RC!Accept(c), c <= Len(x1')
        PROVE  ReplInv'
    <3> DEFINE from == RC!Min({x11.start, Len(x1)})
               to == RC!Min({from + x11.length, Len(x1)})
               t == SubSeq(x1, 1, from) \o x11.label \o SubSeq(x1, to + 1, Len(x1))
    <3>1. from \in 0..Len(x1)
      BY <1>1, LesserIs
    <3>2. to \in 0..Len(x1)
      <4> HIDE DEF from
      <4>1. from + x11.length \in Nat
        BY <1>1, <3>1
      <4> QED BY <1>1, <4>1, LesserIs
    <3>3. RC!Edited(t, c) /\ x1' = t
      BY <2>2 DEF RC!Accept, RC!Edited
    <3> HIDE DEF from, to
    <3>4. t \in Seq(Chars)
      <4>1. Spliced(x1, from, x11.label, to) = t
        BY DEF Spliced
      <4> HIDE DEF t
      <4>2. x11.label \in Seq(Chars)
        BY <1>1
      <4> QED BY <1>1, <3>1, <3>2, <4>1, <4>2, SplicedIs
    <3> HIDE DEF t
    <3>5. c \in 0..Len(t)
      BY <1>1, <2>2, <3>3, <3>4
    <3> QED BY <3>3, <3>4, <3>5, EditedTypes
  <2> QED BY <1>15, <2>1, <2>2 DEF RC!Tab
<1>16. ASSUME NEW forward \in BOOLEAN, RC!Cycle(forward)  PROVE ReplInv'
  <2> DEFINE n == RC!Cardinality(RC!Matches(x9))
             at == RC!InRange(x10, x9)
  <2>1. /\ x9 # <<>> /\ n > 0
        /\ IF x11 = RC!NoGhost THEN RC!Show(at)
           ELSE n > 1 /\ RC!Show(IF forward THEN (at % n) + 1 ELSE ((at + n - 2) % n) + 1)
    BY <1>16 DEF RC!Cycle, RC!Ready
  <2>2. n \in 0..Len(x9) /\ Len(x9) \in Nat
    BY <1>1, MatchesAre, RepliesAre
  <2>3. at \in 1..(Len(x9) + 1)
    BY <1>1, GhostIs
  <2> HIDE DEF n, at
  <2>4. (at % n) + 1 \in 1..(Len(x9) + 1)
    BY <2>1, <2>2, <2>3
  <2>5. ((at + n - 2) % n) + 1 \in 1..(Len(x9) + 1)
    <3>1. at + n - 2 \in Nat
      BY <2>1, <2>2, <2>3
    <3>2. \A m \in Nat : (m % n) + 1 \in 1..(Len(x9) + 1)
      BY <2>1, <2>2
    <3> QED BY <3>1, <3>2
  <2> QED BY <2>1, <2>3, <2>4, <2>5, ShowKeeps
<1>17. CASE RC!Wait
  <2>1. x4' \in RC!Ages
    BY <1>17 DEF RC!Wait, RC!Older, RC!Ages
  <2>2. UNCHANGED <<x1, x2, x3, x5, x6, x8, x9, x10, x11, x12, x7, x13, x14, x15, x16>>
    BY <1>17 DEF RC!Wait, RC!offerVars, RC!workerVars
  <2>3. ReplTypes'
    BY <2>1, <2>2 DEF ReplInv, ReplTypes
  <2>4. OfferInv'
    BY <1>8, <2>2
  <2> QED BY <2>3, <2>4 DEF ReplInv
<1>18. CASE RC!Session /\ UNCHANGED <<RC!inputVars, RC!offerVars, x7>>
  <2>1. UNCHANGED <<x1, x2, x3, x4, x5, x6, x8, x9, x10, x11, x12, x7>>
    BY <1>18 DEF RC!inputVars, RC!offerVars
  <2>2. /\ x13' \in 0..x7 /\ x14' \in 0..x7 /\ (x13' # 0 => x14' < x13')
        /\ x15' \in Seq([id : 1..x7, labels : Replies])
    <3>1. x13 \in 0..x7 /\ x14 \in 0..x7 /\ (x13 # 0 => x14 < x13)
      BY DEF ReplInv, ReplTypes
    <3>2. CASE UNCHANGED <<x13, x14, x15>>
      BY <1>1, <3>1, <3>2
    <3>3. CASE RC!Preempt
      BY <1>1, <3>1, <3>3 DEF RC!Preempt
    <3>4. CASE x13 # 0 /\ x14 = 0 /\ x14' = x13 /\ x13' = 0 /\ x15' = x15
      BY <1>1, <3>1, <3>4
    <3>5. CASE /\ x14 # 0 /\ x14' = 0 /\ x13' = x13
               /\ \E labels \in Replies : x15' = Append(x15, [id |-> x14, labels |-> labels])
      <4>1. x13' \in 0..x7 /\ x14' \in 0..x7 /\ (x13' # 0 => x14' < x13')
        BY <1>1, <3>1, <3>5
      <4>2. x15' \in Seq([id : 1..x7, labels : Replies])
        <5>1. PICK labels \in Replies : x15' = Append(x15, [id |-> x14, labels |-> labels])
          BY <3>5
        <5>2. [id |-> x14, labels |-> labels] \in [id : 1..x7, labels : Replies]
          BY <1>1, <3>1, <3>5
        <5> QED BY <1>1, <5>1, <5>2, AppendProperties
      <4> QED BY <4>1, <4>2
    <3> QED BY <1>18, <3>2, <3>3, <3>4, <3>5 DEF RC!Session, RC!Work, RC!workerVars
  <2>3. x16' \in BOOLEAN
    BY <1>18 DEF RC!Session, ReplInv, ReplTypes
  <2>4. ReplTypes'
    BY <2>1, <2>2, <2>3 DEF ReplInv, ReplTypes
  <2>5. OfferInv'
    BY <1>8, <2>1
  <2> QED BY <2>4, <2>5 DEF ReplInv
<1>19. CASE RC!Edit
  BY <1>4, <1>5, <1>6, <1>19 DEF RC!Edit
<1>20. CASE RC!Move \/ RC!Leave
  BY <1>7, <1>9, <1>10, <1>11, <1>12, <1>20 DEF RC!Move, RC!Leave
<1>21. CASE RC!Complete
  BY <1>13, <1>14, <1>15, <1>16, <1>21 DEF RC!Complete
<1> QED BY <1>17, <1>18, <1>19, <1>20, <1>21 DEF RC!Next

LEMMA ReplHolds ==
  ASSUME ReplInv
  PROVE  RC!TypeOK /\ RC!OfferFits
<1> USE DEF ReplInv, ReplTypes
<1>1. x3 \in BOOLEAN /\ x5 \in BOOLEAN /\ x12 \in BOOLEAN /\ x16 \in BOOLEAN /\ x4 \in RC!Ages
  OBVIOUS
<1>2. x1 \in Seq(Letters \cup Marks \cup
                UNION {RC!Range(label) : label \in UNION {RC!Range(reply) : reply \in Replies}})
  BY DEF Chars
<1>3. \A i \in DOMAIN x15 : x15[i] \in [id : 1..x7, labels : Replies]
  <2> DEFINE S == [id : 1..x7, labels : Replies]
  <2>1. x15 \in Seq(S)
    OBVIOUS
  <2> HIDE DEF S
  <2>2. \A i \in DOMAIN x15 : x15[i] \in S
    BY <2>1
  <2> QED BY <2>2 DEF S
<1>4. x2 \in 0..Len(x1) /\ x6 \in {0, x7} /\ x7 \in 0..MaxQuestions /\ x9 \in Replies
      /\ x10 \in 1..(Len(x9) + 1) /\ x13 \in 0..x7 /\ x14 \in 0..x7 /\ (x13 # 0 => x14 < x13)
  OBVIOUS
<1>5. RC!TypeOK
  BY <1>1, <1>2, <1>3, <1>4, Zenon DEF RC!TypeOK
<1> QED BY <1>5 DEF OfferInv

-----------------------------------------------------------------------------
(* The session that stands in for a debugger. *)

(* ... and what the snapshot tells is the state. *)
MockInv ==
    /\ MS!TypeOK
    /\ x6 = MS!LineIndex(x5)
    /\ x2 => x3 \in {"exited", "disconnected"} \/ (x3 = "stopped" <=> x4)
    /\ x2 /\ x3 = "running" => ~x4
    /\ ~x2 => x3 = "disconnected"

\* The place of a line of the list is where it is in it, that of any other the first.
LEMMA IndexOfLine ==
  ASSUME LinesAreSound
  PROVE  /\ \A n \in DOMAIN SourceLines : MS!LineIndex(SourceLines[n]) = n
         /\ \A l : MS!LineIndex(l) \in DOMAIN SourceLines
         /\ 1 \in DOMAIN SourceLines /\ MS!LineIndex(1) = 1
<1>1. 1 \in DOMAIN SourceLines
  BY DEF LinesAreSound
<1>2. ASSUME NEW n \in DOMAIN SourceLines PROVE MS!LineIndex(SourceLines[n]) = n
  <2>1. MS!Places(SourceLines[n]) = {n}
    BY <1>2 DEF MS!Places, LinesAreSound
  <2> QED BY <2>1 DEF MS!LineIndex
<1>3. ASSUME NEW l PROVE MS!LineIndex(l) \in DOMAIN SourceLines
  <2>1. CASE MS!Places(l) = {}
    BY <1>1, <2>1 DEF MS!LineIndex
  <2>2. CASE MS!Places(l) # {}
    BY <2>2 DEF MS!LineIndex, MS!Places
  <2> QED BY <2>1, <2>2
<1> QED BY <1>1, <1>2, <1>3 DEF LinesAreSound

\* It starts at the first line, before any launch.
LEMMA MockInit == ASSUME LinesAreSound, MS!Init PROVE MockInv
<1>1. x5 = 1 /\ x6 = 1 /\ MS!LineIndex(1) = 1 /\ 1 \in DOMAIN SourceLines
  BY IndexOfLine DEF MS!Init
<1>2. x2 = FALSE /\ x3 = "disconnected" /\ x4 = TRUE
  BY DEF MS!Init
<1>3. MS!TypeOK
  <2>1. x1 = "plain" /\ x7 = "own"
    BY DEF MS!Init
  <2>2. x8 \in 0..1 /\ x9 \in 0..MaxMockLaunches /\ x5 \in Nat \ {0}
    BY <1>1 DEF MS!Init, LinesAreSound
  <2> QED BY <1>1, <1>2, <2>1, <2>2, Zenon DEF MS!TypeOK
<1> QED BY <1>1, <1>2, <1>3, Zenon DEF MockInv

\* Every command leaves it at the line it shows.
LEMMA MockStep == ASSUME LinesAreSound, MockInv, [MS!Next]_(MS!vars) PROVE MockInv'
<1>1. \A n \in DOMAIN SourceLines : SourceLines[n] \in Nat \ {0}
  BY DEF LinesAreSound
<1>2. Len(SourceLines) \in DOMAIN SourceLines /\ 1 \in DOMAIN SourceLines /\ DOMAIN SourceLines = 1..Len(SourceLines)
  BY DEF LinesAreSound
<1>3. ASSUME NEW p \in Programs \cup {"plain"}, MS!Launch(p) PROVE MockInv'
  BY <1>3, IndexOfLine DEF MS!Launch, MS!Begin, MockInv, MS!TypeOK, LinesAreSound
<1>4. CASE MS!Relaunch
  BY <1>3, <1>4 DEF MS!Relaunch, MockInv, MS!TypeOK
<1>5. CASE MS!Shutdown
  BY <1>5 DEF MS!Shutdown, MockInv, MS!TypeOK
<1>6. CASE MS!Terminate \/ MS!Disconnect
  BY <1>6 DEF MS!Terminate, MS!Disconnect, MS!EndIn, MS!rest, MockInv, MS!TypeOK
<1>7. CASE MS!PlayPause
  BY <1>1, <1>2, <1>7, IndexOfLine DEF MS!PlayPause, MS!Live, MS!Ended, MS!rest, MockInv, MS!TypeOK
<1>8. CASE MS!Pause
  BY <1>8 DEF MS!Pause, MS!Live, MS!Ended, MS!rest, MockInv, MS!TypeOK
<1>9. ASSUME NEW n \in DOMAIN SourceLines, MS!Live, MS!StopAt(n), UNCHANGED MS!rest PROVE MockInv'
  BY <1>1, <1>9, IndexOfLine DEF MS!StopAt, MS!Live, MS!Ended, MS!rest, MockInv, MS!TypeOK
<1>10. CASE MS!StepOver
  <2>1. CASE x6 < Len(SourceLines)
    <3>1. x6 + 1 \in DOMAIN SourceLines
      BY <1>2, <2>1 DEF MockInv, MS!TypeOK
    <3> QED BY <1>9, <1>10, <2>1, <3>1 DEF MS!StepOver
  <2>2. CASE ~(x6 < Len(SourceLines))
    BY <1>10, <2>2 DEF MS!StepOver, MS!Live, MS!Ended, MS!rest, MockInv, MS!TypeOK
  <2> QED BY <2>1, <2>2
<1>11. CASE MS!StepBack
  <2>1. x6 - 1 \in DOMAIN SourceLines
    BY <1>2, <1>11 DEF MS!StepBack, MockInv, MS!TypeOK
  <2> QED BY <1>9, <1>11, <2>1 DEF MS!StepBack
<1>12. CASE MS!ReverseContinue
  BY <1>2, <1>9, <1>12 DEF MS!ReverseContinue
<1>13. CASE MS!Restart
  BY <1>13, IndexOfLine DEF MS!Restart, MS!Begin, MS!Live, MS!Ended, MockInv, MS!TypeOK, LinesAreSound
<1>14. ASSUME NEW l \in JumpLines, MS!Goto(l) PROVE MockInv'
  BY <1>14, IndexOfLine DEF MS!Goto, MS!Live, MS!Ended, MS!rest, MockInv, MS!TypeOK, LinesAreSound
<1>15. ASSUME NEW v \in Values, MS!SetVariable(v) PROVE MockInv'
  BY <1>15 DEF MS!SetVariable, MockInv, MS!TypeOK
<1>16. CASE MS!Drain
  BY <1>16 DEF MS!Drain, MockInv, MS!TypeOK
<1>17. CASE UNCHANGED MS!vars
  BY <1>17 DEF MS!vars, MockInv, MS!TypeOK
<1> QED
  BY <1>3, <1>4, <1>5, <1>6, <1>7, <1>8, <1>10, <1>11, <1>12, <1>13, <1>14, <1>15, <1>16, <1>17
     DEF MS!Next, MS!Command, MS!End

\* So it is where it says, and answers at a stop only.
LEMMA MockIsSteady == ASSUME MockInv PROVE MS!Steady
<1>1. x2 => MS!Snapshot = x3
  BY DEF MockInv, MS!TypeOK, MS!Snapshot, MS!Ended
<1>2. ~x2 \/ x3 = "running" => MS!StepInTargets = "refused" /\ MS!Completions = "refused"
  BY DEF MockInv, MS!StepInTargets, MS!Completions, MS!AtStop
<1>3. ~x2 \/ x3 = "running" => \A l \in JumpLines : MS!GotoTargets(l) = "refused"
  BY DEF MockInv, MS!GotoTargets, MS!AtStop
<1>4. ~x2 => MS!Evaluate = "refused" /\ MS!Breakpoints = "refused" /\ MS!Listing = "refused"
             /\ MS!Variables = "refused"
  BY DEF MS!Evaluate, MS!Breakpoints, MS!Listing, MS!Variables, MS!Launched
<1> QED BY <1>1, <1>2, <1>3, <1>4 DEF MS!Steady, MockInv

-----------------------------------------------------------------------------
(* The parts side by side. *)

FirstViews == ViewsAreSound(MemoryPanels, MaxMatches, MaxTouches)
SecondViews == ViewsAreSound(MixedPanels, MixedMatches, MixedTouches)

(* The part that runs is in its invariant; the rr session, which needs none  *)
(* of the shared variables, always is, and while another part runs there are *)
(* no panes.                                                                 *)
PartsInv ==
    /\ Inv
    /\ IF part = "focus" THEN FocusInv ELSE FocusIdle
    /\ part = "c_api" => ErrorInv
    /\ part = "capture" => CaptureInv
    /\ part = "network" => EditInv
    /\ part = "memory" => ViewInv(MemoryPanels, MaxMatches, MaxTouches)
    /\ part = "listings" => ViewInv(MixedPanels, MixedMatches, MixedTouches)
    /\ part = "repl" => ReplInv
    /\ part = "mock" => MockInv

LEMMA PartsInitInv == ASSUME PartsAreSound, PartsInit PROVE PartsInv
<1>1. Inv
  BY InitInv DEF PartsInit, RrInit, PartsAreSound
<1>2. IF part = "focus" THEN FocusInv ELSE FocusIdle
  BY FocusInitInv DEF PartsInit, PartsAreSound
<1>3. part = "c_api" => ErrorInv
  BY ErrorInit DEF PartsInit, PartsAreSound
<1>4. part = "capture" => CaptureInv
  BY CaptureInit DEF PartsInit, PartsAreSound
<1>5. part = "network" => EditInv
  BY EditInit DEF PartsInit, PartsAreSound
<1>6. part = "memory" => ViewInv(MemoryPanels, MaxMatches, MaxTouches)
  BY ViewInit DEF PartsInit, PartsAreSound
<1>7. part = "listings" => ViewInv(MixedPanels, MixedMatches, MixedTouches)
  BY ViewInit DEF PartsInit, PartsAreSound
<1>8. part = "repl" => ReplInv
  BY ReplInit DEF PartsInit, PartsAreSound
<1>9. part = "mock" => MockInv
  BY MockInit DEF PartsInit, PartsAreSound
<1> QED BY <1>1, <1>2, <1>3, <1>4, <1>5, <1>6, <1>7, <1>8, <1>9 DEF PartsInv

\* Nothing the invariant is about changes when no variable does.
LEMMA RestHolds == ASSUME PartsAreSound, PartsInv, UNCHANGED partsVars PROVE PartsInv'
<1>1. /\ UNCHANGED <<part, rrVars, focusVars>>
      /\ UNCHANGED <<x1, x2, x3, x4, x5, x6, x7, x8, x9, x10, x11, x12, x13, x14, x15, x16, x17>>
  BY DEF partsVars, others, rest9, rest10, rest13, rest17
<1>2. Inv'
  BY <1>1, InvStep DEF PartsInv, PartsAreSound, rrVars
<1>3. IF part' = "focus" THEN FocusInv' ELSE FocusIdle'
  BY <1>1, FocusInvStep DEF PartsInv, FocusIdle, focusVars, idVars
<1>4. part = "c_api" => ErrorInv'
  BY <1>1, ErrorStep DEF PartsInv, PartsAreSound, CA!vars
<1>5. part = "capture" => CaptureInv'
  <2>1. CaptureTypes => CaptureTypes'
    BY <1>1 DEF CaptureTypes
  <2>2. SlotIsRight => SlotIsRight'
    BY <1>1 DEF SlotIsRight, NC!InFlight
  <2>3. NC!Lists' = NC!Lists
    BY <1>1 DEF NC!Lists
  <2>4. \A e : NC!Places(e)' = NC!Places(e)
    BY <2>3 DEF NC!Places
  <2>5. RecordedOnce => RecordedOnce'
    BY <1>1, <2>4 DEF RecordedOnce
  <2>6. SendIsAlone => SendIsAlone'
    BY <1>1 DEF SendIsAlone
  <2> QED BY <1>1, <2>1, <2>2, <2>5, <2>6 DEF PartsInv, CaptureInv
<1>6. part = "network" => EditInv'
  BY <1>1 DEF PartsInv, EditInv
<1>7. ASSUME NEW p, NEW m, NEW t, ViewInv(p, m, t)  PROVE ViewInv(p, m, t)'
  BY <1>1, <1>7 DEF ViewInv, ViewTypes, ViewEdits, ViewQueues, MV!Memory, MV!Slots
<1>8. part = "repl" => ReplInv'
  BY <1>1 DEF PartsInv, ReplInv, ReplTypes, OfferInv, RC!OfferFits, RC!Here, RC!TokenStart, RC!Typed
<1>9. part = "mock" => MockInv'
  BY <1>1, MockStep DEF PartsInv, PartsAreSound, MS!vars
<1> QED BY <1>1, <1>2, <1>3, <1>4, <1>5, <1>6, <1>7, <1>8, <1>9 DEF PartsInv

\* Every step keeps the invariant: one part takes it.
LEMMA PartsInvStep == ASSUME PartsAreSound, PartsInv, PartsNext PROVE PartsInv'
<1>1. part' = part
  BY DEF PartsNext
<1>2. CASE part = "rr"
  <2>1. RrNext /\ UNCHANGED focusVars
    BY <1>2 DEF PartsNext
  <2>2. Inv'
    BY <2>1, InvStep DEF PartsInv, PartsAreSound, RrNext
  <2>3. FocusIdle'
    BY <1>2, <2>1 DEF PartsInv, FocusIdle, focusVars, idVars
  <2> QED BY <1>1, <1>2, <2>2, <2>3 DEF PartsInv
<1>3. CASE part = "focus"
  <2>1. FocusNext /\ UNCHANGED rrVars
    BY <1>3 DEF PartsNext
  <2>2. Inv'
    BY <2>1, InvStep DEF PartsInv, PartsAreSound, rrVars
  <2>3. FocusInv'
    BY <1>3, <2>1, FocusInvStep DEF PartsInv
  <2> QED BY <1>1, <1>3, <2>2, <2>3 DEF PartsInv
<1>4. CASE part \notin {"rr", "focus"}
  <2>1. UNCHANGED <<rrVars, focusVars>>
    BY <1>4 DEF PartsNext
  <2>2. Inv'
    BY <2>1, InvStep DEF PartsInv, PartsAreSound, rrVars
  <2>3. FocusIdle'
    BY <1>4, <2>1 DEF PartsInv, FocusIdle, focusVars, idVars
  <2>4. CASE part = "c_api"
    <3>1. ErrorInv'
      BY <2>4, ErrorStep DEF PartsNext, PartsInv, PartsAreSound
    <3> QED BY <1>1, <1>4, <2>2, <2>3, <2>4, <3>1 DEF PartsInv
  <2>5. CASE part = "capture"
    <3>1. CaptureInv'
      BY <2>5, CaptureStep DEF PartsNext, PartsInv, PartsAreSound
    <3> QED BY <1>1, <1>4, <2>2, <2>3, <2>5, <3>1 DEF PartsInv
  <2>6. CASE part = "network"
    <3>1. EditInv'
      BY <2>6, EditStep DEF PartsNext, PartsInv, PartsAreSound
    <3> QED BY <1>1, <1>4, <2>2, <2>3, <2>6, <3>1 DEF PartsInv
  <2>7. CASE part = "memory"
    <3>1. ViewInv(MemoryPanels, MaxMatches, MaxTouches)'
      BY <2>7, ViewStep DEF PartsNext, PartsInv, PartsAreSound
    <3> QED BY <1>1, <1>4, <2>2, <2>3, <2>7, <3>1 DEF PartsInv
  <2>8. CASE part = "listings"
    <3>1. ViewInv(MixedPanels, MixedMatches, MixedTouches)'
      BY <2>8, ViewStep DEF PartsNext, PartsInv, PartsAreSound
    <3> QED BY <1>1, <1>4, <2>2, <2>3, <2>8, <3>1 DEF PartsInv
  <2>9. CASE part = "repl"
    <3>1. ReplInv'
      BY <2>9, ReplStep DEF PartsNext, PartsInv, PartsAreSound
    <3> QED BY <1>1, <1>4, <2>2, <2>3, <2>9, <3>1 DEF PartsInv
  <2>10. CASE part = "mock"
    <3>1. MockInv'
      BY <2>10, MockStep DEF PartsNext, PartsInv, PartsAreSound
    <3> QED BY <1>1, <1>4, <2>2, <2>3, <2>10, <3>1 DEF PartsInv
  <2> QED BY <1>4, <2>4, <2>5, <2>6, <2>7, <2>8, <2>9, <2>10 DEF PartsNext
<1> QED BY <1>2, <1>3, <1>4

\* The invariant holds always.
LEMMA PartsInvariant == PartsAreSound => (PartsSpec => []PartsInv)
<1> SUFFICES ASSUME PartsAreSound PROVE PartsSpec => []PartsInv
  OBVIOUS
<1>1. PartsInit => PartsInv
  BY PartsInitInv
<1>2. PartsInv /\ [PartsNext]_partsVars => PartsInv'
  BY PartsInvStep, RestHolds
<1> QED BY <1>1, <1>2, PTL DEF PartsSpec

\* Every part stays in one of its states (PartsTypeOK).
THEOREM PartsTypeCorrect == PartsAreSound => (PartsSpec => []PartsTypeOK)
<1> SUFFICES ASSUME PartsAreSound PROVE PartsSpec => []PartsTypeOK
  OBVIOUS
<1>1. PartsInv => PartsTypeOK
  <2> SUFFICES ASSUME PartsInv PROVE PartsTypeOK
    OBVIOUS
  <2>1. TypeOK
    BY DEF PartsInv, Inv
  <2>2. part = "focus" => FocusTypeOK
    BY DEF PartsInv, FocusInv
  <2>3. part = "c_api" => CA!TypeOK
    BY Zenon DEF PartsInv, ErrorInv
  <2>4. part = "capture" => NC!TypeOK
    BY CaptureHolds DEF PartsInv
  <2>5. part = "network" => NP!TypeOK
    BY EditTypes DEF PartsInv, PartsAreSound
  <2>6. part = "memory" => MV(MemoryPanels, MaxMatches, MaxTouches)!TypeOK
    BY ViewHolds DEF PartsInv, PartsAreSound
  <2>7. part = "listings" => MV(MixedPanels, MixedMatches, MixedTouches)!TypeOK
    BY ViewHolds DEF PartsInv, PartsAreSound
  <2>8. part = "repl" => RC!TypeOK
    BY ReplHolds DEF PartsInv
  <2>9. part = "mock" => MS!TypeOK
    BY DEF PartsInv, MockInv
  <2> QED BY <2>1, <2>2, <2>3, <2>4, <2>5, <2>6, <2>7, <2>8, <2>9 DEF PartsTypeOK
<1> QED BY <1>1, PartsInvariant, PTL

\* What is shown belongs to what it is shown for (ShownIsCurrent): the match
\* that a memory panel highlights and the row that it edits are of the dump it
\* has, and a completion is one for what is typed, however answers, searches
\* and edits follow each other; the mock session is at the line it shows.
THEOREM ShownStaysCurrent == PartsAreSound => (PartsSpec => []ShownIsCurrent)
<1> SUFFICES ASSUME PartsAreSound PROVE PartsSpec => []ShownIsCurrent
  OBVIOUS
<1>1. PartsInv => ShownIsCurrent
  <2> SUFFICES ASSUME PartsInv PROVE ShownIsCurrent
    OBVIOUS
  <2>1. part = "memory" => MV(MemoryPanels, MaxMatches, MaxTouches)!PanelMatchesDump
    BY ViewHolds DEF PartsInv, PartsAreSound
  <2>2. part = "listings" => MV(MixedPanels, MixedMatches, MixedTouches)!PanelMatchesDump
    BY ViewHolds DEF PartsInv, PartsAreSound
  <2>3. part = "repl" => RC!OfferFits
    BY ReplHolds DEF PartsInv
  <2>4. part = "mock" => MS!Steady
    BY MockIsSteady DEF PartsInv
  <2> QED BY <2>1, <2>2, <2>3, <2>4 DEF ShownIsCurrent
<1> QED BY <1>1, PartsInvariant, PTL

\* A request that was alone in the proxy is recorded exactly once and with its
\* own response (CapturedOnce), wherever the record is on its way.
THEOREM RecordsAreKept == PartsAreSound => (PartsSpec => []CapturedOnce)
<1>1. PartsInv => CapturedOnce
  BY CaptureHolds DEF PartsInv, CapturedOnce
<1> QED BY <1>1, PartsInvariant, PTL

\* The result of a composed request is shown, once, when it comes (ResultShown).
THEOREM ResultsAreShown == PartsAreSound => (PartsSpec => ResultShown)
<1> SUFFICES ASSUME PartsAreSound PROVE PartsSpec => ResultShown
  OBVIOUS
<1>1. PartsInv /\ [PartsNext]_partsVars => [part = "capture" => NC!ShowsResult]_partsVars
  BY CaptureStep DEF PartsInv, PartsNext, PartsAreSound
<1> QED BY <1>1, PartsInvariant, PTL DEF PartsSpec, ResultShown

\* A caller of the C API is told the error of its own call, and gives up on a
\* viewport only if it fits none of the buffers (CallersAreTold).
THEOREM CallersAreToldTheirs == PartsAreSound => (PartsSpec => CallersAreTold)
<1> SUFFICES ASSUME PartsAreSound PROVE PartsSpec => CallersAreTold
  OBVIOUS
<1>1. PartsInv /\ [PartsNext]_partsVars
        => [part = "c_api" => CA!TellsOwnError /\ CA!GivesUpOnlyLarge]_partsVars
  BY ErrorTold DEF PartsInv, PartsNext, PartsAreSound
<1> QED BY <1>1, PartsInvariant, PTL DEF PartsSpec, CallersAreTold

\* An edit of a template changes that one only, and Escape undoes it; a panel
\* made anew during one has what the file had (EditIsLocal).
THEOREM EditsStayLocal == PartsAreSound => (PartsSpec => EditIsLocal)
<1> SUFFICES ASSUME PartsAreSound PROVE PartsSpec => EditIsLocal
  OBVIOUS
<1>1. PartsInv /\ [PartsNext]_partsVars => [part = "network" => NP!EndsLocally]_partsVars
  BY EditStep DEF PartsInv, PartsNext, PartsAreSound
<1> QED BY <1>1, PartsInvariant, PTL DEF PartsSpec, EditIsLocal

\* Beside the other parts too the rr session keeps step with gdb (Steady) ...
THEOREM RrStaysSteady == PartsAreSound => (PartsSpec => []Steady)
<1>1. PartsInv => Steady
  BY InvIsSteady DEF PartsInv
<1> QED BY <1>1, PartsInvariant, PTL

\* ... keys go to a panel that can be seen (KeyboardIsSeen) ...
THEOREM KeysStaySeen == PartsAreSound => (PartsSpec => []KeyboardIsSeen)
<1>1. PartsInv => KeyboardIsSeen
  BY DEF PartsInv, FocusInv, FocusIdle, KeyboardIsSeen
<1> QED BY <1>1, PartsInvariant, PTL

\* ... and where the user sends them (FocusFollows).
THEOREM KeysStayWhereSent == PartsAreSound => (PartsSpec => FocusFollows)
<1>1. PartsInv /\ [PartsNext]_partsVars => [GoesWhereSent]_focusVars
  <2> SUFFICES ASSUME PartsInv, [PartsNext]_partsVars, ~UNCHANGED focusVars  PROVE GoesWhereSent
    OBVIOUS
  <2>1. part = "focus"
    BY DEF PartsNext, partsVars
  <2> QED BY <2>1, StepGoes DEF PartsInv
<1> QED BY <1>1, PartsInvariant, PTL DEF PartsSpec, FocusFollows
=============================================================================
