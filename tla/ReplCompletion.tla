--------------------------- MODULE ReplCompletion ---------------------------
(* The input of the REPL and the completion it offers behind the cursor      *)
(* (repl_panel.cpp, app.cpp).  The completions are asked for 200 ms after an *)
(* edit and shown 500 ms after it; the answer comes from the worker thread.  *)
(* The draft is the text of the input; the list of matches is computed anew  *)
(* before it is used; a session that stops has a frame and can complete.     *)
EXTENDS Naturals, Sequences, FiniteSets, SequencesExt

CONSTANTS
    Letters, Others,   \* the characters that are part of a name, and those that are not
    Replies,           \* the lists of labels an adapter may answer with, in their order
    MaxText,           \* bound on what is typed
    MaxRequests        \* bound on the requests

VARIABLES
    text, cursor,      \* the input; the cursor is behind that many characters
    active,            \* input_active_, and the keyboard is in the REPL
    age,               \* the time since the last edit: an index of Ages
    sent,              \* repl_completion_fetch_sent_
    pending,           \* repl_completion_pending_id_, 0 for none
    id,                \* repl_completion_request_id_
    asked,             \* repl_completion_request_text_ and _column_
    candidates,        \* repl_completion_candidates_; the results are ready if it has any
    selected,          \* repl_completion_selected_index_
    ghost,             \* the suggestion behind the cursor
    strayed,           \* the input or the cursor left the candidates behind, which stayed
    posted, working,   \* the request in the mailbox of the worker and the one it works on
    replies,           \* CompletionsFinished events
    stopped            \* is_session_stopped()

inputVars == <<text, cursor, active, age>>
offerVars == <<sent, pending, asked, candidates, selected, ghost, strayed>>
workerVars == <<posted, working, replies>>
vars == <<inputVars, offerVars, id, workerVars, stopped>>

Ages == {"edited", "fetch", "show", "never"}
Older == [edited |-> "fetch", fetch |-> "show"]

NoGhost == [start |-> 0, length |-> 0, label |-> <<>>]
Ready == candidates # <<>>
Here == [text |-> text, column |-> cursor]

(* repl_completion_token_range *)
TokenStart == CHOOSE s \in 0..cursor :
    (\A i \in (s + 1)..cursor : text[i] \in Letters) /\ (s = 0 \/ text[s] \notin Letters)
Typed == SubSeq(text, TokenStart + 1, cursor)

(* repl_completion_ghost_suffix: there is one. *)
Continues(label, typed) == Len(label) > Len(typed) /\ SubSeq(label, 1, Len(typed)) = typed

(* rebuild_repl_completion_matches: which of the labels match. *)
Matches(labels) == {i \in DOMAIN labels : Typed = <<>> \/ Continues(labels[i], Typed)}
InRange(n, labels) == IF n > Cardinality(Matches(labels)) THEN 1 ELSE n

(* The n-th of them, in the order of the adapter. *)
Nth(labels, n) ==
    labels[CHOOSE i \in Matches(labels) : Cardinality({j \in Matches(labels) : j <= i}) = n]

(* show_repl_completion_ghost *)
Ghost(labels, n) ==
    IF Matches(labels) = {} THEN NoGhost
    ELSE [start |-> TokenStart, length |-> cursor - TokenStart,
          label |-> Nth(labels, InRange(n, labels))]

----------------------------------------------------------------------------
(* The input. *)

(* clear_repl_completion_state *)
Clear ==
    /\ pending' = 0 /\ sent' = FALSE /\ candidates' = <<>> /\ selected' = 1
    /\ ghost' = NoGhost /\ strayed' = FALSE /\ UNCHANGED asked

(* The callback for a change of the text. *)
Edited(t, c) ==
    /\ text' = t /\ cursor' = c /\ age' = "edited" /\ Clear
    /\ UNCHANGED <<active, id, workerVars, stopped>>

Type(char) ==
    /\ active /\ Len(text) < MaxText
    /\ Edited(SubSeq(text, 1, cursor) \o <<char>> \o SubSeq(text, cursor + 1, Len(text)), cursor + 1)

(* Backspace and Delete. *)
Erase(i) == active /\ i \in DOMAIN text /\ Edited(RemoveAt(text, i), i - 1)

(* A cursor key: cancel_completion_preview. *)
MoveCursor(c) ==
    /\ active /\ cursor' = c
    /\ candidates' = <<>> /\ selected' = 1 /\ ghost' = NoGhost
    /\ UNCHANGED <<text, active, age, sent, pending, asked, strayed, id, workerVars, stopped>>

(* Enter: submit_repl_expression, whose request for an evaluation is the     *)
(* session's.  The completions are not cleared.                              *)
Submit ==
    /\ active /\ text' = <<>> /\ cursor' = 0 /\ ghost' = NoGhost /\ strayed' = TRUE
    /\ UNCHANGED <<active, age, sent, pending, asked, candidates, selected, id, workerVars, stopped>>

(* A click in the REPL, or its key: activate_input and the cursor where the  *)
(* text input puts it.                                                       *)
Activate(c) ==
    /\ active' = TRUE /\ cursor' = c /\ strayed' = (strayed \/ c # cursor)
    /\ UNCHANGED <<text, age, sent, pending, asked, candidates, selected, ghost, id, workerVars, stopped>>

(* deactivate_repl_input, after a click elsewhere or, with the text, Escape. *)
Deactivate(clearing) ==
    /\ active /\ active' = FALSE /\ age' = "never" /\ Clear
    /\ text' = (IF clearing THEN <<>> ELSE text) /\ cursor' = (IF clearing THEN 0 ELSE cursor)
    /\ UNCHANGED <<id, workerVars, stopped>>

(* apply_focus, when something else gets the keyboard. *)
LoseFocus ==
    /\ active /\ active' = FALSE
    /\ UNCHANGED <<text, cursor, age, offerVars, id, workerVars, stopped>>

(* A terminal that is resized gets a new panel, with the draft as its text. *)
Resize(c) ==
    /\ active' = FALSE /\ cursor' = c /\ ghost' = NoGhost /\ strayed' = TRUE
    /\ UNCHANGED <<text, age, sent, pending, asked, candidates, selected, id, workerVars, stopped>>

----------------------------------------------------------------------------
(* The completions. *)

(* request_repl_completion *)
Request ==
    /\ stopped /\ text # <<>> /\ id < MaxRequests
    /\ sent' = TRUE /\ candidates' = <<>> /\ selected' = 1 /\ ghost' = NoGhost /\ strayed' = FALSE
    /\ id' = id + 1 /\ pending' = id + 1 /\ asked' = Here
    /\ posted' = id + 1
    /\ UNCHANGED <<inputVars, working, replies, stopped>>

Show(n) ==
    /\ selected' = InRange(n, candidates) /\ ghost' = Ghost(candidates, n)
    /\ UNCHANGED <<inputVars, sent, pending, asked, candidates, strayed, id, workerVars, stopped>>

(* tick_repl_completion *)
Tick ==
    /\ active /\ stopped /\ text # <<>>
    /\ IF age \in {"fetch", "show"} /\ ~sent /\ pending = 0 THEN Request
       ELSE Ready /\ age = "show" /\ ghost = NoGhost /\ Show(selected)

(* accept_ghost_suggestion *)
Accept(c) ==
    LET from == Min({ghost.start, Len(text)})
        to == Min({from + ghost.length, Len(text)})
    IN Edited(SubSeq(text, 1, from) \o ghost.label \o SubSeq(text, to + 1, Len(text)), c)

(* handle_tab_key *)
Tab ==
    /\ active
    /\ \/ ghost # NoGhost /\ \E c \in 0..(Len(text) + Len(ghost.label)) : Accept(c) /\ c <= Len(text')
       \/ ghost = NoGhost /\ Request

(* handle_repl_input_key and cycle_repl_completion: up and down. *)
Cycle(forward) ==
    LET n == Cardinality(Matches(candidates))
        at == InRange(selected, candidates)
    IN /\ active /\ Ready /\ n > 0
       /\ IF ghost = NoGhost THEN Show(at)
          ELSE n > 1 /\ Show(IF forward THEN (at % n) + 1 ELSE ((at + n - 2) % n) + 1)

(* handle_repl_completions_event; an answer that failed is one without labels. *)
Take(labels) ==
    /\ candidates' = labels /\ selected' = 1 /\ strayed' = FALSE
    /\ ghost' = (IF labels = <<>> THEN NoGhost
                 ELSE IF age \in {"show", "never"} THEN Ghost(labels, 1) ELSE ghost)

Arrives(fits) ==
    /\ replies # <<>> /\ replies' = Tail(replies)
    /\ LET reply == Head(replies) IN
       /\ pending' = (IF reply.id = pending THEN 0 ELSE pending)
       /\ IF reply.id = pending /\ fits THEN Take(reply.labels)
          ELSE UNCHANGED <<candidates, selected, ghost, strayed>>
    /\ UNCHANGED <<inputVars, sent, asked, id, posted, working, stopped>>

(* The column is not compared. *)
ReceiveAnywhere == Arrives(asked.text = text)

Receive == Arrives(asked = Here)

----------------------------------------------------------------------------
(* What goes on around it. *)

Wait == age \in DOMAIN Older /\ age' = Older[age]
        /\ UNCHANGED <<text, cursor, active, offerVars, id, workerVars, stopped>>

Work ==
    \/ posted # 0 /\ working = 0 /\ working' = posted /\ posted' = 0 /\ UNCHANGED replies
    \/ /\ working # 0 /\ working' = 0 /\ UNCHANGED posted
       /\ \E labels \in Replies : replies' = Append(replies, [id |-> working, labels |-> labels])

(* A command that stops the background work drops the request: when it is    *)
(* posted, or when the request is posted after it; and so does the worker    *)
(* when the session ends.                                                    *)
Preempt == posted # 0 /\ posted' = 0 /\ UNCHANGED <<working, replies>>

Session ==
    \/ (Work \/ Preempt) /\ UNCHANGED stopped
    \/ stopped' = ~stopped /\ UNCHANGED workerVars

Init ==
    /\ text = <<>> /\ cursor = 0 /\ active = FALSE /\ age = "never"
    /\ sent = FALSE /\ pending = 0 /\ id = 0 /\ asked = Here /\ candidates = <<>> /\ selected = 1
    /\ ghost = NoGhost /\ strayed = FALSE
    /\ posted = 0 /\ working = 0 /\ replies = <<>> /\ stopped = FALSE

Edit == Erase(cursor) \/ Erase(cursor + 1) \/ Submit \/ (\E char \in Letters \cup Others : Type(char))
Move == \E c \in 0..Len(text) : MoveCursor(c) \/ Activate(c) \/ Resize(c)
Leave == LoseFocus \/ (\E clearing \in BOOLEAN : Deactivate(clearing))
Complete == Receive \/ Tick \/ Tab \/ (\E forward \in BOOLEAN : Cycle(forward))

Next ==
    \/ Edit \/ Move \/ Leave \/ Complete \/ Wait
    \/ Session /\ UNCHANGED <<inputVars, offerVars, id>>

Spec == Init /\ [][Next]_vars

----------------------------------------------------------------------------
(* Correctness. *)

(* Only one request is with the worker and the mailbox holds at most one.    *)
TypeOK ==
    /\ text \in Seq(Letters \cup Others \cup UNION {Range(label) : label \in UNION {Range(r) : r \in Replies}})
    /\ cursor \in 0..Len(text) /\ active \in BOOLEAN /\ age \in Ages
    /\ sent \in BOOLEAN /\ pending \in {0, id} /\ id \in 0..MaxRequests
    /\ candidates \in Replies /\ selected \in 1..(Len(candidates) + 1)
    /\ posted \in 0..id /\ working \in 0..id /\ (posted # 0 => working < posted)
    /\ \A i \in DOMAIN replies : replies[i] \in [id : 1..id, labels : Replies]
    /\ stopped \in BOOLEAN /\ strayed \in BOOLEAN

(* What is offered behind the cursor was asked for this text and this place  *)
(* in it, and goes on from what is typed there, so that taking it changes no *)
(* other word.  It is not so once the expression was submitted or a click    *)
(* put the cursor elsewhere: neither drops what was offered before.          *)
OfferFits ==
    ghost # NoGhost /\ ~strayed =>
        /\ asked = Here
        /\ ghost.label \in Range(candidates)
        /\ ghost.start = TokenStart /\ ghost.start + ghost.length = cursor
        /\ Continues(ghost.label, Typed)
=============================================================================
