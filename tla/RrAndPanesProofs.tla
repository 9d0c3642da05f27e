-------------------------- MODULE RrAndPanesProofs --------------------------
(***************************************************************************)
(* Proofs of the two parts that run beside the others with variables of    *)
(* their own: a session on a recording keeps step with gdb, for every      *)
(* length of the program and any number of commands, launches and notes;   *)
(* and keys go to a panel that can be seen, and where the user sends them, *)
(* for every configuration of the docks and any number of panels and of    *)
(* changes.                                                                *)
(***************************************************************************)
EXTENDS RrSession, PaneFocus, FiniteSetTheorems, WellFoundedInduction, TLAPS

-----------------------------------------------------------------------------
(* The session on a recording.                                             *)
(*                                                                         *)
(* The command in flight that waits for a stop is in one place and in one  *)
(* only: among the lines gdb has not read, with gdb, or in the pipe, as    *)
(* its stop or as its refusal.  So when the session has read the one it    *)
(* waited for, nothing of the command is left.  A wait that was given up   *)
(* breaks this for good, until the next launch (late).                     *)

-----------------------------------------------------------------------------
(* The invariant.                                                          *)

Kinds == {"running", "stopped", "done", "error", "note"}
Reasons == {"exited-normally", "breakpoint-hit", "signal-received", "function-finished",
            "end-stepping-range", ""}
GdbLine == [kind : Kinds, token : Nat, what : Places \cup Reasons]
Written == [token : Nat, command : Waits]

\* The lines both ways; an answer that is no refusal tells a place.
PipeInv ==
    /\ pipe \in Seq(GdbLine)
    /\ \A i \in DOMAIN pipe :
          pipe[i].token <= token /\ (pipe[i].kind = "done" => pipe[i].what \in Places)
InboxInv ==
    /\ inbox \in Seq(Written)
    /\ \A i \in DOMAIN inbox : inbox[i].token <= token
    /\ gdb = "gone" => inbox = <<>>
LinesInv == token \in Nat /\ PipeInv /\ InboxInv

\* What a session does in each part of its life.
LifeInv ==
    /\ life = "none" => doing = "idle"
    /\ life # "none" => gdb # "none"
    /\ life = "open" => doing \in {"idle"} \cup Refreshing \cup Execs \cup Others
    /\ life = "open" /\ initial => doing = "idle"
    /\ life \in {"launching", "relaunching"} =>
          doing \in Launching \cup {"launch frames", "launch locals"} /\ leaked < launches
    /\ life = "relaunching" => ~initial
    /\ leaked <= launches

Unread == \E i \in DOMAIN inbox : AwaitsStop(inbox[i].command)
Running == AwaitsStop(gdb)
StopUnread == \E i \in DOMAIN pipe : pipe[i].kind = "stopped"
RefusalUnread == \E i \in DOMAIN pipe : pipe[i].kind = "error" /\ pipe[i].token = token

\* The command that waits for a stop is in one place.
InOnePlace ==
    /\ Unread => ~Running /\ ~StopUnread /\ ~RefusalUnread
    /\ Running => ~StopUnread /\ ~RefusalUnread
    /\ StopUnread => ~RefusalUnread
    /\ \A i, j \in DOMAIN inbox :
          AwaitsStop(inbox[i].command) /\ AwaitsStop(inbox[j].command) => i = j
    /\ \A i, j \in DOMAIN pipe : pipe[i].kind = "stopped" /\ pipe[j].kind = "stopped" => i = j
    /\ \A i \in DOMAIN inbox : inbox[i].token = token => AwaitsStop(inbox[i].command)
    /\ \A i \in DOMAIN pipe : pipe[i].kind = "done" => pipe[i].token # token

\* No such command is anywhere, and the last answer tells where the replay is.
Quiet ==
    /\ ~Unread /\ ~Running /\ ~StopUnread
    /\ \A i \in DOMAIN pipe :
          pipe[i].kind = "done" /\ pipe[i].token = token => pipe[i].what = place

FlightInv ==
    ~late => IF AwaitsStop(doing) THEN InOnePlace ELSE Quiet

\* The place a snapshot shows, from its first answer until it is given out.
ShowsInv ==
    ~late /\ (doing \in {"locals", "launch locals"} \/ (life = "open" /\ initial)) =>
        snapshot \in {0, place}

Inv == TypeOK /\ LinesInv /\ LifeInv /\ FlightInv /\ ShowsInv

-----------------------------------------------------------------------------
(* Lemmas about the two queues.                                            *)

\* What is left when the first one is read.
LEMMA TailOf ==
  ASSUME NEW S, NEW s \in Seq(S), s # <<>>
  PROVE  /\ Head(s) = s[1] /\ 1 \in DOMAIN s /\ Head(s) \in S /\ Tail(s) \in Seq(S)
         /\ \A i \in DOMAIN Tail(s) : i + 1 \in DOMAIN s /\ i \in Nat \ {0} /\ Tail(s)[i] = s[i + 1]
  OBVIOUS

\* What there is when one more is put behind the others.
LEMMA AppendOf ==
  ASSUME NEW S, NEW s \in Seq(S), NEW e \in S
  PROVE  /\ Append(s, e) \in Seq(S)
         /\ DOMAIN Append(s, e) = DOMAIN s \cup {Len(s) + 1}
         /\ Append(s, e)[Len(s) + 1] = e /\ Len(s) + 1 \notin DOMAIN s
         /\ \A i \in DOMAIN s : Append(s, e)[i] = s[i]
  OBVIOUS

\* What waits for a stop and what does not.
LEMMA Awaiting ==
  /\ \A c \in Execs \cup {"run", "run on"} : AwaitsStop(c) /\ c \in Waits
  /\ \A c \in Waits \ (Execs \cup {"run", "run on"}) : ~AwaitsStop(c)
  /\ \A c \in Refreshing \cup Others \cup {"launch frames", "launch locals", "idle", "connect", "sysroot",
        "break main", "ready", "gone", "none"} : ~AwaitsStop(c)
  BY DEF AwaitsStop, Execs, Forward, Reverse, Waits, Launching, Refreshing, Others

\* Every line in the pipe was there before.
NoNewLine == \A i \in DOMAIN pipe' : \E j \in DOMAIN pipe : pipe'[i] = pipe[j]

\* Taking lines out of the pipe brings no stop nearer.
LEMMA ReadingAddsNothing ==
  ASSUME LinesInv, pipe' = pipe \/ (pipe # <<>> /\ pipe' = Tail(pipe))
  PROVE  NoNewLine /\ pipe' \in Seq(GdbLine)
<1>1. CASE pipe' = pipe
  BY <1>1 DEF NoNewLine, LinesInv, PipeInv
<1>2. CASE pipe # <<>> /\ pipe' = Tail(pipe)
  BY <1>2, TailOf DEF NoNewLine, LinesInv, PipeInv
<1> QED BY <1>1, <1>2

\* No command that waits for a stop is anywhere once the line at hand is read.
Cleared == ~Unread /\ ~Running /\ ~StopUnread'

\* The next line to gdb then: its token is new, so nothing in the pipe
\* answers it.
LEMMA SendingIsSafe ==
  ASSUME LinesInv, Cleared, NEW c \in Waits, Send(c), NoNewLine, gdb' = gdb, place' = place
  PROVE  IF AwaitsStop(c) THEN InOnePlace' ELSE Quiet'
<1> DEFINE line == [token |-> token + 1, command |-> c]
<1>1. token \in Nat /\ token' = token + 1 /\ inbox' = Append(inbox, line)
  BY DEF Send, LinesInv
<1>2. /\ DOMAIN inbox' = DOMAIN inbox \cup {Len(inbox) + 1} /\ inbox'[Len(inbox) + 1] = line
      /\ \A i \in DOMAIN inbox : inbox'[i] = inbox[i] /\ inbox[i].token <= token
            /\ ~AwaitsStop(inbox[i].command) /\ inbox[i].token \in Nat
  <2>1. inbox \in Seq(Written) /\ line \in Written
    BY <1>1 DEF LinesInv, InboxInv, Written
  <2>2. \A i \in DOMAIN inbox : inbox[i] \in Written
    BY <2>1
  <2>3. \A i \in DOMAIN inbox : inbox[i].token \in Nat
    BY <2>2 DEF Written
  <2>4. \A i \in DOMAIN inbox : inbox[i].token <= token /\ ~AwaitsStop(inbox[i].command)
    BY DEF LinesInv, InboxInv, Cleared, Unread
  <2> HIDE DEF line
  <2>5. /\ DOMAIN inbox' = DOMAIN inbox \cup {Len(inbox) + 1} /\ inbox'[Len(inbox) + 1] = line
        /\ \A i \in DOMAIN inbox : inbox'[i] = inbox[i]
    BY <1>1, <2>1, AppendOf
  <2> QED BY <2>3, <2>4, <2>5
<1>3. \A i \in DOMAIN pipe' : pipe'[i].token <= token /\ pipe'[i].token \in Nat /\ pipe'[i].kind # "stopped"
  <2>1. \A j \in DOMAIN pipe : pipe[j].token \in Nat
    <3>1. \A j \in DOMAIN pipe : pipe[j] \in GdbLine
      BY DEF LinesInv, PipeInv
    <3> QED BY <3>1 DEF GdbLine
  <2>2. \A j \in DOMAIN pipe : pipe[j].token <= token
    BY DEF LinesInv, PipeInv
  <2>3. \A i \in DOMAIN pipe' : pipe'[i].kind # "stopped"
    BY DEF Cleared, StopUnread
  <2> QED BY <2>1, <2>2, <2>3 DEF NoNewLine
<1>4. ~Running' /\ ~StopUnread' /\ ~RefusalUnread'
  BY <1>1, <1>3 DEF Cleared, Running, StopUnread, RefusalUnread
<1>5. \A i \in DOMAIN pipe' : pipe'[i].token # token'
  BY <1>1, <1>3
<1>6. CASE AwaitsStop(c)
  <2>1. \A i \in DOMAIN inbox' : AwaitsStop(inbox'[i].command) => i = Len(inbox) + 1
    BY <1>2
  <2>2. \A i \in DOMAIN inbox' : inbox'[i].token = token' => i = Len(inbox) + 1
    BY <1>1, <1>2
  <2>3. AwaitsStop(inbox'[Len(inbox) + 1].command)
    BY <1>2, <1>6
  <2> QED
    BY <1>3, <1>4, <1>5, <1>6, <2>1, <2>2, <2>3 DEF InOnePlace
<1>7. CASE ~AwaitsStop(c)
  BY <1>2, <1>4, <1>5, <1>7 DEF Quiet, Unread
<1> QED BY <1>6, <1>7

\* An answer tells where the replay is.
DoneTells ==
    \A i \in DOMAIN pipe : pipe[i].kind = "done" /\ pipe[i].token = token => pipe[i].what = place

\* The lines after one was read.
LEMMA PipeRead ==
  ASSUME LinesInv, pipe' = pipe \/ (pipe # <<>> /\ pipe' = Tail(pipe)), token' \in Nat, token <= token'
  PROVE  PipeInv' /\ NoNewLine
<1>1. NoNewLine /\ pipe' \in Seq(GdbLine)
  BY ReadingAddsNothing
<1>2. \A j \in DOMAIN pipe : pipe[j].token \in Nat
  <2>1. \A j \in DOMAIN pipe : pipe[j] \in GdbLine
    BY DEF LinesInv, PipeInv
  <2> QED BY <2>1 DEF GdbLine
<1>3. \A i \in DOMAIN pipe' : pipe'[i].token <= token' /\ (pipe'[i].kind = "done" => pipe'[i].what \in Places)
  BY <1>1, <1>2 DEF LinesInv, PipeInv, NoNewLine
<1> QED BY <1>1, <1>3 DEF PipeInv, Places

\* The lines after gdb wrote one.
LEMMA PipeGrows ==
  ASSUME LinesInv, NEW e \in GdbLine, e.token <= token, e.kind = "done" => e.what \in Places,
         pipe' = Append(pipe, e), token' = token
  PROVE  /\ PipeInv'
         /\ DOMAIN pipe' = DOMAIN pipe \cup {Len(pipe) + 1} /\ Len(pipe) + 1 \notin DOMAIN pipe
         /\ pipe'[Len(pipe) + 1] = e /\ \A i \in DOMAIN pipe : pipe'[i] = pipe[i]
<1>1. pipe \in Seq(GdbLine)
  BY DEF LinesInv, PipeInv
<1>2. /\ pipe' \in Seq(GdbLine)
      /\ DOMAIN pipe' = DOMAIN pipe \cup {Len(pipe) + 1} /\ Len(pipe) + 1 \notin DOMAIN pipe
      /\ pipe'[Len(pipe) + 1] = e /\ \A i \in DOMAIN pipe : pipe'[i] = pipe[i]
  BY <1>1, AppendOf
<1>3. \A i \in DOMAIN pipe' : pipe'[i].token <= token' /\ (pipe'[i].kind = "done" => pipe'[i].what \in Places)
  BY <1>2 DEF LinesInv, PipeInv
<1> QED BY <1>2, <1>3 DEF PipeInv, Places

\* The lines to gdb after one more was written.
LEMMA InboxSent ==
  ASSUME LinesInv, NEW c \in Waits, Send(c), gdb' = gdb
  PROVE  InboxInv' /\ token' \in Nat /\ token <= token'
<1> DEFINE line == [token |-> token + 1, command |-> c]
<1>1. token \in Nat /\ token' = token + 1 /\ inbox' = Append(inbox, line) /\ gdb # "gone"
  BY DEF Send, LinesInv
<1>2. inbox \in Seq(Written) /\ line \in Written /\ line.token = token'
  BY <1>1 DEF LinesInv, InboxInv, Written
<1>3. \A i \in DOMAIN inbox : inbox[i].token \in Nat
  <2>1. \A i \in DOMAIN inbox : inbox[i] \in Written
    BY <1>2
  <2> QED BY <2>1 DEF Written
<1> HIDE DEF line
<1>4. /\ inbox' \in Seq(Written) /\ DOMAIN inbox' = DOMAIN inbox \cup {Len(inbox) + 1}
      /\ inbox'[Len(inbox) + 1] = line /\ \A i \in DOMAIN inbox : inbox'[i] = inbox[i]
  BY <1>1, <1>2, AppendOf
<1>5. \A i \in DOMAIN inbox' : inbox'[i].token <= token'
  BY <1>1, <1>2, <1>3, <1>4 DEF LinesInv, InboxInv
<1> QED BY <1>1, <1>4, <1>5 DEF InboxInv

\* The lines to gdb after it read one.
LEMMA InboxRead ==
  ASSUME LinesInv, inbox # <<>>, inbox' = Tail(inbox), token' = token, gdb # "gone", gdb' # "gone"
  PROVE  /\ InboxInv' /\ Head(inbox) = inbox[1] /\ 1 \in DOMAIN inbox /\ inbox[1] \in Written
         /\ \A i \in DOMAIN inbox' : i + 1 \in DOMAIN inbox /\ i \in Nat \ {0}
               /\ inbox'[i] = inbox[i + 1]
<1>1. inbox \in Seq(Written)
  BY DEF LinesInv, InboxInv
<1>2. /\ Head(inbox) = inbox[1] /\ 1 \in DOMAIN inbox /\ inbox[1] \in Written /\ inbox' \in Seq(Written)
      /\ \A i \in DOMAIN inbox' : i + 1 \in DOMAIN inbox /\ i \in Nat \ {0}
            /\ inbox'[i] = inbox[i + 1]
  BY <1>1, TailOf
<1> QED BY <1>2 DEF LinesInv, InboxInv

\* The types of what the session keeps, and those of gdb, apart.
LEMMA TypesStay ==
  ASSUME TypeOK, UNCHANGED session,
         gdb' \in Execs \cup {"none", "ready", "gone", "run", "run on"}, place' \in Places,
         late' \in BOOLEAN, notes' \in 0..MaxNotes
  PROVE  TypeOK'
<1>1. /\ life' \in {"none", "launching", "relaunching", "open"}
      /\ state' \in {"Stopped", "Exited", "Disconnected"}
      /\ reason' \in {"breakpoint", "step", "entry", "exited_normally"}
      /\ doing' \in Waits \cup {"idle"}
  BY DEF TypeOK, session
<1>2. token' \in 0..MaxTokens /\ snapshot' \in Places /\ initial' \in BOOLEAN
  BY DEF TypeOK, session
<1>3. leaked' \in 0..MaxLaunches /\ launches' \in 0..MaxLaunches /\ args' \in BOOLEAN
  BY DEF TypeOK, session
<1> QED BY <1>1, <1>2, <1>3 DEF TypeOK, Places

\* Types of gdb's variables.
LEMMA GdbTypes ==
  ASSUME TypeOK
  PROVE  /\ gdb \in Execs \cup {"none", "ready", "gone", "run", "run on"} /\ place \in Places
         /\ late \in BOOLEAN /\ notes \in 0..MaxNotes
  BY DEF TypeOK

-----------------------------------------------------------------------------
(* gdb's own steps.  They change the lines, and the place only when it     *)
(* stops.                                                                  *)

\* gdb takes a command that lets the program run, and says that it runs.
LEMMA GdbStartsStep == ASSUME ParametersAreSound, Inv, GdbStarts PROVE Inv'
<1> DEFINE c == Head(inbox).command
           e == Line("running", Head(inbox).token, "")
<1> USE DEF Inv
<1>1. /\ gdb = "ready" /\ inbox # <<>> /\ AwaitsStop(c) /\ gdb' = c /\ pipe' = Append(pipe, e)
      /\ inbox' = Tail(inbox) /\ UNCHANGED <<session, place, late, notes>>
  BY DEF GdbStarts
<1>2. c \in Execs \cup {"run", "run on"}
  BY <1>1 DEF AwaitsStop
<1>3. gdb' \notin {"gone", "none", "ready"} /\ gdb # "gone" /\ token' = token
  BY <1>1, <1>2 DEF Execs, Forward, Reverse, session
<1>4. /\ InboxInv' /\ Head(inbox) = inbox[1] /\ 1 \in DOMAIN inbox /\ inbox[1] \in Written
      /\ \A i \in DOMAIN inbox' : i + 1 \in DOMAIN inbox /\ i \in Nat \ {0}
            /\ inbox'[i] = inbox[i + 1]
  BY <1>1, <1>3, InboxRead
<1>5. e \in GdbLine /\ e.token <= token /\ e.kind = "running"
  BY <1>4 DEF Line, GdbLine, Kinds, Reasons, Written, LinesInv, InboxInv
<1>6. /\ PipeInv'
      /\ DOMAIN pipe' = DOMAIN pipe \cup {Len(pipe) + 1} /\ Len(pipe) + 1 \notin DOMAIN pipe
      /\ pipe'[Len(pipe) + 1] = e /\ \A i \in DOMAIN pipe : pipe'[i] = pipe[i]
  <2> HIDE DEF e
  <2> QED BY <1>1, <1>3, <1>5, PipeGrows
<1>7. Unread
  BY <1>1, <1>4 DEF Unread
<1>8. TypeOK'
  <2>1. gdb' \in Execs \cup {"none", "ready", "gone", "run", "run on"}
    BY <1>1, <1>2
  <2>2. UNCHANGED <<session, place, late, notes>>
    BY <1>1
  <2> QED BY <2>1, <2>2, TypesStay, GdbTypes
<1>9. LinesInv'
  BY <1>3, <1>4, <1>6 DEF LinesInv
<1>10. LifeInv'
  BY <1>1, <1>3 DEF LifeInv, session
<1>11. ASSUME ~late PROVE AwaitsStop(doing) /\ InOnePlace /\ InOnePlace'
  <2>1. AwaitsStop(doing) /\ InOnePlace
    BY <1>7, <1>11 DEF FlightInv, Quiet
  <2>2. ~Unread'
    <3> SUFFICES ASSUME NEW i \in DOMAIN inbox', AwaitsStop(inbox'[i].command) PROVE FALSE
      BY DEF Unread
    <3>1. AwaitsStop(inbox[i + 1].command) /\ AwaitsStop(inbox[1].command)
      BY <1>1, <1>4
    <3> QED BY <1>4, <2>1, <3>1 DEF InOnePlace
  <2>3. ~StopUnread' /\ ~RefusalUnread'
    BY <1>3, <1>5, <1>6, <1>7, <2>1 DEF InOnePlace, StopUnread, RefusalUnread
  <2>4. \A i \in DOMAIN inbox' : inbox'[i].token = token' => AwaitsStop(inbox'[i].command)
    BY <1>3, <1>4, <2>1 DEF InOnePlace
  <2>5. \A i \in DOMAIN pipe' : pipe'[i].kind = "done" => pipe'[i].token # token'
    BY <1>3, <1>5, <1>6, <2>1 DEF InOnePlace
  <2> QED
    BY <2>1, <2>2, <2>3, <2>4, <2>5 DEF InOnePlace, Unread, StopUnread
<1>12. FlightInv' /\ ShowsInv'
  <2>1. late' = late /\ doing' = doing /\ place' = place /\ life' = life /\ initial' = initial
        /\ snapshot' = snapshot
    BY <1>1 DEF session
  <2>2. AwaitsStop(doing)' = AwaitsStop(doing)
    BY <2>1 DEF AwaitsStop, Execs, Forward, Reverse
  <2> QED BY <1>11, <2>1, <2>2 DEF FlightInv, ShowsInv
<1> QED BY <1>8, <1>9, <1>10, <1>12

\* The program stops: the stop goes into the pipe, and gdb no longer runs.
LEMMA GdbStopsStep == ASSUME ParametersAreSound, Inv, GdbStops PROVE Inv'
<1> USE DEF Inv
<1>1. PICK r \in StopReasons(gdb, place') : pipe' = Append(pipe, Line("stopped", 0, r))
  BY DEF GdbStops
<1> DEFINE e == Line("stopped", 0, r)
<1>2. /\ gdb \in Execs \cup {"run", "run on"} /\ place' = Moved(gdb) /\ gdb' = "ready"
      /\ UNCHANGED <<session, inbox, late, notes>>
  BY DEF GdbStops
<1>3. token' = token /\ Running
  BY <1>2, Awaiting DEF session, Running
<1>4. e \in GdbLine /\ e.token <= token /\ e.kind = "stopped"
  <2>1. r \in Reasons
    BY DEF StopReasons, Reasons
  <2>2. token \in Nat
    BY DEF LinesInv
  <2> QED BY <2>1, <2>2 DEF Line, GdbLine, Kinds
<1>5. /\ PipeInv'
      /\ DOMAIN pipe' = DOMAIN pipe \cup {Len(pipe) + 1} /\ Len(pipe) + 1 \notin DOMAIN pipe
      /\ pipe'[Len(pipe) + 1] = e /\ \A i \in DOMAIN pipe : pipe'[i] = pipe[i]
  <2>1. pipe' = Append(pipe, e)
    BY <1>1
  <2> HIDE DEF e
  <2> QED BY <1>3, <1>4, <2>1, PipeGrows
<1>6. TypeOK'
  <2>1. gdb' = "ready" /\ UNCHANGED <<session, late, notes>>
    BY <1>2
  <2>2. place' \in Places
    <3>1. place \in 0..LastLine + 1 /\ LastLine \in Nat
      BY DEF TypeOK, Places, ParametersAreSound
    <3>2. Moved(gdb) \in {1, place} \/ (place > 1 /\ Moved(gdb) = place - 1) \/ (place <= LastLine /\ Moved(gdb) = place + 1)
      BY DEF Moved
    <3>3. place' \in {1, place} \/ (place > 1 /\ place' = place - 1) \/ (place <= LastLine /\ place' = place + 1)
      BY <1>2, <3>2
    <3> QED BY ONLY <3>1, <3>3 DEF Places
  <2> QED BY <2>1, <2>2, TypesStay, GdbTypes
<1>7. LinesInv'
  BY <1>2, <1>3, <1>5 DEF LinesInv, InboxInv
<1>8. LifeInv'
  BY <1>2 DEF LifeInv, session
<1>9. ASSUME ~late PROVE AwaitsStop(doing) /\ InOnePlace /\ InOnePlace'
  <2>1. AwaitsStop(doing) /\ InOnePlace
    BY <1>3, <1>9 DEF FlightInv, Quiet
  <2>2. ~Unread' /\ ~Running'
    BY <1>2, <1>3, <2>1, Awaiting DEF Unread, Running, InOnePlace
  <2>3. ~RefusalUnread'
    BY <1>3, <1>4, <1>5, <2>1 DEF InOnePlace, RefusalUnread
  <2>4. \A i, j \in DOMAIN pipe' : pipe'[i].kind = "stopped" /\ pipe'[j].kind = "stopped" => i = j
    BY <1>3, <1>5, <2>1 DEF InOnePlace, StopUnread
  <2>5. \A i \in DOMAIN pipe' : pipe'[i].kind = "done" => pipe'[i].token # token'
    BY <1>3, <1>4, <1>5, <2>1 DEF InOnePlace
  <2>6. \A i \in DOMAIN inbox' : inbox'[i].token = token' => AwaitsStop(inbox'[i].command)
    BY <1>2, <1>3, <2>1 DEF InOnePlace
  <2> QED
    BY <2>1, <2>2, <2>3, <2>4, <2>5, <2>6 DEF InOnePlace, Unread
<1>10. FlightInv' /\ ShowsInv'
  <2>1. late' = late /\ doing' = doing /\ life' = life /\ initial' = initial
    BY <1>2 DEF session
  <2>2. ~late => ~(doing \in {"locals", "launch locals"} \/ (life = "open" /\ initial))
    BY <1>9, Awaiting DEF LifeInv, Refreshing
  <2> QED BY <1>9, <2>1, <2>2 DEF FlightInv, ShowsInv
<1> QED BY <1>6, <1>7, <1>8, <1>10

\* gdb answers a line that lets nothing run.
LEMMA GdbAnswersStep == ASSUME ParametersAreSound, Inv, GdbAnswers PROVE Inv'
<1> USE DEF Inv
<1>1. PICK kind \in {"done", "error"} :
         /\ kind = "done" => gdb = "ready" /\ place <= LastLine /\ ~AwaitsStop(Head(inbox).command)
         /\ pipe' = Append(pipe, Line(kind, Head(inbox).token, place))
  BY DEF GdbAnswers
<1> DEFINE e == Line(kind, Head(inbox).token, place)
<1>2. gdb \notin {"none", "gone"} /\ inbox # <<>> /\ inbox' = Tail(inbox) /\ UNCHANGED <<session,
                                                                                         gdb, place, late, notes>>
  BY DEF GdbAnswers
<1>3. token' = token /\ gdb' = gdb
  BY <1>2 DEF session
<1>4. /\ InboxInv' /\ Head(inbox) = inbox[1] /\ 1 \in DOMAIN inbox /\ inbox[1] \in Written
      /\ \A i \in DOMAIN inbox' : i + 1 \in DOMAIN inbox /\ i \in Nat \ {0}
            /\ inbox'[i] = inbox[i + 1]
  BY <1>2, <1>3, InboxRead
<1>5. /\ e \in GdbLine /\ e.token <= token /\ e.kind = kind /\ e.token = inbox[1].token /\ e.what = place
      /\ place \in Places
  BY <1>4 DEF Line, GdbLine, Kinds, Written, LinesInv, InboxInv, TypeOK
<1>6. /\ PipeInv'
      /\ DOMAIN pipe' = DOMAIN pipe \cup {Len(pipe) + 1} /\ Len(pipe) + 1 \notin DOMAIN pipe
      /\ pipe'[Len(pipe) + 1] = e /\ \A i \in DOMAIN pipe : pipe'[i] = pipe[i]
  <2>1. pipe' = Append(pipe, e)
    BY <1>1
  <2> HIDE DEF e
  <2> QED BY <1>3, <1>5, <2>1, PipeGrows
<1>7. TypeOK'
  BY <1>2, TypesStay, GdbTypes
<1>8. LinesInv'
  BY <1>3, <1>4, <1>6 DEF LinesInv
<1>9. LifeInv'
  BY <1>2 DEF LifeInv, session
<1> HIDE DEF e
<1>10. ~StopUnread => ~StopUnread'
  BY <1>1, <1>5, <1>6 DEF StopUnread
<1>11. Unread' => Unread
  BY <1>4 DEF Unread
<1>12. ASSUME ~late, AwaitsStop(doing) PROVE InOnePlace'
  <2>1. InOnePlace
    BY <1>12 DEF FlightInv
  <2>2. AwaitsStop(inbox[1].command) => Unread /\ ~Unread'
    <3> SUFFICES ASSUME AwaitsStop(inbox[1].command), NEW i \in DOMAIN inbox', AwaitsStop(inbox'[i].command)
                 PROVE FALSE
      BY <1>4 DEF Unread
    <3>1. AwaitsStop(inbox[i + 1].command)
      BY <1>4
    <3> QED BY <1>4, <2>1, <3>1 DEF InOnePlace
  <2>3. RefusalUnread' => RefusalUnread \/ inbox[1].token = token
    BY <1>3, <1>5, <1>6 DEF RefusalUnread
  <2>4. inbox[1].token = token => AwaitsStop(inbox[1].command)
    BY <1>4, <2>1 DEF InOnePlace
  <2>5. (StopUnread' => StopUnread) /\ (Running' <=> Running)
    BY <1>3, <1>10 DEF Running
  <2>6. /\ Unread' => ~Running' /\ ~StopUnread' /\ ~RefusalUnread'
        /\ Running' => ~StopUnread' /\ ~RefusalUnread'
        /\ StopUnread' => ~RefusalUnread'
    BY <1>11, <2>1, <2>2, <2>3, <2>4, <2>5 DEF InOnePlace
  <2>7. \A i, j \in DOMAIN inbox' : AwaitsStop(inbox'[i].command) /\ AwaitsStop(inbox'[j].command) => i = j
    <3> SUFFICES ASSUME NEW i \in DOMAIN inbox', NEW j \in DOMAIN inbox',
                        AwaitsStop(inbox'[i].command), AwaitsStop(inbox'[j].command)
                 PROVE i = j
      OBVIOUS
    <3>1. AwaitsStop(inbox[i + 1].command) /\ AwaitsStop(inbox[j + 1].command)
      BY <1>4
    <3>2. i + 1 = j + 1 /\ i \in Nat /\ j \in Nat
      BY <1>4, <2>1, <3>1 DEF InOnePlace
    <3> QED BY <3>2
  <2>8. \A i, j \in DOMAIN pipe' : pipe'[i].kind = "stopped" /\ pipe'[j].kind = "stopped" => i = j
    BY <1>1, <1>5, <1>6, <2>1 DEF InOnePlace
  <2>9. \A i \in DOMAIN inbox' : inbox'[i].token = token' => AwaitsStop(inbox'[i].command)
    BY <1>3, <1>4, <2>1 DEF InOnePlace
  <2>10. kind = "done" => inbox[1].token # token
    BY <1>1, <1>4, <2>4
  <2>11. \A i \in DOMAIN pipe' : pipe'[i].kind = "done" => pipe'[i].token # token'
    BY <1>3, <1>5, <1>6, <2>1, <2>10 DEF InOnePlace
  <2> QED BY <2>6, <2>7, <2>8, <2>9, <2>11 DEF InOnePlace
<1>13. ASSUME ~late, ~AwaitsStop(doing) PROVE Quiet'
  <2>1. Quiet
    BY <1>13 DEF FlightInv
  <2>2. ~Unread' /\ ~Running' /\ ~StopUnread'
    BY <1>3, <1>10, <1>11, <2>1 DEF Quiet, Running
  <2>3. \A i \in DOMAIN pipe' : pipe'[i].kind = "done" /\ pipe'[i].token = token' => pipe'[i].what = place'
    BY <1>2, <1>3, <1>5, <1>6, <2>1 DEF Quiet
  <2> QED BY <2>2, <2>3 DEF Quiet
<1>14. FlightInv' /\ ShowsInv'
  <2>1. late' = late /\ doing' = doing /\ life' = life /\ initial' = initial /\ snapshot' = snapshot /\ place' = place
    BY <1>2 DEF session
  <2> QED BY <1>12, <1>13, <2>1 DEF FlightInv, ShowsInv
<1> QED BY <1>7, <1>8, <1>9, <1>14

\* gdb says something nobody asked for.
LEMMA GdbNotesStep == ASSUME ParametersAreSound, Inv, GdbNotes PROVE Inv'
<1> USE DEF Inv
<1> DEFINE e == Line("note", 0, "")
<1>1. /\ notes < MaxNotes /\ notes' = notes + 1 /\ pipe' = Append(pipe, e)
      /\ UNCHANGED <<session, inbox, gdb, place, late>>
  BY DEF GdbNotes
<1>2. token' = token
  BY <1>1 DEF session
<1>3. e \in GdbLine /\ e.token <= token /\ e.kind = "note"
  BY DEF Line, GdbLine, Kinds, Reasons, LinesInv
<1>4. /\ PipeInv'
      /\ DOMAIN pipe' = DOMAIN pipe \cup {Len(pipe) + 1} /\ Len(pipe) + 1 \notin DOMAIN pipe
      /\ pipe'[Len(pipe) + 1] = e /\ \A i \in DOMAIN pipe : pipe'[i] = pipe[i]
  <2> HIDE DEF e
  <2> QED BY <1>1, <1>2, <1>3, PipeGrows
<1> HIDE DEF e
<1>5. TypeOK'
  <2>1. notes' \in 0..MaxNotes
    <3>1. notes \in 0..MaxNotes /\ MaxNotes \in Nat
      BY DEF TypeOK, ParametersAreSound
    <3> QED BY <1>1, <3>1
  <2>2. UNCHANGED <<session, gdb, place, late>>
    BY <1>1
  <2> QED BY <2>1, <2>2, TypesStay, GdbTypes
<1>6. LinesInv'
  BY <1>1, <1>2, <1>4 DEF LinesInv, InboxInv
<1>7. LifeInv'
  BY <1>1 DEF LifeInv, session
<1>8. (StopUnread' => StopUnread) /\ (RefusalUnread' => RefusalUnread) /\ (Unread' <=> Unread) /\ (Running' <=> Running)
  BY <1>1, <1>2, <1>3, <1>4 DEF StopUnread, RefusalUnread, Unread, Running
<1>9. ASSUME ~late, AwaitsStop(doing) PROVE InOnePlace'
  <2>1. InOnePlace
    BY <1>9 DEF FlightInv
  <2>2. \A i, j \in DOMAIN pipe' : pipe'[i].kind = "stopped" /\ pipe'[j].kind = "stopped" => i = j
    BY <1>3, <1>4, <2>1 DEF InOnePlace
  <2>3. \A i \in DOMAIN pipe' : pipe'[i].kind = "done" => pipe'[i].token # token'
    BY <1>2, <1>3, <1>4, <2>1 DEF InOnePlace
  <2>4. inbox' = inbox /\ token' = token
    BY <1>1, <1>2
  <2> QED BY <1>8, <2>1, <2>2, <2>3, <2>4 DEF InOnePlace
<1>10. ASSUME ~late, ~AwaitsStop(doing) PROVE Quiet'
  <2>1. Quiet /\ place' = place
    BY <1>1, <1>10 DEF FlightInv
  <2>2. \A i \in DOMAIN pipe' : pipe'[i].kind = "done" /\ pipe'[i].token = token' => pipe'[i].what = place'
    BY <1>2, <1>3, <1>4, <2>1 DEF Quiet
  <2> QED BY <1>8, <2>1, <2>2 DEF Quiet
<1>11. FlightInv' /\ ShowsInv'
  <2>1. late' = late /\ doing' = doing /\ life' = life /\ initial' = initial /\ snapshot' = snapshot /\ place' = place
    BY <1>1 DEF session
  <2> QED BY <1>9, <1>10, <2>1 DEF FlightInv, ShowsInv
<1> QED BY <1>5, <1>6, <1>7, <1>11

\* gdb is gone: what it had not read is lost, what it wrote is not.
LEMMA GdbDiesStep == ASSUME ParametersAreSound, Inv, GdbDies PROVE Inv'
<1> USE DEF Inv
<1>1. gdb' = "gone" /\ inbox' = <<>> /\ UNCHANGED <<session, pipe, place, late, notes>>
  BY DEF GdbDies
<1>2. pipe' = pipe /\ token' = token /\ place' = place
  BY <1>1 DEF session
<1>3. TypeOK'
  BY <1>1, TypesStay, GdbTypes
<1>4. LinesInv'
  BY <1>1, <1>2 DEF LinesInv, InboxInv, PipeInv, Places
<1>5. LifeInv'
  BY <1>1 DEF LifeInv, session
<1>6. ~Unread' /\ ~Running' /\ (StopUnread' <=> StopUnread) /\ (RefusalUnread' <=> RefusalUnread)
  <2>1. ~AwaitsStop("gone")
    BY Awaiting
  <2>2. ~Unread' /\ ~Running'
    BY <1>1, <2>1 DEF Unread, Running
  <2>3. (StopUnread' <=> StopUnread) /\ (RefusalUnread' <=> RefusalUnread)
    BY <1>2 DEF StopUnread, RefusalUnread
  <2> QED BY <2>2, <2>3
<1>7. (InOnePlace => InOnePlace') /\ (Quiet => Quiet')
  BY <1>1, <1>2, <1>6 DEF InOnePlace, Quiet
<1>8. FlightInv' /\ ShowsInv'
  <2>1. late' = late /\ doing' = doing /\ life' = life /\ initial' = initial /\ snapshot' = snapshot
    BY <1>1 DEF session
  <2> QED BY <1>2, <1>7, <2>1 DEF FlightInv, ShowsInv
<1> QED BY <1>3, <1>4, <1>5, <1>8

-----------------------------------------------------------------------------
(* The session's steps: what a call that writes a line or comes to its end *)
(* does to the lines and to the command in flight.                         *)

\* Writing a line with a new token: if the call waits for a stop, the command
\* is now in exactly one place; if not, nothing is under way.
LEMMA SendStep ==
  ASSUME ParametersAreSound, Inv, NEW c \in Waits, Send(c), ~late => Cleared,
         pipe' = pipe \/ (pipe # <<>> /\ pipe' = Tail(pipe)), gdb' = gdb, place' = place, late' = late
  PROVE  LinesInv' /\ FlightInv' /\ doing' = c /\ token' \in 0..MaxTokens /\ gdb # "gone"
<1> USE DEF Inv
<1>1. InboxInv' /\ token' \in Nat /\ token <= token'
  BY InboxSent
<1>2. PipeInv' /\ NoNewLine
  BY <1>1, PipeRead
<1>3. doing' = c /\ token' \in 0..MaxTokens /\ gdb # "gone"
  BY DEF Send, LinesInv, ParametersAreSound
<1>4. ~late => IF AwaitsStop(c) THEN InOnePlace' ELSE Quiet'
  BY <1>2, SendingIsSafe
<1> QED BY <1>1, <1>2, <1>3, <1>4 DEF LinesInv, FlightInv

\* A call ends: by then nothing of its command is left, or late says so.
LEMMA EndsStep ==
  ASSUME ParametersAreSound, Inv, ~late' => ~late /\ Cleared, doing' = "idle",
         pipe' = pipe \/ (pipe # <<>> /\ pipe' = Tail(pipe)),
         UNCHANGED <<token, inbox, gdb, place>>
  PROVE  LinesInv' /\ FlightInv'
<1> USE DEF Inv
<1>1. PipeInv' /\ NoNewLine
  BY PipeRead DEF LinesInv
<1>2. LinesInv'
  BY <1>1 DEF LinesInv, InboxInv
<1>3. ASSUME ~late' PROVE Quiet'
  <2>1. ~late /\ Cleared
    BY <1>3
  <2>2. DoneTells
    BY <2>1 DEF FlightInv, InOnePlace, Quiet, DoneTells
  <2>3. \A i \in DOMAIN pipe' : pipe'[i].kind = "done" /\ pipe'[i].token = token' => pipe'[i].what = place'
    BY <1>1, <2>2 DEF DoneTells, NoNewLine
  <2> QED BY <2>1, <2>3 DEF Quiet, Cleared, Unread, Running
<1>4. ~AwaitsStop("idle")
  BY Awaiting
<1> QED BY <1>2, <1>3, <1>4 DEF FlightInv

\* Between two calls, and in one that waits for no stop, all is clear.
LEMMA QuietIsClear ==
  ASSUME LinesInv, FlightInv, ~late, ~AwaitsStop(doing), pipe' = pipe \/ (pipe # <<>> /\ pipe' = Tail(pipe))
  PROVE  Cleared
<1>1. NoNewLine
  BY ReadingAddsNothing
<1> QED BY <1>1 DEF FlightInv, Quiet, Cleared, StopUnread, NoNewLine

\* The line a call waits for clears what it waits for.
LEMMA AnswerClears ==
  ASSUME LinesInv, FlightInv, ~late, pipe # <<>>, pipe' = Tail(pipe),
         Answers(Head(pipe)) \/ Refuses(Head(pipe))
  PROVE  Cleared
<1>1. CASE ~AwaitsStop(doing)
  BY <1>1, QuietIsClear
<1>2. CASE AwaitsStop(doing)
  <2>1. InOnePlace
    BY <1>2 DEF FlightInv
  <2>2. /\ Head(pipe) = pipe[1] /\ 1 \in DOMAIN pipe
        /\ \A i \in DOMAIN pipe' : i + 1 \in DOMAIN pipe /\ i \in Nat \ {0}
              /\ pipe'[i] = pipe[i + 1]
    BY TailOf DEF LinesInv, PipeInv
  <2>3. CASE pipe[1].kind = "stopped"
    <3>1. ~Unread /\ ~Running
      BY <2>1, <2>2, <2>3 DEF InOnePlace, StopUnread
    <3>2. ~StopUnread'
      BY <2>1, <2>2, <2>3 DEF InOnePlace, StopUnread
    <3> QED BY <3>1, <3>2 DEF Cleared
  <2>4. CASE pipe[1].kind = "error" /\ pipe[1].token = token
    <3>1. RefusalUnread
      BY <2>2, <2>4 DEF RefusalUnread
    <3>2. ~StopUnread'
      BY <2>1, <2>2, <3>1 DEF InOnePlace, StopUnread
    <3> QED BY <2>1, <3>1, <3>2 DEF InOnePlace, Cleared
  <2> QED BY <1>2, <2>2, <2>3, <2>4 DEF Answers, Refuses
<1> QED BY <1>1, <1>2
-----------------------------------------------------------------------------
(* The life of the session.                                                *)

\* There is room for one more replay server.
LEMMA Counted ==
  ASSUME ParametersAreSound, Inv
  PROVE  /\ leaked \in Nat /\ launches \in Nat /\ MaxLaunches \in Nat
         /\ leaked <= launches /\ launches <= MaxLaunches
<1>1. leaked \in 0..MaxLaunches /\ launches \in 0..MaxLaunches
  BY DEF Inv, TypeOK
<1>2. MaxLaunches \in Nat /\ leaked <= launches
  BY DEF Inv, LifeInv, ParametersAreSound
<1> QED BY <1>1, <1>2

\* A launch or a restart starts with new pipes.
LEMMA BeginStep ==
  ASSUME ParametersAreSound, Inv, NEW how \in {"launching", "relaunching"}, NEW withArgs \in BOOLEAN,
         how = "relaunching" => ~initial, Begin(how, withArgs)
  PROVE  Inv'
<1> USE DEF Inv
<1> DEFINE line == [token |-> 1, command |-> "connect"]
<1>1. /\ launches < MaxLaunches /\ launches' = launches + 1 /\ life' = how /\ args' = withArgs
      /\ gdb' = "ready" /\ pipe' = <<>> /\ place' = 0 /\ late' = FALSE
      /\ token' = 1 /\ inbox' = <<line>> /\ doing' = "connect"
      /\ UNCHANGED <<state, reason, snapshot, initial, leaked, notes>>
  BY DEF Begin
<1>2. TypeOK'
  <2>1. /\ token' \in 0..MaxTokens /\ place' \in Places /\ launches' \in 0..MaxLaunches
    <3>1. launches \in 0..MaxLaunches /\ MaxLaunches \in Nat /\ MaxTokens \in Nat \ {0} /\ LastLine \in Nat
      BY DEF TypeOK, ParametersAreSound
    <3> QED BY <1>1, <3>1 DEF Places
  <2>2. doing' \in Waits \cup {"idle"}
    BY <1>1 DEF Waits, Launching
  <2> QED BY <1>1, <2>1, <2>2 DEF TypeOK, Places
<1>3. LinesInv'
  <2>1. line \in Written /\ line.token = 1
    BY DEF Written, Waits, Launching
  <2> HIDE DEF line
  <2>2. inbox' \in Seq(Written) /\ \A i \in DOMAIN inbox' : inbox'[i] = line
    BY <1>1, <2>1
  <2> QED BY <1>1, <2>1, <2>2 DEF LinesInv, PipeInv, InboxInv
<1>4. LifeInv'
  <2>1. launches \in Nat /\ leaked \in Nat /\ leaked <= launches
    BY Counted
  <2>2. leaked' < launches' /\ leaked' <= launches'
    BY <1>1, <2>1
  <2>3. /\ life' \in {"launching", "relaunching"} /\ gdb' = "ready" /\ doing' = "connect"
        /\ life' = "relaunching" => ~initial'
    BY <1>1
  <2> QED BY ONLY <2>2, <2>3 DEF LifeInv, Launching
<1>5. FlightInv' /\ ShowsInv'
  <2>1. ~AwaitsStop("connect") /\ ~AwaitsStop("ready")
    BY Awaiting
  <2>2. \A i \in DOMAIN inbox' : inbox'[i].command = "connect"
    BY <1>1
  <2>3. Quiet'
    BY <1>1, <2>1, <2>2 DEF Quiet, Unread, Running, StopUnread
  <2> QED BY <1>1, <2>1, <2>3 DEF FlightInv, ShowsInv
<1> QED BY <1>2, <1>3, <1>4, <1>5

\* A launch that fails before gdb is there leaves no session.
LEMMA LaunchFailsStep ==
  ASSUME ParametersAreSound, Inv, life \in {"launching", "relaunching"}, LaunchFails PROVE Inv'
<1> USE DEF Inv
<1>1. /\ life' = (IF life = "relaunching" THEN "open" ELSE "none")
      /\ gdb' = (IF life = "relaunching" THEN "gone" ELSE "none")
      /\ leaked' = leaked + 1 /\ doing' = "idle" /\ pipe' = <<>> /\ inbox' = <<>>
      /\ UNCHANGED <<state, reason, token, snapshot, initial, launches, args, place, late, notes>>
  BY DEF LaunchFails
<1>2. leaked \in Nat /\ launches \in Nat /\ launches <= MaxLaunches /\ leaked < launches /\ MaxLaunches \in Nat
  BY Counted DEF LifeInv
<1>3. TypeOK'
  <2>1. leaked' \in 0..MaxLaunches
    BY <1>1, <1>2
  <2> QED BY <1>1, <2>1 DEF TypeOK, Places
<1>4. LinesInv'
  BY <1>1 DEF LinesInv, PipeInv, InboxInv
<1>5. LifeInv'
  <2>1. leaked' <= launches'
    BY <1>1, <1>2
  <2>2. /\ life' \in {"open", "none"} /\ doing' = "idle"
        /\ life' = "open" => gdb' = "gone"
    BY <1>1
  <2> QED BY ONLY <2>1, <2>2 DEF LifeInv
<1>6. FlightInv' /\ ShowsInv'
  <2>1. ~AwaitsStop("idle") /\ ~AwaitsStop(gdb')
    BY <1>1, Awaiting
  <2>2. Quiet'
    BY <1>1, <2>1 DEF Quiet, Unread, Running, StopUnread
  <2> QED BY <1>1, <2>1, <2>2 DEF FlightInv, ShowsInv, LifeInv
<1> QED BY <1>3, <1>4, <1>5, <1>6

\* Shutdown closes the session.
LEMMA ShutdownStep == ASSUME ParametersAreSound, Inv, Shutdown PROVE Inv'
<1> USE DEF Inv
<1>1. /\ doing = "idle" /\ life' = "none" /\ gdb' = "none" /\ pipe' = <<>> /\ inbox' = <<>>
      /\ UNCHANGED <<state, reason, doing, token, snapshot, initial, leaked, launches, args,
                     place, late, notes>>
  BY DEF Shutdown
<1>2. TypeOK'
  BY <1>1 DEF TypeOK, Places
<1>3. LinesInv'
  BY <1>1 DEF LinesInv, PipeInv, InboxInv
<1>4. LifeInv'
  BY <1>1 DEF LifeInv
<1>5. FlightInv' /\ ShowsInv'
  <2>1. ~AwaitsStop("idle") /\ ~AwaitsStop("none")
    BY Awaiting
  <2>2. Quiet'
    BY <1>1, <2>1 DEF Quiet, Unread, Running, StopUnread
  <2> QED BY <1>1, <2>1, <2>2 DEF FlightInv, ShowsInv
<1> QED BY <1>2, <1>3, <1>4, <1>5

-----------------------------------------------------------------------------
(* The calls of an open session.                                           *)

\* A call that begins with a line to gdb.
LEMMA CallStep ==
  ASSUME ParametersAreSound, Inv, Ready, ~initial,
         NEW c \in {"evaluate", "list breakpoints", "frames"} \cup Execs, Send(c),
         UNCHANGED <<life, state, reason, snapshot, initial, leaked, launches, args, pipe, gdb,
                     place, late, notes>>
  PROVE  Inv'
<1> USE DEF Inv
<1>1. life = "open" /\ doing = "idle" /\ ~AwaitsStop("idle")
  BY Awaiting DEF Ready
<1>2. ~late => Cleared
  BY <1>1, QuietIsClear
<1>3. c \in Waits /\ c \in Refreshing \cup Execs \cup Others
  BY DEF Waits, Refreshing, Others
<1>4. LinesInv' /\ FlightInv' /\ doing' = c /\ token' \in 0..MaxTokens
  BY <1>2, <1>3, SendStep
<1>5. TypeOK'
  <2>1. /\ life' \in {"none", "launching", "relaunching", "open"}
        /\ state' \in {"Stopped", "Exited", "Disconnected"}
        /\ reason' \in {"breakpoint", "step", "entry", "exited_normally"}
        /\ snapshot' \in Places /\ initial' \in BOOLEAN
    BY DEF TypeOK
  <2>2. leaked' \in 0..MaxLaunches /\ launches' \in 0..MaxLaunches /\ args' \in BOOLEAN
    BY DEF TypeOK
  <2>3. doing' \in Waits \cup {"idle"} /\ token' \in 0..MaxTokens
    BY <1>3, <1>4
  <2> QED BY <2>1, <2>2, <2>3, GdbTypes DEF TypeOK, Places
<1>6. LifeInv'
  BY <1>1, <1>3, <1>4 DEF LifeInv
<1>7. ShowsInv'
  <2>1. c \notin {"locals", "launch locals"}
    BY DEF Execs, Forward, Reverse
  <2> QED BY <1>4, <2>1 DEF ShowsInv
<1> QED BY <1>4, <1>5, <1>6, <1>7

\* A step between two calls that leaves the lines, gdb and the place alone.
LEMMA RestStep ==
  ASSUME ParametersAreSound, Inv, Ready, initial' => initial,
         state' \in {"Stopped", "Exited", "Disconnected"}, snapshot' \in {0, snapshot},
         initial' \in BOOLEAN, UNCHANGED <<life, reason, doing, token, leaked, launches, args,
                                           target>>
  PROVE  Inv'
<1> USE DEF Inv
<1>1. UNCHANGED <<life, reason, doing, token, leaked, launches, args>> /\ UNCHANGED <<pipe,
                                                                                      inbox, gdb, place, late, notes>>
  BY DEF target
<1>2. TypeOK'
  <2>1. snapshot' \in Places
    <3>1. snapshot \in 0..LastLine + 1 /\ LastLine \in Nat
      BY DEF TypeOK, Places, ParametersAreSound
    <3> QED BY <3>1 DEF Places
  <2> QED BY <1>1, <2>1 DEF TypeOK, Places
<1>3. LinesInv'
  BY <1>1 DEF LinesInv, PipeInv, InboxInv, Places
<1>4. LifeInv'
  BY <1>1 DEF LifeInv
<1>5. FlightInv'
  <2>1. (Quiet => Quiet') /\ doing' = "idle" /\ doing = "idle" /\ late' = late
    BY <1>1 DEF Quiet, Unread, Running, StopUnread, Ready
  <2> QED BY <2>1, Awaiting DEF FlightInv
<1>6. ShowsInv'
  BY <1>1 DEF ShowsInv, Ready
<1> QED BY <1>2, <1>3, <1>4, <1>5, <1>6

\* Every call the UI makes on an open session.
LEMMA CallsStep ==
  ASSUME ParametersAreSound, Inv, Execute \/ Evaluate \/ SetBreakpoints \/ Sync \/ End("Exited") \/ End("Disconnected")
  PROVE  Inv'
<1>1. CASE Execute
  <2>1. PICK op \in Commands : Send(op)
    BY <1>1 DEF Execute
  <2>2. op \in {"evaluate", "list breakpoints", "frames"} \cup Execs
    BY DEF ParametersAreSound
  <2> QED BY <1>1, <2>1, <2>2, CallStep DEF Execute
<1>2. CASE Evaluate
  BY <1>2, CallStep DEF Evaluate
<1>3. CASE SetBreakpoints
  BY <1>3, CallStep DEF SetBreakpoints
<1>4. CASE Sync
  <2>1. CASE initial
    <3>1. /\ Ready /\ initial' = FALSE
          /\ UNCHANGED <<life, state, reason, doing, token, snapshot, leaked, launches, args,
                         target>>
      BY <1>4, <2>1 DEF Sync, target
    <3>2. state \in {"Stopped", "Exited", "Disconnected"}
      BY DEF Inv, TypeOK
    <3> QED BY <2>1, <3>1, <3>2, RestStep
  <2>2. CASE ~initial /\ state \in {"Exited", "Disconnected"}
    <3>1. /\ Ready /\ snapshot' = 0 /\ initial' = initial
          /\ UNCHANGED <<life, state, reason, doing, token, leaked, launches, args, target>>
      BY <1>4, <2>2 DEF Sync, target
    <3>2. state \in {"Stopped", "Exited", "Disconnected"} /\ initial \in BOOLEAN
      BY DEF Inv, TypeOK
    <3> QED BY <3>1, <3>2, RestStep
  <2>3. CASE ~initial /\ state = "Stopped"
    <3>1. /\ Ready /\ Send("frames")
          /\ UNCHANGED <<life, state, reason, snapshot, initial, leaked, launches, args, pipe,
                         gdb, place, late, notes>>
      BY <1>4, <2>3 DEF Sync
    <3> QED BY <2>3, <3>1, CallStep
  <2> QED BY <1>4, <2>1, <2>2, <2>3 DEF Sync
<1>5. ASSUME NEW to \in {"Exited", "Disconnected"}, End(to) PROVE Inv'
  <2>1. /\ Ready /\ state' = to /\ snapshot' = snapshot /\ initial' = initial
        /\ UNCHANGED <<life, reason, doing, token, leaked, launches, args, target>>
    BY <1>5 DEF End
  <2>2. initial \in BOOLEAN
    BY DEF Inv, TypeOK
  <2> QED BY <2>1, <2>2, RestStep
<1> QED BY <1>1, <1>2, <1>3, <1>4, <1>5
-----------------------------------------------------------------------------
(* Reading a line.                                                         *)

\* There is a place 0, and every reason gdb gives has a name.
LEMMA ToldIsKnown ==
  ASSUME ParametersAreSound
  PROVE  0 \in Places /\ \A r : Told(r) \in {"breakpoint", "step", "entry", "exited_normally"}
  BY DEF ParametersAreSound, Places, Told

\* The line at hand.
LEMMA LineAtHand ==
  ASSUME ParametersAreSound, Inv, pipe # <<>>
  PROVE  /\ Head(pipe) = pipe[1] /\ 1 \in DOMAIN pipe /\ Head(pipe) \in GdbLine
         /\ Head(pipe).kind = "done" => Head(pipe).what \in Places
<1>1. pipe \in Seq(GdbLine)
  BY DEF Inv, LinesInv, PipeInv
<1>2. Head(pipe) = pipe[1] /\ 1 \in DOMAIN pipe /\ Head(pipe) \in GdbLine
  BY <1>1, TailOf
<1> QED BY <1>2 DEF Inv, LinesInv, PipeInv

\* A line that answers nothing is skipped.
LEMMA SkipStep ==
  ASSUME ParametersAreSound, Inv, pipe # <<>>, pipe' = Tail(pipe), UNCHANGED <<session, inbox,
                                                                               gdb, place, late, notes>>
  PROVE  Inv'
<1> USE DEF Inv
<1>1. /\ \A i \in DOMAIN pipe' : i + 1 \in DOMAIN pipe /\ i \in Nat \ {0} /\ pipe'[i] = pipe[i + 1]
      /\ token' = token /\ inbox' = inbox /\ gdb' = gdb /\ place' = place
  BY TailOf DEF LinesInv, PipeInv, session
<1>2. PipeInv' /\ NoNewLine
  BY <1>1, PipeRead DEF LinesInv
<1>3. TypeOK'
  <2>1. UNCHANGED <<session, inbox, gdb, place, late, notes>>
    OBVIOUS
  <2> QED BY <2>1, TypesStay, GdbTypes
<1>4. LinesInv'
  BY <1>1, <1>2 DEF LinesInv, InboxInv
<1>5. LifeInv'
  BY DEF LifeInv, session
<1>6. (StopUnread' => StopUnread) /\ (RefusalUnread' => RefusalUnread) /\ (Unread' <=> Unread) /\ (Running' <=> Running)
  BY <1>1 DEF StopUnread, RefusalUnread, Unread, Running
<1>7. InOnePlace => InOnePlace'
  <2> SUFFICES ASSUME InOnePlace PROVE InOnePlace'
    OBVIOUS
  <2>1. \A i, j \in DOMAIN pipe' : pipe'[i].kind = "stopped" /\ pipe'[j].kind = "stopped" => i = j
    <3> SUFFICES ASSUME NEW i \in DOMAIN pipe', NEW j \in DOMAIN pipe', pipe'[i].kind = "stopped", pipe'[j].kind = "stopped"
                 PROVE i = j
      OBVIOUS
    <3>1. i + 1 = j + 1 /\ i \in Nat /\ j \in Nat
      BY <1>1 DEF InOnePlace
    <3> QED BY <3>1
  <2>2. \A i \in DOMAIN pipe' : pipe'[i].kind = "done" => pipe'[i].token # token'
    BY <1>1 DEF InOnePlace
  <2> QED BY <1>1, <1>6, <2>1, <2>2 DEF InOnePlace
<1>8. Quiet => Quiet'
  BY <1>1, <1>2, <1>6 DEF Quiet
<1>9. FlightInv' /\ ShowsInv'
  <2>1. late' = late /\ doing' = doing /\ life' = life /\ initial' = initial /\ snapshot' = snapshot
    BY DEF session
  <2>2. AwaitsStop(doing') <=> AwaitsStop(doing)
    BY <2>1
  <2>3. FlightInv'
    <3>1. FlightInv /\ late' = late
      BY <2>1
    <3> QED BY ONLY <1>7, <1>8, <2>2, <3>1 DEF FlightInv
  <2>4. ShowsInv'
    <3>1. place' = place /\ ShowsInv
      BY <1>1
    <3> QED BY ONLY <2>1, <3>1 DEF ShowsInv
  <2> QED BY <2>3, <2>4
<1> QED BY <1>3, <1>4, <1>5, <1>9

\* An answer that is followed by the next line of the call.
LEMMA GoesOnStep ==
  ASSUME ParametersAreSound, Inv, doing # "idle", pipe # <<>>, pipe' = Tail(pipe), Answers(Head(pipe)),
         NEW c \in Waits, Send(c),
         state' \in {"Stopped", "Exited", "Disconnected"},
         reason' \in {"breakpoint", "step", "entry", "exited_normally"}, snapshot' \in Places,
         UNCHANGED <<life, initial, leaked, launches, args, gdb, place, late, notes>>,
         life = "open" => c \in Refreshing \cup Execs \cup Others,
         life \in {"launching", "relaunching"} => c \in Launching \cup {"launch frames", "launch locals"},
         c \in {"locals", "launch locals"} /\ ~late => snapshot' \in {0, place}
  PROVE  Inv'
<1> USE DEF Inv
<1>1. ~late => Cleared
  BY AnswerClears
<1>2. LinesInv' /\ FlightInv' /\ doing' = c /\ token' \in 0..MaxTokens
  BY <1>1, SendStep
<1>3. TypeOK'
  BY <1>2 DEF TypeOK, Places
<1>4. LifeInv'
  BY <1>2 DEF LifeInv
<1>5. ShowsInv'
  BY <1>2 DEF ShowsInv, LifeInv
<1> QED BY <1>2, <1>3, <1>4, <1>5

\* An answer, or a refusal, that ends the call of an open session.
LEMMA EndsCallStep ==
  ASSUME ParametersAreSound, Inv, life = "open", doing # "idle", pipe # <<>>, pipe' = Tail(pipe),
         Answers(Head(pipe)) \/ Refuses(Head(pipe)), doing' = "idle",
         state' \in {"Stopped", "Exited", "Disconnected"},
         reason' \in {"breakpoint", "step", "entry", "exited_normally"}, snapshot' \in Places,
         UNCHANGED <<life, initial, token, inbox, leaked, launches, args, gdb, place, late, notes>>
  PROVE  Inv'
<1> USE DEF Inv
<1>1. ~late => Cleared
  BY AnswerClears
<1>2. LinesInv' /\ FlightInv'
  BY <1>1, EndsStep
<1>3. TypeOK'
  BY DEF TypeOK, Places
<1>4. LifeInv'
  BY DEF LifeInv
<1>5. ShowsInv'
  BY DEF ShowsInv, LifeInv
<1> QED BY <1>2, <1>3, <1>4, <1>5

\* A call that is given up, or whose pipe is closed.
LEMMA GivenUpStep ==
  ASSUME ParametersAreSound, Inv, life = "open", doing # "idle", doing' = "idle",
         \/ pipe # <<>> /\ pipe' = Tail(pipe) /\ late' = (late \/ doing \in Execs)
         \/ pipe' = pipe /\ late' = late /\ gdb = "gone" /\ (pipe = <<>> \/ doing \notin Execs),
         UNCHANGED <<life, state, reason, token, snapshot, initial, leaked, launches, args,
                     inbox, gdb, place, notes>>
  PROVE  Inv'
<1> USE DEF Inv
<1>1. pipe' = pipe \/ (pipe # <<>> /\ pipe' = Tail(pipe))
  OBVIOUS
<1>2. AwaitsStop(doing) => doing \in Execs
  BY DEF AwaitsStop, LifeInv, Refreshing, Execs, Forward, Reverse, Others
<1>3. ~late' => ~late /\ Cleared
  <2> SUFFICES ASSUME ~late' PROVE ~late /\ Cleared
    OBVIOUS
  <2>1. ~late
    BY DEF TypeOK
  <2>2. CASE doing \notin Execs
    BY <1>1, <1>2, <2>1, <2>2, QuietIsClear
  <2>3. CASE doing \in Execs
    <3>1. pipe' = <<>> /\ gdb = "gone" /\ inbox = <<>>
      BY <2>3 DEF LinesInv, InboxInv
    <3>2. ~AwaitsStop("gone")
      BY Awaiting
    <3>3. ~Unread /\ ~StopUnread'
      BY <3>1 DEF Unread, StopUnread
    <3>4. ~Running
      BY <3>1, <3>2 DEF Running
    <3> QED BY <2>1, <3>3, <3>4 DEF Cleared
  <2> QED BY <2>2, <2>3
<1>4. LinesInv' /\ FlightInv'
  BY <1>1, <1>3, EndsStep
<1>5. TypeOK'
  BY DEF TypeOK, Places
<1>6. LifeInv'
  BY DEF LifeInv
<1>7. ShowsInv'
  BY DEF ShowsInv, LifeInv
<1> QED BY <1>4, <1>5, <1>6, <1>7

\* The answers, by the call they are for.
LEMMA ProceedsStep ==
  ASSUME ParametersAreSound, Inv, doing # "idle", pipe # <<>>, pipe' = Tail(pipe), Answers(Head(pipe)),
         Proceeds(Head(pipe)), UNCHANGED <<leaked, launches, args, gdb, place, late, notes>>
  PROVE  Inv'
<1> DEFINE line == Head(pipe)
<1> USE DEF Inv
<1>1. /\ 0 \in Places /\ \A r : Told(r) \in {"breakpoint", "step", "entry", "exited_normally"}
      /\ state \in {"Stopped", "Exited", "Disconnected"} /\ snapshot \in Places
      /\ reason \in {"breakpoint", "step", "entry", "exited_normally"}
  BY ToldIsKnown DEF TypeOK
<1>2. /\ line = pipe[1] /\ 1 \in DOMAIN pipe /\ line.kind = "done" => line.what \in Places
  BY LineAtHand
<1>3. /\ life = "open" \/ life \in {"launching", "relaunching"}
      /\ life = "open" => ~initial /\ doing \in Refreshing \cup Execs \cup Others
      /\ life \in {"launching", "relaunching"} => doing \in Launching \cup {"launch frames", "launch locals"}
  BY DEF LifeInv, TypeOK
<1>4. ASSUME doing \in {"frames", "launch frames"}
      PROVE  /\ (IF line.kind = "done" THEN line.what ELSE 0) \in Places
             /\ ~late => (IF line.kind = "done" THEN line.what ELSE 0) \in {0, place}
  <2>1. ~AwaitsStop(doing)
    BY <1>4, Awaiting DEF Refreshing
  <2>2. line.token = token
    BY <2>1 DEF Answers
  <2>3. ~late => (line.kind = "done" => line.what = place)
    BY <1>2, <2>1, <2>2 DEF FlightInv, Quiet
  <2> QED BY <1>1, <1>2, <2>3
<1> HIDE DEF line
<1>5. CASE doing \in {"connect", "sysroot"} /\ Send(NextLaunchStep) /\ UNCHANGED <<life, state,
                                                                                   reason, snapshot, initial>>
  <2>1. NextLaunchStep \in {"sysroot", "break main"} /\ life # "open"
    BY <1>3, <1>5 DEF NextLaunchStep, Refreshing, Execs, Forward, Reverse, Others
  <2>2. NextLaunchStep \in Waits /\ NextLaunchStep \in Launching
    BY <2>1 DEF Waits, Launching
  <2> QED BY <1>1, <1>5, <2>1, <2>2, GoesOnStep
<1>6. CASE doing = "break main" /\ Send(NextLaunchStep) /\ UNCHANGED <<life, state, reason,
                                                                       snapshot, initial>>
  <2>1. NextLaunchStep = "run" /\ life # "open"
    BY <1>3, <1>6 DEF NextLaunchStep, Refreshing, Execs, Forward, Reverse, Others
  <2>2. NextLaunchStep \in Waits /\ NextLaunchStep \in Launching
    BY <2>1 DEF Waits, Launching
  <2> QED BY <1>1, <1>6, <2>1, <2>2, GoesOnStep
<1>7. CASE /\ doing \in {"run", "run on"} /\ ApplyStop(line)
           /\ Send(IF line.what = "breakpoint-hit" THEN NextLaunchStep ELSE "run on")
           /\ UNCHANGED <<life, snapshot, initial>>
  <2> DEFINE c == IF line.what = "breakpoint-hit" THEN NextLaunchStep ELSE "run on"
  <2>1. c \in {"run on", "launch frames"} /\ life # "open"
    BY <1>3, <1>7 DEF NextLaunchStep, Refreshing, Execs, Forward, Reverse, Others
  <2>2. c \in Waits /\ c \in Launching \cup {"launch frames", "launch locals"}
    BY <2>1 DEF Waits, Launching
  <2>3. state' = "Stopped" /\ reason' \in {"breakpoint", "step", "entry", "exited_normally"} /\ snapshot' = snapshot
    BY <1>1, <1>7 DEF ApplyStop
  <2>4. Send(c) /\ UNCHANGED <<life, initial>>
    BY <1>7
  <2> HIDE DEF c
  <2> QED BY <1>1, <2>1, <2>2, <2>3, <2>4, GoesOnStep
<1>8. CASE /\ doing = "launch frames" /\ snapshot' = (IF line.kind = "done" THEN line.what ELSE 0)
           /\ Send(NextLaunchStep) /\ UNCHANGED <<life, state, reason, initial>>
  <2>1. NextLaunchStep = "launch locals" /\ life # "open"
    BY <1>3, <1>8 DEF NextLaunchStep, Refreshing, Execs, Forward, Reverse, Others
  <2>2. NextLaunchStep \in Waits
    BY <2>1 DEF Waits
  <2>3. snapshot' \in Places /\ (~late => snapshot' \in {0, place})
    BY <1>4, <1>8
  <2> QED BY <1>1, <1>8, <2>1, <2>2, <2>3, GoesOnStep
<1>9. CASE /\ doing = "launch locals" /\ life' = "open" /\ initial' = TRUE /\ doing' = "idle"
           /\ UNCHANGED <<state, reason, snapshot, token, inbox>>
  <2>1. ~late => Cleared
    BY AnswerClears
  <2>2. LinesInv' /\ FlightInv'
    BY <1>9, <2>1, EndsStep
  <2>3. TypeOK'
    BY <1>9 DEF TypeOK, Places
  <2>4. LifeInv'
    <3>1. life # "none" /\ gdb # "none" /\ leaked <= launches
      BY <1>3 DEF LifeInv
    <3> QED BY <1>9, <3>1 DEF LifeInv
  <2>5. ShowsInv'
    BY <1>9 DEF ShowsInv
  <2> QED BY <2>2, <2>3, <2>4, <2>5
<1>10. CASE /\ doing \in Execs /\ ApplyStop(line) /\ doing' = "idle"
            /\ UNCHANGED <<life, snapshot, initial, token, inbox>>
  <2>1. life = "open"
    BY <1>3, <1>10 DEF Launching, Execs, Forward, Reverse
  <2>2. state' = "Stopped" /\ reason' \in {"breakpoint", "step", "entry", "exited_normally"} /\ snapshot' = snapshot
    BY <1>1, <1>10 DEF ApplyStop
  <2> QED BY <1>1, <1>10, <2>1, <2>2, EndsCallStep
<1>11. CASE /\ doing = "frames" /\ snapshot' = (IF line.kind = "done" THEN line.what ELSE 0)
            /\ IF line.kind = "done" THEN Send("locals") ELSE doing' = "idle" /\ UNCHANGED <<token, inbox>>
            /\ UNCHANGED <<life, state, reason, initial>>
  <2>1. life = "open"
    BY <1>3, <1>11 DEF Launching
  <2>2. snapshot' \in Places /\ (~late => snapshot' \in {0, place})
    BY <1>4, <1>11
  <2>3. CASE Send("locals")
    <3>1. "locals" \in Waits /\ "locals" \in Refreshing
      BY DEF Waits, Refreshing
    <3> QED BY <1>1, <1>11, <2>1, <2>2, <2>3, <3>1, GoesOnStep
  <2>4. CASE doing' = "idle" /\ UNCHANGED <<token, inbox>>
    BY <1>1, <1>11, <2>1, <2>2, <2>4, EndsCallStep
  <2> QED BY <1>11, <2>3, <2>4
<1>12. ASSUME doing \in {"list breakpoints", "delete"}, NEW next \in {"delete", "insert"}, Send(next),
              UNCHANGED <<life, state, reason, snapshot, initial>>
       PROVE  Inv'
  <2>1. life = "open" /\ next \in Others
    BY <1>3, <1>12 DEF Launching, Others
  <2>2. next \in Waits /\ next \notin {"locals", "launch locals"}
    BY DEF Waits, Others
  <2> QED BY <1>1, <1>12, <2>1, <2>2, GoesOnStep
<1>13. CASE /\ doing \in {"list breakpoints", "delete", "evaluate", "insert", "locals"} /\ doing' = "idle"
            /\ UNCHANGED <<life, state, reason, snapshot, initial, token, inbox>>
  <2>1. life = "open"
    BY <1>3, <1>13 DEF Launching
  <2> QED BY <1>1, <1>13, <2>1, EndsCallStep
<1> QED
  BY <1>5, <1>6, <1>7, <1>8, <1>9, <1>10, <1>11, <1>12, <1>13 DEF Proceeds, line

\* Whatever becomes of the read: a line, no line in time, a closed pipe.
LEMMA ReadsStep == ASSUME ParametersAreSound, Inv, ReadLine \/ TimeOut \/ Closed PROVE Inv'
<1>1. ASSUME doing # "idle", life # "open" PROVE life \in {"launching", "relaunching"}
  BY <1>1 DEF Inv, LifeInv, TypeOK
<1>2. /\ state \in {"Stopped", "Exited", "Disconnected"} /\ snapshot \in Places
      /\ reason \in {"breakpoint", "step", "entry", "exited_normally"}
  BY DEF Inv, TypeOK
<1>3. CASE ReadLine
  <2>1. doing # "idle" /\ pipe # <<>>
    BY <1>3 DEF ReadLine
  <2>2. CASE Refuses(Head(pipe))
    <3>1. CASE life # "open"
      <4>1. LaunchFails
        BY <1>3, <2>2, <3>1 DEF ReadLine
      <4> QED BY <1>1, <2>1, <3>1, <4>1, LaunchFailsStep
    <3>2. CASE life = "open"
      <4>1. /\ doing' = "idle" /\ pipe' = Tail(pipe)
            /\ UNCHANGED <<life, state, reason, token, snapshot, initial, leaked, launches, args,
                           inbox, gdb, place, late, notes>>
        BY <1>3, <2>2, <3>2 DEF ReadLine
      <4> QED BY <1>2, <2>1, <2>2, <3>2, <4>1, EndsCallStep
    <3> QED BY <3>1, <3>2
  <2>3. CASE ~Refuses(Head(pipe)) /\ Answers(Head(pipe))
    <3>1. Proceeds(Head(pipe)) /\ pipe' = Tail(pipe) /\ UNCHANGED <<leaked, launches, args, gdb,
                                                                    place, late, notes>>
      BY <1>3, <2>3 DEF ReadLine
    <3> QED BY <2>1, <2>3, <3>1, ProceedsStep
  <2>4. CASE ~Refuses(Head(pipe)) /\ ~Answers(Head(pipe))
    <3>1. pipe' = Tail(pipe) /\ UNCHANGED <<session, inbox, gdb, place, late, notes>>
      BY <1>3, <2>4 DEF ReadLine
    <3> QED BY <2>1, <3>1, SkipStep
  <2> QED BY <2>2, <2>3, <2>4
<1>4. CASE TimeOut
  <2>1. CASE life # "open"
    BY <1>1, <1>4, <2>1, LaunchFailsStep DEF TimeOut
  <2>2. CASE life = "open"
    <3>1. /\ doing # "idle" /\ pipe # <<>> /\ doing' = "idle" /\ pipe' = Tail(pipe) /\ late' = (late \/ doing \in Execs)
          /\ UNCHANGED <<life, state, reason, token, snapshot, initial, leaked, launches, args,
                         inbox, gdb, place, notes>>
      BY <1>4, <2>2 DEF TimeOut
    <3> QED BY <2>2, <3>1, GivenUpStep
  <2> QED BY <2>1, <2>2
<1>5. CASE Closed
  <2>1. CASE life # "open"
    BY <1>1, <1>5, <2>1, LaunchFailsStep DEF Closed
  <2>2. CASE life = "open"
    <3>1. /\ doing # "idle" /\ gdb = "gone" /\ (pipe = <<>> \/ doing \notin Execs) /\ doing' = "idle"
          /\ UNCHANGED <<life, state, reason, token, snapshot, initial, leaked, launches, args,
                         target>>
      BY <1>5, <2>2 DEF Closed
    <3>2. pipe' = pipe /\ late' = late /\ UNCHANGED <<inbox, gdb, place, notes>>
      BY <3>1 DEF target
    <3> QED BY <2>2, <3>1, <3>2, GivenUpStep
  <2> QED BY <2>1, <2>2
<1> QED BY <1>3, <1>4, <1>5

-----------------------------------------------------------------------------
(* The theorems.                                                           *)

\* No session, no lines: the invariant holds at first.
LEMMA InitInv == ASSUME ParametersAreSound, Init PROVE Inv
<1> USE DEF Init
<1>1. TypeOK
  <2>1. 0 \in 0..MaxTokens /\ 0 \in 0..MaxLaunches /\ 0 \in 0..MaxNotes /\ 0 \in Places
    BY DEF ParametersAreSound, Places
  <2> QED BY <2>1 DEF TypeOK
<1>2. LinesInv
  BY DEF LinesInv, PipeInv, InboxInv
<1>3. LifeInv
  BY DEF LifeInv
<1>4. FlightInv
  <2>1. ~AwaitsStop("idle") /\ ~AwaitsStop("none")
    BY Awaiting
  <2>2. Quiet
    BY <2>1 DEF Quiet, Unread, Running, StopUnread
  <2> QED BY <2>1, <2>2 DEF FlightInv
<1>5. ShowsInv
  BY DEF ShowsInv
<1> QED BY <1>1, <1>2, <1>3, <1>4, <1>5 DEF Inv

\* Every step keeps the invariant.
LEMMA InvStep == ASSUME ParametersAreSound, Inv, [Next]_vars PROVE Inv'
<1>1. CASE Launch
  BY <1>1, BeginStep DEF Launch
<1>2. CASE Restart
  BY <1>2, BeginStep DEF Restart
<1>3. CASE Shutdown
  BY <1>3, ShutdownStep
<1>4. CASE Execute \/ Evaluate \/ SetBreakpoints \/ Sync \/ End("Exited") \/ End("Disconnected")
  BY <1>4, CallsStep
<1>5. CASE ReadLine \/ TimeOut \/ Closed
  BY <1>5, ReadsStep
<1>6. CASE GdbStarts \/ GdbStops \/ GdbAnswers \/ GdbNotes \/ GdbDies
  BY <1>6, GdbStartsStep, GdbStopsStep, GdbAnswersStep, GdbNotesStep, GdbDiesStep
<1>7. CASE UNCHANGED vars
  <2>1. UNCHANGED <<life, state, reason, doing, token, snapshot, initial, leaked, launches, args>>
        /\ UNCHANGED <<pipe, inbox, gdb, place, late, notes>>
    BY <1>7 DEF vars, session, target
  <2>2. TypeOK' /\ LinesInv' /\ LifeInv' /\ ShowsInv'
    <3>1. TypeOK'
      <4>1. TypeOK /\ UNCHANGED session /\ UNCHANGED <<gdb, place, late, notes>>
        BY <1>7 DEF Inv, vars, target
      <4> QED BY <4>1, TypesStay, GdbTypes
    <3>2. LinesInv'
      BY <2>1 DEF Inv, LinesInv, PipeInv, InboxInv
    <3>3. LifeInv' /\ ShowsInv'
      BY <2>1 DEF Inv, LifeInv, ShowsInv
    <3> QED BY <3>1, <3>2, <3>3
  <2>3. FlightInv'
    BY <2>1 DEF Inv, FlightInv, InOnePlace, Quiet, Unread, Running, StopUnread, RefusalUnread
  <2> QED BY <2>2, <2>3 DEF Inv
<1> QED
  BY <1>1, <1>2, <1>3, <1>4, <1>5, <1>6, <1>7 DEF Next

\* The invariant holds always.
LEMMA Invariant == ParametersAreSound => (Spec => []Inv)
<1> SUFFICES ASSUME ParametersAreSound PROVE Spec => []Inv
  OBVIOUS
<1>1. Init => Inv
  BY InitInv
<1>2. Inv /\ [Next]_vars => Inv'
  BY InvStep
<1> QED BY <1>1, <1>2, PTL DEF Spec

\* The variables keep their types: there is no launch without a token, a
\* stop gdb tells of has a reason the UI knows, and no more replay servers
\* are left behind than there were launches (TypeOK).
THEOREM TypeCorrect == ParametersAreSound => (Spec => []TypeOK)
  BY Invariant, PTL DEF Inv

\* The invariant says so of every state.
LEMMA InvIsSteady == ASSUME Inv PROVE Steady
<1> SUFFICES ASSUME life = "open", ~late, doing \notin Execs
             PROVE  /\ gdb \in {"ready", "gone"} /\ \A i \in DOMAIN pipe : pipe[i].kind # "stopped"
                    /\ initial \/ doing = "locals" => snapshot \in {0, place}
  BY DEF Steady
<1>1. ~AwaitsStop(doing)
  BY DEF Inv, LifeInv, AwaitsStop, Refreshing, Others
<1>2. Quiet
  BY <1>1 DEF Inv, FlightInv
<1>3. gdb \in {"ready", "gone"}
  BY <1>2 DEF Inv, TypeOK, LifeInv, Quiet, Running, AwaitsStop
<1>4. \A i \in DOMAIN pipe : pipe[i].kind # "stopped"
  BY <1>2 DEF Quiet, StopUnread
<1>5. initial \/ doing = "locals" => snapshot \in {0, place}
  BY DEF Inv, ShowsInv
<1> QED BY <1>3, <1>4, <1>5

\* Between two execution commands of an open session no stop is under way
\* and the snapshot shows where the replay is, unless a wait for a stop was
\* given up: the reading of lines in MiClient keeps the session in step
\* with gdb (Steady).
THEOREM SessionIsSteady == ParametersAreSound => (Spec => []Steady)
<1>1. Inv => Steady
  BY InvIsSteady
<1> QED BY <1>1, Invariant, PTL

-----------------------------------------------------------------------------
(* The panes and the keyboard.                                             *)
(*                                                                         *)
(* All of it rests on apply_focus, whatever panes it is given: it turns    *)
(* the panes that stand for a dock to a tab for the focus, and then picks  *)
(* the widget among the tabs as they are shown after that.  The panes it   *)
(* is given are sound when every pane has a tab and its two copies of the  *)
(* active tab agree (Sound); those a change of the layout makes only have  *)
(* tabs (Plain), and rebuild_layout_ui makes them sound.                   *)

Tab == [id : Nat, type : Types]
Foci == {FocusOf(type) : type \in Types} \cup {"source"}

Plain(ps) ==
    /\ DOMAIN ps \subseteq Nat /\ DOMAIN ps # {}
    /\ ps \in [DOMAIN ps -> Pane]
    /\ \A p \in DOMAIN ps : ps[p].tabs # <<>>

Sound(ps, sh) ==
    /\ DOMAIN ps \subseteq Nat /\ DOMAIN ps # {}
    /\ ps \in [DOMAIN ps -> Pane]
    /\ DOMAIN sh = DOMAIN ps
    /\ \A p \in DOMAIN ps : sh[p] = ps[p].index /\ sh[p] \in DOMAIN ps[p].tabs

FocusInv ==
    /\ FocusTypeOK
    /\ \A p \in DOMAIN panes : p < nextPane
    /\ KeyboardIsSeen

-----------------------------------------------------------------------------
(* The first and the last of some ids.                                     *)

\* A set of ids has a first one.
LEMMA FirstOf ==
  ASSUME NEW S, S \subseteq Nat, S # {}
  PROVE  First(S) \in S /\ \A m \in S : First(S) <= m
<1>1. PICK n \in S : \A m \in S : <<m, n>> \notin OpToRel(<, Nat)
  BY NatLessThanWellFounded, WFMin
<1>2. \A m \in S : ~(m < n)
  BY <1>1 DEF OpToRel
<1>3. \A m \in S : n <= m
  BY <1>2
<1> QED BY <1>3 DEF First

\* A bounded set of ids has a last one.
LEMMA LastOf ==
  ASSUME NEW S, S \subseteq Nat, S # {}, NEW n \in Nat, \A s \in S : s < n
  PROVE  \E m \in S : \A s \in S : s <= m
<1> DEFINE R == {n - s : s \in S}
<1>1. \A s \in S : s \in Nat /\ n - s \in Nat
  OBVIOUS
<1>2. R \subseteq Nat /\ R # {}
  BY <1>1
<1> HIDE DEF R
<1>3. First(R) \in R /\ \A r \in R : First(R) <= r
  BY <1>2, FirstOf
<1>4. PICK m \in S : First(R) = n - m
  BY <1>3 DEF R
<1>5. \A s \in S : n - m <= n - s
  BY <1>3, <1>4 DEF R
<1>6. \A s \in S : s <= m
  BY <1>5
<1> QED BY <1>6

\* The tabs for a focus, and the first of them.
LEMMA FirstTab ==
  ASSUME NEW pane \in Pane, NEW f, TabsFor(pane, f) # {}
  PROVE  /\ First(TabsFor(pane, f)) \in TabsFor(pane, f)
         /\ TurnedTo(pane, f) \in TabsFor(pane, f)
         /\ TurnedTo(pane, f) \in DOMAIN pane.tabs
         /\ DOMAIN pane.tabs \subseteq Nat
<1>1. pane.tabs \in Seq(Tab)
  BY DEF Pane, Tab
<1>2. DOMAIN pane.tabs \subseteq Nat
  BY <1>1
<1>3. TabsFor(pane, f) \subseteq DOMAIN pane.tabs
  BY DEF TabsFor
<1>4. First(TabsFor(pane, f)) \in TabsFor(pane, f)
  BY <1>2, <1>3, FirstOf
<1> QED BY <1>2, <1>3, <1>4 DEF TurnedTo

-----------------------------------------------------------------------------
(* apply_focus.                                                            *)

\* Turning panes to another tab changes no tabs and keeps the copies equal.
LEMMA SyncKeeps ==
  ASSUME NEW ps, NEW sh, NEW f, Sound(ps, sh)
  PROVE  /\ Sound(SyncedPanes(ps, f), SyncedShown(ps, sh, f))
         /\ DOMAIN SyncedPanes(ps, f) = DOMAIN ps /\ DOMAIN SyncedShown(ps, sh, f) = DOMAIN ps
         /\ \A p \in DOMAIN ps :
               /\ SyncedPanes(ps, f)[p].tabs = ps[p].tabs
               /\ SyncedPanes(ps, f)[p].dock = ps[p].dock
<1> DEFINE new == SyncedPanes(ps, f)
           seen == SyncedShown(ps, sh, f)
<1>1. DOMAIN new = DOMAIN ps /\ DOMAIN seen = DOMAIN ps
  BY DEF SyncedPanes, SyncedShown
<1>2. ASSUME NEW p \in DOMAIN ps
      PROVE  /\ new[p] \in Pane /\ new[p].tabs = ps[p].tabs /\ new[p].dock = ps[p].dock
             /\ seen[p] = new[p].index /\ seen[p] \in DOMAIN ps[p].tabs
  <2>1. ps[p] \in Pane /\ sh[p] = ps[p].index /\ sh[p] \in DOMAIN ps[p].tabs
    BY DEF Sound
  <2>2. CASE p \in Turning(ps, f)
    <3>1. TabsFor(ps[p], f) # {}
      BY <2>2 DEF Turning, Holding
    <3>2. TurnedTo(ps[p], f) \in DOMAIN ps[p].tabs /\ TurnedTo(ps[p], f) \in Nat
      BY <2>1, <3>1, FirstTab
    <3>3. new[p] = [ps[p] EXCEPT !.index = TurnedTo(ps[p], f)] /\ seen[p] = TurnedTo(ps[p], f)
      BY <2>2 DEF SyncedPanes, SyncedShown
    <3> QED BY <2>1, <3>2, <3>3 DEF Pane
  <2>3. CASE p \notin Turning(ps, f)
    <3>1. new[p] = ps[p] /\ seen[p] = sh[p]
      BY <2>3 DEF SyncedPanes, SyncedShown
    <3> QED BY <2>1, <3>1
  <2> QED BY <2>2, <2>3
<1>3. new = [p \in DOMAIN ps |-> new[p]]
  BY DEF SyncedPanes
<1> HIDE DEF new, seen
<1>4. new \in [DOMAIN new -> Pane]
  BY <1>1, <1>2, <1>3
<1>5. Sound(new, seen)
  BY <1>1, <1>2, <1>4 DEF Sound
<1> QED BY <1>1, <1>2, <1>5 DEF new, seen

\* A tab that is shown before is shown after, when it is for the focus.
LEMMA SyncShows ==
  ASSUME NEW ps, NEW sh, NEW f, Sound(ps, sh), NEW p \in DOMAIN ps
  PROVE  /\ sh[p] \in TabsFor(ps[p], f) => SyncedShown(ps, sh, f)[p] = sh[p]
         /\ p \in Turning(ps, f) => SyncedShown(ps, sh, f)[p] \in TabsFor(ps[p], f)
<1>1. ps[p] \in Pane /\ sh[p] = ps[p].index
  BY DEF Sound
<1>2. p \in Turning(ps, f) => TabsFor(ps[p], f) # {}
  BY DEF Turning, Holding
<1>3. SyncedShown(ps, sh, f)[p] = IF p \in Turning(ps, f) THEN TurnedTo(ps[p], f) ELSE sh[p]
  BY DEF SyncedShown
<1> QED BY <1>1, <1>2, <1>3, FirstTab DEF TurnedTo

\* The pane for a focus is one there is.
LEMMA PaneForIs ==
  ASSUME NEW ps, NEW sh, Sound(ps, sh), NEW f, NEW last
  PROVE  PaneFor(ps, f, last) \in DOMAIN ps /\ PaneFor(ps, f, last) \in Nat
<1>1. Holding(ps, f) \subseteq DOMAIN ps /\ Tagged(ps, "center") \subseteq DOMAIN ps
  BY DEF Holding, Tagged
<1>2. DOMAIN ps \subseteq Nat /\ DOMAIN ps # {}
  BY DEF Sound
<1>3. /\ First(DOMAIN ps) \in DOMAIN ps
      /\ Holding(ps, f) # {} => First(Holding(ps, f)) \in DOMAIN ps
      /\ Tagged(ps, "center") # {} => First(Tagged(ps, "center")) \in DOMAIN ps
  BY <1>1, <1>2, FirstOf
<1>4. PaneFor(ps, f, last) \in DOMAIN ps
  BY <1>3 DEF PaneFor
<1> QED BY <1>2, <1>4

\* Given sound panes, apply_focus leaves sound panes.
LEMMA FocusKeepsTypes ==
  ASSUME NEW ps, NEW sh, Sound(ps, sh), NEW f \in Foci, NEW mem \in Nat,
         ApplyFocus(ps, sh, f, mem)
  PROVE  /\ Sound(panes', shown') /\ DOMAIN panes' = DOMAIN ps
         /\ focus' \in Foci /\ focused' \in Nat /\ memory' \in Nat
<1>1. Sound(panes', shown') /\ DOMAIN panes' = DOMAIN ps
  BY SyncKeeps DEF ApplyFocus
<1>2. PaneFor(ps, f, focused) \in Nat
  BY ONLY Sound(ps, sh), PaneForIs
<1> QED BY <1>1, <1>2 DEF ApplyFocus

\* The tabs for a focus and the panes that have one are as before.
LEMMA SyncHolds ==
  ASSUME NEW ps, NEW sh, NEW f, Sound(ps, sh), NEW new, new = SyncedPanes(ps, f)
  PROVE  /\ \A p \in DOMAIN ps : TabsFor(new[p], f) = TabsFor(ps[p], f)
         /\ Holding(new, f) = Holding(ps, f)
         /\ DockPanes(new) = DockPanes(ps)
         /\ \A seen : Showing(new, seen, f) = Showing(ps, seen, f)
<1>1. DOMAIN SyncedPanes(ps, f) = DOMAIN ps
  BY SyncKeeps
<1>2. ASSUME NEW p \in DOMAIN ps
      PROVE  SyncedPanes(ps, f)[p].tabs = ps[p].tabs /\ SyncedPanes(ps, f)[p].dock = ps[p].dock
  BY DEF SyncedPanes, Sound, Pane
<1>3. DOMAIN new = DOMAIN ps
  BY <1>1
<1>4. \A p \in DOMAIN ps : new[p].tabs = ps[p].tabs /\ new[p].dock = ps[p].dock
  BY <1>2
<1>5. \A p \in DOMAIN ps : TabsFor(new[p], f) = TabsFor(ps[p], f)
  BY <1>4 DEF TabsFor
<1>6. Holding(new, f) = Holding(ps, f)
  BY <1>3, <1>5 DEF Holding
<1>7. \A dock : Tagged(new, dock) = Tagged(ps, dock)
  BY <1>3, <1>4 DEF Tagged
<1>8. DockPanes(new) = DockPanes(ps)
  BY <1>3, <1>7 DEF DockPanes, DockPane
<1>9. \A seen : Showing(new, seen, f) = Showing(ps, seen, f)
  BY <1>3, <1>5 DEF Showing
<1> QED BY <1>5, <1>6, <1>8, <1>9

\* A panel that every tab of its type hosts is seen in each of them.
LEMMA SharedWidget ==
  ASSUME NEW tab, FocusOf(tab.type) \in Shared
  PROVE  Widget(tab) = <<FocusOf(tab.type), 0>>
  BY DEF Widget, FocusOf, Shared

\* Given sound panes, apply_focus gives the keyboard to what can be seen.
LEMMA FocusIsSeen ==
  ASSUME NEW ps, NEW sh, Sound(ps, sh), NEW f, NEW mem, ApplyFocus(ps, sh, f, mem)
  PROVE  KeyboardIsSeen'
<1> DEFINE seen == SyncedShown(ps, sh, f)
<1>1. /\ panes' = SyncedPanes(ps, f) /\ shown' = seen /\ focus' = f /\ memory' = mem
      /\ keyboard' = Target(ps, seen, f, mem)
  BY DEF ApplyFocus
<1>2. Holding(panes', f) = Holding(ps, f) /\ DockPanes(panes') = DockPanes(ps)
      /\ Showing(panes', seen, f) = Showing(ps, seen, f)
  BY <1>1, SyncHolds
<1>3. DOMAIN panes' = DOMAIN ps /\ \A p \in DOMAIN ps : panes'[p].tabs = ps[p].tabs
  BY <1>1, SyncKeeps
<1>4. DOMAIN ps \subseteq Nat
  BY DEF Sound
<1> HIDE DEF seen
<1>5. CASE f = "resources" \/ (f = "memory" /\ IsMemory(ps, mem))
  <2>1. f = "memory" /\ IsMemory(ps, mem) => keyboard' = <<"memory", mem>>
    BY <1>1 DEF Target, Shared
  <2> QED BY <1>1, <1>5, <2>1 DEF KeyboardIsSeen
<1>6. CASE Showing(ps, seen, f) = {}
  <2>1. \A p \in DOMAIN ps : p \notin Turning(ps, f)
    BY <1>6, SyncShows DEF Showing, seen
  <2>2. Holding(ps, f) \cap DockPanes(ps) = {}
    BY <2>1 DEF Turning, Holding
  <2> QED BY <1>1, <1>2, <1>6, <2>2 DEF KeyboardIsSeen
<1>7. CASE /\ f # "resources" /\ ~(f = "memory" /\ IsMemory(ps, mem))
           /\ Showing(ps, seen, f) # {}
  <2> DEFINE p == First(Showing(ps, seen, f))
  <2>1. Showing(ps, seen, f) \subseteq DOMAIN ps
    BY DEF Showing
  <2>2. p \in Showing(ps, seen, f)
    BY <1>4, <1>7, <2>1, FirstOf
  <2>3. p \in DOMAIN ps /\ seen[p] \in TabsFor(ps[p], f)
    BY <2>2 DEF Showing
  <2>4. Holding(ps, f) # {}
    BY <2>3 DEF Holding
  <2>5. FocusOf(ps[p].tabs[seen[p]].type) = f
    BY <2>3 DEF TabsFor
  <2>6. ActiveTab(ps, seen, f) = ps[p].tabs[seen[p]]
    BY <1>7, <2>3 DEF ActiveTab
  <2> HIDE DEF p
  <2>7. keyboard' = Widget(ps[p].tabs[seen[p]])
    <3>1. CASE f \in Shared
      BY <1>1, <2>5, <3>1, SharedWidget DEF Target
    <3>2. CASE f \notin Shared
      BY <1>1, <1>7, <2>4, <2>6, <3>2 DEF Target
    <3> QED BY <3>1, <3>2
  <2>8. Seen(keyboard)'
    BY <1>1, <1>3, <2>3, <2>7 DEF Seen
  <2> QED BY <2>8 DEF KeyboardIsSeen
<1> QED BY <1>5, <1>6, <1>7

\* No two panels of some panes have the same focus (Alone, of any panes).
AloneIn(ps) ==
    \A p, q \in DOMAIN ps : \A i \in DOMAIN ps[p].tabs, j \in DOMAIN ps[q].tabs :
        FocusOf(ps[p].tabs[i].type) = FocusOf(ps[q].tabs[j].type) => p = q /\ i = j

\* A panel that is alone gets the keyboard when it is shown and the focus is
\* its own.
LEMMA FocusGoes ==
  ASSUME NEW ps, NEW sh, Sound(ps, sh), AloneIn(ps), NEW p \in DOMAIN ps, NEW mem, NEW f,
         f = FocusOf(ps[p].tabs[sh[p]].type), f # "resources", ApplyFocus(ps, sh, f, mem)
  PROVE  Has(p)' /\ DOMAIN panes' = DOMAIN ps
<1> DEFINE seen == SyncedShown(ps, sh, f)
           tab == ps[p].tabs[sh[p]]
<1>1. /\ panes' = SyncedPanes(ps, f) /\ shown' = seen /\ focus' = f
      /\ keyboard' = Target(ps, seen, f, mem)
  BY DEF ApplyFocus
<1>2. /\ sh[p] \in DOMAIN ps[p].tabs /\ p \in Nat
  BY DEF Sound
<1>3. sh[p] \in TabsFor(ps[p], f)
  BY <1>2 DEF TabsFor
<1>4. seen[p] = sh[p]
  BY <1>3, SyncShows
<1>5. DOMAIN panes' = DOMAIN ps /\ panes'[p].tabs = ps[p].tabs
  BY <1>1, SyncKeeps
<1> HIDE DEF seen
<1>6. \A q \in DOMAIN ps : \A j \in TabsFor(ps[q], f) : q = p /\ j = sh[p]
  BY <1>2 DEF AloneIn, TabsFor
<1>7. Showing(ps, seen, f) = {p} /\ Holding(ps, f) # {}
  BY <1>3, <1>4, <1>6 DEF Showing, Holding
<1>8. First({p}) = p
  BY <1>2, FirstOf
<1>9. ActiveTab(ps, seen, f) = tab
  BY <1>3, <1>4, <1>7, <1>8 DEF ActiveTab
<1>10. keyboard' = Widget(tab)
  <2>1. CASE f \in Shared
    BY <1>1, <2>1, SharedWidget DEF Target
  <2>2. CASE f = "memory" /\ IsMemory(ps, mem)
    <3>1. tab.id = mem
      BY <1>6, <2>2 DEF IsMemory
    <3>2. tab.type = "memory"
      BY <2>2 DEF FocusOf
    <3>3. Target(ps, seen, f, mem) = <<"memory", mem>>
      BY <2>2 DEF Target, Shared
    <3> QED BY <1>1, <3>1, <3>2, <3>3 DEF Widget, FocusOf, Shared
  <2>3. CASE f \notin Shared /\ ~(f = "memory" /\ IsMemory(ps, mem))
    BY <1>1, <1>7, <1>9, <2>3 DEF Target
  <2> QED BY <2>1, <2>2, <2>3
<1>11. focus' = FocusOf(tab.type)
  BY <1>1
<1> QED BY <1>1, <1>4, <1>5, <1>10, <1>11 DEF Has

-----------------------------------------------------------------------------
(* The panes in the order of their ids.                                    *)

\* The pane after another one is one there is: the first of the later ones,
\* or the first of all.
LEMMA NextIs ==
  ASSUME Sound(panes, shown), NEW q \in DOMAIN panes
  PROVE  /\ Next1(q) \in DOMAIN panes
         /\ \/ /\ q < Next1(q)
               /\ \A r \in DOMAIN panes : q < r => Next1(q) <= r
            \/ /\ \A r \in DOMAIN panes : r <= q
               /\ Next1(q) = First(DOMAIN panes)
<1> DEFINE later == {r \in DOMAIN panes : r > q}
<1>1. DOMAIN panes \subseteq Nat /\ DOMAIN panes # {}
  BY DEF Sound
<1>2. First(DOMAIN panes) \in DOMAIN panes
  BY <1>1, FirstOf
<1>3. CASE later = {}
  <2>1. Next1(q) = First(DOMAIN panes)
    BY <1>3 DEF Next1
  <2>2. \A r \in DOMAIN panes : r <= q
    BY <1>1, <1>3
  <2> QED BY <1>2, <2>1, <2>2
<1>4. CASE later # {}
  <2>1. Next1(q) = First(later)
    BY <1>4 DEF Next1
  <2>2. later \subseteq Nat
    BY <1>1
  <2>3. First(later) \in later /\ \A r \in later : First(later) <= r
    BY <1>4, <2>2, FirstOf
  <2> QED BY <2>1, <2>3
<1> QED BY <1>3, <1>4

\* Every pane is after exactly one.
LEMMA OneBefore ==
  ASSUME Sound(panes, shown), nextPane \in Nat, \A q \in DOMAIN panes : q < nextPane,
         NEW p \in DOMAIN panes
  PROVE  /\ \E q \in DOMAIN panes : Next1(q) = p
         /\ \A q, r \in DOMAIN panes : Next1(q) = p /\ Next1(r) = p => q = r
<1>1. DOMAIN panes \subseteq Nat /\ DOMAIN panes # {}
  BY DEF Sound
<1>2. First(DOMAIN panes) \in DOMAIN panes /\ \A r \in DOMAIN panes : First(DOMAIN panes) <= r
  BY <1>1, FirstOf
<1>3. \E q \in DOMAIN panes : Next1(q) = p
  <2> DEFINE before == {q \in DOMAIN panes : q < p}
  <2>1. CASE before # {}
    <3>1. before \subseteq Nat /\ \A q \in before : q < nextPane
      BY <1>1
    <3>2. PICK q \in before : \A r \in before : r <= q
      BY <2>1, <3>1, LastOf
    <3>3. q \in DOMAIN panes /\ q < p
      BY <3>2
    <3>4. Next1(q) \in DOMAIN panes /\ q < Next1(q) /\ Next1(q) <= p
      BY <1>1, <3>3, NextIs
    <3>5. ~(Next1(q) < p)
      BY <1>1, <3>2, <3>3, <3>4
    <3>6. Next1(q) = p
      BY <1>1, <3>4, <3>5
    <3> QED BY <3>3, <3>6
  <2>2. CASE before = {}
    <3>1. PICK q \in DOMAIN panes : \A r \in DOMAIN panes : r <= q
      BY <1>1, LastOf
    <3>2. Next1(q) = First(DOMAIN panes)
      BY <1>1, <3>1, NextIs
    <3>3. \A r \in DOMAIN panes : p <= r
      BY <1>1, <2>2
    <3>4. First(DOMAIN panes) = p
      BY <1>1, <1>2, <3>3
    <3> QED BY <3>1, <3>2, <3>4
  <2> QED BY <2>1, <2>2
<1>4. ASSUME NEW q \in DOMAIN panes, NEW r \in DOMAIN panes, Next1(q) = p, Next1(r) = p, q < r
      PROVE  FALSE
  <2>1. p <= r /\ q < p
    BY <1>1, <1>4, NextIs
  <2>2. r < p \/ p = First(DOMAIN panes)
    BY <1>4, NextIs
  <2> QED BY <1>1, <1>2, <1>4, <2>1, <2>2
<1>5. \A q, r \in DOMAIN panes : Next1(q) = p /\ Next1(r) = p => q = r
  BY <1>1, <1>4
<1> QED BY <1>3, <1>5

\* The neighbours of a pane are panes.
LEMMA NeighbourIs ==
  ASSUME FocusInv, NEW p \in DOMAIN panes, NEW forward \in BOOLEAN
  PROVE  Neighbour(p, forward) \in DOMAIN panes
<1>1. Sound(panes, shown) /\ nextPane \in Nat /\ \A q \in DOMAIN panes : q < nextPane
  BY DEF FocusInv, FocusTypeOK, Sound
<1>2. Next1(p) \in DOMAIN panes
  BY <1>1, NextIs
<1>3. \E q \in DOMAIN panes : Next1(q) = p
  BY <1>1, OneBefore
<1> QED BY <1>2, <1>3 DEF Neighbour

\* They are the same as long as the panes are.
LEMMA NeighbourStays ==
  ASSUME FocusInv, DOMAIN panes' = DOMAIN panes, NEW p \in DOMAIN panes, NEW forward \in BOOLEAN
  PROVE  Neighbour(p, forward)' = Neighbour(p, forward)
<1>1. Sound(panes, shown) /\ nextPane \in Nat /\ \A q \in DOMAIN panes : q < nextPane
  BY DEF FocusInv, FocusTypeOK, Sound
<1>2. \A q : Next1(q)' = Next1(q)
  BY DEF Next1
<1>3. /\ \E q \in DOMAIN panes : Next1(q) = p
      /\ \A q, r \in DOMAIN panes : Next1(q) = p /\ Next1(r) = p => q = r
  BY <1>1, OneBefore
<1>4. CASE forward
  BY <1>2, <1>4 DEF Neighbour
<1>5. CASE ~forward
  <2>1. Neighbour(p, forward) \in DOMAIN panes /\ Next1(Neighbour(p, forward)) = p
    BY <1>3, <1>5 DEF Neighbour
  <2>2. \E q \in DOMAIN panes' : Next1(q)' = p
    BY <1>2, <1>3
  <2>3. Neighbour(p, forward)' \in DOMAIN panes' /\ Next1(Neighbour(p, forward))' = p
    BY <1>5, <2>2 DEF Neighbour
  <2>4. Next1(Neighbour(p, forward)') = p
    BY <1>2, <2>3 DEF Next1
  <2> QED BY <1>3, <2>1, <2>3, <2>4
<1> QED BY <1>4, <1>5

-----------------------------------------------------------------------------
(* The panes that changes of the layout make.                              *)

\* A pane made larger or smaller by a tab has a tab still.
LEMMA TabsChange ==
  ASSUME NEW pane \in Pane, pane.tabs # <<>>
  PROVE  /\ \A tab \in Tab : /\ Appended(pane, tab) \in Pane
                             /\ Appended(pane, tab).tabs # <<>>
                             /\ Appended(pane, tab).index = Len(pane.tabs) + 1
                             /\ Len(pane.tabs) + 1 \in DOMAIN Appended(pane, tab).tabs
         /\ \A i \in DOMAIN pane.tabs :
               Len(pane.tabs) # 1 => RemovedTab(pane, i) \in Pane /\ RemovedTab(pane, i).tabs # <<>>
         /\ \A i \in DOMAIN pane.tabs : pane.tabs[i] \in Tab
<1>1. pane.tabs \in Seq(Tab) /\ pane.index \in Nat
  BY DEF Pane, Tab
<1>2. Len(pane.tabs) \in Nat \ {0} /\ DOMAIN pane.tabs = 1..Len(pane.tabs)
  BY <1>1
<1>3. ASSUME NEW tab \in Tab
      PROVE  /\ Appended(pane, tab) \in Pane /\ Appended(pane, tab).tabs # <<>>
             /\ Appended(pane, tab).index = Len(pane.tabs) + 1
             /\ Len(pane.tabs) + 1 \in DOMAIN Appended(pane, tab).tabs
  <2>1. /\ Append(pane.tabs, tab) \in Seq(Tab)
        /\ Len(Append(pane.tabs, tab)) = Len(pane.tabs) + 1
    BY <1>1
  <2>2. Append(pane.tabs, tab) # <<>> /\ Len(pane.tabs) + 1 \in DOMAIN Append(pane.tabs, tab)
    BY <1>2, <2>1
  <2>3. Appended(pane, tab).tabs = Append(pane.tabs, tab)
        /\ Appended(pane, tab).index = Len(pane.tabs) + 1
    BY DEF Appended, Pane
  <2>4. Appended(pane, tab) \in Pane
    <3>1. Appended(pane, tab) =
              [pane EXCEPT !.tabs = Append(pane.tabs, tab), !.index = Len(pane.tabs) + 1]
      BY DEF Appended
    <3>2. Append(pane.tabs, tab) \in Seq([id : Nat, type : Types])
      BY <2>1 DEF Tab
    <3>3. Len(pane.tabs) + 1 \in Nat
      BY <1>2
    <3> QED BY <3>1, <3>2, <3>3 DEF Pane
  <2> QED BY <2>2, <2>3, <2>4
<1>4. ASSUME NEW i \in DOMAIN pane.tabs, Len(pane.tabs) # 1
      PROVE  RemovedTab(pane, i) \in Pane /\ RemovedTab(pane, i).tabs # <<>>
  <2> DEFINE n == Len(pane.tabs) - 1
             left == [j \in 1..n |-> pane.tabs[IF j < i THEN j ELSE j + 1]]
             active == IF pane.index > i THEN pane.index - 1 ELSE pane.index
  <2>1. n \in Nat \ {0} /\ i \in Nat \ {0}
    BY <1>2, <1>4
  <2>2. \A j \in 1..n : (IF j < i THEN j ELSE j + 1) \in DOMAIN pane.tabs
    BY <1>2, <2>1
  <2>3. \A j \in 1..n : pane.tabs[IF j < i THEN j ELSE j + 1] \in Tab
    BY <1>1, <2>2
  <2>4. left \in Seq(Tab) /\ Len(left) = n
    BY <2>1, <2>3
  <2>5. left # <<>>
    BY <2>1, <2>4
  <2>6. active \in Nat
    BY <1>1, <2>1
  <2>7. RemovedTab(pane, i) = [pane EXCEPT !.tabs = left, !.index = Clamped(active, Len(left))]
    BY DEF RemovedTab
  <2> HIDE DEF left, active, n
  <2>8. Clamped(active, Len(left)) \in Nat
    BY <2>1, <2>4, <2>6 DEF Clamped
  <2> QED BY <2>4, <2>5, <2>7, <2>8 DEF Pane, Tab
<1>5. \A i \in DOMAIN pane.tabs : pane.tabs[i] \in Tab
  BY <1>1
<1> QED BY <1>3, <1>4, <1>5

\* Sound panes have tabs.
LEMMA SoundIsPlain == ASSUME NEW ps, NEW sh, Sound(ps, sh) PROVE Plain(ps)
<1>1. \A p \in DOMAIN ps : ps[p].tabs # <<>>
  BY DEF Sound
<1> QED BY <1>1 DEF Sound, Plain

\* rebuild_layout_ui makes the two copies of the active tab agree.
LEMMA RebuiltIsSound ==
  ASSUME NEW ps, Plain(ps)
  PROVE  /\ Sound(Rebuilt(ps), ShownAnew(ps)) /\ DOMAIN Rebuilt(ps) = DOMAIN ps
         /\ \A p \in DOMAIN ps : Rebuilt(ps)[p].tabs = ps[p].tabs
<1>1. ASSUME NEW p \in DOMAIN ps
      PROVE  /\ Rebuilt(ps)[p] \in Pane /\ Rebuilt(ps)[p].tabs = ps[p].tabs
             /\ Rebuilt(ps)[p].index \in DOMAIN ps[p].tabs
  <2>1. ps[p] \in Pane /\ ps[p].tabs # <<>>
    BY DEF Plain
  <2>2. ps[p].tabs \in Seq(Tab) /\ ps[p].index \in Nat
    BY <2>1 DEF Pane, Tab
  <2>3. Len(ps[p].tabs) \in Nat \ {0} /\ DOMAIN ps[p].tabs = 1..Len(ps[p].tabs)
    BY <2>1, <2>2
  <2>4. Clamped(ps[p].index, Len(ps[p].tabs)) \in 1..Len(ps[p].tabs)
    BY <2>2, <2>3 DEF Clamped
  <2>5. Rebuilt(ps)[p] = [ps[p] EXCEPT !.index = Clamped(ps[p].index, Len(ps[p].tabs))]
    BY DEF Rebuilt
  <2> QED BY <2>1, <2>3, <2>4, <2>5 DEF Pane
<1>2. DOMAIN Rebuilt(ps) = DOMAIN ps /\ Rebuilt(ps) = [p \in DOMAIN ps |-> Rebuilt(ps)[p]]
  BY DEF Rebuilt
<1>3. /\ DOMAIN ShownAnew(ps) = DOMAIN ps
      /\ \A p \in DOMAIN ps : ShownAnew(ps)[p] = Rebuilt(ps)[p].index
  BY DEF ShownAnew
<1>4. Rebuilt(ps) \in [DOMAIN Rebuilt(ps) -> Pane]
  BY <1>1, <1>2
<1> QED BY <1>1, <1>2, <1>3, <1>4 DEF Plain, Sound

\* A pane put in.
LEMMA PaneAdded ==
  ASSUME NEW ps, Plain(ps), NEW p \in Nat, NEW pane \in Pane, pane.tabs # <<>>
  PROVE  Plain(With(ps, p, pane)) /\ DOMAIN With(ps, p, pane) = DOMAIN ps \cup {p}
  BY DEF Plain, With

\* A pane taken out, and a pane whose content is another.
LEMMA PlainStays ==
  ASSUME NEW ps, Plain(ps)
  PROVE  /\ \A p \in DOMAIN ps, pane \in Pane :
               pane.tabs # <<>> => /\ Plain([ps EXCEPT ![p] = pane])
                                   /\ DOMAIN [ps EXCEPT ![p] = pane] = DOMAIN ps
         /\ \A p : DOMAIN Without(ps, p) = DOMAIN ps \ {p}
         /\ \A p, q : q \in DOMAIN ps /\ q # p => Plain(Without(ps, p))
<1>1. ASSUME NEW p \in DOMAIN ps, NEW pane \in Pane, pane.tabs # <<>>
      PROVE  Plain([ps EXCEPT ![p] = pane]) /\ DOMAIN [ps EXCEPT ![p] = pane] = DOMAIN ps
  BY <1>1 DEF Plain
<1>2. \A p : DOMAIN Without(ps, p) = DOMAIN ps \ {p}
  BY DEF Without
<1>3. ASSUME NEW p, NEW q, q \in DOMAIN ps, q # p
      PROVE  Plain(Without(ps, p))
  BY <1>3 DEF Plain, Without
<1> QED BY <1>1, <1>2, <1>3

\* A tab taken out leaves panes that have tabs.
LEMMA TakenIsPlain ==
  ASSUME NEW ps, Plain(ps), NEW p \in DOMAIN ps, NEW q \in DOMAIN ps, q # p,
         NEW i \in DOMAIN ps[p].tabs
  PROVE  Plain(Taken(ps, p, i)) /\ DOMAIN Taken(ps, p, i) \subseteq DOMAIN ps
<1>1. ps[p] \in Pane /\ ps[p].tabs # <<>>
  BY DEF Plain
<1>2. CASE Len(ps[p].tabs) = 1
  <2>1. Taken(ps, p, i) = Without(ps, p)
    BY <1>2 DEF Taken
  <2>2. Plain(Without(ps, p)) /\ DOMAIN Without(ps, p) = DOMAIN ps \ {p}
    BY PlainStays
  <2> QED BY <2>1, <2>2
<1>3. CASE Len(ps[p].tabs) # 1
  <2>1. RemovedTab(ps[p], i) \in Pane /\ RemovedTab(ps[p], i).tabs # <<>>
    BY <1>1, <1>3, TabsChange
  <2> QED BY <1>3, <2>1, PlainStays DEF Taken
<1> QED BY <1>2, <1>3

\* Where there is more than one pane there is another one.
LEMMA AnotherPane ==
  ASSUME FocusInv, NEW p \in DOMAIN panes, Cardinality(DOMAIN panes) > 1
  PROVE  \E q \in DOMAIN panes : q # p
<1>1. DOMAIN panes \subseteq Nat /\ nextPane \in Nat /\ \A q \in DOMAIN panes : q <= nextPane
  BY DEF FocusInv, FocusTypeOK
<1>2. Cardinality({p}) = 1
  BY FS_Singleton
<1>3. DOMAIN panes # {p}
  BY <1>2
<1> QED BY <1>3

-----------------------------------------------------------------------------
(* What steps are made of.                                                 *)

\* The invariant speaks of sound panes, whose tabs have types.
LEMMA InvIsSound ==
  ASSUME FocusInv
  PROVE  /\ Sound(panes, shown) /\ Plain(panes)
         /\ focus \in Foci /\ memory \in Nat /\ focused \in Nat
         /\ nextTab \in Nat /\ nextPane \in Nat /\ changes \in Nat
         /\ \A p \in DOMAIN panes : p \in Nat /\ p < nextPane /\ panes[p] \in Pane /\ panes[p].tabs # <<>>
<1>1. Sound(panes, shown)
  BY DEF FocusInv, FocusTypeOK, Sound
<1>2. Plain(panes)
  BY <1>1, SoundIsPlain
<1>3. focus \in Foci /\ memory \in Nat /\ focused \in Nat
      /\ nextTab \in Nat /\ nextPane \in Nat /\ changes \in Nat
  BY DEF FocusInv, FocusTypeOK, Foci
<1>4. \A p \in DOMAIN panes : p \in Nat /\ p < nextPane /\ panes[p] \in Pane /\ panes[p].tabs # <<>>
  BY <1>2 DEF FocusInv, Plain
<1> QED BY <1>1, <1>2, <1>3, <1>4

\* The focus a tab stands for.
LEMMA TabFocus ==
  ASSUME FocusInv, NEW p \in DOMAIN panes, NEW i \in DOMAIN panes[p].tabs
  PROVE  /\ panes[p].tabs[i] \in Tab /\ panes[p].tabs[i].type \in Types
         /\ FocusOf(panes[p].tabs[i].type) \in Foci
<1>1. panes[p].tabs[i] \in Tab
  BY InvIsSound, TabsChange
<1> QED BY <1>1 DEF Tab, Foci

\* After apply_focus on sound panes all is well.
LEMMA AfterFocus ==
  ASSUME NEW ps, NEW sh, Sound(ps, sh), NEW f \in Foci, NEW mem \in Nat,
         ApplyFocus(ps, sh, f, mem), nextTab' \in Nat, nextPane' \in Nat, changes' \in Nat,
         \A p \in DOMAIN ps : p < nextPane'
  PROVE  FocusInv'
<1>1. Sound(panes', shown') /\ DOMAIN panes' = DOMAIN ps
      /\ focus' \in Foci /\ focused' \in Nat /\ memory' \in Nat
  BY FocusKeepsTypes
<1>2. KeyboardIsSeen'
  BY FocusIsSeen
<1>3. FocusTypeOK'
  BY <1>1 DEF FocusTypeOK, Sound, Foci
<1> QED BY <1>1, <1>2, <1>3 DEF FocusInv

\* So it is after the panes were made anew.
LEMMA AfterRebuild ==
  ASSUME NEW ps, Plain(ps), NEW f \in Foci, memory \in Nat,
         Rebuild(ps, f), nextTab' \in Nat, nextPane' \in Nat, changes' \in Nat,
         \A p \in DOMAIN ps : p < nextPane'
  PROVE  FocusInv'
<1>1. Sound(Rebuilt(ps), ShownAnew(ps)) /\ DOMAIN Rebuilt(ps) = DOMAIN ps
  BY RebuiltIsSound
<1>2. ApplyFocus(Rebuilt(ps), ShownAnew(ps), f, memory)
  BY DEF Rebuild
<1> QED BY <1>1, <1>2, AfterFocus

\* And when the panes stay as they are and the keyboard is on what is seen.
LEMMA AfterRest ==
  ASSUME FocusInv, UNCHANGED <<panes, shown, focus, idVars>>, focused' \in Nat, memory' \in Nat,
         Seen(keyboard)' \/ UNCHANGED <<keyboard, memory>>
  PROVE  FocusInv'
<1>1. FocusTypeOK' /\ \A p \in DOMAIN panes' : p < nextPane'
  BY DEF FocusInv, FocusTypeOK, idVars
<1>2. KeyboardIsSeen'
  <2>1. CASE Seen(keyboard)'
    BY <2>1 DEF KeyboardIsSeen
  <2>2. CASE UNCHANGED <<keyboard, memory>>
    <3>1. KeyboardIsSeen
      BY DEF FocusInv
    <3>2. panes' = panes /\ shown' = shown /\ focus' = focus /\ keyboard' = keyboard /\ memory' = memory
      BY <2>2
    <3> QED BY <3>1, <3>2 DEF KeyboardIsSeen, Seen
  <2> QED BY <2>1, <2>2
<1> QED BY <1>1, <1>2 DEF FocusInv

\* A pane turned to one of its tabs, in both copies.
LEMMA TurnedIsSound ==
  ASSUME FocusInv, NEW p \in DOMAIN panes, NEW i \in DOMAIN panes[p].tabs
  PROVE  /\ Sound([panes EXCEPT ![p].index = i], [shown EXCEPT ![p] = i])
         /\ DOMAIN [panes EXCEPT ![p].index = i] = DOMAIN panes
<1>1. Sound(panes, shown)
  BY InvIsSound
<1>2. panes[p].tabs \in Seq(Tab)
  BY <1>1 DEF Sound, Pane, Tab
<1>3. i \in Nat
  BY <1>2
<1> DEFINE new == [panes EXCEPT ![p].index = i]
           seen == [shown EXCEPT ![p] = i]
<1>4. DOMAIN new = DOMAIN panes /\ DOMAIN seen = DOMAIN panes
  BY <1>1 DEF Sound
<1>5. \A q \in DOMAIN panes : /\ panes[q] \in Pane /\ shown[q] = panes[q].index
                              /\ shown[q] \in DOMAIN panes[q].tabs
  BY <1>1 DEF Sound
<1>6. new[p] = [panes[p] EXCEPT !.index = i] /\ seen[p] = i
  BY <1>4
<1>7. \A q \in DOMAIN panes : q # p => new[q] = panes[q] /\ seen[q] = shown[q]
  BY <1>4
<1>8. new[p] \in Pane /\ new[p].index = i /\ new[p].tabs = panes[p].tabs
  BY <1>3, <1>5, <1>6 DEF Pane
<1> HIDE DEF new, seen
<1>9. ASSUME NEW q \in DOMAIN panes
      PROVE  new[q] \in Pane /\ seen[q] = new[q].index /\ seen[q] \in DOMAIN new[q].tabs
  <2>1. CASE q = p
    BY <1>6, <1>8, <2>1
  <2>2. CASE q # p
    BY <1>5, <1>7, <2>2
  <2> QED BY <2>1, <2>2
<1>10. new = [q \in DOMAIN panes |-> new[q]]
  BY <1>4 DEF new
<1>11. new \in [DOMAIN new -> Pane]
  BY <1>4, <1>9, <1>10
<1>12. Sound(new, seen)
  BY <1>1, <1>4, <1>9, <1>11 DEF Sound
<1> QED BY <1>4, <1>12 DEF new, seen

\* set_active_index with its callback.
LEMMA ShowStep ==
  ASSUME FocusInv, NEW p \in DOMAIN panes, NEW i \in DOMAIN panes[p].tabs, Show(p, i),
         UNCHANGED idVars
  PROVE  FocusInv'
<1>1. CASE i = shown[p]
  <2>1. UNCHANGED <<panes, shown, focus, focused, memory, keyboard>>
    BY <1>1 DEF Show
  <2> QED BY <2>1, AfterRest, InvIsSound
<1>2. CASE i # shown[p]
  <2>1. ApplyFocus([panes EXCEPT ![p].index = i], [shown EXCEPT ![p] = i],
                   FocusOf(panes[p].tabs[i].type), memory)
    BY <1>2 DEF Show
  <2>2. /\ Sound([panes EXCEPT ![p].index = i], [shown EXCEPT ![p] = i])
        /\ DOMAIN [panes EXCEPT ![p].index = i] = DOMAIN panes
    BY TurnedIsSound
  <2>3. FocusOf(panes[p].tabs[i].type) \in Foci
    BY TabFocus
  <2>4. /\ memory \in Nat /\ nextTab' \in Nat /\ nextPane' \in Nat /\ changes' \in Nat
        /\ \A q \in DOMAIN panes : q < nextPane'
    BY InvIsSound DEF idVars
  <2> HIDE DEF Show
  <2> QED BY <2>1, <2>2, <2>3, <2>4, AfterFocus
<1> QED BY <1>1, <1>2

\* The tab beside the one a pane shows is one of the pane's.
LEMMA BesideIs ==
  ASSUME FocusInv, NEW p \in DOMAIN panes, NEW forward \in BOOLEAN
  PROVE  /\ Beside(p, forward) \in DOMAIN panes[p].tabs
         /\ Len(panes[p].tabs) > 1 => Beside(p, forward) # shown[p]
<1>1. panes[p].tabs \in Seq(Tab) /\ shown[p] \in DOMAIN panes[p].tabs
  BY InvIsSound DEF Sound, Pane, Tab
<1> DEFINE n == Len(panes[p].tabs)
<1>2. n \in Nat \ {0} /\ DOMAIN panes[p].tabs = 1..n /\ shown[p] \in 1..n
  BY <1>1
<1> HIDE DEF n
<1>3. shown[p] \in Nat /\ shown[p] + n - 2 \in Int /\ shown[p] + n - 2 >= 0
  BY <1>2
<1>4. shown[p] % n \in 0..(n - 1)
  BY <1>2, <1>3
<1>5. (shown[p] + n - 2) % n \in 0..(n - 1)
  BY <1>2, <1>3
<1>6. Beside(p, forward) = IF forward THEN (shown[p] % n) + 1 ELSE ((shown[p] + n - 2) % n) + 1
  BY DEF Beside, n
<1> DEFINE a == shown[p] % n
           b == (shown[p] + n - 2) % n
<1>9. n > 1 => a # shown[p] - 1 /\ b # shown[p] - 1
  BY <1>2
<1>7. a \in 0..(n - 1) /\ b \in 0..(n - 1) /\ Beside(p, forward) = IF forward THEN a + 1 ELSE b + 1
  BY <1>4, <1>5, <1>6
<1> HIDE DEF a, b
<1>8. Beside(p, forward) \in 1..n /\ (n > 1 => Beside(p, forward) # shown[p])
  BY <1>2, <1>7, <1>9
<1> QED BY <1>2, <1>8 DEF n

\* The pane that has the focus, and those that stand for a dock.
LEMMA CurrentIs ==
  ASSUME FocusInv
  PROVE  /\ Current \in DOMAIN panes
         /\ \A dock : DockPane(panes, dock) \in DOMAIN panes
<1>1. Sound(panes, shown)
  BY InvIsSound
<1>2. Current \in DOMAIN panes
  BY <1>1, PaneForIs DEF Current
<1>3. ASSUME NEW dock PROVE DockPane(panes, dock) \in DOMAIN panes
  <2>1. Tagged(panes, dock) \subseteq DOMAIN panes
    BY DEF Tagged
  <2>2. DOMAIN panes \subseteq Nat /\ DOMAIN panes # {}
    BY <1>1 DEF Sound
  <2> QED BY <2>1, <2>2, FirstOf DEF DockPane
<1> QED BY <1>2, <1>3

-----------------------------------------------------------------------------
(* The steps.                                                              *)

\* The keys keep the invariant.
LEMMA PressStep ==
  ASSUME FocusInv, NEW forward \in BOOLEAN, Press(forward)
  PROVE  FocusInv'
<1>1. CASE PressTab(forward)
  <2>1. CASE Len(panes[Current].tabs) > 1 /\ Beside(Current, forward) # shown[Current]
    <3>1. Show(Current, Beside(Current, forward)) /\ UNCHANGED idVars
      BY <1>1, <2>1 DEF PressTab
    <3> QED BY <3>1, CurrentIs, BesideIs, ShowStep
  <2>2. CASE ~(Len(panes[Current].tabs) > 1 /\ Beside(Current, forward) # shown[Current])
    <3>1. focused' = Current /\ UNCHANGED <<panes, shown, focus, memory, keyboard, idVars>>
      BY <1>1, <2>2 DEF PressTab
    <3>2. Current \in Nat
      BY CurrentIs, InvIsSound
    <3> QED BY <3>1, <3>2, AfterRest, InvIsSound
  <2> QED BY <2>1, <2>2
<1>2. CASE PressCtrlTab(forward)
  <2>1. CASE Cardinality(DOMAIN panes) = 1
    <3>1. focused' = First(DOMAIN panes) /\ UNCHANGED <<panes, shown, focus, memory, keyboard, idVars>>
      BY <1>2, <2>1 DEF PressCtrlTab
    <3>2. First(DOMAIN panes) \in Nat
      BY InvIsSound, FirstOf DEF Sound
    <3> QED BY <3>1, <3>2, AfterRest, InvIsSound
  <2>2. CASE Cardinality(DOMAIN panes) # 1
    <3> DEFINE p == Neighbour(Current, forward)
    <3>1. ApplyFocus(panes, shown, FocusOf(panes[p].tabs[shown[p]].type), memory) /\ UNCHANGED idVars
      BY <1>2, <2>2 DEF PressCtrlTab
    <3>2. p \in DOMAIN panes
      BY CurrentIs, NeighbourIs
    <3> HIDE DEF p
    <3>3. FocusOf(panes[p].tabs[shown[p]].type) \in Foci
      BY <3>2, InvIsSound, TabFocus DEF Sound
    <3>4. /\ nextTab' \in Nat /\ nextPane' \in Nat /\ changes' \in Nat
          /\ \A q \in DOMAIN panes : q < nextPane'
      BY <3>1, InvIsSound DEF idVars
    <3> QED BY <3>1, <3>3, <3>4, InvIsSound, AfterFocus
  <2> QED BY <2>1, <2>2
<1>3. CASE PressBracket(forward)
  <2>1. PICK dock \in {"bottom", "left"} :
           Show(DockPane(panes, dock), Beside(DockPane(panes, dock), forward)) /\ UNCHANGED idVars
    BY <1>3 DEF PressBracket
  <2> QED BY <2>1, CurrentIs, BesideIs, ShowStep
<1> QED BY <1>1, <1>2, <1>3 DEF Press

\* Clicks on a tab and in a panel, and the places where the program gives the
\* keyboard to a kind of panel, keep the invariant.
LEMMA PointStep ==
  ASSUME FocusInv, \/ \E p \in DOMAIN panes : Point(p)
              \/ \E type \in Types : GoTo(FocusOf(type))
  PROVE  FocusInv'
<1>1. /\ memory \in Nat
      /\ UNCHANGED idVars => /\ nextTab' \in Nat /\ nextPane' \in Nat /\ changes' \in Nat
                             /\ \A q \in DOMAIN panes : q < nextPane'
  BY InvIsSound DEF idVars
<1>2. ASSUME NEW type \in Types, GoTo(FocusOf(type)) PROVE FocusInv'
  BY <1>1, <1>2, InvIsSound, AfterFocus DEF GoTo, Foci
<1>3. ASSUME NEW p \in DOMAIN panes, NEW i \in DOMAIN panes[p].tabs, ClickTab(p, i) PROVE FocusInv'
  BY <1>3, ShowStep DEF ClickTab
<1>4. ASSUME NEW p \in DOMAIN panes, ClickPanel(p) PROVE FocusInv'
  <2> DEFINE tab == panes[p].tabs[shown[p]]
             used == IF tab.type = "memory" THEN tab.id ELSE memory
  <2>1. tab \in Tab /\ FocusOf(tab.type) \in Foci
    BY InvIsSound, TabFocus DEF Sound
  <2>2. used \in Nat
    BY <1>1, <2>1 DEF Tab
  <2>3. CASE FocusOf(tab.type) # focus
    <3>1. ApplyFocus(panes, shown, FocusOf(tab.type), used) /\ UNCHANGED idVars
      BY <1>4, <2>3 DEF ClickPanel
    <3> HIDE DEF tab, used
    <3> QED BY <1>1, <2>1, <2>2, <3>1, InvIsSound, AfterFocus
  <2>4. CASE FocusOf(tab.type) = focus
    <3>1. /\ keyboard' = Widget(tab) /\ memory' = used
          /\ UNCHANGED <<panes, shown, focus, focused, idVars>>
      BY <1>4, <2>4 DEF ClickPanel
    <3>2. Seen(keyboard)'
      BY <3>1 DEF Seen
    <3> QED BY <2>2, <3>1, <3>2, InvIsSound, AfterRest
  <2> QED BY <2>3, <2>4
<1> QED BY <1>2, <1>3, <1>4 DEF Point

\* Widgets that are all new: the library gives the keyboard to one of them.
LEMMA ResizeStep == ASSUME FocusInv, Resize PROVE FocusInv'
<1>1. /\ Sound(Rebuilt(panes), ShownAnew(panes)) /\ DOMAIN Rebuilt(panes) = DOMAIN panes
  BY InvIsSound, RebuiltIsSound
<1>2. /\ panes' = Rebuilt(panes) /\ shown' = ShownAnew(panes)
      /\ keyboard' \in Given(panes', shown')
      /\ UNCHANGED <<focus, focused, memory, idVars>>
  BY DEF Resize
<1>3. Sound(panes', shown') /\ DOMAIN panes' = DOMAIN panes
  BY <1>1, <1>2
<1>4. /\ focus' \in Foci /\ memory' \in Nat /\ focused' \in Nat
      /\ nextTab' \in Nat /\ nextPane' \in Nat /\ changes' \in Nat
      /\ \A p \in DOMAIN panes' : p < nextPane'
  BY <1>2, <1>3, InvIsSound DEF idVars
<1>5. FocusTypeOK'
  BY <1>3, <1>4 DEF FocusTypeOK, Sound, Foci
<1>6. KeyboardIsSeen'
  BY <1>2 DEF KeyboardIsSeen, Seen, Given
<1> QED BY <1>4, <1>5, <1>6 DEF FocusInv

\* The changes of the layout keep the invariant.
LEMMA ChangeStep ==
  ASSUME FocusInv, NEW p \in DOMAIN panes, Change(p)
  PROVE  FocusInv'
<1>1. /\ Sound(panes, shown) /\ Plain(panes) /\ memory \in Nat /\ focus \in Foci
      /\ nextTab \in Nat /\ nextPane \in Nat /\ changes \in Nat
      /\ \A q \in DOMAIN panes : q \in Nat /\ q < nextPane /\ panes[q] \in Pane /\ panes[q].tabs # <<>>
  BY InvIsSound
<1>2. ASSUME NEW type \in Added, AddPanel(p, type) PROVE FocusInv'
  <2> DEFINE tab == [id |-> nextTab, type |-> type]
             grown == [panes EXCEPT ![p] = Appended(@, tab)]
             seen == [shown EXCEPT ![p] = Len(panes[p].tabs) + 1]
  <2>1. tab \in Tab /\ FocusOf(type) \in Foci
    BY <1>1 DEF Tab, Foci, Types
  <2>2. /\ Appended(panes[p], tab) \in Pane /\ Appended(panes[p], tab).tabs # <<>>
        /\ Appended(panes[p], tab).index = Len(panes[p].tabs) + 1
        /\ Len(panes[p].tabs) + 1 \in DOMAIN Appended(panes[p], tab).tabs
    BY <1>1, <2>1, TabsChange
  <2>3. grown = [panes EXCEPT ![p] = Appended(panes[p], tab)]
    OBVIOUS
  <2>4. Plain(grown) /\ DOMAIN grown = DOMAIN panes
    BY <1>1, <2>2, <2>3, PlainStays
  <2>5. Sound(grown, seen)
    <3>1. /\ DOMAIN seen = DOMAIN panes /\ seen[p] = Len(panes[p].tabs) + 1
          /\ \A q \in DOMAIN panes : q # p => seen[q] = shown[q] /\ grown[q] = panes[q]
          /\ grown[p] = Appended(panes[p], tab)
      BY <1>1 DEF Sound
    <3> HIDE DEF grown, seen, tab
    <3>2. \A q \in DOMAIN panes : seen[q] = grown[q].index /\ seen[q] \in DOMAIN grown[q].tabs
      BY <1>1, <2>2, <3>1 DEF Sound
    <3> QED BY <2>4, <3>1, <3>2 DEF Sound, Plain
  <2>6. /\ IF type = "source" THEN Rebuild(grown, "source")
           ELSE ApplyFocus(grown, seen, FocusOf(type), memory)
        /\ nextTab' = nextTab + 1 /\ nextPane' = nextPane /\ changes' = changes + 1
    BY <1>2 DEF AddPanel, Changing
  <2> HIDE DEF grown, seen, tab
  <2>7. /\ nextTab' \in Nat /\ nextPane' \in Nat /\ changes' \in Nat
        /\ \A q \in DOMAIN grown : q < nextPane'
    BY <1>1, <2>4, <2>6
  <2>8. CASE type = "source"
    <3>1. "source" \in Foci /\ Rebuild(grown, "source")
      BY <2>6, <2>8 DEF Foci
    <3> QED BY <1>1, <2>4, <2>7, <3>1, AfterRebuild
  <2>9. CASE type # "source"
    <3>1. ApplyFocus(grown, seen, FocusOf(type), memory)
      BY <2>6, <2>9
    <3> QED BY <1>1, <2>1, <2>5, <2>7, <3>1, AfterFocus
  <2> QED BY <2>8, <2>9
<1>3. ASSUME NEW i \in DOMAIN panes[p].tabs, NEW to \in DOMAIN panes, MoveTab(p, i, to) PROVE FocusInv'
  <2> DEFINE tab == panes[p].tabs[i]
             grown == [panes EXCEPT ![to] = Appended(@, tab)]
  <2>1. tab \in Tab /\ FocusOf(tab.type) \in Foci
    BY TabFocus
  <2>2. /\ p # to /\ Rebuild(Taken(grown, p, i), FocusOf(tab.type))
        /\ nextTab' = nextTab /\ nextPane' = nextPane /\ changes' = changes + 1
    BY <1>3 DEF MoveTab, Changing
  <2>3. Appended(panes[to], tab) \in Pane /\ Appended(panes[to], tab).tabs # <<>>
    BY <1>1, <2>1, TabsChange
  <2>4. grown = [panes EXCEPT ![to] = Appended(panes[to], tab)]
    OBVIOUS
  <2>5. Plain(grown) /\ DOMAIN grown = DOMAIN panes
    BY <1>1, <2>3, <2>4, PlainStays
  <2>6. i \in DOMAIN grown[p].tabs
    BY <2>2
  <2> HIDE DEF grown, tab
  <2>7. Plain(Taken(grown, p, i)) /\ DOMAIN Taken(grown, p, i) \subseteq DOMAIN panes
    BY <2>2, <2>5, <2>6, TakenIsPlain
  <2>8. /\ nextTab' \in Nat /\ nextPane' \in Nat /\ changes' \in Nat
        /\ \A q \in DOMAIN Taken(grown, p, i) : q < nextPane'
    BY <1>1, <2>2, <2>7
  <2> QED BY <1>1, <2>1, <2>2, <2>7, <2>8, AfterRebuild
<1>4. ASSUME MovePane(p) PROVE FocusInv'
  <2> DEFINE new == With(Without(panes, p), nextPane, panes[p])
  <2>1. /\ Cardinality(DOMAIN panes) > 1 /\ Rebuild(new, focus)
        /\ nextTab' = nextTab /\ nextPane' = nextPane + 1 /\ changes' = changes + 1
    BY <1>4 DEF MovePane, Changing
  <2>2. PICK other \in DOMAIN panes : other # p
    BY <2>1, AnotherPane
  <2>3. Plain(Without(panes, p)) /\ DOMAIN Without(panes, p) = DOMAIN panes \ {p}
    BY <1>1, <2>2, PlainStays
  <2>4. Plain(new) /\ DOMAIN new = DOMAIN Without(panes, p) \cup {nextPane}
    <3>1. panes[p] \in Pane /\ panes[p].tabs # <<>>
      BY <1>1
    <3> QED BY <1>1, <2>3, <3>1, PaneAdded
  <2> HIDE DEF new
  <2>5. /\ nextTab' \in Nat /\ nextPane' \in Nat /\ changes' \in Nat
        /\ \A q \in DOMAIN new : q < nextPane'
    BY <1>1, <2>1, <2>3, <2>4
  <2> QED BY <1>1, <2>1, <2>4, <2>5, AfterRebuild
<1>5. ASSUME NEW i \in DOMAIN panes[p].tabs, MoveTabAdjacent(p, i) PROVE FocusInv'
  <2> DEFINE alone == [dock |-> Undocked, tabs |-> <<panes[p].tabs[i]>>, index |-> 1]
             grown == With(panes, nextPane, alone)
  <2>1. /\ Rebuild(Taken(grown, p, i), focus)
        /\ nextTab' = nextTab /\ nextPane' = nextPane + 1 /\ changes' = changes + 1
    BY <1>5 DEF MoveTabAdjacent, Changing
  <2>2. panes[p].tabs[i] \in Tab
    BY TabFocus
  <2>3. alone \in Pane /\ alone.tabs # <<>>
    BY <2>2 DEF Pane, Tab
  <2> HIDE DEF alone
  <2>4. Plain(grown) /\ DOMAIN grown = DOMAIN panes \cup {nextPane}
    BY <1>1, <2>3, PaneAdded
  <2>5. p # nextPane /\ i \in DOMAIN grown[p].tabs
    BY <1>1 DEF With
  <2> HIDE DEF grown
  <2>6. Plain(Taken(grown, p, i)) /\ DOMAIN Taken(grown, p, i) \subseteq DOMAIN grown
    BY <2>4, <2>5, TakenIsPlain
  <2>7. /\ nextTab' \in Nat /\ nextPane' \in Nat /\ changes' \in Nat
        /\ \A q \in DOMAIN Taken(grown, p, i) : q < nextPane'
    BY <1>1, <2>1, <2>4, <2>6
  <2> QED BY <1>1, <2>1, <2>6, <2>7, AfterRebuild
<1>6. ASSUME NEW other \in DOMAIN panes, SwapPanes(p, other) PROVE FocusInv'
  <2> DEFINE one == [panes EXCEPT ![p] = panes[other]]
             new == [panes EXCEPT ![p] = panes[other], ![other] = panes[p]]
  <2>1. /\ Rebuild(new, focus)
        /\ nextTab' = nextTab /\ nextPane' = nextPane /\ changes' = changes + 1
    BY <1>6 DEF SwapPanes, Changing
  <2>2. Plain(one) /\ DOMAIN one = DOMAIN panes
    BY <1>1, PlainStays
  <2>3. new = [one EXCEPT ![other] = panes[p]]
    OBVIOUS
  <2> HIDE DEF one
  <2>4. Plain(new) /\ DOMAIN new = DOMAIN panes
    BY <1>1, <2>2, <2>3, PlainStays
  <2> HIDE DEF new
  <2>5. /\ nextTab' \in Nat /\ nextPane' \in Nat /\ changes' \in Nat
        /\ \A q \in DOMAIN new : q < nextPane'
    BY <1>1, <2>1, <2>4
  <2> QED BY <1>1, <2>1, <2>4, <2>5, AfterRebuild
<1>7. ASSUME DeletePane(p) PROVE FocusInv'
  <2>1. /\ Cardinality(DOMAIN panes) > 1 /\ Rebuild(Without(panes, p), focus)
        /\ nextTab' = nextTab /\ nextPane' = nextPane /\ changes' = changes + 1
    BY <1>7 DEF DeletePane, Changing
  <2>2. PICK other \in DOMAIN panes : other # p
    BY <2>1, AnotherPane
  <2>3. Plain(Without(panes, p)) /\ DOMAIN Without(panes, p) = DOMAIN panes \ {p}
    BY <1>1, <2>2, PlainStays
  <2>4. /\ nextTab' \in Nat /\ nextPane' \in Nat /\ changes' \in Nat
        /\ \A q \in DOMAIN Without(panes, p) : q < nextPane'
    BY <1>1, <2>1, <2>3
  <2> QED BY <1>1, <2>1, <2>3, <2>4, AfterRebuild
<1> QED BY <1>2, <1>3, <1>4, <1>5, <1>6, <1>7 DEF Change

-----------------------------------------------------------------------------
(* The theorems.                                                           *)

\* The configured panels are sound, and the keyboard is on one of them or on
\* none.
LEMMA FocusInitInv == ASSUME ConfigIsSound, FocusInit PROVE FocusInv
<1>1. ASSUME NEW d \in 1..3
      PROVE  /\ Start[d] \in Pane /\ Start[d].index = 1 /\ 1 \in DOMAIN Start[d].tabs
  <2>1. Config[d] \in Seq(Types) /\ Config[d] # <<>>
    BY DEF ConfigIsSound
  <2>2. Len(Config[d]) \in Nat \ {0} /\ DOMAIN Config[d] = 1..Len(Config[d])
    BY <2>1
  <2>3. Offset(d) \in Nat
    BY DEF ConfigIsSound, Offset
  <2> DEFINE tabs == [i \in DOMAIN Config[d] |-> [id |-> Offset(d) + i, type |-> Config[d][i]]]
  <2>4. \A i \in DOMAIN Config[d] : [id |-> Offset(d) + i, type |-> Config[d][i]] \in Tab
    BY <2>1, <2>2, <2>3 DEF Tab
  <2>5. tabs \in Seq(Tab) /\ 1 \in DOMAIN tabs
    BY <2>2, <2>4
  <2>6. Docks[d] \in {"left", "center", "bottom", Undocked}
    BY DEF Docks
  <2>7. Start[d] = [dock |-> Docks[d], index |-> 1, tabs |-> tabs]
    BY DEF Start
  <2> HIDE DEF tabs
  <2> QED BY <2>5, <2>6, <2>7 DEF Pane, Tab
<1>2. DOMAIN Start = 1..3 /\ Start = [d \in 1..3 |-> Start[d]]
  BY DEF Start
<1>3. panes = Start /\ shown = [d \in 1..3 |-> 1]
  BY DEF FocusInit
<1>4. Sound(panes, shown)
  BY <1>1, <1>2, <1>3 DEF Sound
<1>5. nextTab \in Nat
  BY DEF FocusInit, TypeList, ConfigIsSound
<1>6. /\ focus \in Foci /\ memory \in Nat /\ focused \in Nat
      /\ nextPane = 4 /\ changes \in Nat
  BY DEF FocusInit, Foci
<1>7. FocusTypeOK
  BY <1>4, <1>5, <1>6 DEF FocusTypeOK, Sound, Foci
<1>8. \A p \in DOMAIN panes : p < nextPane
  BY <1>2, <1>3, <1>6
<1>9. KeyboardIsSeen
  BY DEF FocusInit, KeyboardIsSeen, Seen, Given
<1> QED BY <1>7, <1>8, <1>9 DEF FocusInv

\* Every step keeps the invariant.
LEMMA FocusInvStep == ASSUME FocusInv, [FocusNext]_focusVars PROVE FocusInv'
<1>1. CASE Resize
  BY <1>1, ResizeStep
<1>2. ASSUME NEW forward \in BOOLEAN, Press(forward) PROVE FocusInv'
  BY <1>2, PressStep
<1>3. ASSUME NEW type \in Types, GoTo(FocusOf(type)) PROVE FocusInv'
  BY <1>3, PointStep
<1>4. ASSUME NEW p \in DOMAIN panes, Point(p) PROVE FocusInv'
  BY <1>4, PointStep
<1>5. ASSUME NEW p \in DOMAIN panes, Change(p) PROVE FocusInv'
  BY <1>5, ChangeStep
<1>6. CASE UNCHANGED focusVars
  BY <1>6, AfterRest, InvIsSound DEF focusVars
<1> QED BY <1>1, <1>2, <1>3, <1>4, <1>5, <1>6 DEF FocusNext

\* The invariant holds always.
LEMMA FocusInvariant == ConfigIsSound => (FocusSpec => []FocusInv)
<1> SUFFICES ASSUME ConfigIsSound PROVE FocusSpec => []FocusInv
  OBVIOUS
<1>1. FocusInit => FocusInv
  BY FocusInitInv
<1>2. FocusInv /\ [FocusNext]_focusVars => FocusInv'
  BY FocusInvStep
<1> QED BY <1>1, <1>2, PTL DEF FocusSpec

\* Every pane has a tab, and the layout tree and the widget agree about the
\* one that is active, whatever the keys, the mouse and the menus do.
THEOREM FocusTypeCorrect == ConfigIsSound => (FocusSpec => []FocusTypeOK)
<1>1. FocusInv => FocusTypeOK
  BY DEF FocusInv
<1> QED BY <1>1, FocusInvariant, PTL

\* The keyboard is on a tab that some pane shows, but for the cases the
\* property names: apply_focus picks the widget after it turned the panes.
THEOREM KeysAreSeen == ConfigIsSound => (FocusSpec => []KeyboardIsSeen)
<1>1. FocusInv => KeyboardIsSeen
  BY DEF FocusInv
<1> QED BY <1>1, FocusInvariant, PTL

\* A panel that is alone and has the keyboard is where Tab and Ctrl+Tab start
\* from; the panel they lead to, or the one clicked, is alone too.
LEMMA StepGoes == ASSUME FocusInv PROVE GoesWhereSent
<1> SUFFICES ASSUME Alone, "resources" \notin Types
             PROVE  /\ \A p \in DOMAIN panes : Has(p)' \/ ~ClickPanel(p)
                    /\ \A p \in DOMAIN panes, forward \in BOOLEAN :
                          Has(p) => /\ TurnsPage(p) \/ ~PressTab(forward)
                                    /\ \/ Has(Neighbour(p, forward))'
                                       \/ Cardinality(DOMAIN panes) = 1 \/ ~PressCtrlTab(forward)
  BY DEF GoesWhereSent
<1>1. Sound(panes, shown) /\ AloneIn(panes)
  BY InvIsSound DEF Alone, AloneIn
<1>2. ASSUME NEW p \in DOMAIN panes, NEW i \in DOMAIN panes[p].tabs
      PROVE  FocusOf(panes[p].tabs[i].type) # "resources"
  BY TabFocus DEF FocusOf
<1>3. \A p \in DOMAIN panes : p \in Nat /\ shown[p] \in DOMAIN panes[p].tabs
  BY <1>1 DEF Sound
<1>4. ASSUME NEW p \in DOMAIN panes, ClickPanel(p) PROVE Has(p)'
  <2> DEFINE tab == panes[p].tabs[shown[p]]
             used == IF tab.type = "memory" THEN tab.id ELSE memory
  <2>1. CASE FocusOf(tab.type) # focus
    <3>1. ApplyFocus(panes, shown, FocusOf(tab.type), used)
      BY <1>4, <2>1 DEF ClickPanel
    <3> HIDE DEF used
    <3> QED BY <1>1, <1>2, <1>3, <3>1, FocusGoes
  <2>2. CASE FocusOf(tab.type) = focus
    <3>1. keyboard' = Widget(tab) /\ UNCHANGED <<panes, shown, focus>>
      BY <1>4, <2>2 DEF ClickPanel
    <3> QED BY <2>2, <3>1 DEF Has
  <2> QED BY <2>1, <2>2
<1>5. ASSUME NEW p \in DOMAIN panes, Has(p) PROVE Current = p
  <2>1. focus = FocusOf(panes[p].tabs[shown[p]].type)
    BY <1>5 DEF Has
  <2>2. shown[p] \in TabsFor(panes[p], focus)
    BY <1>3, <2>1 DEF TabsFor
  <2>3. \A q \in DOMAIN panes : TabsFor(panes[q], focus) # {} => q = p
    BY <1>1, <1>3, <2>1 DEF AloneIn, TabsFor
  <2>4. Holding(panes, focus) = {p}
    BY <2>2, <2>3 DEF Holding
  <2>5. First({p}) = p
    BY <1>3, FirstOf
  <2> QED BY <2>4, <2>5 DEF Current, PaneFor
<1>6. ASSUME NEW p \in DOMAIN panes, NEW forward \in BOOLEAN, Has(p), PressTab(forward)
      PROVE  TurnsPage(p)
  <2>1. PICK i \in DOMAIN panes[p].tabs : i = Beside(p, forward)
    BY BesideIs
  <2> DEFINE new == [panes EXCEPT ![p].index = i]
             seen == [shown EXCEPT ![p] = i]
  <2>2. Current = p
    BY <1>5, <1>6
  <2>3. CASE Len(panes[p].tabs) > 1 /\ i # shown[p]
    <3>1. ApplyFocus(new, seen, FocusOf(panes[p].tabs[i].type), memory)
      BY <1>6, <2>2, <2>3, <2>1 DEF PressTab, Show
    <3>2. Sound(new, seen) /\ DOMAIN new = DOMAIN panes
      BY TurnedIsSound
    <3>3. \A q \in DOMAIN panes : new[q].tabs = panes[q].tabs
      BY InvIsSound DEF Pane
    <3>4. seen[p] = i /\ DOMAIN seen = DOMAIN panes
      BY <1>1 DEF Sound
    <3> HIDE DEF new, seen
    <3>5. AloneIn(new)
      BY <1>1, <3>2, <3>3 DEF AloneIn
    <3>6. /\ FocusOf(new[p].tabs[seen[p]].type) = FocusOf(panes[p].tabs[i].type)
          /\ FocusOf(panes[p].tabs[i].type) # "resources"
      BY <1>2, <3>3, <3>4
    <3>7. Has(p)'
      BY <3>1, <3>2, <3>5, <3>6, FocusGoes
    <3>8. shown'[p] = i
      <4>1. p \in DOMAIN new /\ seen[p] \in TabsFor(new[p], FocusOf(panes[p].tabs[i].type))
        BY <3>2, <3>3, <3>4 DEF TabsFor
      <4> QED BY <3>1, <3>2, <3>4, <4>1, SyncShows DEF ApplyFocus
    <3> QED BY <2>3, <3>7, <3>8 DEF TurnsPage
  <2>4. CASE ~(Len(panes[p].tabs) > 1 /\ i # shown[p])
    <3>1. UNCHANGED <<panes, shown, focus, keyboard>>
      BY <1>6, <2>2, <2>4, <2>1 DEF PressTab
    <3>2. Len(panes[p].tabs) = 1
      <4>1. ~(Len(panes[p].tabs) > 1)
        BY <2>1, <2>4, BesideIs
      <4>2. panes[p].tabs \in Seq(Tab) /\ shown[p] \in DOMAIN panes[p].tabs
        BY InvIsSound DEF Sound, Pane, Tab
      <4>3. PICK n \in Nat : n = Len(panes[p].tabs)
        BY <4>2
      <4>4. n # 0
        BY <4>2, <4>3
      <4>5. ~(n > 1)
        BY <4>1, <4>3
      <4>6. n = 1
        BY <4>4, <4>5
      <4> QED BY <4>3, <4>6
    <3> QED BY <1>6, <3>1, <3>2 DEF Has, TurnsPage
  <2> QED BY <2>3, <2>4
<1>7. ASSUME NEW p \in DOMAIN panes, NEW forward \in BOOLEAN, Has(p), PressCtrlTab(forward),
             Cardinality(DOMAIN panes) # 1
      PROVE  Has(Neighbour(p, forward))'
  <2> DEFINE q == Neighbour(p, forward)
  <2>1. Current = p
    BY <1>5, <1>7
  <2>2. ApplyFocus(panes, shown, FocusOf(panes[q].tabs[shown[q]].type), memory)
    BY <1>7, <2>1 DEF PressCtrlTab
  <2>3. q \in DOMAIN panes
    BY NeighbourIs
  <2> HIDE DEF q
  <2>4. shown[q] \in DOMAIN panes[q].tabs
    BY <1>3, <2>3
  <2>5. FocusOf(panes[q].tabs[shown[q]].type) # "resources"
    BY <1>2, <2>3, <2>4
  <2>6. DOMAIN panes' = DOMAIN panes
    BY <1>1, <2>2, <2>3, <2>5, FocusGoes
  <2>7. Neighbour(p, forward)' = Neighbour(p, forward)
    BY <2>6, NeighbourStays
  <2>8. PICK r \in DOMAIN panes : r = q
    BY <2>3
  <2>9. Has(r)'
    BY <1>1, <2>2, <2>5, <2>8, FocusGoes
  <2>10. Neighbour(p, forward)' = r
    BY <2>7, <2>8 DEF q
  <2> QED BY <2>9, <2>10 DEF Has
<1> QED BY <1>4, <1>6, <1>7

\* Clicks, Tab and Ctrl+Tab take the keyboard where the user sends it, as
\* long as no two panels share a focus (FocusFollows).
THEOREM KeysGoWhereSent == ConfigIsSound => (FocusSpec => FocusFollows)
<1>1. FocusInv /\ [FocusNext]_focusVars => [GoesWhereSent]_focusVars
  BY StepGoes
<1> QED BY <1>1, FocusInvariant, PTL DEF FocusSpec, FocusFollows
=============================================================================
