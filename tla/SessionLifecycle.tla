-------------------------- MODULE SessionLifecycle --------------------------
(***************************************************************************)
(* What a debug session promises to the user interface, whatever adapter   *)
(* is behind it: the stops of the program reach it one at a time, in the   *)
(* order they happened, and as long as the session is connected each is    *)
(* taken in the end, unless it does not say which thread stopped.          *)
(***************************************************************************)
EXTENDS Naturals, Sequences

CONSTANTS Threads, NoThread, MaxStops

VARIABLES
    life,    \* SessionState
    known,   \* a stop has been taken since the launch, so there is a thread to resume
    unread   \* the threads whose stop is not taken yet, oldest first; NoThread: not told

vars == <<life, known, unread>>

Lives == {"Disconnected", "Running", "Stopped", "Exited"}

TypeOK ==
    /\ life \in Lives
    /\ known \in BOOLEAN
    /\ unread \in Seq(Threads \cup {NoThread})

Init == life = "Disconnected" /\ ~known /\ unread = <<>>

\* The program stops: the news waits for its turn.
StopHappens(t) ==
    /\ Len(unread) < MaxStops
    /\ unread' = Append(unread, t)
    /\ UNCHANGED <<life, known>>

\* The oldest stop becomes the state of the session, whatever that was.
TakeStop ==
    /\ unread # <<>> /\ Head(unread) # NoThread
    /\ life' = "Stopped"
    /\ known' = TRUE
    /\ unread' = Tail(unread)

\* One that does not say which thread stopped is passed over.
DropStop ==
    /\ unread # <<>> /\ Head(unread) = NoThread
    /\ unread' = Tail(unread)
    /\ UNCHANGED <<life, known>>

\* Only a session that has seen a stop can be resumed.
Resume ==
    /\ known
    /\ life' = "Running"
    /\ UNCHANGED <<known, unread>>

\* The program ends; a command that ends it also forgets the thread.
End ==
    /\ life' = "Exited"
    /\ known' \in {known, FALSE}
    /\ UNCHANGED unread

\* A session that is shut down keeps the news nobody took, one that is freed does not.
Close ==
    /\ life' = "Disconnected"
    /\ known' = FALSE
    /\ unread' \in {unread, <<>>}

\* A launch puts a session in its place that took its first stop or saw its end.
Open ==
    /\ life = "Disconnected"
    /\ life' \in {"Stopped", "Exited"}
    /\ known' = (life' = "Stopped")
    /\ unread' \in Seq(Threads \cup {NoThread})

Next ==
    \/ \E t \in Threads \cup {NoThread} : StopHappens(t)
    \/ TakeStop \/ DropStop \/ Resume \/ End \/ Close \/ Open

\* What never goes wrong, without the promise that a stop is taken in the end.
Safety == Init /\ [][Next]_vars

\* Nobody looks for stops any more once the session is disconnected.
Heard == life # "Disconnected" /\ (TakeStop \/ DropStop)
Spec == Safety /\ WF_vars(Heard)
=============================================================================
