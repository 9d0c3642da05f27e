-------------------------------- MODULE CApi --------------------------------
(* The C functions of the Rust core (c_api/) and the backend of the UI that  *)
(* calls them (rust_session_backend.cpp).  Every function answers 0, 1 or -1 *)
(* and leaves the text of its error in one global of the process, LAST_ERROR,*)
(* for the caller to fetch; what a session has to say is copied into a       *)
(* buffer of the caller whose size the backend fixes.                        *)
(*                                                                           *)
(* Three threads of the UI are inside the API: the session worker, the       *)
(* thread that launches, and the UI thread, which asks about source text.    *)
(* A call is one step: it clears the error when it enters and sets it when   *)
(* it fails, and every interleaving of two calls leaves the global as one of *)
(* their two orders does.  Fetching the error is two steps, because          *)
(* tui_debug_last_error gives out a pointer the caller copies from later.    *)
EXTENDS Integers, FiniteSets

CONSTANT Sizes                  \* lengths of a result, with its final NUL

VARIABLES
    session,      \* the engine behind session_: "none", "Dap" or "Rr"
    lastError,    \* LAST_ERROR
    owed,         \* by caller: the error of its own call it has still to fetch
    pointed,      \* by caller: it holds the pointer to LAST_ERROR
    intruded,     \* by caller: another call began since its own one failed
    told,         \* the error text copied last
    held,         \* what the session keeps for a caller that has not asked yet
    highlight     \* the viewport the worker asks for: its size and the attempt

vars == <<session, lastError, owed, pointed, intruded, told, held, highlight>>

Callers == {"worker", "launcher"}    \* the UI thread never asks for an error
Engines == {"Dap", "Rr"}
Kinds == {"stop", "initial", "console", "network"}
Idle == [size |-> 0, attempt |-> 0]

(* Why a call fails, as the text of LAST_ERROR tells. *)
Errors == {"null session", "bad text", "bad JSON", "unknown op", "refused", "not in rr", "too small"}
Texts == {""} \cup Errors
Told == {"", "unknown error", "garbage"} \cup Errors

----------------------------------------------------------------------------
(* What each function checks, in the order of its early returns. *)

Launches == {"launch", "launch_lldb", "launch_rr", "launch_resolved"}

(* LaunchBackend: which engine a launch ends in. *)
EngineOf(f) ==
    CASE f \in {"launch", "launch_lldb"} -> {"Dap"}
      [] f = "launch_rr" -> {"Rr"}
      [] f = "launch_resolved" -> Engines

Reads == {"poll", "sync_snapshot", "drain_console", "drain_network"}
ReplQueries == {"evaluate", "completions", "data_breakpoint_info"}
VariableQueries ==
    {"fetch_variables", "set_variable", "fetch_source", "fetch_step_in_targets", "fetch_goto_targets"}
MemoryQueries == {"read_memory", "write_memory", "disassemble"}
Queries == ReplQueries \cup VariableQueries \cup MemoryQueries

(* Each replaces the whole set of breakpoints of its sort. *)
NamedBreakpoints == {"set_function_breakpoints", "set_exception_breakpoints"}
Replacements == {"set_breakpoints", "set_data_breakpoints"} \cup NamedBreakpoints
SourceQueries ==
    {"language_from_path", "language_is_loaded", "try_load_language", "function_name_at_line",
     "function_definition_line", "identifier_at_position"}

(* What the UI thread calls of them (highlight_bridge.hpp). *)
UiCalls == SourceQueries \ {"try_load_language"}

(* session_from_ptr: no function that needs the session goes on without it. *)
NeedsSession == Reads \cup Queries \cup Replacements \cup {"command", "terminal_write", "network_proxy_address"}

(* The functions that take C strings, which may not be valid UTF-8. *)
TakesText ==
    Launches \cup Replacements \cup SourceQueries
    \cup (Queries \ {"fetch_source", "fetch_step_in_targets"})
    \cup {"command", "resolve_launch", "send_network_compose", "highlight_viewport"}

(* ... and those whose string is then parsed. *)
TakesJson == Launches \cup Replacements \cup {"resolve_launch"}

(* What an rr session refuses whatever the arguments are. *)
NotInRr ==
    {"data_breakpoint_info", "set_data_breakpoints", "set_function_breakpoints",
     "set_exception_breakpoints", "set_variable", "fetch_source",
     "read_memory", "write_memory", "disassemble"}

(* ... and what it answers with an empty result without asking gdb. *)
EmptyInRr ==
    {"completions", "fetch_step_in_targets", "fetch_goto_targets", "poll", "drain_console",
     "drain_network", "terminal_write", "network_proxy_address", "fetch_variables"}

(* The functions whose work cannot fail once their arguments are read. *)
CannotFail ==
    {"network_proxy_address", "drain_console", "language_from_path", "language_is_loaded",
     "function_name_at_line", "function_definition_line", "identifier_at_position",
     "highlight_viewport"}

----------------------------------------------------------------------------
(* The ops a command may name, by engine; play_pause looks at the state of   *)
(* the program and does nothing when it neither runs nor is stopped.         *)

CommonOps ==
    {"continue", "step_over", "step_into", "step_out", "step_back", "step_back_into",
     "reverse_continue", "pause", "play_pause", "terminate", "disconnect", "restart"}
Ops(engine) == CommonOps \cup (IF engine = "Dap" THEN {"goto", "goto_line"} ELSE {})

(* Ops an engine always carries out: they leave the adapter alone. *)
SureOps(engine) ==
    IF engine = "Rr" THEN {"terminate", "disconnect"} ELSE {}

CommandErrors(op, engine) ==
    IF op \notin Ops(engine) THEN {"unknown op"}
    ELSE IF op = "pause" /\ engine = "Rr" THEN {"not in rr"}
    ELSE IF op \in SureOps(engine) THEN {}
    ELSE {"refused"}

----------------------------------------------------------------------------
(* The ways a call of f can fail before it has a result to copy. *)

EngineErrors(f) ==
    IF session = "Rr" /\ f \in NotInRr THEN {"not in rr"}
    ELSE IF f \in CannotFail \/ (session = "Rr" /\ f \in EmptyInRr) THEN {}
    ELSE {"refused"}

Failures(f) ==
    IF f \in NeedsSession /\ session = "none" THEN {"null session"}
    ELSE (IF f \in TakesText THEN {"bad text"} ELSE {})
         \cup (IF f \in TakesJson THEN {"bad JSON"} ELSE {})
         \cup EngineErrors(f)

MaySucceed(f) ==
    /\ f \in NeedsSession => session # "none"
    /\ ~(session = "Rr" /\ f \in NotInRr)

(* The buffers of the backend: what read_json_buffer and the methods declare. *)
Capacity(f) ==
    CASE f \in {"drain_network", "send_network_compose"} -> 262144
      [] f \in Reads \ {"drain_network"} -> 65536
      [] f \in {"fetch_variables", "fetch_source", "read_memory", "write_memory", "disassemble"} -> 65536
      [] f \in {"completions", "fetch_step_in_targets", "fetch_goto_targets"} -> 16384
      [] f \in {"evaluate", "set_variable", "data_breakpoint_info"} -> 4096
      [] f \in {"set_breakpoints", "set_data_breakpoints", "set_function_breakpoints"} -> 4096
      [] f \in {"network_proxy_address", "function_name_at_line"} -> 256
      [] f = "identifier_at_position" -> 512
      [] f = "language_from_path" -> 64
      [] f = "resolve_launch" -> 65536
      [] OTHER -> 0

(* write_json_to_buffer: the result and its NUL must fit, or nothing is      *)
(* copied at all.                                                            *)
Fits(size, capacity) == size <= capacity

----------------------------------------------------------------------------
(* The calls. *)

(* The backend fetches the text when one of these fails; a snapshot, a drain *)
(* or a fetch that fails is to the worker as one that found nothing.         *)
FetchesError ==
    Replacements \cup {"launch_resolved", "command", "terminal_write", "send_network_compose"}
    \cup {"highlight_viewport", "evaluate", "completions", "data_breakpoint_info", "set_variable"}
    \cup {"fetch_step_in_targets", "fetch_goto_targets"}

(* Bug: a call that fails clears the error and sets none. *)
AnswerWithoutError(c, f, error) ==
    /\ lastError' = ""
    /\ owed' = [owed EXCEPT ![c] = IF f \in FetchesError THEN error ELSE ""]
    /\ intruded' = [x \in Callers |-> x # c /\ (intruded[x] \/ owed[x] # "")]
    /\ told' = ""
    /\ UNCHANGED pointed

(* clear_last_error on the way in, set_last_error on every way out with -1.  *)
Answer(c, f, error) ==
    /\ lastError' = error
    /\ owed' = [owed EXCEPT ![c] = IF f \in FetchesError THEN error ELSE ""]
    /\ intruded' = [x \in Callers |-> x # c /\ (intruded[x] \/ owed[x] # "")]
    /\ told' = ""
    /\ UNCHANGED pointed

Free(c) == owed[c] = "" /\ ~pointed[c]

(* RustSessionBackend::launch ends the old session and starts one that       *)
(* keeps a first snapshot; LaunchBackend says which engine it is.            *)
Launch ==
    /\ Free("launcher")
    /\ \/ \E engine \in EngineOf("launch_resolved") :
            /\ session' = engine
            /\ held' = {"initial"}
            /\ Answer("launcher", "launch_resolved", "")
       \/ \E error \in Failures("launch_resolved") :
            /\ session' = "none"
            /\ held' = {}
            /\ Answer("launcher", "launch_resolved", error)
    /\ UNCHANGED highlight

(* shutdown: the session is dropped with what it holds. *)
FreeSession ==
    /\ session # "none" /\ Free("worker") /\ owed["launcher"] = ""
    /\ session' = "none"
    /\ held' = {}
    /\ UNCHANGED <<lastError, owed, pointed, intruded, told, highlight>>

WorkerIsFree == Free("worker") /\ highlight = Idle

(* The worker makes no call without a session: every method of the backend   *)
(* looks at session_ first.                                                  *)
SessionIsOpen == session # "none" /\ WorkerIsFree

(* What a read takes from the session when it succeeds. *)
Takes(f) ==
    CASE f = "poll" -> "stop"
      [] f = "sync_snapshot" -> "initial"
      [] f = "drain_console" -> "console"
      [] f = "drain_network" -> "network"

(* poll, sync_snapshot and the two drains: the session gives up what it held *)
(* before the size of the answer is compared with the buffer.                *)
Read(f) ==
    /\ SessionIsOpen
    /\ \/ \E error \in Failures(f) : Answer("worker", f, error) /\ UNCHANGED held
       \/ \E size \in Sizes :
            /\ Takes(f) \in held \/ f = "sync_snapshot"
            /\ held' = held \ {Takes(f)}
            /\ Answer("worker", f, IF Fits(size, Capacity(f)) THEN "" ELSE "too small")
       \/ /\ f # "sync_snapshot" /\ Takes(f) \notin held    \* 1, or an empty list
          /\ Answer("worker", f, "")
          /\ UNCHANGED held
    /\ UNCHANGED <<session, highlight>>

(* A request to the session whose answer is copied or, for a replacement of  *)
(* breakpoints, copied when the caller gave a buffer.                        *)
Query(f) ==
    /\ SessionIsOpen
    /\ \/ \E error \in Failures(f) : Answer("worker", f, error)
       \/ MaySucceed(f) /\ \E size \in Sizes :
            Answer("worker", f, IF f = "set_exception_breakpoints" \/ Fits(size, Capacity(f))
                             THEN "" ELSE "too small")
    /\ UNCHANGED <<session, held, highlight>>

(* A command: catch_unwind turns a panic into an error, too. *)
Command(op) ==
    /\ SessionIsOpen
    /\ \/ \E error \in {"bad text"} \cup CommandErrors(op, session) : Answer("worker", "command", error)
       \/ op \in Ops(session) /\ "not in rr" \notin CommandErrors(op, session) /\ Answer("worker", "command", "")
    /\ UNCHANGED <<session, held, highlight>>

TerminalWrite ==
    /\ SessionIsOpen
    /\ \E error \in {""} \cup Failures("terminal_write") : Answer("worker", "terminal_write", error)
    /\ UNCHANGED <<session, held, highlight>>

ProxyAddress ==
    /\ SessionIsOpen
    /\ Answer("worker", "network_proxy_address", "")
    /\ UNCHANGED <<session, held, highlight>>

(* The one request a null session answers: it is sent without the proxy. *)
Compose ==
    /\ WorkerIsFree
    /\ \/ \E error \in {"bad text", "refused"} : Answer("worker", "send_network_compose", error)
       \/ \E size \in Sizes :
            Answer("worker", "send_network_compose", IF Fits(size, Capacity("send_network_compose")) THEN "" ELSE "too small")
    /\ UNCHANGED <<session, held, highlight>>

(* The UI thread asks about source text and never fetches the error. *)
AskAboutSource(f) ==
    /\ \E error \in {"", "bad text"} \cup (IF Capacity(f) > 0 THEN {"too small"} ELSE {}) :
         /\ lastError' = error
         /\ intruded' = [x \in Callers |-> intruded[x] \/ owed[x] # ""]
    /\ UNCHANGED <<session, owed, pointed, told, held, highlight>>

----------------------------------------------------------------------------
(* highlight_viewport asks up to four times, with a buffer twice as large,   *)
(* for as long as the error it fetched says that the buffer was too small.   *)

(* Bug: the buffer keeps its size from one attempt to the next. *)
HighlightCapacityFixed(attempt) == 262144

HighlightCapacity(attempt) == <<262144, 524288, 1048576, 2097152>>[attempt]

BeginHighlight ==
    /\ WorkerIsFree
    /\ \E size \in Sizes : highlight' = [size |-> size, attempt |-> 1]
    /\ UNCHANGED <<session, lastError, owed, pointed, intruded, told, held>>

TryHighlight ==
    /\ highlight # Idle /\ Free("worker")
    /\ \/ \E error \in Failures("highlight_viewport") : Answer("worker", "highlight_viewport", error) /\ UNCHANGED highlight
       \/ IF Fits(highlight.size, HighlightCapacity(highlight.attempt))
          THEN Answer("worker", "highlight_viewport", "") /\ highlight' = Idle
          ELSE Answer("worker", "highlight_viewport", "too small") /\ UNCHANGED highlight
    /\ UNCHANGED <<session, held>>

----------------------------------------------------------------------------
(* adapter_last_error: the pointer, then the text behind it.  A call that    *)
(* sets the global in between frees that text.                               *)

Point(c) ==
    /\ owed[c] # "" /\ ~pointed[c]
    /\ pointed' = [pointed EXCEPT ![c] = TRUE]
    /\ UNCHANGED <<session, lastError, owed, intruded, told, held, highlight>>

CopiedText(c) ==
    IF intruded[c] THEN {"unknown error", "garbage", lastError} \ {""}
    ELSE {IF lastError = "" THEN "unknown error" ELSE lastError}

(* A viewport that failed for want of room is asked for again, unless this   *)
(* was the fourth attempt or the text says something else.                   *)
AfterText(text) ==
    IF highlight = Idle \/ text # "too small" \/ highlight.attempt = 4
    THEN Idle ELSE [highlight EXCEPT !.attempt = @ + 1]

Copy(c) ==
    /\ pointed[c]
    /\ \E text \in CopiedText(c) :
         /\ told' = text
         /\ highlight' = IF c = "worker" THEN AfterText(text) ELSE highlight
    /\ owed' = [owed EXCEPT ![c] = ""]
    /\ pointed' = [pointed EXCEPT ![c] = FALSE]
    /\ intruded' = [intruded EXCEPT ![c] = FALSE]
    /\ UNCHANGED <<session, lastError, held>>

(* The adapter and the program behind a DAP session have something to say. *)
Produce(kind) ==
    /\ session = "Dap" /\ kind # "initial" /\ kind \notin held
    /\ held' = held \cup {kind}
    /\ UNCHANGED <<session, lastError, owed, pointed, intruded, told, highlight>>

Init ==
    /\ session = "none"
    /\ lastError = ""
    /\ owed = [c \in Callers |-> ""]
    /\ pointed = [c \in Callers |-> FALSE]
    /\ intruded = [c \in Callers |-> FALSE]
    /\ told = ""
    /\ held = {}
    /\ highlight = Idle

Next ==
    \/ Launch
    \/ FreeSession
    \/ \E f \in Reads : Read(f)
    \/ \E f \in Queries \cup Replacements : Query(f)
    \/ \E op \in Ops("Dap") : Command(op)
    \/ TerminalWrite
    \/ ProxyAddress
    \/ Compose
    \/ \E f \in UiCalls : AskAboutSource(f)
    \/ BeginHighlight
    \/ TryHighlight
    \/ \E c \in Callers : Point(c) \/ Copy(c)
    \/ \E kind \in Kinds : Produce(kind)

TypeOK ==
    /\ session \in {"none"} \cup Engines
    /\ lastError \in Texts
    /\ owed \in [Callers -> Texts]
    /\ pointed \in [Callers -> BOOLEAN] /\ intruded \in [Callers -> BOOLEAN]
    /\ told \in Told
    /\ held \subseteq Kinds
    /\ highlight = Idle \/ highlight \in [size : Sizes, attempt : 1..4]

TellsOwnError ==
    \A c \in Callers : pointed[c] /\ ~pointed'[c] /\ ~intruded[c] => told' = owed[c]

(* The text a caller copies is that of its own failed call, unless another   *)
(* call came between: LAST_ERROR is shared by every thread.                  *)
ToldOwnError == [][TellsOwnError]_vars

(* What the fourth attempt has room for, with its final NUL. *)
LargestViewport == 2097152

GivesUpOnlyLarge ==
    highlight # Idle /\ highlight' = Idle /\ owed["worker"] # ""
        => \/ intruded["worker"] \/ owed["worker"] = "bad text"
           \/ highlight.size > LargestViewport

(* A viewport whose text fits the fourth buffer is delivered, unless its     *)
(* text is not UTF-8 or another thread changed the error the retry reads.    *)
HighlightDelivered == [][GivesUpOnlyLarge]_vars

Spec == Init /\ [][Next]_vars
=============================================================================
