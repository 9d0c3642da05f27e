-------------------------- MODULE MCSessionIoThread --------------------------
(* The worker thread with a few kinds of request, for TLC.                 *)
EXTENDS SessionIoThread

\* One kind for every way the worker treats a request, holds it up or gives it up.
CoreJobs == {"setVariable", "evaluate", "completions", "scope", "children", "source",
             "sourceBps", "terminal", "highlight", "stepIn"}
=============================================================================
