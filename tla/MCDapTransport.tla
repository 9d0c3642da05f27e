-------------------------- MODULE MCDapTransport --------------------------
(* The transport with a handful of requests and messages, for TLC.  The    *)
(* console buffer needs no bound of its own: every wait copies at most its *)
(* budget of outputs into it, and a request is awaited once.               *)
EXTENDS DapTransport
=============================================================================
