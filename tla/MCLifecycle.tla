---------------------------- MODULE MCLifecycle -----------------------------
(***************************************************************************)
(* The driver with a queue of one request.                                 *)
(***************************************************************************)
EXTENDS Lifecycle

MCSenders == {"queue", "loop", "handler", "udp"}
=============================================================================
