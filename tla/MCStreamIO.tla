----------------------------- MODULE MCStreamIO -----------------------------
(***************************************************************************)
(* The stream with two senders: the request queue, and the handler of an   *)
(* incoming message.                                                       *)
(***************************************************************************)
EXTENDS StreamIO

MCSenders == {"queue", "handler"}
=============================================================================
