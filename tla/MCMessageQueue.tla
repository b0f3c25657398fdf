--------------------------- MODULE MCMessageQueue ---------------------------
(***************************************************************************)
(* The queue on small instances.  Items and messages carry an opcode, and  *)
(* a message is a response when the opcodes agree (Request.IsResponse).    *)
(***************************************************************************)
EXTENDS QueueProperties

MCItem == {"a", "b"}
MCMsg == {"a", "b", "c"}   \* "c": nobody waits for it
MCIsResponse(i, m) == i = m
=============================================================================
