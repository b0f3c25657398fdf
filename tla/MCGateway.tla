----------------------------- MODULE MCGateway ------------------------------
(***************************************************************************)
(* Four datagrams, the most that one buffer can be shared by while the     *)
(* first one waits for the bus, and two virtual relays.                    *)
(***************************************************************************)
EXTENDS Gateway
=============================================================================
