--------------------------- MODULE MCRelayDriver ----------------------------
(***************************************************************************)
(* The relay driver with one or two channels.                              *)
(***************************************************************************)
EXTENDS RelayDriver
=============================================================================
