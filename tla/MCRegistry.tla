----------------------------- MODULE MCRegistry -----------------------------
(***************************************************************************)
(* A device of any type, with up to three channels and temperatures, that  *)
(* may be replaced by another.  Devices do not share state here.           *)
(***************************************************************************)
EXTENDS Registry
=============================================================================
