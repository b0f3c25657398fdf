--------------------------- MODULE MCPanelDriver ----------------------------
(***************************************************************************)
(* The panel driver with a few panels, buttons and virtual relays.         *)
(***************************************************************************)
EXTENDS PanelProperties

(* Nothing tells one panel from another.                                   *)
PanelSymmetry == Permutations(Panel)
=============================================================================
