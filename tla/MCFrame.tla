------------------------------ MODULE MCFrame -------------------------------
(* The messages of MCCodec in frames with two headers, the second of which *)
(* begins with sync bytes; any bit of the shorter frames may change.       *)
EXTENDS MCCodec, Frame

MCHeaders ==
  {[orig |-> <<1, 99, 149, 204>>, target |-> <<255, 255>>],
   [orig |-> <<170, 170, 0, 0>>, target |-> <<0, 0>>]}

MCNoisy(m) ==
  m \in {"QueryModules", "SetPanelButtonModesResponse", "SingleChannelControlCommand"}
=============================================================================
