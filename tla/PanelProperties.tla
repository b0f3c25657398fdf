-------------------------- MODULE PanelProperties ---------------------------
(***************************************************************************)
(* What the panel driver is checked to satisfy.                            *)
(***************************************************************************)
EXTENDS PanelDriver, SequencesExt

Known(p) == \A b \in Button : received[p][b]
Dropped(p) == \E i \in dropped : i.p = p

(* MQTT knows a button's control exactly when an answer about the button   *)
(* came, and an assignment is pending only for a panel all of whose        *)
(* controls are known.                                                     *)
AnnouncedFirst ==
  \A p \in Panel :
    /\ \A b \in Button : received[p][b] <=> shown[p][b] # None
    /\ pendingB[p] # -1 => Known(p)

(* When the timeout exceeds the round trip, a value that MQTT shows is the *)
(* panel's, unless an assignment of that button is still pending: no value *)
(* is confirmed that the panel does not have.                              *)
ShownIsTrue ==
  \A p \in Panel, b \in Button :
    shown[p][b] # None => shown[p][b] = panelV[p][b] \/ pendingB[p] = b

(* When in addition nothing is pending, what the driver computes the next  *)
(* SetPanelButtonModes from is the panel's state.                          *)
AssignedIsTrue ==
  \A p \in Panel, b \in Button :
    received[p][b] => assigned[p][b] = panelV[p][b] \/ pendingB[p] = b

(* When the timeout exceeds the round trip, a panel is left half discovered *)
(* or with an assignment that stays pending only when a request of its own *)
(* was given up or dropped: neither the losses the retries make up for nor *)
(* the other panels' traffic and failures are enough.                      *)
StuckOnlyByFailure ==
  Settled =>
    \A p \in Panel :
      (~isNew[p] /\ ~Known(p)) \/ pendingB[p] # -1 => p \in failed \/ Dropped(p)

(* Each panel has one request under way at most, so a queue with a place   *)
(* for each panel that has come to life drops nothing.                     *)
RoomForAll ==
  Cardinality({p \in Panel : greetings[p] > 0}) <= QueueSize => dropped = {}

(* A command that assigns a button is sent for a pending assignment only:  *)
(* the driver refuses "SetPanelButtonModesResponse without pending         *)
(* assignment".                                                            *)
AssignsPendingOnly ==
  [][PanelThunk /\ cur.op = "assign" => Last(toDevice').n \in Button]_pvars

(* When no frame is lost, all buttons of a panel become known, even when   *)
(* timeouts fire early and answers come twice.                             *)
DiscoveryCompletes == \A p \in Panel : <>Known(p)

=============================================================================
