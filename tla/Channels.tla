------------------------------ MODULE Channels ------------------------------
(***************************************************************************)
(* How ZoneBeastDeviceModel keeps the states of its channels (smartbus/    *)
(* smartbus_model.go).  A sequence of states is all it knows; channel n is *)
(* known, and was announced to MQTT, when the sequence is that long.       *)
(***************************************************************************)
EXTENDS Naturals, Sequences

(* int(msg.ChannelNo-1): the subtraction is done in uint8.                 *)
ChannelIndex(channelNo) == (channelNo + 255) % 256

(* updateSingleChannel(n, isOn) drops an index that is not known.          *)
updateSingleChannel(status, n, isOn) ==
  IF n >= Len(status) THEN status ELSE [status EXCEPT ![n + 1] = isOn]

(* Faulty: every channel of a broadcast is taken for a new one.            *)
AllChannelsNew(status, r) == status \o r

(* updateChannelStatus updates what is known, appends what is new and      *)
(* leaves alone what the message does not list.                            *)
updateChannelStatus(status, r) == r \o SubSeq(status, Len(r) + 1, Len(status))
=============================================================================
