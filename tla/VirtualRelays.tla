--------------------------- MODULE VirtualRelays ----------------------------
(***************************************************************************)
(* The virtual relays that panel buttons switch: VirtualRelayDevice and    *)
(* the command handler of smartbus_model.go, with the path of the answer   *)
(* through the writer.                                                     *)
(*                                                                         *)
(* The answer carries the state of all relays, as a slice of the device's  *)
(* own array.  It is encoded by the writer's goroutine after the handler   *)
(* has returned, so it shows what the array holds by then.                 *)
(***************************************************************************)
EXTENDS Naturals, Sequences

CONSTANTS
  NumRelays,  \* NUM_VIRTUAL_RELAYS
  None        \* no answer

ASSUME RelaysAssumption == NumRelays \in 1 .. 254

ASSUME NoneAssumption == None \notin [1 .. NumRelays -> BOOLEAN]

Relay == 1 .. NumRelays
Channel == 0 .. NumRelays + 1   \* what a button may name, invalid ones included
Status == [Relay -> BOOLEAN]

(* An answer is represented by the state of the relays it was made in.     *)
VARIABLES
  channelStatus,  \* channelStatus
  shown,          \* what MQTT shows of the relays
  outbox,         \* the answer that blocks the driver's goroutine in Send
  writing         \* the answer in the writer, which may wait for the bus

vars == <<channelStatus, shown, outbox, writing>>

TypeOK ==
  /\ channelStatus \in Status
  /\ shown \in Status
  /\ outbox \in Seq(Status) /\ Len(outbox) <= 1
  /\ writing \in Status \cup {None}

(* SmartbusModel.Start publishes the relays, all off.                      *)
Init ==
  /\ channelStatus = [r \in Relay |-> FALSE]
  /\ shown = channelStatus
  /\ outbox = <<>>
  /\ writing = None

-----------------------------------------------------------------------------
(* SetRelayOn ignores an invalid channel and publishes changes only.       *)
SetRelayOn(c, on) ==
  IF c \in Relay /\ channelStatus[c] # on
    THEN /\ channelStatus' = [channelStatus EXCEPT ![c] = on]
         /\ shown' = [shown EXCEPT ![c] = on]
    ELSE UNCHANGED <<channelStatus, shown>>

(* Faulty: the handler does not wait until the writer takes its answer.    *)
OnCommandNoWait(c, on) ==
  /\ Len(outbox) < 2
  /\ SetRelayOn(c, on)
  /\ outbox' = Append(outbox, channelStatus')
  /\ UNCHANGED writing

(* The driver's goroutine handles a command of the panel; it is free when  *)
(* its last answer has left for the writer.                                *)
OnSingleChannelControlCommand(c, on) ==
  /\ outbox = <<>>
  /\ SetRelayOn(c, on)
  /\ outbox' = <<channelStatus'>>
  /\ UNCHANGED writing

WriterTake ==
  /\ outbox # <<>>
  /\ writing = None
  /\ writing' = Head(outbox)
  /\ outbox' = Tail(outbox)
  /\ UNCHANGED <<channelStatus, shown>>

(* WriteFrame encodes the slice, that is, the array as it is now, and the  *)
(* writer is free for the next frame.                                      *)
WriteFrame ==
  /\ writing # None
  /\ writing' = None
  /\ UNCHANGED <<channelStatus, shown, outbox>>

Next ==
  \/ \E c \in Channel, on \in BOOLEAN : OnSingleChannelControlCommand(c, on)
  \/ WriterTake \/ WriteFrame

Spec == Init /\ [][Next]_vars

-----------------------------------------------------------------------------
(* The answer in the writer is at most one command out of date: the relays *)
(* it will show differ from those its command left in one place at most.   *)
AnswerAlmostCurrent ==
  writing # None =>
    \E r \in Relay : \A q \in Relay \ {r} : channelStatus[q] = writing[q]
=============================================================================
