------------------------------ MODULE Gateway -------------------------------
(***************************************************************************)
(* The way of a datagram to the bus in gateway mode: the reader goroutine  *)
(* of DatagramIO (udp.go), the goroutine of createStreamIO that forwards   *)
(* its frames (facade.go) and the writer of the stream (frame.go), which   *)
(* also writes the driver's own frames (VirtualRelays).                    *)
(*                                                                         *)
(* Nobody copies a frame on this way.  What travels is a slice of the one  *)
(* buffer that every datagram is read into, and the writer copies its      *)
(* bytes last.  Bytes are abstracted to the number of the datagram they    *)
(* came with.  A datagram that is too short or lacks the signature is not  *)
(* forwarded, but it is read into the buffer all the same.                 *)
(***************************************************************************)
EXTENDS VirtualRelays

CONSTANTS
  BufSize,       \* bytes of the buffer that a frame can occupy
  MaxDatagrams   \* bound on the datagrams that arrive

ASSUME GatewayAssumption == BufSize \in Nat /\ MaxDatagrams \in Nat

Byte == 1 .. BufSize
Datagram == 1 .. MaxDatagrams

(* packet[16:n], a slice of the buffer.                                    *)
Slice == [id : Datagram, len : 0 .. BufSize]

VARIABLES
  arrived,    \* datagrams read from the socket
  b,          \* the datagram each byte of the buffer came with, 0 for none
  held,       \* the slice in rawReadCh <- packet, which blocks the UDP reader
  forwarded,  \* the slice in streamIO.SendRaw, which blocks the forwarder
  frame,      \* the slice in the writer
  copied,     \* while the writer copies it, the values its bytes have had
  sent        \* the last of these frames on the bus

gateway == <<arrived, b, held, forwarded, frame, copied, sent>>
gvars == <<vars, gateway>>

Contents == [Byte -> SUBSET (0 .. MaxDatagrams)]

ASSUME NothingAssumption == None \notin Slice \cup Contents

GatewayTypeOK ==
  /\ TypeOK
  /\ arrived \in 0 .. MaxDatagrams
  /\ b \in [Byte -> 0 .. MaxDatagrams]
  /\ {held, forwarded, frame} \subseteq Slice \cup {None}
  /\ copied \in Contents \cup {None}
  /\ sent = None \/ sent \in [id : Datagram, bytes : Seq(0 .. MaxDatagrams)]

GatewayInit ==
  /\ Init
  /\ arrived = 0
  /\ b = [i \in Byte |-> 0]
  /\ held = None /\ forwarded = None /\ frame = None
  /\ copied = None /\ sent = None

-----------------------------------------------------------------------------
(* conn.Read(b) and processUdpPacket: a datagram with n bytes behind the   *)
(* place of the signature arrives, and its frame is offered if it is valid. *)
(* A copy of the writer's that overlaps may catch old bytes or new ones.   *)
processUdpPacket(n, valid) ==
  /\ held = None
  /\ arrived < MaxDatagrams
  /\ arrived' = arrived + 1
  /\ b' = [i \in Byte |-> IF i <= n THEN arrived' ELSE b[i]]
  /\ held' = IF valid THEN [id |-> arrived', len |-> n] ELSE None
  /\ copied' = IF copied = None THEN None
               ELSE [i \in Byte |-> copied[i] \cup {b'[i]}]
  /\ UNCHANGED <<forwarded, frame, sent>>

(* Faulty: the frame is dropped when the forwarder is not waiting for it.  *)
ForwardOrDrop ==
  /\ held # None
  /\ held' = None
  /\ forwarded' = IF forwarded = None THEN held ELSE forwarded
  /\ UNCHANGED <<arrived, b, frame, copied, sent>>

(* for frame := range rawUdpReadCh { streamIO.SendRaw(frame) }             *)
Forward ==
  /\ held # None
  /\ forwarded = None
  /\ forwarded' = held
  /\ held' = None
  /\ UNCHANGED <<arrived, b, frame, copied, sent>>

WriterFree == writing = None /\ frame = None

(* Faulty: every frame is forwarded by a goroutine of its own.             *)
TakeAnyRaw ==
  /\ WriterFree
  /\ \/ forwarded # None /\ frame' = forwarded
        /\ forwarded' = None /\ UNCHANGED held
     \/ held # None /\ frame' = held
        /\ held' = None /\ UNCHANGED forwarded
  /\ UNCHANGED <<arrived, b, copied, sent>>

(* WriteSmartbus receives a []byte ...                                     *)
TakeRaw ==
  /\ WriterFree
  /\ forwarded # None
  /\ frame' = forwarded
  /\ forwarded' = None
  /\ UNCHANGED <<arrived, b, held, copied, sent>>

(* ... and, once it has the mutex, WritePreBuiltFrame copies and writes it. *)
CopyBegin ==
  /\ frame # None
  /\ copied = None
  /\ copied' = [i \in Byte |-> {b[i]}]
  /\ UNCHANGED <<arrived, b, held, forwarded, frame, sent>>

WritePreBuiltFrame ==
  /\ frame # None
  /\ copied # None
  /\ \E bs \in [1 .. frame.len -> 0 .. MaxDatagrams] :
       /\ \A i \in 1 .. frame.len : bs[i] \in copied[i]
       /\ sent' = [id |-> frame.id, bytes |-> bs]
  /\ frame' = None
  /\ copied' = None
  /\ UNCHANGED <<arrived, b, held, forwarded>>

-----------------------------------------------------------------------------
DriverSends ==
  \/ \E c \in Channel, on \in BOOLEAN : OnSingleChannelControlCommand(c, on)
  \/ WriterFree /\ WriterTake
  \/ WriteFrame

GatewaySends ==
  \/ \E n \in 0 .. BufSize, valid \in BOOLEAN : processUdpPacket(n, valid)
  \/ Forward \/ TakeRaw \/ CopyBegin \/ WritePreBuiltFrame

GatewayNext ==
  \/ DriverSends /\ UNCHANGED gateway
  \/ GatewaySends /\ UNCHANGED vars

(* The goroutines run; the writer gets the mutex (StreamIO shows when) and *)
(* serves the senders that wait for it in turn.                            *)
GatewayFairness ==
  /\ WF_gvars(Forward /\ UNCHANGED vars)
  /\ SF_gvars(TakeRaw /\ UNCHANGED vars)
  /\ WF_gvars((CopyBegin \/ WritePreBuiltFrame) /\ UNCHANGED vars)
  /\ WF_gvars(WriteFrame /\ UNCHANGED gateway)

GatewaySpec == GatewayInit /\ [][GatewayNext]_gvars /\ GatewayFairness

-----------------------------------------------------------------------------
(* Frames reach the bus in the order in which their datagrams arrived, and *)
(* whatever a frame has lost to the reused buffer it has lost to later     *)
(* datagrams: no byte on the bus is older than its frame.                  *)
FramesInOrder ==
  [][sent' # sent =>
       /\ sent = None \/ sent.id < sent'.id
       /\ \A i \in DOMAIN sent'.bytes : sent'.bytes[i] >= sent'.id]_gvars

(* A valid datagram reaches the bus, and reaches it unharmed, unless       *)
(* another datagram arrives in the meantime: the buffer is the only thing  *)
(* that can harm it, and the gateway drops nothing.                        *)
LastGetsThrough ==
  \A d \in Datagram :
    (held # None /\ held.id = d)
      ~> (\/ arrived > d
          \/ sent # None /\ sent.id = d
             /\ \A i \in DOMAIN sent.bytes : sent.bytes[i] = d)
=============================================================================
