--------------------------- MODULE GatewayProofs ----------------------------
(***************************************************************************)
(* Proofs about the virtual relays and about the gateway, which shares the *)
(* writer with them: for any size of the buffer, any number of datagrams   *)
(* of any length, valid or not, and any number of relays.                  *)
(***************************************************************************)
EXTENDS Gateway, TLAPS

-----------------------------------------------------------------------------
(* The virtual relays: an answer is at most one command out of date.       *)

(* The parts of the type invariant that the argument needs.                *)
Typed ==
  /\ channelStatus \in Status
  /\ outbox = <<>> \/ \E a \in Status : outbox = <<a>>
  /\ writing \in Status \cup {None}

(* An answer that waits for the writer was made in the present state, for  *)
(* its maker is still blocked; while none waits, the same is true of the   *)
(* one in the writer; while one waits, that one is a single command older. *)
Fresh ==
  /\ outbox # <<>> => Head(outbox) = channelStatus
  /\ writing # None /\ outbox = <<>> => writing = channelStatus
  /\ writing # None => \E r \in Relay : \A q \in Relay \ {r} :
                          channelStatus[q] = writing[q]

(* The inductive invariant.                                                *)
IInv == Typed /\ Fresh

(* A command changes the state of one relay at most.                       *)
LEMMA SetRelayOnFact ==
  ASSUME channelStatus \in Status, NEW c \in Channel, NEW on \in BOOLEAN,
         SetRelayOn(c, on)
  PROVE  /\ channelStatus' \in Status
         /\ \E r \in Relay : \A q \in Relay \ {r} :
               channelStatus'[q] = channelStatus[q]
  <1>1. CASE c \in Relay /\ channelStatus[c] # on
    <2>1. channelStatus' = [channelStatus EXCEPT ![c] = on]
      BY <1>1 DEF SetRelayOn
    <2>2. \A q \in Relay \ {c} : channelStatus'[q] = channelStatus[q]
      BY <2>1 DEF Status
    <2>3. QED
      BY <1>1, <2>1, <2>2 DEF Status
  <1>2. CASE ~(c \in Relay /\ channelStatus[c] # on)
    <2>1. channelStatus' = channelStatus
      BY <1>2 DEF SetRelayOn
    <2>2. 1 \in Relay
      BY RelaysAssumption DEF Relay
    <2>3. QED
      BY <2>1, <2>2
  <1>3. QED
    BY <1>1, <1>2

(* A command keeps the invariant.                                          *)
LEMMA CommandIInv ==
  ASSUME IInv, NEW c \in Channel, NEW on \in BOOLEAN,
         OnSingleChannelControlCommand(c, on)
  PROVE  IInv'
  <1> DEFINE a == channelStatus'
  <1>1. /\ outbox = <<>> /\ outbox' = <<a>> /\ writing' = writing
        /\ SetRelayOn(c, on)
    BY DEF OnSingleChannelControlCommand
  <1>2. /\ channelStatus' \in Status
        /\ \E r \in Relay : \A q \in Relay \ {r} :
              channelStatus'[q] = channelStatus[q]
    BY <1>1, SetRelayOnFact DEF IInv, Typed
  <1>3. a \in Status
    BY <1>2
  <1>4. Typed'
    BY <1>1, <1>2, <1>3 DEF IInv, Typed
  <1>5. outbox' # <<>> /\ Head(outbox') = channelStatus'
    BY <1>1, <1>3
  <1>6. writing' # None => \E r \in Relay : \A q \in Relay \ {r} :
                              channelStatus'[q] = writing'[q]
    BY <1>1, <1>2 DEF IInv, Fresh
  <1>7. QED
    BY <1>4, <1>5, <1>6 DEF IInv, Fresh

(* The writer takes an answer only when it has none.                       *)
LEMMA TakeIInv == IInv /\ WriterTake => IInv'
  <1> SUFFICES ASSUME IInv, WriterTake PROVE IInv'
    OBVIOUS
  <1>1. PICK a \in Status : outbox = <<a>>
    BY DEF IInv, Typed, WriterTake
  <1>2. outbox' = <<>> /\ writing' = a /\ channelStatus' = channelStatus
    BY <1>1 DEF WriterTake
  <1>3. a = channelStatus
    BY <1>1 DEF IInv, Fresh
  <1>4. 1 \in Relay
    BY RelaysAssumption DEF Relay
  <1>5. QED
    BY <1>2, <1>3, <1>4 DEF IInv, Typed, Fresh

(* Types and freshness are an invariant of the virtual relays.             *)
THEOREM RelaysInvariance == Spec => []IInv
  <1>1. Init => IInv
    BY DEF Init, IInv, Typed, Fresh, Status
  <1>2. IInv /\ [Next]_vars => IInv'
    <2> SUFFICES ASSUME IInv, [Next]_vars PROVE IInv'
      OBVIOUS
    <2>1. CASE WriteFrame
      BY <2>1 DEF WriteFrame, IInv, Typed, Fresh
    <2>2. CASE UNCHANGED vars
      BY <2>2 DEF vars, IInv, Typed, Fresh
    <2>3. QED
      BY <2>1, <2>2, CommandIInv, TakeIInv DEF Next
  <1>3. QED
    BY <1>1, <1>2, PTL DEF Spec

(* An answer is at most one command out of date when it is encoded.        *)
THEOREM AnswersAlmostCurrent == Spec => []AnswerAlmostCurrent
  <1>1. IInv => AnswerAlmostCurrent
    BY DEF IInv, Fresh, AnswerAlmostCurrent
  <1>2. QED
    BY <1>1, RelaysInvariance, PTL

(* The type invariant: the driver's goroutine has one answer at most that  *)
(* waits for the writer.                                                   *)
THEOREM RelaysTypeCorrect == Spec => []TypeOK
  <1>1. IInv /\ shown \in Status => TypeOK
    <2> SUFFICES ASSUME IInv, shown \in Status PROVE TypeOK
      OBVIOUS
    <2>1. outbox \in Seq(Status) /\ Len(outbox) <= 1
      <3>1. CASE outbox = <<>>
        BY <3>1
      <3>2. ASSUME NEW a \in Status, outbox = <<a>>
            PROVE  outbox \in Seq(Status) /\ Len(outbox) <= 1
        BY <3>2
      <3>3. QED
        BY <3>1, <3>2 DEF IInv, Typed
    <2>2. QED
      BY <2>1 DEF IInv, Typed, TypeOK
  <1>2. Init => shown \in Status
    BY DEF Init, Status
  <1>3. IInv /\ shown \in Status /\ [Next]_vars => (shown \in Status)'
    <2> SUFFICES ASSUME shown \in Status, [Next]_vars PROVE shown' \in Status
      OBVIOUS
    <2>1. ASSUME NEW c \in Channel, NEW on \in BOOLEAN,
                 OnSingleChannelControlCommand(c, on)
          PROVE  shown' \in Status
      BY <2>1 DEF OnSingleChannelControlCommand, SetRelayOn, Status
    <2>2. CASE WriterTake \/ WriteFrame \/ UNCHANGED vars
      BY <2>2 DEF WriterTake, WriteFrame, vars
    <2>3. QED
      BY <2>1, <2>2 DEF Next
  <1>4. QED
    BY <1>1, <1>2, <1>3, RelaysInvariance, PTL DEF Spec

-----------------------------------------------------------------------------
(* The datagrams on their way to the bus.                                  *)

(* The slices on the way to the bus are in the order of their datagrams.   *)
Older(s, t) == s # None /\ t # None => s.id < t.id
Ordered ==
  /\ Older(sent, frame) /\ Older(sent, forwarded) /\ Older(sent, held)
  /\ Older(frame, forwarded) /\ Older(frame, held)
  /\ Older(forwarded, held)

(* None of them is newer than the datagram that was read last ...          *)
Arrived(s) == s # None => s.id <= arrived

(* ... and the bytes that a slice covers came with its own datagram or     *)
(* with a later one.                                                       *)
Covered(s) == s # None => \A i \in 1 .. s.len : b[i] >= s.id

(* The same is true of what the writer has copied of its slice.            *)
CopiedNew ==
  copied # None =>
    frame # None /\ \A i \in 1 .. frame.len : \A d \in copied[i] : d >= frame.id

(* The inductive invariant, besides that of the virtual relays.            *)
GatewayIInv ==
  /\ arrived \in 0 .. MaxDatagrams
  /\ b \in [Byte -> 0 .. MaxDatagrams]
  /\ {held, forwarded, frame} \subseteq Slice \cup {None}
  /\ copied \in Contents \cup {None}
  /\ sent = None \/ sent \in [id : Datagram, bytes : Seq(0 .. MaxDatagrams)]
  /\ Ordered
  /\ Arrived(held) /\ Arrived(forwarded) /\ Arrived(frame) /\ Arrived(sent)
  /\ Covered(held) /\ Covered(forwarded) /\ Covered(frame)
  /\ CopiedNew

(* A frame on the bus is the one that was in the writer, each of its bytes *)
(* one that the writer copied.                                             *)
LEMMA SentFact ==
  ASSUME GatewayIInv, WritePreBuiltFrame
  PROVE  /\ sent' \in [id : Datagram, bytes : Seq(0 .. MaxDatagrams)]
         /\ sent'.id = frame.id
         /\ \A i \in DOMAIN sent'.bytes : sent'.bytes[i] >= sent'.id
  <1>1. frame # None /\ copied # None /\ frame \in Slice /\ CopiedNew
    BY DEF WritePreBuiltFrame, GatewayIInv
  <1>2. frame.id \in Datagram /\ frame.len \in 0 .. BufSize
    BY <1>1 DEF Slice
  <1>3. PICK bs \in [1 .. frame.len -> 0 .. MaxDatagrams] :
          /\ \A i \in 1 .. frame.len : bs[i] \in copied[i]
          /\ sent' = [id |-> frame.id, bytes |-> bs]
    BY DEF WritePreBuiltFrame
  <1>4. bs \in Seq(0 .. MaxDatagrams)
    BY <1>2, <1>3, GatewayAssumption
  <1>5. \A i \in 1 .. frame.len : bs[i] >= frame.id
    BY <1>1, <1>3 DEF CopiedNew
  <1>6. QED
    BY <1>2, <1>3, <1>4, <1>5

(* The way of the datagrams keeps the invariant.                           *)
LEMMA SendsIInv == GatewayIInv /\ GatewaySends => GatewayIInv'
  <1> SUFFICES ASSUME GatewayIInv, GatewaySends PROVE GatewayIInv'
    OBVIOUS
  <1> USE GatewayAssumption, NothingAssumption
          DEF GatewayIInv, Ordered, Older, Arrived, Covered, CopiedNew,
              Byte, Datagram, Slice, Contents
  <1>1. ASSUME NEW n \in 0 .. BufSize, NEW valid \in BOOLEAN,
               processUdpPacket(n, valid)
        PROVE  GatewayIInv'
    BY <1>1 DEF processUdpPacket
  <1>2. CASE Forward
    BY <1>2 DEF Forward
  <1>3. CASE TakeRaw
    BY <1>3 DEF TakeRaw, WriterFree
  <1>4. CASE CopyBegin
    BY <1>4 DEF CopyBegin
  <1>5. CASE WritePreBuiltFrame
    BY <1>5, SentFact DEF WritePreBuiltFrame
  <1>6. QED
    BY <1>1, <1>2, <1>3, <1>4, <1>5 DEF GatewaySends

(* The order and the bytes of the frames are an invariant of the gateway.  *)
THEOREM GatewayInvariance == GatewaySpec => []GatewayIInv
  <1>1. GatewayInit => GatewayIInv
    BY GatewayAssumption DEF GatewayInit, GatewayIInv, Ordered, Older, Arrived,
                             Covered, CopiedNew
  <1>2. GatewayIInv /\ UNCHANGED gateway => GatewayIInv'
    BY DEF gateway, GatewayIInv, Ordered, Older, Arrived, Covered, CopiedNew
  <1>3. GatewayIInv /\ [GatewayNext]_gvars => GatewayIInv'
    BY <1>2, SendsIInv DEF GatewayNext, gvars
  <1>4. QED
    BY <1>1, <1>3, PTL DEF GatewaySpec

(* Frames reach the bus in the order in which their datagrams arrived, and *)
(* no byte on the bus is older than its frame, although all datagrams are  *)
(* read into one buffer and nobody copies a frame before the writer does.  *)
THEOREM GatewayKeepsOrder == GatewaySpec => FramesInOrder
  <1> DEFINE InOrder ==
        sent' # sent =>
          /\ sent = None \/ sent.id < sent'.id
          /\ \A i \in DOMAIN sent'.bytes : sent'.bytes[i] >= sent'.id
  <1>1. GatewayIInv /\ [GatewayNext]_gvars => [InOrder]_gvars
    <2> SUFFICES ASSUME GatewayIInv, [GatewayNext]_gvars PROVE InOrder
      OBVIOUS
    <2>1. CASE WritePreBuiltFrame
      <3>1. frame # None
        BY <2>1 DEF WritePreBuiltFrame
      <3>2. QED
        BY <2>1, <3>1, SentFact DEF GatewayIInv, Ordered, Older
    <2>2. CASE GatewaySends /\ ~WritePreBuiltFrame
      BY <2>2 DEF GatewaySends, processUdpPacket, Forward, TakeRaw, CopyBegin
    <2>3. CASE UNCHANGED gateway
      BY <2>3 DEF gateway
    <2>4. QED
      BY <2>1, <2>2, <2>3 DEF GatewayNext, gvars
  <1>2. QED
    BY <1>1, GatewayInvariance, PTL DEF GatewaySpec, FramesInOrder

-----------------------------------------------------------------------------
(* The gateway shares the writer with the virtual relays and does not      *)
(* disturb them: all that is proved of them holds in gateway mode.         *)
THEOREM GatewayUsesRelays == GatewaySpec => Spec
  <1>1. GatewayInit => Init
    BY DEF GatewayInit
  <1>2. [GatewayNext]_gvars => [Next]_vars
    BY DEF GatewayNext, DriverSends, Next, gvars
  <1>3. QED
    BY <1>1, <1>2, PTL DEF GatewaySpec, Spec

(* The type invariant of the gateway.                                      *)
THEOREM GatewayTypeCorrect == GatewaySpec => []GatewayTypeOK
  <1>1. GatewayIInv /\ TypeOK => GatewayTypeOK
    BY DEF GatewayIInv, GatewayTypeOK
  <1>2. QED
    BY <1>1, GatewayInvariance, GatewayUsesRelays, RelaysTypeCorrect, PTL

(* In gateway mode, too, an answer about the virtual relays is at most one *)
(* command out of date, though its frame may wait behind those of the      *)
(* gateway.                                                                *)
THEOREM GatewayAnswersAlmostCurrent == GatewaySpec => []AnswerAlmostCurrent
  BY GatewayUsesRelays, AnswersAlmostCurrent, PTL
=============================================================================
