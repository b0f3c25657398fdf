------------------------------- MODULE Frame --------------------------------
(***************************************************************************)
(* Frames: a message in its frame on the bus, from WriteFrame to the       *)
(* message that ParseFrame returns (smartbus/frame.go, smartbus/crc16.go,  *)
(* smartbus/udp.go).  A frame is kept without its two sync bytes: length,  *)
(* header, message and CRC.  It is read by ReadSmartbusFrame from a serial *)
(* stream, where a bit of it may have changed, or by processUdpPacket from *)
(* a datagram, where the network layer vouches for its bytes.              *)
(***************************************************************************)
EXTENDS Codec

CONSTANTS
  Headers,      \* headers to try, as [orig |-> 4 bytes, target |-> 2 bytes]
  Noisy(_)      \* the frames in which a bit may change, by message name

VARIABLES
  header,   \* the header of the message sent
  line,     \* the frame on its way, then what is left of it unread
  flipped,  \* a bit of the frame has changed
  got       \* the header of the message read

frameVars == <<msg, parser, vals, wire, out, phase, header, line, flipped, got>>

MIN_FRAME_SIZE == 11

ASSUME HeadersAssumption ==
  Headers \subseteq [orig : [1 .. 4 -> Byte], target : [1 .. 2 -> Byte]]

-----------------------------------------------------------------------------
(* smartbus/crc16.go                                                       *)

crc16tab ==
  <<\h0000, \h1021, \h2042, \h3063, \h4084, \h50a5, \h60c6, \h70e7, \h8108, \h9129,
    \ha14a, \hb16b, \hc18c, \hd1ad, \he1ce, \hf1ef, \h1231, \h0210, \h3273, \h2252,
    \h52b5, \h4294, \h72f7, \h62d6, \h9339, \h8318, \hb37b, \ha35a, \hd3bd, \hc39c,
    \hf3ff, \he3de, \h2462, \h3443, \h0420, \h1401, \h64e6, \h74c7, \h44a4, \h5485,
    \ha56a, \hb54b, \h8528, \h9509, \he5ee, \hf5cf, \hc5ac, \hd58d, \h3653, \h2672,
    \h1611, \h0630, \h76d7, \h66f6, \h5695, \h46b4, \hb75b, \ha77a, \h9719, \h8738,
    \hf7df, \he7fe, \hd79d, \hc7bc, \h48c4, \h58e5, \h6886, \h78a7, \h0840, \h1861,
    \h2802, \h3823, \hc9cc, \hd9ed, \he98e, \hf9af, \h8948, \h9969, \ha90a, \hb92b,
    \h5af5, \h4ad4, \h7ab7, \h6a96, \h1a71, \h0a50, \h3a33, \h2a12, \hdbfd, \hcbdc,
    \hfbbf, \heb9e, \h9b79, \h8b58, \hbb3b, \hab1a, \h6ca6, \h7c87, \h4ce4, \h5cc5,
    \h2c22, \h3c03, \h0c60, \h1c41, \hedae, \hfd8f, \hcdec, \hddcd, \had2a, \hbd0b,
    \h8d68, \h9d49, \h7e97, \h6eb6, \h5ed5, \h4ef4, \h3e13, \h2e32, \h1e51, \h0e70,
    \hff9f, \hefbe, \hdfdd, \hcffc, \hbf1b, \haf3a, \h9f59, \h8f78, \h9188, \h81a9,
    \hb1ca, \ha1eb, \hd10c, \hc12d, \hf14e, \he16f, \h1080, \h00a1, \h30c2, \h20e3,
    \h5004, \h4025, \h7046, \h6067, \h83b9, \h9398, \ha3fb, \hb3da, \hc33d, \hd31c,
    \he37f, \hf35e, \h02b1, \h1290, \h22f3, \h32d2, \h4235, \h5214, \h6277, \h7256,
    \hb5ea, \ha5cb, \h95a8, \h8589, \hf56e, \he54f, \hd52c, \hc50d, \h34e2, \h24c3,
    \h14a0, \h0481, \h7466, \h6447, \h5424, \h4405, \ha7db, \hb7fa, \h8799, \h97b8,
    \he75f, \hf77e, \hc71d, \hd73c, \h26d3, \h36f2, \h0691, \h16b0, \h6657, \h7676,
    \h4615, \h5634, \hd94c, \hc96d, \hf90e, \he92f, \h99c8, \h89e9, \hb98a, \ha9ab,
    \h5844, \h4865, \h7806, \h6827, \h18c0, \h08e1, \h3882, \h28a3, \hcb7d, \hdb5c,
    \heb3f, \hfb1e, \h8bf9, \h9bd8, \habbb, \hbb9a, \h4a75, \h5a54, \h6a37, \h7a16,
    \h0af1, \h1ad0, \h2ab3, \h3a92, \hfd2e, \hed0f, \hdd6c, \hcd4d, \hbdaa, \had8b,
    \h9de8, \h8dc9, \h7c26, \h6c07, \h5c64, \h4c45, \h3ca2, \h2c83, \h1ce0, \h0cc1,
    \hef1f, \hff3e, \hcf5d, \hdf7c, \haf9b, \hbfba, \h8fd9, \h9ff8, \h6e17, \h7e36,
    \h4e55, \h5e74, \h2e93, \h3eb2, \h0ed1, \h1ef0>>

(* Exclusive or of two bytes and of two words.                             *)
Xor8(a, b) ==
  LET x(w) == IF Bit(a, w) # Bit(b, w) THEN w ELSE 0
  IN  x(1) + x(2) + x(4) + x(8) + x(16) + x(32) + x(64) + x(128)

Xor16(a, b) == 256 * Xor8(a \div 256, b \div 256) + Xor8(a % 256, b % 256)

(* Faulty: the high byte of the previous sum does not select the entry.    *)
UpdateByteOnly(b, prev) == Xor16((prev * 256) % 65536, crc16tab[b + 1])

update_crc16(b, prev) ==
  Xor16((prev * 256) % 65536, crc16tab[Xor8(prev \div 256, b) + 1])

(* Op applied to the bytes of s from the left, beginning with start, one   *)
(* half of s after the other.                                              *)
Accumulate(Op(_, _), start, s) ==
  LET acc[x \in (DOMAIN s) \X (DOMAIN s) \X Uint16] ==
        LET i == x[1]
            j == x[2]
            mid == (i + j) \div 2
        IN  IF i >= j THEN Op(s[i], x[3])
            ELSE acc[<<mid + 1, j, acc[<<i, mid, x[3]>>]>>]
  IN  acc[<<1, Len(s), start>>]

crc16(bs) == Accumulate(update_crc16, 0, bs)

Word(bs) == 256 * bs[1] + bs[2]
WordBytes(w) == <<w \div 256, w % 256>>

-----------------------------------------------------------------------------
(* The opcode of every message type that init registers.                   *)
Opcode(m) ==
  CASE m = "SingleChannelControlCommand"        -> \h0031
    [] m = "SingleChannelControlResponse"       -> \h0032
    [] m = "SceneControl"                       -> \h0002
    [] m = "SceneControlResponse"               -> \h0003
    [] m = "ZoneBeastBroadcast"                 -> \hefff
    [] m = "QueryModules"                       -> \h0286
    [] m = "QueryModulesResponse"               -> \h0287
    [] m = "PanelControlResponse"               -> \he3d9
    [] m = "QueryChannelStatuses"               -> \h0033
    [] m = "QueryChannelStatusesResponse"       -> \h0034
    [] m = "QueryPanelButtonAssignment"         -> \he000
    [] m = "QueryPanelButtonAssignmentResponse" -> \he001
    [] m = "AssignPanelButton"                  -> \he002
    [] m = "AssignPanelButtonResponse"          -> \he003
    [] m = "SetPanelButtonModes"                -> \he00a
    [] m = "SetPanelButtonModesResponse"        -> \he00b
    [] m = "ReadMACAddress"                     -> \hf003
    [] m = "ReadMACAddressResponse"             -> \hf004
    [] m = "ReadTemperatureValues"              -> \he3e7
    [] m = "ReadTemperatureValuesResponse"      -> \he3e8
    [] m = "ReadSensorStatus"                   -> \h1645
    [] m = "ReadSensorStatusResponse"           -> \h1646
    [] m = "SensorStatusBroadcast"              -> \h1647

(* What RegisterMessage has registered for an opcode.                      *)
recognizedMessages(opcode) == {m \in Messages : Opcode(m) = opcode}

-----------------------------------------------------------------------------
FrameInit ==
  /\ Init
  /\ header \in Headers
  /\ line = <<>>
  /\ flipped = FALSE
  /\ got = header

WriteMessageField == WriteField /\ UNCHANGED <<header, line, flipped, got>>

(* The length byte counts everything but the sync bytes; it is the length  *)
(* of the buffer before the CRC, two sync bytes included, cut to uint8.    *)
WriteFrameRaw ==
  /\ phase = "write"
  /\ Len(vals) = Len(Layout(msg))
  /\ LET bs == <<(MIN_FRAME_SIZE + Len(wire)) % 256>> \o header.orig
                \o WordBytes(Opcode(msg)) \o header.target \o wire
     IN  line' = bs \o WordBytes(crc16(bs))
  /\ wire' = <<>>
  /\ phase' = "sent"
  /\ UNCHANGED <<msg, parser, vals, out, header, flipped, got>>

(* The bus: at most one bit changes.                                       *)
Noise ==
  /\ phase = "sent"
  /\ ~ flipped
  /\ Noisy(msg)
  /\ \E i \in DOMAIN line, k \in 1 .. 8 : line' = [line EXCEPT ![i] = Xor8(@, Weight[k])]
  /\ flipped' = TRUE
  /\ UNCHANGED <<msg, parser, vals, wire, out, phase, header, got>>

(* ParseFrame on a frame of at least MIN_FRAME_SIZE bytes: the length and  *)
(* the CRC are skipped and the opcode selects the parser.                  *)
ParseFrame(frame) ==
  LET types == recognizedMessages(Word(SubSeq(frame, 6, 7)))
  IN  IF types = {}
        THEN phase' = "refused" /\ UNCHANGED <<parser, wire, got>>
        ELSE /\ parser' \in types
             /\ got' = [orig |-> SubSeq(frame, 2, 5), target |-> SubSeq(frame, 8, 9)]
             /\ wire' = SubSeq(frame, 10, Len(frame) - 2)
             /\ phase' = "read"

(* Faulty: the CRC is not compared.                                        *)
GoodLength(l) == l >= MIN_FRAME_SIZE /\ Len(line) >= l

(* What the reader makes of a frame whose length byte is l: it is too      *)
(* short, the bus falls silent before its end, its CRC is wrong, or good.  *)
GoodFrame(l) ==
  /\ l >= MIN_FRAME_SIZE
  /\ Len(line) >= l
  /\ crc16(SubSeq(line, 1, l - 2)) = Word(SubSeq(line, l - 1, l))

ReadSmartbusFrame ==
  /\ phase = "sent"
  /\ LET l == line[1]
     IN  IF GoodFrame(l)
           THEN ParseFrame(SubSeq(line, 1, l)) /\ line' = SubSeq(line, l + 1, Len(line))
           ELSE phase' = "refused" /\ UNCHANGED <<parser, wire, got, line>>
  /\ UNCHANGED <<msg, vals, out, header, flipped>>

(* DatagramIO.doSend: four bytes of an address, the signature as far as    *)
(* its sync bytes, and what WriteFrame writes, which begins with these.    *)
udpSignature == <<83, 77, 65, 82, 84, 67, 76, 79, 85, 68, 170, 170>>

doSend ==
  /\ phase = "sent"
  /\ ~ flipped
  /\ line' = <<0, 0, 0, 0>> \o SubSeq(udpSignature, 1, 10) \o <<170, 170>> \o line
  /\ phase' = "datagram"
  /\ UNCHANGED <<msg, parser, vals, wire, out, header, flipped, got>>

processUdpPacket ==
  /\ phase = "datagram"
  /\ IF Len(line) >= 16 /\ SubSeq(line, 5, 16) = udpSignature
       THEN ParseFrame(SubSeq(line, 17, Len(line)))
       ELSE phase' = "refused" /\ UNCHANGED <<parser, wire, got>>
  /\ line' = <<>>
  /\ UNCHANGED <<msg, vals, out, header, flipped>>

ParseMessageField == (ReadField \/ Parsed) /\ UNCHANGED <<header, line, flipped, got>>

FrameNext ==
  \/ WriteMessageField
  \/ WriteFrameRaw
  \/ Noise
  \/ ReadSmartbusFrame
  \/ doSend
  \/ processUdpPacket
  \/ ParseMessageField

FrameSpec == FrameInit /\ [][FrameNext]_frameVars

-----------------------------------------------------------------------------
(* What WriteMessage and WriteFrameRaw put on the bus are bytes.           *)
TypeOK == \A bs \in {wire, line} : \A i \in DOMAIN bs : bs[i] \in Byte

(* What of a value arrives: all of it, but of QueryModulesResponse only    *)
(* the fields that its category uses, and zero for the others.             *)
Carried(kind, v) ==
  IF kind # "modules" THEN v
  ELSE [v EXCEPT !.channel = IF v.category \in {1, 2} THEN @ ELSE 0,
                 !.hvac = IF v.category = 3 THEN @ ELSE <<0, 0>>]

(* The states of 249 to 255 channels can be written; reading them panics.  *)
Unreadable(kind, v) == kind = "channelStatus" /\ Len(v) > 248

TooManyChannels == \E i \in DOMAIN vals : Unreadable(Layout(msg)[i], vals[i])

(* A message that WriteFrame can write is read whole, from a datagram and, *)
(* when no bit of it changed and its length fits the length byte, from the *)
(* stream: the opcode selects its own parser, which returns no error, and  *)
(* no byte is left over, although some fields take as many bytes as there  *)
(* are and the channel status may be missing altogether.  The one          *)
(* exception is a status of more than 248 channels: this, and nothing      *)
(* else, makes the parser panic.                                           *)
RoundTrip ==
  /\ phase # "error"
  /\ phase = "panic" => TooManyChannels
  /\ phase = "done" /\ ~ flipped => wire = <<>> /\ line = <<>> /\ ~ TooManyChannels
  /\ phase = "refused" => line # <<>> /\ (flipped \/ line[1] # Len(line))

(* A frame that was damaged, or was too long for its length byte, is never *)
(* taken for another message: what ParseFrame returns has the type and the *)
(* header of what was sent and all of its fields, those of                 *)
(* QueryModulesResponse excepted that its category does not use.           *)
FrameTrusted ==
  phase = "done" =>
    /\ parser = msg /\ got = header
    /\ out = [i \in DOMAIN vals |-> Carried(Layout(msg)[i], vals[i])]

(* What ReadSmartbusFrame accepts is a whole frame as it was sent: its     *)
(* checks of the length and the CRC see a changed bit, and that a frame    *)
(* has been cut to the length that its length byte gives.                  *)
CrcDetects ==
  phase = "sent" /\ GoodFrame(line[1]) => ~ flipped /\ line[1] = Len(line)

(* The reference for crc16: division by x^16 + x^12 + x^5 + 1, bit by bit. *)
DivideBit(bit, r) ==
  LET s == 2 * r + bit IN IF s < 65536 THEN s ELSE Xor16(s - 65536, \h1021)

DivideByte(b, r) == Accumulate(DivideBit, r, [i \in 1 .. 8 |-> Bit(b, Weight[9 - i])])

Remainder(bs) == Accumulate(DivideByte, 0, bs)

(* The table is the one of this polynomial, and a frame with its CRC is a  *)
(* multiple of the polynomial when it is sent.                             *)
CrcIsRemainder ==
  /\ phase = "write" /\ vals = <<>> =>
       \A b \in Byte : crc16tab[b + 1] = Remainder(<<b, 0, 0>>)
  /\ phase = "sent" /\ ~ flipped => Remainder(line) = 0
=============================================================================
