------------------------------- MODULE Codec --------------------------------
(***************************************************************************)
(* Messages to bytes and back (smartbus/messageformat.go): WriteMessage    *)
(* goes through the fields of a message and ParseMessage through them      *)
(* again, each field by the converter that its tag names, for the message  *)
(* types that smartbus/messages.go declares.  The field kinds are the tags *)
(* plus "byte" (uint8), "word" (uint16) and "mac" ([8]uint8); "modules"    *)
(* stands for the whole of QueryModulesResponse, which has its own FromRaw *)
(* and ToRaw.                                                              *)
(***************************************************************************)
EXTENDS Integers, Sequences

CONSTANTS
  Messages,  \* the names of the messages to check
  Sample(_)  \* the values to try in a field of each kind

VARIABLES
  msg,     \* the message's type
  parser,  \* the type as which it is read
  vals,    \* what its sender put into its fields
  wire,    \* bytes written and not yet read
  out,     \* field values read
  phase    \* where the message is: "write", "sent", "datagram", "read" or, at the
           \* end, "done", "refused", "unwritable", "error" or "panic"

vars == <<msg, parser, vals, wire, out, phase>>

Byte == 0 .. 255
Uint16 == 0 .. 65535
Panel == 16   \* PANEL_BUTTON_COUNT

(* The bits of a byte, by their weight.                                    *)
Weight == <<1, 2, 4, 8, 16, 32, 64, 128>>
Bit(b, w) == (b \div w) % 2

-----------------------------------------------------------------------------
(* The message types.                                                      *)

RelayLayouts ==
  [SingleChannelControlCommand  |-> <<"byte", "byte", "word">>,
   SingleChannelControlResponse |-> <<"byte", "success", "byte", "channelStatus">>,
   SceneControl                 |-> <<"byte", "byte">>,
   SceneControlResponse         |-> <<"byte", "byte", "channelStatus">>,
   ZoneBeastBroadcast           |-> <<"statusBytes", "channelStatus">>]

ModuleLayouts ==
  [QueryModules                 |-> <<>>,
   QueryModulesResponse         |-> <<"modules">>]

PanelLayouts ==
  [PanelControlResponse         |-> <<"byte", "byte">>,
   QueryChannelStatuses         |-> <<"byte">>,
   QueryChannelStatusesResponse |-> <<"statusBytes">>,
   QueryPanelButtonAssignment   |-> <<"byte", "byte">>,
   QueryPanelButtonAssignmentResponse |->
     <<"byte", "byte", "byte", "byte", "byte", "byte", "byte", "word">>,
   AssignPanelButton            |->
     <<"byte", "byte", "byte", "byte", "byte", "byte", "byte", "word", "byte">>,
   AssignPanelButtonResponse    |-> <<"byte", "byte">>,
   SetPanelButtonModes          |-> <<"panelButtonModes">>,
   SetPanelButtonModesResponse  |-> <<"success">>]

SensorLayouts ==
  [ReadMACAddress                |-> <<>>,
   ReadMACAddressResponse        |-> <<"mac", "remark">>,
   ReadTemperatureValues         |-> <<"flag">>,
   ReadTemperatureValuesResponse |-> <<"flag", "templist">>,
   ReadSensorStatus              |-> <<>>,
   ReadSensorStatusResponse      |->
     <<"success", "sensorTemp", "word", "flag", "flag", "flag", "byte", "byte">>,
   SensorStatusBroadcast         |->
     <<"sensorTemp", "word", "flag", "flag", "flag", "byte", "byte">>]

Layout(m) ==
  CASE m \in DOMAIN RelayLayouts  -> RelayLayouts[m]
    [] m \in DOMAIN ModuleLayouts -> ModuleLayouts[m]
    [] m \in DOMAIN PanelLayouts  -> PanelLayouts[m]
    [] m \in DOMAIN SensorLayouts -> SensorLayouts[m]

MessageTypes ==
  DOMAIN RelayLayouts \union DOMAIN ModuleLayouts \union
  DOMAIN PanelLayouts \union DOMAIN SensorLayouts

ASSUME MessagesAssumption == Messages \subseteq MessageTypes

-----------------------------------------------------------------------------
(* The values of a field of each kind.  An array has a fixed size, a slice *)
(* any; lists of more than 255 entries, whose length byte would not tell   *)
(* their length, are left out.  A button mode is its index in the list of  *)
(* names, and -1 the empty string, which the list does not hold.           *)

Kinds ==
  {"byte", "word", "mac", "flag", "success", "panelButtonModes", "sensorTemp",
   "channelStatus", "statusBytes", "templist", "remark", "modules"}

Temperature == -128 .. 127   \* int8

Values(kind) ==
  CASE kind = "byte"              -> Byte
    [] kind = "word"              -> Uint16
    [] kind = "mac"               -> [1 .. 8 -> Byte]
    [] kind \in {"flag", "success"} -> BOOLEAN
    [] kind = "panelButtonModes"  -> [1 .. Panel -> -1 .. 10]
    [] kind = "sensorTemp"        -> Int
    [] kind = "channelStatus"     -> {s \in Seq(BOOLEAN) : Len(s) <= 255}
    [] kind = "statusBytes"       -> {s \in Seq(Byte) : Len(s) <= 255}
    [] kind = "templist"          -> Seq(Temperature)
    [] kind = "remark"            -> Seq(Byte)
    [] kind = "modules"           ->
         [target : [1 .. 2 -> Byte], category : Byte,
          channel : Byte, hvac : [1 .. 2 -> Byte]]

ASSUME SampleAssumption == \A kind \in Kinds : Sample(kind) \subseteq Values(kind)

-----------------------------------------------------------------------------
(* Writing: the bytes of a value; <<-1>> stands for an error.              *)

Failed == <<-1>>

(* The maps of uint8MapConverter.                                          *)
FlagMap == [b \in {0, 1} |-> b = 1]
SuccessMap == [b \in {245, 248} |-> b = 248]
ModeMap == [b \in 0 .. 10 |-> b]

WriteMapped(map, v) ==
  LET bs == {b \in DOMAIN map : map[b] = v}
  IN  IF bs = {} THEN Failed ELSE <<CHOOSE b \in bs : TRUE>>

WriteModes(v) ==
  LET bs == [i \in DOMAIN v |-> WriteMapped(ModeMap, v[i])]
  IN  IF \E i \in DOMAIN v : bs[i] = Failed THEN Failed
      ELSE [i \in DOMAIN v |-> bs[i][1]]

(* The byte with the states of the eight channels after channel i.         *)
PackByte(s, i) ==
  LET b(k) == IF i + k \in DOMAIN s /\ s[i + k] THEN Weight[k] ELSE 0
  IN  b(1) + b(2) + b(3) + b(4) + b(5) + b(6) + b(7) + b(8)

(* Nothing at all is written for no channels.                              *)
WriteChannelStatus(s) ==
  IF s = <<>> THEN <<>>
  ELSE <<Len(s) % 256>> \o
       [j \in 1 .. ((Len(s) + 7) \div 8) |-> PackByte(s, 8 * (j - 1))]

(* Faulty: the range of the offset temperature is not checked.             *)
WriteTempUnchecked(v) == <<v + 20>>

WriteSensorTemp(v) == IF v + 20 \in Byte THEN <<v + 20>> ELSE Failed

WriteList(s, longest) == IF Len(s) <= longest THEN s ELSE Failed

(* QueryModulesResponse.ToRaw; the fields that the category does not use   *)
(* are left out.                                                           *)
ToRaw(m) ==
  CASE m.category \in {1, 2} -> m.target \o <<m.category, m.channel, 100, 0, 0>>
    [] m.category = 3        -> m.target \o <<m.category>> \o m.hvac \o <<0, 0>>
    [] OTHER                 -> Failed

Written(kind, v) ==
  CASE kind = "byte"             -> <<v>>
    [] kind = "word"             -> <<v \div 256, v % 256>>
    [] kind = "mac"              -> v
    [] kind = "flag"             -> WriteMapped(FlagMap, v)
    [] kind = "success"          -> WriteMapped(SuccessMap, v)
    [] kind = "panelButtonModes" -> WriteModes(v)
    [] kind = "sensorTemp"       -> WriteSensorTemp(v)
    [] kind = "channelStatus"    -> WriteChannelStatus(v)
    [] kind = "statusBytes"      -> <<Len(v) % 256>> \o v
    [] kind = "templist"         -> WriteList([i \in DOMAIN v |-> v[i] % 256], 8)
    [] kind = "remark"           -> WriteList(v, 63)
    [] kind = "modules"          -> ToRaw(v)

-----------------------------------------------------------------------------
(* Reading: the value and the number of bytes it took, or how it failed.   *)

Got(v, n) == [res |-> "ok", val |-> v, used |-> n]
Fails(how) == [res |-> how]

Bits(b, n) ==
  [i \in 1 .. n |-> Bit(b[2 + (i - 1) \div 8], Weight[((i - 1) % 8) + 1]) = 1]

(* Faulty: the incomplete last byte is not counted.                        *)
ReadWholeBytes(b) ==
  IF b = <<>> THEN Got(<<>>, 0)
  ELSE LET count == b[1] \div 8
       IN  IF Len(b) - 1 < count THEN Fails("error")
           ELSE Got(Bits(b, 8 * count), 1 + count)

(* The number of bytes is computed in uint8: 249 channels and more wrap it *)
(* around, and the loop over the channels then indexes an empty slice.     *)
ReadChannelStatus(b) ==
  IF b = <<>> THEN Got(<<>>, 0)
  ELSE LET n == b[1]
           count == ((n + 7) % 256) \div 8
       IN  CASE Len(b) - 1 < count -> Fails("error")
             [] Len(b) - 1 >= count /\ 8 * count < n -> Fails("panic")
             [] OTHER -> Got(Bits(b, n), 1 + count)

ReadStatusBytes(b) ==
  IF b = <<>> \/ Len(b) - 1 < b[1] THEN Fails("error")
  ELSE Got(SubSeq(b, 2, b[1] + 1), b[1] + 1)

ReadFixed(b, n, Decode(_)) ==
  IF Len(b) < n THEN Fails("error") ELSE Got(Decode(SubSeq(b, 1, n)), n)

(* uint8converter: the error for a byte that the map does not hold is lost *)
(* in a shadowed err, and the field keeps its zero value.                  *)
Mapped(map, b, zero) == IF b \in DOMAIN map THEN map[b] ELSE zero

(* reader.Read into a buffer takes what there is, up to its size.          *)
Taken(b, size) == IF Len(b) < size THEN Len(b) ELSE size

Int8(b) == IF b < 128 THEN b ELSE b - 256

(* QueryModulesResponse.FromRaw.                                           *)
FromRaw(b) ==
  IF Len(b) < 7 \/ b[3] \notin 1 .. 5 THEN Fails("error")
  ELSE Got([target |-> SubSeq(b, 1, 2), category |-> b[3],
            channel |-> IF b[3] \in {1, 2} THEN b[4] ELSE 0,
            hvac |-> IF b[3] = 3 THEN SubSeq(b, 4, 5) ELSE <<0, 0>>], 7)

Read(kind, b) ==
  CASE kind = "byte"             -> ReadFixed(b, 1, LAMBDA s : s[1])
    [] kind = "word"             -> ReadFixed(b, 2, LAMBDA s : 256 * s[1] + s[2])
    [] kind = "mac"              -> ReadFixed(b, 8, LAMBDA s : s)
    [] kind = "flag"             -> ReadFixed(b, 1, LAMBDA s : Mapped(FlagMap, s[1], FALSE))
    [] kind = "success"          -> ReadFixed(b, 1, LAMBDA s : Mapped(SuccessMap, s[1], FALSE))
    [] kind = "panelButtonModes" ->
         ReadFixed(b, Panel, LAMBDA s : [i \in 1 .. Panel |-> Mapped(ModeMap, s[i], -1)])
    [] kind = "sensorTemp"       -> ReadFixed(b, 1, LAMBDA s : s[1] - 20)
    [] kind = "channelStatus"    -> ReadChannelStatus(b)
    [] kind = "statusBytes"      -> ReadStatusBytes(b)
    [] kind = "templist"         ->
         LET n == Taken(b, 8) IN Got([i \in 1 .. n |-> Int8(b[i])], n)
    [] kind = "remark"           ->
         LET n == Taken(b, 64)
         IN  IF n = 64 THEN Fails("error") ELSE Got(SubSeq(b, 1, n), n)
    [] kind = "modules"          -> FromRaw(b)

-----------------------------------------------------------------------------
(* WriteMessage, field by field, and then ParseMessage; how the bytes of a *)
(* message get from one to the other is in module Frame.                   *)

Init ==
  /\ msg \in Messages
  /\ parser = msg
  /\ vals = <<>>
  /\ wire = <<>>
  /\ out = <<>>
  /\ phase = "write"

(* WriteFrame panics when a field cannot be written.                       *)
WriteField ==
  /\ phase = "write"
  /\ Len(vals) < Len(Layout(msg))
  /\ LET kind == Layout(msg)[Len(vals) + 1]
     IN  \E v \in Sample(kind) :
           /\ vals' = Append(vals, v)
           /\ IF Written(kind, v) = Failed
                THEN phase' = "unwritable" /\ UNCHANGED wire
                ELSE wire' = wire \o Written(kind, v) /\ UNCHANGED phase
  /\ UNCHANGED <<msg, parser, out>>

ReadField ==
  /\ phase = "read"
  /\ Len(out) < Len(Layout(parser))
  /\ LET r == Read(Layout(parser)[Len(out) + 1], wire)
     IN  IF r.res = "ok"
           THEN /\ out' = Append(out, r.val)
                /\ wire' = SubSeq(wire, r.used + 1, Len(wire))
                /\ UNCHANGED phase
           ELSE phase' = r.res /\ UNCHANGED <<wire, out>>
  /\ UNCHANGED <<msg, parser, vals>>

Parsed ==
  /\ phase = "read"
  /\ Len(out) = Len(Layout(parser))
  /\ phase' = "done"
  /\ UNCHANGED <<msg, parser, vals, wire, out>>

(* A message of one byte that somebody else wrote.                         *)
ForeignInit ==
  /\ msg \in Messages
  /\ parser = msg
  /\ vals \in {<<b>> : b \in Byte}
  /\ wire = vals
  /\ out = <<>>
  /\ phase = "read"

ForeignSpec == ForeignInit /\ [][ReadField \/ Parsed]_vars

-----------------------------------------------------------------------------
(* A byte that stands for nothing in the field's map is refused:           *)
(* uint8MapConverter answers it with "cannot map uint8 value".             *)
UnknownByteRefused ==
  phase = "done" =>
    vals[1] \in CASE Layout(msg) = <<"flag">>    -> DOMAIN FlagMap
                  [] Layout(msg) = <<"success">> -> DOMAIN SuccessMap
=============================================================================
