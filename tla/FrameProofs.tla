---------------------------- MODULE FrameProofs -----------------------------
(***************************************************************************)
(* Proofs about messages and frames: for all values of a message's fields  *)
(* (lists of up to 255 entries), all headers, and frames of all lengths.   *)
(***************************************************************************)
EXTENDS Frame, WellFoundedInduction, TLAPS

-----------------------------------------------------------------------------
(* The converters (messageformat.go): each field reads what was written.   *)

(* The kinds of field that take as many bytes as there are.                *)
Greedy == {"channelStatus", "templist", "remark"}

(* The bytes ws stand at the beginning of bs.                              *)
Begins(bs, ws) == Len(ws) <= Len(bs) /\ \A i \in 1 .. Len(ws) : bs[i] = ws[i]

(* An array of n bytes is a sequence of length n.                          *)
LEMMA ArraySeq ==
  ASSUME NEW S, NEW n \in Nat, NEW f \in [1 .. n -> S]
  PROVE  f \in Seq(S) /\ Len(f) = n
  OBVIOUS

(* What two writes leave in a buffer.                                      *)
LEMMA Joined ==
  ASSUME NEW S, NEW a \in Seq(S), NEW b \in Seq(S), NEW w, w = a \o b
  PROVE  /\ w \in Seq(S) /\ Len(w) = Len(a) + Len(b)
         /\ \A i \in 1 .. Len(a) : w[i] = a[i]
         /\ \A i \in 1 .. Len(b) : w[Len(a) + i] = b[i]
  OBVIOUS

(* What reader.Read leaves in a buffer of n bytes.                         *)
LEMMA FirstBytes ==
  ASSUME NEW bs \in Seq(Byte), NEW n \in Nat, n <= Len(bs)
  PROVE  SubSeq(bs, 1, n) = [i \in 1 .. n |-> bs[i]]
  OBVIOUS

(* A byte and the bytes of a temperature, which is offset by 20.           *)
LEMMA ByteReadBack ==
  ASSUME NEW kind \in {"byte", "sensorTemp"}, NEW v \in Values(kind),
         Written(kind, v) # Failed,
         NEW bs \in Seq(Byte), Begins(bs, Written(kind, v))
  PROVE  Read(kind, bs) = Got(v, Len(Written(kind, v)))
  <1>1. CASE kind = "byte"
    BY <1>1 DEF Values, Written, Begins, Read, ReadFixed
  <1>2. CASE kind = "sensorTemp"
    BY <1>2 DEF Values, Written, WriteSensorTemp, Begins, Read, ReadFixed, Byte, Failed
  <1>3. QED
    BY <1>1, <1>2

(* A word, most significant byte first (binary.BigEndian).                 *)
LEMMA WordReadBack ==
  ASSUME NEW v \in Values("word"),
         NEW bs \in Seq(Byte), Begins(bs, Written("word", v))
  PROVE  Read("word", bs) = Got(v, Len(Written("word", v)))
  <1>1. v \in 0 .. 65535
    BY DEF Values, Uint16
  <1>2. Written("word", v) = <<v \div 256, v % 256>>
    BY DEF Written
  <1> DEFINE w == Written("word", v)
  <1>3. Len(w) = 2 /\ w[1] = v \div 256 /\ w[2] = v % 256
    BY <1>2
  <1> HIDE DEF w
  <1>4. 2 <= Len(bs) /\ bs[1] = v \div 256 /\ bs[2] = v % 256
    <2>1. Len(w) <= Len(bs) /\ \A i \in 1 .. Len(w) : bs[i] = w[i]
      BY DEF Begins, w
    <2>2. QED
      BY <1>3, <2>1
  <1>5. SubSeq(bs, 1, 2) = [i \in 1 .. 2 |-> bs[i]]
    BY <1>4, FirstBytes
  <1>6. Read("word", bs) =
          IF Len(bs) < 2 THEN Fails("error")
          ELSE Got(256 * SubSeq(bs, 1, 2)[1] + SubSeq(bs, 1, 2)[2], 2)
    BY DEF Read, ReadFixed
  <1>7. Read("word", bs) = Got(256 * bs[1] + bs[2], 2)
    BY <1>4, <1>5, <1>6
  <1>8. 256 * (v \div 256) + (v % 256) = v
    BY <1>1
  <1>9. QED
    BY <1>3, <1>4, <1>7, <1>8 DEF w

(* An array of bytes.                                                      *)
LEMMA MacReadBack ==
  ASSUME NEW v \in Values("mac"),
         NEW bs \in Seq(Byte), Begins(bs, Written("mac", v))
  PROVE  Read("mac", bs) = Got(v, Len(Written("mac", v)))
  <1>1. v \in [1 .. 8 -> Byte]
    BY DEF Values
  <1>2. Written("mac", v) = v /\ Len(v) = 8
    BY <1>1 DEF Written
  <1>3. Len(bs) >= 8 /\ \A i \in 1 .. 8 : bs[i] = v[i]
    BY <1>2 DEF Begins
  <1>4. SubSeq(bs, 1, 8) = v
    BY <1>1, <1>3, FirstBytes
  <1>5. Read("mac", bs) =
          IF Len(bs) < 8 THEN Fails("error") ELSE Got(SubSeq(bs, 1, 8), 8)
    BY DEF Read, ReadFixed
  <1>6. ~ (Len(bs) < 8)
    BY <1>3
  <1>7. Read("mac", bs) = Got(v, 8)
    BY <1>4, <1>5, <1>6
  <1>8. QED
    BY <1>2, <1>7

(* A value that uint8MapConverter's map holds: the reverse map gives the   *)
(* byte from which the map gives the value.                                *)
LEMMA MappedReadBack ==
  ASSUME NEW map, NEW v, NEW zero, WriteMapped(map, v) # Failed
  PROVE  \E b \in DOMAIN map : WriteMapped(map, v) = <<b>> /\ Mapped(map, b, zero) = v
  <1> DEFINE B == {b \in DOMAIN map : map[b] = v}
  <1>1. WriteMapped(map, v) = IF B = {} THEN Failed ELSE <<CHOOSE b \in B : TRUE>>
    BY DEF WriteMapped
  <1>2. B # {} /\ WriteMapped(map, v) = <<CHOOSE b \in B : TRUE>>
    BY <1>1
  <1>3. (CHOOSE b \in B : TRUE) \in B
    BY <1>2
  <1>4. QED
    BY <1>2, <1>3 DEF Mapped

(* A flag and a success code.                                              *)
LEMMA FlagReadBack ==
  ASSUME NEW kind \in {"flag", "success"}, NEW v \in Values(kind),
         Written(kind, v) # Failed,
         NEW bs \in Seq(Byte), Begins(bs, Written(kind, v))
  PROVE  Read(kind, bs) = Got(v, Len(Written(kind, v)))
  <1> DEFINE map == IF kind = "flag" THEN FlagMap ELSE SuccessMap
  <1>1. Written(kind, v) = WriteMapped(map, v)
    BY DEF Written
  <1>2. PICK b \in DOMAIN map :
          WriteMapped(map, v) = <<b>> /\ Mapped(map, b, FALSE) = v
    BY <1>1, MappedReadBack
  <1>3. Len(bs) >= 1 /\ bs[1] = b
    BY <1>1, <1>2 DEF Begins
  <1>4. Read(kind, bs) =
          IF Len(bs) < 1 THEN Fails("error")
          ELSE Got(Mapped(map, SubSeq(bs, 1, 1)[1], FALSE), 1)
    <2>1. CASE kind = "flag"
      BY <2>1 DEF Read, ReadFixed
    <2>2. CASE kind = "success"
      BY <2>2 DEF Read, ReadFixed
    <2>3. QED
      BY <2>1, <2>2
  <1>5. SubSeq(bs, 1, 1)[1] = bs[1]
    BY <1>3
  <1>6. ~ (Len(bs) < 1)
    BY <1>3
  <1>7. Read(kind, bs) = Got(v, 1)
    BY <1>2, <1>3, <1>4, <1>5, <1>6
  <1>8. Len(Written(kind, v)) = 1
    BY <1>1, <1>2
  <1>9. QED
    BY <1>7, <1>8

(* The modes of a panel's buttons, one after the other.                    *)
LEMMA ModesReadBack ==
  ASSUME NEW v \in Values("panelButtonModes"),
         Written("panelButtonModes", v) # Failed,
         NEW bs \in Seq(Byte), Begins(bs, Written("panelButtonModes", v))
  PROVE  Read("panelButtonModes", bs) = Got(v, Len(Written("panelButtonModes", v)))
  <1>1. v \in [1 .. 16 -> -1 .. 10]
    BY DEF Values, Panel
  <1> DEFINE w == [i \in 1 .. 16 |-> WriteMapped(ModeMap, v[i])]
  <1>2. /\ Written("panelButtonModes", v) = [i \in 1 .. 16 |-> w[i][1]]
        /\ \A i \in 1 .. 16 : w[i] # Failed
    BY <1>1 DEF Written, WriteModes
  <1>3. ASSUME NEW i \in 1 .. 16
        PROVE  Mapped(ModeMap, w[i][1], -1) = v[i]
    <2>1. WriteMapped(ModeMap, v[i]) # Failed
      BY <1>2
    <2>2. PICK b \in DOMAIN ModeMap :
            WriteMapped(ModeMap, v[i]) = <<b>> /\ Mapped(ModeMap, b, -1) = v[i]
      BY <2>1, MappedReadBack
    <2>3. QED
      BY <2>2
  <1>4. Len(Written("panelButtonModes", v)) = 16
    BY <1>2
  <1>5. Len(bs) >= 16 /\ \A i \in 1 .. 16 : bs[i] = w[i][1]
    BY <1>2, <1>4 DEF Begins
  <1>6. SubSeq(bs, 1, 16) = [i \in 1 .. 16 |-> bs[i]]
    BY <1>5, FirstBytes
  <1>7. Read("panelButtonModes", bs) =
          IF Len(bs) < 16 THEN Fails("error")
          ELSE Got([i \in 1 .. 16 |-> Mapped(ModeMap, SubSeq(bs, 1, 16)[i], -1)], 16)
    BY DEF Read, ReadFixed, Panel
  <1>8. [i \in 1 .. 16 |-> Mapped(ModeMap, SubSeq(bs, 1, 16)[i], -1)] = v
    BY <1>1, <1>3, <1>5, <1>6
  <1>9. ~ (Len(bs) < 16)
    BY <1>5
  <1>10. Read("panelButtonModes", bs) = Got(v, 16)
    BY <1>7, <1>8, <1>9
  <1>11. QED
    BY <1>4, <1>10

(* A temperature in two's complement and back.                             *)
LEMMA TwosComplement ==
  ASSUME NEW t \in Temperature
  PROVE  t % 256 \in Byte /\ Int8(t % 256) = t
  <1>1. t % 256 \in Byte
    BY DEF Temperature, Byte
  <1>2. Int8(t % 256) = t
    BY DEF Temperature, Int8
  <1>3. QED
    BY <1>1, <1>2

(* Temperatures, as many as there are, up to eight, in two's complement.   *)
LEMMA TemperaturesReadBack ==
  ASSUME NEW v \in Values("templist"), Written("templist", v) # Failed,
         NEW bs \in Seq(Byte), Begins(bs, Written("templist", v)),
         Len(bs) = Len(Written("templist", v))
  PROVE  Read("templist", bs) = Got(v, Len(Written("templist", v)))
  <1>1. v \in Seq(Temperature)
    BY DEF Values
  <1> DEFINE w == [i \in 1 .. Len(v) |-> v[i] % 256]
  <1>2. DOMAIN v = 1 .. Len(v) /\ Len(v) \in Nat
    BY <1>1
  <1>3. w \in Seq(Byte) /\ Len(w) = Len(v)
    <2>1. ASSUME NEW i \in 1 .. Len(v) PROVE v[i] % 256 \in Byte
      <3>1. v[i] \in Temperature
        BY <1>1
      <3>2. QED
        BY <3>1, TwosComplement
    <2>2. QED
      BY <1>2, <2>1
  <1>4. Written("templist", v) = w /\ Len(w) <= 8
    BY <1>2 DEF Written, WriteList
  <1>5. Len(bs) = Len(v) /\ \A i \in 1 .. Len(v) : bs[i] = v[i] % 256
    BY <1>2, <1>3, <1>4 DEF Begins
  <1>6. Taken(bs, 8) = Len(v)
    BY <1>2, <1>3, <1>4, <1>5 DEF Taken
  <1>7. Read("templist", bs) = Got([i \in 1 .. Len(v) |-> Int8(bs[i])], Len(v))
    BY <1>6 DEF Read
  <1>8. ASSUME NEW i \in 1 .. Len(v) PROVE Int8(bs[i]) = v[i]
    <2>1. v[i] \in Temperature
      BY <1>1
    <2>2. Int8(v[i] % 256) = v[i]
      BY <2>1, TwosComplement
    <2>3. QED
      BY <1>5, <2>2
  <1>9. [i \in 1 .. Len(v) |-> Int8(bs[i])] = v
    BY <1>1, <1>2, <1>8
  <1>10. QED
    BY <1>3, <1>4, <1>7, <1>9

(* A remark, as many bytes as there are, fewer than 64.                    *)
LEMMA RemarkReadBack ==
  ASSUME NEW v \in Values("remark"), Written("remark", v) # Failed,
         NEW bs \in Seq(Byte), Begins(bs, Written("remark", v)),
         Len(bs) = Len(Written("remark", v))
  PROVE  Read("remark", bs) = Got(v, Len(Written("remark", v)))
  <1>1. v \in Seq(Byte)
    BY DEF Values
  <1>2. Written("remark", v) = v /\ Len(v) <= 63
    BY DEF Written, WriteList
  <1>3. Len(bs) = Len(v) /\ \A i \in 1 .. Len(v) : bs[i] = v[i]
    BY <1>1, <1>2 DEF Begins
  <1>4. bs = v /\ SubSeq(bs, 1, Len(bs)) = bs
    BY <1>1, <1>3
  <1>5. Taken(bs, 64) = Len(v)
    BY <1>1, <1>2, <1>3 DEF Taken
  <1>6. Read("remark", bs) =
          IF Len(v) = 64 THEN Fails("error") ELSE Got(SubSeq(bs, 1, Len(v)), Len(v))
    BY <1>5 DEF Read
  <1>7. ~ (Len(v) = 64)
    <2>1. \A n \in Nat : n <= 63 => ~ (n = 64)
      OBVIOUS
    <2>2. Len(v) \in Nat
      BY <1>1
    <2>3. Len(v) <= 63
      BY <1>2
    <2>4. QED
      BY <2>1, <2>2, <2>3
  <1>8. QED
    BY <1>2, <1>4, <1>6, <1>7

(* The status bytes after their number.                                    *)
LEMMA StatusBytesReadBack ==
  ASSUME NEW v \in Values("statusBytes"),
         NEW bs \in Seq(Byte), Begins(bs, Written("statusBytes", v))
  PROVE  Read("statusBytes", bs) = Got(v, Len(Written("statusBytes", v)))
  <1>1. v \in Seq(Byte) /\ Len(v) <= 255 /\ Len(v) \in Nat
    BY DEF Values
  <1> DEFINE w == <<Len(v)>> \o v
  <1>2. Len(v) % 256 = Len(v)
    BY <1>1
  <1>3. Written("statusBytes", v) = w
    BY <1>2 DEF Written
  <1>4. Len(w) = Len(v) + 1 /\ w[1] = Len(v) /\ \A i \in 1 .. Len(v) : w[i + 1] = v[i]
    BY <1>1
  <1> HIDE DEF w
  <1>5. Len(w) <= Len(bs) /\ \A i \in 1 .. Len(w) : bs[i] = w[i]
    BY <1>3 DEF Begins
  <1>6. Len(v) + 1 <= Len(bs) /\ bs[1] = Len(v) /\ \A i \in 1 .. Len(v) : bs[i + 1] = v[i]
    BY <1>1, <1>4, <1>5
  <1>7. SubSeq(bs, 2, Len(v) + 1) = v
    BY <1>1, <1>6
  <1>8. bs # <<>> /\ ~ (Len(bs) - 1 < bs[1])
    BY <1>1, <1>6
  <1>9. Read("statusBytes", bs) = Got(SubSeq(bs, 2, bs[1] + 1), bs[1] + 1)
    BY <1>8 DEF Read, ReadStatusBytes
  <1>10. QED
    BY <1>3, <1>4, <1>6, <1>7, <1>9

(* The bytes w of the raw form of QueryModulesResponse: its fields, with   *)
(* those that its category uses.                                           *)
RawBytes(v, w) ==
  /\ w \in Seq(Byte) /\ Len(w) = 7
  /\ w[1] = v.target[1] /\ w[2] = v.target[2] /\ w[3] = v.category
  /\ v.category \in {1, 2} => w[4] = v.channel
  /\ v.category = 3 => w[4] = v.hvac[1] /\ w[5] = v.hvac[2]

(* These are the bytes that ToRaw gives for the categories it knows.       *)
LEMMA RawWritten ==
  ASSUME NEW v \in Values("modules"), Written("modules", v) # Failed
  PROVE  v.category \in {1, 2, 3} /\ RawBytes(v, ToRaw(v))
  <1>1. v \in [target : [1 .. 2 -> Byte], category : Byte,
               channel : Byte, hvac : [1 .. 2 -> Byte]]
    BY DEF Values
  <1>2. v.category \in {1, 2, 3}
    <2>1. Written("modules", v) = ToRaw(v)
      BY DEF Written
    <2>2. QED
      BY <2>1 DEF ToRaw
  <1>3. v.target \in Seq(Byte) /\ v.hvac \in Seq(Byte)
    BY <1>1, ArraySeq
  <1>4. Len(v.target) = 2 /\ Len(v.hvac) = 2
    BY <1>1, ArraySeq
  <1> DEFINE w == ToRaw(v)
             Join(x, a, b) ==
               /\ x \in Seq(Byte) /\ Len(x) = Len(a) + Len(b)
               /\ \A i \in 1 .. Len(a) : x[i] = a[i]
               /\ \A i \in 1 .. Len(b) : x[Len(a) + i] = b[i]
  <1>5. ASSUME v.category \in {1, 2} PROVE RawBytes(v, w)
    <2> DEFINE u == <<v.category, v.channel, 100, 0, 0>>
    <2>1. u \in Seq(Byte)
      BY <1>1 DEF Byte
    <2>2. Len(u) = 5 /\ u[1] = v.category /\ u[2] = v.channel
      OBVIOUS
    <2>3. w = v.target \o u
      <3>1. v.category # 3
        BY <1>5
      <3>2. QED
        BY <1>5, <3>1, Zenon DEF ToRaw
    <2> HIDE DEF u, w
    <2>4. Join(w, v.target, u)
      BY <1>3, <2>1, <2>3, Joined
    <2>5. QED
      BY <1>4, <1>5, <2>2, <2>4 DEF RawBytes
  <1>6. ASSUME v.category = 3 PROVE RawBytes(v, w)
    <2> DEFINE x == <<v.category>>
               u == v.target \o x
               t == u \o v.hvac
               z == <<0, 0>>
    <2>1. z \in Seq(Byte) /\ x \in Seq(Byte)
      BY <1>1 DEF Byte
    <2>2. Len(z) = 2 /\ Len(x) = 1 /\ x[1] = v.category
      OBVIOUS
    <2>3. w = t \o z
      <3>1. v.category \notin {1, 2}
        BY <1>6
      <3>2. QED
        BY <1>6, <3>1, Zenon DEF ToRaw
    <2> HIDE DEF x, z, w
    <2>4. Join(u, v.target, x)
      BY <1>3, <2>1, Joined
    <2> HIDE DEF u
    <2>5. Join(t, u, v.hvac)
      <3>1. u \in Seq(Byte)
        BY <2>4
      <3>2. QED
        BY <1>3, <3>1, Joined
    <2> HIDE DEF t
    <2>6. Join(w, t, z)
      <3>1. t \in Seq(Byte)
        BY <2>5
      <3>2. QED
        BY <2>1, <2>3, <3>1, Joined
    <2>7. QED
      BY <1>4, <1>6, <2>2, <2>4, <2>5, <2>6 DEF RawBytes
  <1>7. QED
    BY <1>2, <1>5, <1>6

(* The raw form of QueryModulesResponse, with the fields of its category.  *)
LEMMA ModulesReadBack ==
  ASSUME NEW v \in Values("modules"), Written("modules", v) # Failed,
         NEW bs \in Seq(Byte), Begins(bs, Written("modules", v))
  PROVE  Read("modules", bs) = Got(Carried("modules", v), Len(Written("modules", v)))
  <1>1. v \in [target : [1 .. 2 -> Byte], category : Byte,
               channel : Byte, hvac : [1 .. 2 -> Byte]]
    BY DEF Values
  <1> DEFINE channel == IF v.category \in {1, 2} THEN v.channel ELSE 0
             hvac == IF v.category = 3 THEN v.hvac ELSE <<0, 0>>
  <1>2. Written("modules", v) = ToRaw(v) /\ Read("modules", bs) = FromRaw(bs)
    BY DEF Written, Read
  <1>3. v.category \in {1, 2, 3}
    BY RawWritten
  <1> DEFINE w == ToRaw(v)
  <1> HIDE DEF w
  <1>4. RawBytes(v, w)
    BY RawWritten DEF w
  <1>5. Len(w) <= Len(bs) /\ \A i \in 1 .. Len(w) : bs[i] = w[i]
    BY <1>2 DEF Begins, w
  <1>6. 7 <= Len(bs) /\ \A i \in 1 .. 7 : bs[i] = w[i]
    BY <1>4, <1>5 DEF RawBytes
  <1>7. bs[1] = v.target[1] /\ bs[2] = v.target[2] /\ bs[3] = v.category
    BY <1>4, <1>6 DEF RawBytes
  <1>8. /\ v.category \in {1, 2} => bs[4] = v.channel
        /\ v.category = 3 => bs[4] = v.hvac[1] /\ bs[5] = v.hvac[2]
    BY <1>4, <1>6 DEF RawBytes
  <1>9. SubSeq(bs, 1, 2) = v.target
    BY <1>1, <1>6, <1>7
  <1>10. v.category = 3 => SubSeq(bs, 4, 5) = v.hvac
    BY <1>1, <1>6, <1>8
  <1>11. ~ (Len(bs) < 7) /\ bs[3] \in 1 .. 5
    BY <1>3, <1>6, <1>7
  <1>12. FromRaw(bs) =
           Got([target |-> SubSeq(bs, 1, 2), category |-> bs[3],
                channel |-> IF bs[3] \in {1, 2} THEN bs[4] ELSE 0,
                hvac |-> IF bs[3] = 3 THEN SubSeq(bs, 4, 5) ELSE <<0, 0>>], 7)
    BY <1>11 DEF FromRaw
  <1>13. (IF bs[3] \in {1, 2} THEN bs[4] ELSE 0) = channel
    BY <1>7, <1>8
  <1>14. (IF bs[3] = 3 THEN SubSeq(bs, 4, 5) ELSE <<0, 0>>) = hvac
    BY <1>7, <1>10
  <1> HIDE DEF channel, hvac
  <1>15. FromRaw(bs) =
           Got([target |-> v.target, category |-> v.category,
                channel |-> channel, hvac |-> hvac], 7)
    BY <1>7, <1>9, <1>12, <1>13, <1>14
  <1>16. Carried("modules", v) = [target |-> v.target, category |-> v.category,
                                  channel |-> channel, hvac |-> hvac]
    BY <1>1 DEF Carried, channel, hvac
  <1>17. QED
    BY <1>2, <1>4, <1>15, <1>16 DEF w, RawBytes

(* A byte put together from eight bits has these bits.                     *)
LEMMA EightBits ==
  ASSUME NEW x1 \in {0, 1}, NEW x2 \in {0, 1}, NEW x3 \in {0, 1}, NEW x4 \in {0, 1},
         NEW x5 \in {0, 1}, NEW x6 \in {0, 1}, NEW x7 \in {0, 1}, NEW x8 \in {0, 1},
         NEW n, n = x1 + 2 * x2 + 4 * x3 + 8 * x4 + 16 * x5 + 32 * x6 + 64 * x7 + 128 * x8
  PROVE  /\ n \in Byte
         /\ Bit(n, 1) = x1 /\ Bit(n, 2) = x2 /\ Bit(n, 4) = x3 /\ Bit(n, 8) = x4
         /\ Bit(n, 16) = x5 /\ Bit(n, 32) = x6 /\ Bit(n, 64) = x7 /\ Bit(n, 128) = x8
  <1>1. n \in Byte
    BY DEF Byte
  <1>2. Bit(n, 1) = x1 /\ Bit(n, 2) = x2 /\ Bit(n, 4) = x3 /\ Bit(n, 8) = x4
    BY DEF Bit
  <1>3. Bit(n, 16) = x5 /\ Bit(n, 32) = x6 /\ Bit(n, 64) = x7 /\ Bit(n, 128) = x8
    BY DEF Bit
  <1>4. QED
    BY <1>1, <1>2, <1>3

(* The bit for a channel in the byte that WriteChannelStatusField writes.  *)
LEMMA PackedBit ==
  ASSUME NEW s, NEW i \in Nat
  PROVE  /\ PackByte(s, i) \in Byte
         /\ \A k \in 1 .. 8 : i + k \in DOMAIN s =>
              (Bit(PackByte(s, i), Weight[k]) = 1 <=> s[i + k] = TRUE)
  <1> DEFINE x(k) == IF i + k \in DOMAIN s /\ s[i + k] THEN 1 ELSE 0
             n == x(1) + 2 * x(2) + 4 * x(3) + 8 * x(4)
                  + 16 * x(5) + 32 * x(6) + 64 * x(7) + 128 * x(8)
  <1>1. PackByte(s, i) = n
    BY DEF PackByte, Weight
  <1>2. \A k : x(k) \in {0, 1}
    OBVIOUS
  <1> HIDE DEF x
  <1>3. /\ n \in Byte
        /\ Bit(n, 1) = x(1) /\ Bit(n, 2) = x(2) /\ Bit(n, 4) = x(3) /\ Bit(n, 8) = x(4)
        /\ Bit(n, 16) = x(5) /\ Bit(n, 32) = x(6) /\ Bit(n, 64) = x(7) /\ Bit(n, 128) = x(8)
    BY <1>2, EightBits
  <1> HIDE DEF n
  <1>4. \A k \in 1 .. 8 : Bit(n, Weight[k]) = x(k)
    BY <1>3 DEF Weight
  <1>5. \A k \in 1 .. 8 : i + k \in DOMAIN s => (x(k) = 1 <=> s[i + k] = TRUE)
    BY DEF x
  <1>6. QED
    BY <1>1, <1>3, <1>4, <1>5

(* The bytes w for the states v of n channels, n > 0: their number and m   *)
(* bytes, with a bit for each.                                             *)
ChannelBytes(v, n, m, w) ==
  /\ v \in Seq(BOOLEAN) /\ n \in 1 .. 255 /\ DOMAIN v = 1 .. n
  /\ m \in 1 .. 32 /\ 8 * m >= n
  /\ ((n + 7) % 256) \div 8 = IF n > 248 THEN 0 ELSE m
  /\ w \in Seq(Byte) /\ Len(w) = 1 + m /\ w[1] = n
  /\ \A j \in 1 .. m : w[1 + j] = PackByte(v, 8 * (j - 1))

(* These are the bytes that WriteChannelStatusField writes.                *)
LEMMA ChannelStatusWritten ==
  ASSUME NEW v \in Values("channelStatus"), v # <<>>
  PROVE  ChannelBytes(v, Len(v), (Len(v) + 7) \div 8, Written("channelStatus", v))
  <1>0. v \in Seq(BOOLEAN) /\ Len(v) <= 255
    BY DEF Values
  <1> DEFINE n == Len(v)
             m == (n + 7) \div 8
             p == [j \in 1 .. m |-> PackByte(v, 8 * (j - 1))]
             h == <<n>>
             w == h \o p
  <1>1. n \in 1 .. 255 /\ DOMAIN v = 1 .. n
    <2>1. Len(v) \in Nat /\ DOMAIN v = 1 .. Len(v)
      BY <1>0
    <2>2. ASSUME Len(v) = 0 PROVE FALSE
      BY <1>0, <2>2
    <2>3. \A l \in Nat : l <= 255 /\ ~ (l = 0) => l \in 1 .. 255
      OBVIOUS
    <2>4. Len(v) \in 1 .. 255
      BY <1>0, <2>1, <2>2, <2>3
    <2>5. QED
      BY <2>1, <2>4
  <1> HIDE DEF n
  <1>2. /\ m \in 1 .. 32 /\ 8 * m >= n /\ n % 256 = n
        /\ ((n + 7) % 256) \div 8 = IF n > 248 THEN 0 ELSE m
    BY <1>1
  <1> HIDE DEF m
  <1>3. Written("channelStatus", v) = w
    <2>1. WriteChannelStatus(v) = w
      BY <1>2 DEF WriteChannelStatus, n, m
    <2>2. QED
      BY <2>1 DEF Written
  <1>4. \A j \in 1 .. m : 8 * (j - 1) \in Nat
    BY <1>2
  <1>5. \A j \in 1 .. m : PackByte(v, 8 * (j - 1)) \in Byte
    BY <1>4, PackedBit
  <1>6. p \in [1 .. m -> Byte]
    BY <1>5
  <1>7. p \in Seq(Byte) /\ Len(p) = m
    BY <1>2, <1>6, ArraySeq
  <1>8. \A j \in 1 .. m : p[j] = PackByte(v, 8 * (j - 1))
    OBVIOUS
  <1> HIDE DEF p
  <1>9. h \in Seq(Byte) /\ Len(h) = 1 /\ h[1] = n
    BY <1>1 DEF Byte
  <1> HIDE DEF h
  <1>10. /\ w \in Seq(Byte) /\ Len(w) = Len(h) + Len(p)
         /\ \A i \in 1 .. Len(h) : w[i] = h[i]
         /\ \A i \in 1 .. Len(p) : w[Len(h) + i] = p[i]
    <2>1. h \in Seq(Byte) /\ p \in Seq(Byte)
      BY <1>7, <1>9
    <2>2. QED
      BY <2>1, Joined
  <1> HIDE DEF w
  <1>11. Len(w) = 1 + m /\ w[1] = n /\ \A j \in 1 .. m : w[1 + j] = PackByte(v, 8 * (j - 1))
    BY <1>7, <1>8, <1>9, <1>10
  <1>12. ChannelBytes(v, n, m, w)
    BY <1>0, <1>1, <1>2, <1>10, <1>11 DEF ChannelBytes
  <1>13. QED
    BY <1>3, <1>12 DEF n, m

(* The states of the channels, eight to a byte, after their number; or     *)
(* nothing at all where there are no channels.  For more than 248 the      *)
(* number of bytes wraps around to zero and the reader panics.             *)
LEMMA ChannelStatusReadBack ==
  ASSUME NEW v \in Values("channelStatus"),
         NEW bs \in Seq(Byte), Begins(bs, Written("channelStatus", v)),
         Len(bs) = Len(Written("channelStatus", v))
  PROVE  Read("channelStatus", bs) =
           IF Unreadable("channelStatus", v) THEN Fails("panic")
           ELSE Got(v, Len(Written("channelStatus", v)))
  <1>1. v \in Seq(BOOLEAN) /\ (Unreadable("channelStatus", v) <=> Len(v) > 248)
    BY DEF Values, Unreadable
  <1>2. Written("channelStatus", v) = WriteChannelStatus(v)
    BY DEF Written
  <1>3. Read("channelStatus", bs) = ReadChannelStatus(bs)
    BY DEF Read
  <1>4. CASE v = <<>>
    <2>1. WriteChannelStatus(v) = <<>>
      BY <1>4 DEF WriteChannelStatus
    <2>2. Len(WriteChannelStatus(v)) = 0
      BY <2>1
    <2>3. bs = <<>>
      BY <1>2, <2>2
    <2>4. ReadChannelStatus(bs) = Got(<<>>, 0)
      BY <2>3 DEF ReadChannelStatus
    <2>5. ~ (Len(v) > 248)
      BY <1>4
    <2>6. QED
      BY <1>1, <1>2, <1>3, <1>4, <2>2, <2>4, <2>5
  <1>5. CASE v # <<>>
    <2> DEFINE n == Len(v)
               m == (n + 7) \div 8
               w == Written("channelStatus", v)
    <2>0. ChannelBytes(v, n, m, w)
      BY <1>5, ChannelStatusWritten
    <2> HIDE DEF n, m, w
    <2>1. n \in 1 .. 255 /\ DOMAIN v = 1 .. n
      BY <2>0 DEF ChannelBytes
    <2>2. /\ m \in 1 .. 32 /\ 8 * m >= n
          /\ ((n + 7) % 256) \div 8 = IF n > 248 THEN 0 ELSE m
      BY <2>0 DEF ChannelBytes
    <2>11. Len(w) = 1 + m /\ w[1] = n /\ \A j \in 1 .. m : w[1 + j] = PackByte(v, 8 * (j - 1))
      BY <2>0 DEF ChannelBytes
    <2>12. Len(bs) = 1 + m /\ \A i \in 1 .. (1 + m) : bs[i] = w[i]
      BY <2>11 DEF Begins, w
    <2>13. bs[1] = n /\ \A j \in 1 .. m : bs[1 + j] = PackByte(v, 8 * (j - 1))
      BY <2>2, <2>11, <2>12
    <2>14. bs # <<>> /\ ~ (Len(bs) - 1 < m) /\ ~ (8 * m < n)
      <3>1. Len(bs) = 0 <=> bs = <<>>
        OBVIOUS
      <3>2. QED
        BY <2>1, <2>2, <2>12, <3>1
    <2>15. ReadChannelStatus(bs) = IF n > 248 THEN Fails("panic") ELSE Got(Bits(bs, n), 1 + m)
      <3>1. CASE n > 248
        <4>1. ((bs[1] + 7) % 256) \div 8 = 0
          BY <2>2, <2>13, <3>1
        <4>2. ~ (Len(bs) - 1 < 0) /\ Len(bs) - 1 >= 0 /\ 8 * 0 < bs[1]
          BY <2>1, <2>2, <2>12, <2>13
        <4>3. QED
          BY <2>14, <3>1, <4>1, <4>2 DEF ReadChannelStatus
      <3>2. CASE ~ (n > 248)
        BY <2>2, <2>13, <2>14, <3>2 DEF ReadChannelStatus
      <3>3. QED
        BY <3>1, <3>2
    <2>16. ASSUME NEW i \in 1 .. n
           PROVE  Bits(bs, n)[i] = v[i]
      <3> DEFINE j == (i - 1) \div 8
                 k == ((i - 1) % 8) + 1
      <3>1. j \in 0 .. (m - 1) /\ k \in 1 .. 8 /\ 8 * j + k = i
        BY <2>1, <2>2
      <3> HIDE DEF j, k
      <3>2. 8 * j \in Nat /\ j + 1 \in 1 .. m /\ 1 + (j + 1) = 2 + j /\ 8 * ((j + 1) - 1) = 8 * j
        BY <2>2, <3>1
      <3>3. bs[2 + j] = PackByte(v, 8 * j)
        BY <2>13, <3>2
      <3>4. Bit(PackByte(v, 8 * j), Weight[k]) = 1 <=> v[i] = TRUE
        <4>1. \A l \in 1 .. 8 : 8 * j + l \in DOMAIN v =>
                (Bit(PackByte(v, 8 * j), Weight[l]) = 1 <=> v[8 * j + l] = TRUE)
          BY <3>2, PackedBit
        <4>2. i \in DOMAIN v
          BY <2>1
        <4>3. QED
          BY <3>1, <4>1, <4>2
      <3>5. Bits(bs, n)[i] = (Bit(bs[2 + j], Weight[k]) = 1)
        BY DEF Bits, j, k
      <3>6. v[i] \in BOOLEAN
        BY <1>1, <2>1 DEF n
      <3>7. QED
        BY <3>3, <3>4, <3>5, <3>6
    <2>17. Bits(bs, n) = v
      <3>1. Bits(bs, n) = [i \in 1 .. n |-> Bits(bs, n)[i]]
        BY DEF Bits
      <3>2. v = [i \in 1 .. n |-> v[i]]
        BY <1>1, <2>1
      <3>3. QED
        BY <2>16, <3>1, <3>2
    <2>18. QED
      BY <1>1, <1>3, <2>11, <2>15, <2>17 DEF w, n
  <1>6. QED
    BY <1>4, <1>5

(* Every field of every kind reads back what it wrote, as far as it wrote  *)
(* it (Carried), and takes exactly the bytes that it wrote, whatever comes *)
(* after them; the kinds that take as many bytes as there are need to come *)
(* last.  The reader panics on the states of more than 248 channels, and   *)
(* on nothing else that was written.                                       *)
THEOREM FieldReadBack ==
  ASSUME NEW kind \in Kinds, NEW v \in Values(kind), Written(kind, v) # Failed,
         NEW bs \in Seq(Byte), Begins(bs, Written(kind, v)),
         kind \in Greedy => Len(bs) = Len(Written(kind, v))
  PROVE  Read(kind, bs) = IF Unreadable(kind, v) THEN Fails("panic")
                          ELSE Got(Carried(kind, v), Len(Written(kind, v)))
  <1> DEFINE whole == Read(kind, bs) = Got(v, Len(Written(kind, v)))
  <1>1. CASE kind \in {"byte", "sensorTemp"}
    BY <1>1, ByteReadBack DEF Carried, Unreadable
  <1>2. CASE kind = "word"
    BY <1>2, WordReadBack DEF Carried, Unreadable
  <1>3. CASE kind = "mac"
    BY <1>3, MacReadBack DEF Carried, Unreadable
  <1>4. CASE kind \in {"flag", "success"}
    <2>1. whole
      BY <1>4, FlagReadBack
    <2>2. QED
      BY <1>4, <2>1 DEF Carried, Unreadable
  <1>5. CASE kind = "panelButtonModes"
    <2>1. whole
      BY <1>5, ModesReadBack
    <2>2. QED
      BY <1>5, <2>1 DEF Carried, Unreadable
  <1>6. CASE kind = "channelStatus"
    <2>1. Carried(kind, v) = v
      BY <1>6 DEF Carried
    <2>2. QED
      BY <1>6, <2>1, ChannelStatusReadBack DEF Greedy
  <1>7. CASE kind = "statusBytes"
    <2>1. whole
      BY <1>7, StatusBytesReadBack
    <2>2. QED
      BY <1>7, <2>1 DEF Carried, Unreadable
  <1>8. CASE kind = "templist"
    <2>1. whole
      BY <1>8, TemperaturesReadBack DEF Greedy
    <2>2. QED
      BY <1>8, <2>1 DEF Carried, Unreadable
  <1>9. CASE kind = "remark"
    <2>1. whole
      BY <1>9, RemarkReadBack DEF Greedy
    <2>2. QED
      BY <1>9, <2>1 DEF Carried, Unreadable
  <1>10. CASE kind = "modules"
    <2>1. ~ Unreadable(kind, v)
      BY <1>10 DEF Unreadable
    <2>2. QED
      BY <1>10, <2>1, ModulesReadBack
  <1>11. QED
    BY <1>1, <1>2, <1>3, <1>4, <1>5, <1>6, <1>7, <1>8, <1>9, <1>10 DEF Kinds

(* The bytes of a word, and the word again.                                *)
LEMMA WordOfBytes ==
  /\ \A n \in Nat : n % 256 \in Byte
  /\ \A x \in Uint16 :
       /\ x \div 256 \in Byte /\ x % 256 \in Byte
       /\ 256 * (x \div 256) + (x % 256) = x
  <1>1. \A n \in Nat : n % 256 \in Byte
    BY DEF Byte
  <1>2. ASSUME NEW x \in Uint16
        PROVE  /\ x \div 256 \in Byte /\ x % 256 \in Byte
               /\ 256 * (x \div 256) + (x % 256) = x
    <2> DEFINE d == x \div 256
    <2>0. x \in 0 .. 65535
      BY DEF Uint16
    <2>1. d <= 255
      BY <2>0
    <2>2. d \in Nat
      BY <2>0
    <2>3. 256 * (x \div 256) + (x % 256) = x
      BY <2>0
    <2> HIDE DEF d
    <2>4. d \in Byte
      BY <2>1, <2>2 DEF Byte
    <2>5. x % 256 \in Byte
      BY <1>1, <2>0
    <2>6. QED
      BY <2>3, <2>4, <2>5 DEF d
  <1>3. QED
    BY <1>1, <1>2

(* What a field writes are bytes.                                          *)
LEMMA WrittenBytes ==
  ASSUME NEW kind \in Kinds, NEW v \in Values(kind), Written(kind, v) # Failed
  PROVE  Written(kind, v) \in Seq(Byte)
  <1>1. CASE kind = "byte"
    BY <1>1 DEF Values, Written
  <1>2. CASE kind = "word"
    <2>1. v \in Uint16
      BY <1>2 DEF Values
    <2>2. v \div 256 \in Byte /\ v % 256 \in Byte
      BY <2>1, WordOfBytes
    <2>3. Written(kind, v) = <<v \div 256, v % 256>>
      BY <1>2 DEF Written
    <2>4. QED
      BY <2>2, <2>3
  <1>3. CASE kind = "mac"
    <2>1. v \in [1 .. 8 -> Byte]
      BY <1>3 DEF Values
    <2>2. v \in Seq(Byte)
      BY <2>1, ArraySeq
    <2>3. Written(kind, v) = v
      BY <1>3 DEF Written
    <2>4. QED
      BY <2>2, <2>3
  <1>4. CASE kind \in {"flag", "success"}
    <2> DEFINE map == IF kind = "flag" THEN FlagMap ELSE SuccessMap
    <2>1. Written(kind, v) = WriteMapped(map, v)
      BY <1>4 DEF Written
    <2>2. PICK b \in DOMAIN map : WriteMapped(map, v) = <<b>>
      BY <2>1, MappedReadBack
    <2>3. b \in Byte
      BY DEF FlagMap, SuccessMap, Byte
    <2>4. <<b>> \in Seq(Byte)
      BY <2>3
    <2>5. QED
      BY <2>1, <2>2, <2>4, Zenon
  <1>5. CASE kind = "panelButtonModes"
    <2>1. v \in [1 .. 16 -> -1 .. 10]
      BY <1>5 DEF Values, Panel
    <2> DEFINE w == [i \in 1 .. 16 |-> WriteMapped(ModeMap, v[i])]
    <2>2. /\ Written(kind, v) = [i \in 1 .. 16 |-> w[i][1]]
          /\ \A i \in 1 .. 16 : w[i] # Failed
      BY <1>5, <2>1 DEF Written, WriteModes
    <2>3. ASSUME NEW i \in 1 .. 16 PROVE w[i][1] \in Byte
      <3>1. PICK b \in DOMAIN ModeMap : WriteMapped(ModeMap, v[i]) = <<b>>
        BY <2>2, MappedReadBack
      <3>2. b \in Byte
        BY DEF ModeMap, Byte
      <3>3. QED
        BY <3>1, <3>2
    <2>4. [i \in 1 .. 16 |-> w[i][1]] \in [1 .. 16 -> Byte]
      BY <2>3
    <2>5. QED
      BY <2>2, <2>4, ArraySeq
  <1>6. CASE kind = "sensorTemp"
    BY <1>6 DEF Values, Written, WriteSensorTemp
  <1>7. CASE kind = "channelStatus"
    <2>1. CASE v = <<>>
      BY <1>7, <2>1 DEF Written, WriteChannelStatus
    <2>2. CASE v # <<>>
      BY <1>7, <2>2, ChannelStatusWritten DEF ChannelBytes
    <2>3. QED
      BY <2>1, <2>2
  <1>8. CASE kind = "statusBytes"
    <2>0. v \in Seq(Byte)
      BY <1>8 DEF Values
    <2>1. Len(v) % 256 \in Byte
      <3>1. Len(v) \in Nat
        BY <2>0
      <3>2. QED
        BY <3>1, WordOfBytes
    <2>2. Written(kind, v) = <<Len(v) % 256>> \o v
      BY <1>8 DEF Written
    <2>3. QED
      BY <2>0, <2>1, <2>2
  <1>9. CASE kind = "templist"
    <2>1. v \in Seq(Temperature)
      BY <1>9 DEF Values
    <2>2. \A i \in DOMAIN v : v[i] % 256 \in Byte
      BY <2>1, TwosComplement
    <2>3. [i \in DOMAIN v |-> v[i] % 256] \in Seq(Byte)
      BY <2>1, <2>2
    <2>4. QED
      BY <1>9, <2>3 DEF Written, WriteList
  <1>10. CASE kind = "remark"
    BY <1>10 DEF Values, Written, WriteList
  <1>11. CASE kind = "modules"
    <2>1. Written(kind, v) = ToRaw(v)
      BY <1>11 DEF Written
    <2>2. QED
      BY <1>11, <2>1, RawWritten DEF RawBytes
  <1>12. QED
    BY <1>1, <1>2, <1>3, <1>4, <1>5, <1>6, <1>7, <1>8, <1>9, <1>10, <1>11 DEF Kinds

-----------------------------------------------------------------------------
(* The messages (messages.go).                                             *)

(* The fields of every message are of known kinds, and a kind that takes   *)
(* as many bytes as there are comes last.                                  *)
WellLaidOut(layout) ==
  /\ layout \in Seq(Kinds)
  /\ \A i \in 1 .. Len(layout) : layout[i] \in Greedy => i = Len(layout)

(* The message types by group; no name is in two groups.                   *)
LEMMA Groups ==
  /\ DOMAIN RelayLayouts =
       {"SingleChannelControlCommand", "SingleChannelControlResponse",
        "SceneControl", "SceneControlResponse", "ZoneBeastBroadcast"}
  /\ DOMAIN ModuleLayouts =
       {"QueryModules", "QueryModulesResponse"}
  /\ DOMAIN PanelLayouts =
       {"PanelControlResponse", "QueryChannelStatuses",
        "QueryChannelStatusesResponse", "QueryPanelButtonAssignment",
        "QueryPanelButtonAssignmentResponse", "AssignPanelButton",
        "AssignPanelButtonResponse", "SetPanelButtonModes",
        "SetPanelButtonModesResponse"}
  /\ DOMAIN SensorLayouts =
       {"ReadMACAddress", "ReadMACAddressResponse", "ReadTemperatureValues",
        "ReadTemperatureValuesResponse", "ReadSensorStatus",
        "ReadSensorStatusResponse", "SensorStatusBroadcast"}
  BY DEF RelayLayouts, ModuleLayouts, PanelLayouts, SensorLayouts

(* The layouts of the messages of each group.                              *)
LEMMA LayoutsByGroup ==
  /\ \A m \in DOMAIN RelayLayouts : Layout(m) = RelayLayouts[m]
  /\ \A m \in DOMAIN ModuleLayouts : Layout(m) = ModuleLayouts[m]
  /\ \A m \in DOMAIN PanelLayouts : Layout(m) = PanelLayouts[m]
  /\ \A m \in DOMAIN SensorLayouts : Layout(m) = SensorLayouts[m]
  <1>1. ASSUME NEW m \in DOMAIN RelayLayouts PROVE Layout(m) = RelayLayouts[m]
    <2>1. m \notin DOMAIN ModuleLayouts /\ m \notin DOMAIN PanelLayouts
          /\ m \notin DOMAIN SensorLayouts
      BY Groups
    <2>2. QED
      BY <2>1, Zenon DEF Layout
  <1>2. ASSUME NEW m \in DOMAIN ModuleLayouts PROVE Layout(m) = ModuleLayouts[m]
    <2>1. m \notin DOMAIN RelayLayouts /\ m \notin DOMAIN PanelLayouts
          /\ m \notin DOMAIN SensorLayouts
      BY Groups
    <2>2. QED
      BY <2>1, Zenon DEF Layout
  <1>3. ASSUME NEW m \in DOMAIN PanelLayouts PROVE Layout(m) = PanelLayouts[m]
    <2>1. m \notin DOMAIN RelayLayouts /\ m \notin DOMAIN ModuleLayouts
          /\ m \notin DOMAIN SensorLayouts
      BY Groups
    <2>2. QED
      BY <2>1, Zenon DEF Layout
  <1>4. ASSUME NEW m \in DOMAIN SensorLayouts PROVE Layout(m) = SensorLayouts[m]
    <2>1. m \notin DOMAIN RelayLayouts /\ m \notin DOMAIN ModuleLayouts
          /\ m \notin DOMAIN PanelLayouts
      BY Groups
    <2>2. QED
      BY <2>1, Zenon DEF Layout
  <1>5. QED
    BY <1>1, <1>2, <1>3, <1>4

(* All layouts are such.                                                   *)
LEMMA LayoutsGood == \A m \in MessageTypes : WellLaidOut(Layout(m))
  <1>1. ASSUME NEW m \in DOMAIN RelayLayouts PROVE WellLaidOut(RelayLayouts[m])
    <2>1. CASE m = "SingleChannelControlCommand"
      BY <2>1 DEF RelayLayouts, WellLaidOut, Kinds, Greedy
    <2>2. CASE m = "SingleChannelControlResponse"
      BY <2>2 DEF RelayLayouts, WellLaidOut, Kinds, Greedy
    <2>3. CASE m = "SceneControl"
      BY <2>3 DEF RelayLayouts, WellLaidOut, Kinds, Greedy
    <2>4. CASE m = "SceneControlResponse"
      BY <2>4 DEF RelayLayouts, WellLaidOut, Kinds, Greedy
    <2>5. CASE m = "ZoneBeastBroadcast"
      BY <2>5 DEF RelayLayouts, WellLaidOut, Kinds, Greedy
    <2>6. QED
      BY Groups, <2>1, <2>2, <2>3, <2>4, <2>5
  <1>2. ASSUME NEW m \in DOMAIN ModuleLayouts PROVE WellLaidOut(ModuleLayouts[m])
    <2>1. CASE m = "QueryModules"
      BY <2>1 DEF ModuleLayouts, WellLaidOut, Kinds, Greedy
    <2>2. CASE m = "QueryModulesResponse"
      BY <2>2 DEF ModuleLayouts, WellLaidOut, Kinds, Greedy
    <2>3. QED
      BY Groups, <2>1, <2>2
  <1>3. ASSUME NEW m \in DOMAIN PanelLayouts PROVE WellLaidOut(PanelLayouts[m])
    <2>1. CASE m = "PanelControlResponse"
      BY <2>1 DEF PanelLayouts, WellLaidOut, Kinds, Greedy
    <2>2. CASE m = "QueryChannelStatuses"
      BY <2>2 DEF PanelLayouts, WellLaidOut, Kinds, Greedy
    <2>3. CASE m = "QueryChannelStatusesResponse"
      BY <2>3 DEF PanelLayouts, WellLaidOut, Kinds, Greedy
    <2>4. CASE m = "QueryPanelButtonAssignment"
      BY <2>4 DEF PanelLayouts, WellLaidOut, Kinds, Greedy
    <2>5. CASE m = "QueryPanelButtonAssignmentResponse"
      BY <2>5 DEF PanelLayouts, WellLaidOut, Kinds, Greedy
    <2>6. CASE m = "AssignPanelButton"
      BY <2>6 DEF PanelLayouts, WellLaidOut, Kinds, Greedy
    <2>7. CASE m = "AssignPanelButtonResponse"
      BY <2>7 DEF PanelLayouts, WellLaidOut, Kinds, Greedy
    <2>8. CASE m = "SetPanelButtonModes"
      BY <2>8 DEF PanelLayouts, WellLaidOut, Kinds, Greedy
    <2>9. CASE m = "SetPanelButtonModesResponse"
      BY <2>9 DEF PanelLayouts, WellLaidOut, Kinds, Greedy
    <2>10. QED
      BY Groups, <2>1, <2>2, <2>3, <2>4, <2>5, <2>6, <2>7, <2>8, <2>9
  <1>4. ASSUME NEW m \in DOMAIN SensorLayouts PROVE WellLaidOut(SensorLayouts[m])
    <2>1. CASE m = "ReadMACAddress"
      BY <2>1 DEF SensorLayouts, WellLaidOut, Kinds, Greedy
    <2>2. CASE m = "ReadMACAddressResponse"
      BY <2>2 DEF SensorLayouts, WellLaidOut, Kinds, Greedy
    <2>3. CASE m = "ReadTemperatureValues"
      BY <2>3 DEF SensorLayouts, WellLaidOut, Kinds, Greedy
    <2>4. CASE m = "ReadTemperatureValuesResponse"
      BY <2>4 DEF SensorLayouts, WellLaidOut, Kinds, Greedy
    <2>5. CASE m = "ReadSensorStatus"
      BY <2>5 DEF SensorLayouts, WellLaidOut, Kinds, Greedy
    <2>6. CASE m = "ReadSensorStatusResponse"
      BY <2>6 DEF SensorLayouts, WellLaidOut, Kinds, Greedy
    <2>7. CASE m = "SensorStatusBroadcast"
      BY <2>7 DEF SensorLayouts, WellLaidOut, Kinds, Greedy
    <2>8. QED
      BY Groups, <2>1, <2>2, <2>3, <2>4, <2>5, <2>6, <2>7
  <1>5. QED
    BY <1>1, <1>2, <1>3, <1>4, LayoutsByGroup DEF MessageTypes

(* No two message types have the same opcode: RegisterMessage replaces no  *)
(* parser that it registered before.                                       *)
LEMMA OpcodesDiffer ==
  \A m1, m2 \in MessageTypes : Opcode(m1) = Opcode(m2) => m1 = m2
  BY DEF MessageTypes, Opcode, RelayLayouts, ModuleLayouts, PanelLayouts, SensorLayouts

(* An opcode is a word.                                                    *)
LEMMA OpcodeWord == \A m \in MessageTypes : Opcode(m) \in Uint16
  <1> DEFINE Opcodes ==
         {\h0031, \h0032, \h0002, \h0003, \hefff, \h0286, \h0287, \he3d9,
          \h0033, \h0034, \he000, \he001, \he002, \he003, \he00a, \he00b,
          \hf003, \hf004, \he3e7, \he3e8, \h1645, \h1646, \h1647}
  <1>1. \A m \in MessageTypes : Opcode(m) \in Opcodes
    BY DEF MessageTypes, Opcode, RelayLayouts, ModuleLayouts, PanelLayouts, SensorLayouts
  <1>2. Opcodes \subseteq Uint16
    BY DEF Uint16
  <1>3. QED
    BY <1>1, <1>2

(* The opcode in a frame selects the parser of its own message type.       *)
LEMMA OwnParser ==
  ASSUME NEW m \in Messages
  PROVE  recognizedMessages(Word(WordBytes(Opcode(m)))) = {m}
  <1>1. Opcode(m) \in Uint16
    BY OpcodeWord, MessagesAssumption
  <1>2. Word(WordBytes(Opcode(m))) = Opcode(m)
    BY <1>1, WordOfBytes DEF Word, WordBytes
  <1>3. QED
    BY <1>2, OpcodesDiffer, MessagesAssumption DEF recognizedMessages

-----------------------------------------------------------------------------
(* The CRC (crc16.go).                                                     *)

(* A set of natural numbers that is not empty has a least member.          *)
LEMMA LeastMember ==
  ASSUME NEW T, T \subseteq Nat, T # {}
  PROVE  \E n \in T : \A k \in T : n <= k
  <1>1. PICK n \in T : \A k \in T : ~ (<<k, n>> \in OpToRel(<, Nat))
    BY WFMin, NatLessThanWellFounded
  <1>2. \A k \in T : <<k, n>> \in OpToRel(<, Nat) <=> k < n
    BY DEF OpToRel
  <1>3. \A k \in T : ~ (k < n)
    BY <1>1, <1>2, Zenon
  <1>4. \A k \in T : n <= k
    BY <1>3
  <1>5. QED
    BY <1>4

(* Induction, for a set.                                                   *)
LEMMA SetInduction ==
  ASSUME NEW S, 0 \in S, \A n \in Nat : n \in S => n + 1 \in S
  PROVE  Nat \subseteq S
  <1> DEFINE T == Nat \ S
  <1>1. SUFFICES ASSUME T # {} PROVE FALSE
    OBVIOUS
  <1>2. PICK n \in T : \A k \in T : n <= k
    BY <1>1, LeastMember
  <1>3. n \in Nat /\ n > 0
    BY <1>2
  <1>4. n - 1 \in Nat /\ n - 1 \notin T
    BY <1>2, <1>3
  <1>5. QED
    BY <1>2, <1>3, <1>4

(* Exclusive or gives a byte or a word, whatever it is applied to, and so  *)
(* does the update of the sum.                                             *)
LEMMA XorTyped ==
  ASSUME NEW a, NEW b
  PROVE  Xor8(a, b) \in Byte /\ Xor16(a, b) \in Uint16
  <1>1. \A x, y : Xor8(x, y) \in Byte
    BY DEF Xor8, Byte
  <1>2. \A x, y \in Byte : 256 * x + y \in Uint16
    BY DEF Byte, Uint16
  <1>3. QED
    BY <1>1, <1>2 DEF Xor16

(* The sum remains a word.                                                 *)
LEMMA UpdateTyped == \A b, prev : update_crc16(b, prev) \in Uint16
  BY XorTyped DEF update_crc16

(* Accumulate for an operation that is given as a function op: the         *)
(* recursion over the parts of a sequence s.                               *)
Step(op, f, s, i, j, p) ==
  IF i >= j THEN op[<<s[i], p>>]
  ELSE f[<<((i + j) \div 2) + 1, j, f[<<i, (i + j) \div 2, p>>]>>]

Sums(op, f, s) ==
  f = [x \in (DOMAIN s) \X (DOMAIN s) \X Uint16 |-> Step(op, f, s, x[1], x[2], x[3])]

(* The same as a loop: acc[n] is what the first n members of s make of p.  *)
Loop(op, acc, p, s) ==
  /\ acc \in [Nat -> Uint16]
  /\ acc[0] = p
  /\ \A n \in 1 .. Len(s) : acc[n] = op[<<s[n], acc[n - 1]>>]

(* The recursion has a solution: the halves of a part of the sequence are  *)
(* shorter than the part.                                                  *)
LEMMA SumsExist ==
  ASSUME NEW S, NEW s \in Seq(S), NEW op \in [S \X Uint16 -> Uint16]
  PROVE  \E f : Sums(op, f, s)
  <1> DEFINE D == DOMAIN s
             F == [D \X D \X Uint16 -> Uint16]
             Upto(f, n) == \A i, j \in D : \A p \in Uint16 :
                             j - i <= n => f[<<i, j, p>>] = Step(op, f, s, i, j, p)
             N == {n \in Nat : \E f \in F : Upto(f, n)}
  <1>1. D = 1 .. Len(s) /\ Len(s) \in Nat
    OBVIOUS
  <1>2. \A i \in D : \A p \in Uint16 : op[<<s[i], p>>] \in Uint16
    OBVIOUS
  <1> HIDE DEF D
  <1>3. 0 \in N
    <2> DEFINE f == [x \in D \X D \X Uint16 |-> op[<<s[x[1]], x[3]>>]]
    <2>1. f \in F
      BY <1>2
    <2>2. Upto(f, 0)
      BY <1>1 DEF Step
    <2>3. QED
      BY <2>1, <2>2
  <1>4. ASSUME NEW n \in Nat, n \in N PROVE n + 1 \in N
    <2>1. PICK f \in F : Upto(f, n)
      BY <1>4
    <2> DEFINE g == [x \in D \X D \X Uint16 |->
                       IF x[2] - x[1] <= n THEN f[x] ELSE Step(op, f, s, x[1], x[2], x[3])]
    <2>2. ASSUME NEW i \in D, NEW j \in D, NEW p \in Uint16
          PROVE  Step(op, f, s, i, j, p) \in Uint16
      <3>1. CASE i >= j
        BY <1>2, <3>1 DEF Step
      <3>2. CASE ~ (i >= j)
        <4>1. (i + j) \div 2 \in D /\ ((i + j) \div 2) + 1 \in D
          BY <1>1, <3>2
        <4>2. f[<<i, (i + j) \div 2, p>>] \in Uint16
          BY <4>1
        <4>3. QED
          BY <3>2, <4>1, <4>2 DEF Step
      <3>3. QED
        BY <3>1, <3>2
    <2>3. g \in F
      BY <2>2
    <2>4. Upto(g, n + 1)
      <3> SUFFICES ASSUME NEW i \in D, NEW j \in D, NEW p \in Uint16, j - i <= n + 1
                   PROVE  g[<<i, j, p>>] = Step(op, g, s, i, j, p)
        OBVIOUS
      <3>1. g[<<i, j, p>>] = Step(op, f, s, i, j, p)
        BY <2>1
      <3>2. CASE i >= j
        BY <3>1, <3>2 DEF Step
      <3>3. CASE ~ (i >= j)
        <4> DEFINE m == (i + j) \div 2
        <4>1. m \in D /\ m + 1 \in D /\ m - i <= n /\ j - (m + 1) <= n
          BY <1>1, <3>3
        <4> HIDE DEF m
        <4>2. f[<<i, m, p>>] \in Uint16 /\ g[<<i, m, p>>] = f[<<i, m, p>>]
          BY <4>1
        <4>3. g[<<m + 1, j, f[<<i, m, p>>]>>] = f[<<m + 1, j, f[<<i, m, p>>]>>]
          BY <4>1, <4>2
        <4>4. QED
          BY <3>1, <3>3, <4>2, <4>3 DEF Step, m
      <3>4. QED
        BY <3>2, <3>3
    <2> HIDE DEF g, F, Upto
    <2>5. \E h \in F : Upto(h, n + 1)
      BY <2>3, <2>4, Zenon
    <2>6. QED
      BY <2>5
  <1>5. Nat \subseteq N
    BY <1>3, <1>4, SetInduction
  <1>6. PICK f \in F : Upto(f, Len(s))
    BY <1>1, <1>5
  <1>7. \A i, j \in D : \A p \in Uint16 : f[<<i, j, p>>] = Step(op, f, s, i, j, p)
    <2>1. \A i, j \in D : j - i <= Len(s)
      BY <1>1
    <2>2. QED
      BY <1>6, <2>1, Zenon
  <1>8. f = [x \in D \X D \X Uint16 |-> Step(op, f, s, x[1], x[2], x[3])]
    BY <1>7
  <1>9. Sums(op, f, s)
    BY <1>8 DEF Sums, D
  <1>10. QED
    BY <1>9

(* Every solution is what the loop computes.                               *)
LEMMA SumsLoop ==
  ASSUME NEW S, NEW s \in Seq(S), NEW op \in [S \X Uint16 -> Uint16],
         NEW p \in Uint16,
         NEW f, Sums(op, f, s), NEW acc, Loop(op, acc, p, s), Len(s) > 0
  PROVE  f[<<1, Len(s), p>>] = acc[Len(s)]
  <1> DEFINE D == DOMAIN s
             N == {n \in Nat : \A i, j \in D :
                     i <= j /\ j - i <= n => f[<<i, j, acc[i - 1]>>] = acc[j]}
  <1>1. D = 1 .. Len(s) /\ Len(s) \in Nat
    OBVIOUS
  <1>2. \A i, j \in D : \A q \in Uint16 : f[<<i, j, q>>] = Step(op, f, s, i, j, q)
    BY DEF Sums
  <1> HIDE DEF D
  <1>3. /\ \A i \in D : acc[i - 1] \in Uint16
        /\ \A i \in D : acc[i] = op[<<s[i], acc[i - 1]>>]
    BY <1>1 DEF Loop
  <1>4. 0 \in N
    <2> SUFFICES ASSUME NEW i \in D, NEW j \in D, i <= j, j - i <= 0
                 PROVE  f[<<i, j, acc[i - 1]>>] = acc[j]
      OBVIOUS
    <2>1. i = j
      BY <1>1
    <2>2. f[<<i, i, acc[i - 1]>>] = op[<<s[i], acc[i - 1]>>]
      <3>1. i >= i
        BY <1>1
      <3>2. Step(op, f, s, i, i, acc[i - 1]) = op[<<s[i], acc[i - 1]>>]
        BY <3>1 DEF Step
      <3>3. QED
        BY <1>2, <1>3, <3>2
    <2>3. QED
      BY <1>3, <2>1, <2>2
  <1>5. ASSUME NEW n \in Nat, n \in N PROVE n + 1 \in N
    <2> SUFFICES ASSUME NEW i \in D, NEW j \in D, i <= j, j - i <= n + 1
                 PROVE  f[<<i, j, acc[i - 1]>>] = acc[j]
      OBVIOUS
    <2>1. CASE i = j
      <3>1. j - i <= n
        BY <1>1, <2>1
      <3>2. QED
        BY <1>5, <3>1
    <2>2. CASE i # j
      <3> DEFINE m == (i + j) \div 2
      <3>1. /\ m \in D /\ m + 1 \in D /\ (m + 1) - 1 = m
            /\ i <= m /\ m + 1 <= j /\ m - i <= n /\ j - (m + 1) <= n /\ ~ (i >= j)
        BY <1>1, <2>2
      <3>2. f[<<i, j, acc[i - 1]>>] = f[<<m + 1, j, f[<<i, m, acc[i - 1]>>]>>]
        BY <1>2, <1>3, <3>1 DEF Step
      <3> HIDE DEF m
      <3>3. f[<<i, m, acc[i - 1]>>] = acc[m]
        BY <1>5, <3>1
      <3>4. f[<<m + 1, j, acc[m]>>] = acc[j]
        BY <1>5, <3>1
      <3>5. QED
        BY <3>2, <3>3, <3>4
    <2>3. QED
      BY <2>1, <2>2
  <1>6. Nat \subseteq N
    BY <1>4, <1>5, SetInduction
  <1>7. Len(s) \in N
    BY <1>1, <1>6
  <1>8. 1 \in D /\ Len(s) \in D /\ 1 <= Len(s) /\ Len(s) - 1 <= Len(s) /\ acc[1 - 1] = p
    BY <1>1 DEF Loop
  <1>9. f[<<1, Len(s), acc[1 - 1]>>] = acc[Len(s)]
    BY <1>7, <1>8
  <1>10. QED
    BY <1>8, <1>9

(* The loop can be run from every word.                                    *)
LEMMA LoopExists ==
  ASSUME NEW S, NEW s \in Seq(S), NEW op \in [S \X Uint16 -> Uint16], NEW p \in Uint16
  PROVE  \E acc : Loop(op, acc, p, s)
  <1> DEFINE l == Len(s)
             Upto(f, k) == \A n \in 1 .. k : n <= l => f[n] = op[<<s[n], f[n - 1]>>]
             N == {k \in Nat : \E f \in [Nat -> Uint16] : f[0] = p /\ Upto(f, k)}
  <1>1. l \in Nat /\ \A n \in 1 .. l : s[n] \in S
    OBVIOUS
  <1> HIDE DEF l
  <1>2. 0 \in N
    <2> DEFINE f == [n \in Nat |-> p]
    <2>1. f \in [Nat -> Uint16] /\ f[0] = p
      OBVIOUS
    <2> HIDE DEF f
    <2>2. Upto(f, 0)
      OBVIOUS
    <2>3. QED
      BY <2>1, <2>2
  <1>3. ASSUME NEW k \in Nat, k \in N PROVE k + 1 \in N
    <2>1. PICK f \in [Nat -> Uint16] : f[0] = p /\ Upto(f, k)
      BY <1>3
    <2> DEFINE v == IF k + 1 <= l THEN op[<<s[k + 1], f[k]>>] ELSE p
               g == [f EXCEPT ![k + 1] = v]
    <2>2. v \in Uint16
      BY <1>1
    <2>3. k + 1 <= l => v = op[<<s[k + 1], f[k]>>]
      OBVIOUS
    <2> HIDE DEF v
    <2>4. /\ g \in [Nat -> Uint16] /\ g[k + 1] = v
          /\ \A n \in Nat : n # k + 1 => g[n] = f[n]
      BY <2>2
    <2> HIDE DEF g
    <2>5. g[0] = p /\ g[k] = f[k] /\ (k + 1) - 1 = k
      BY <2>1, <2>4
    <2>6. ASSUME NEW n \in 1 .. (k + 1), n <= l PROVE g[n] = op[<<s[n], g[n - 1]>>]
      <3>1. CASE n = k + 1
        BY <2>3, <2>4, <2>5, <2>6, <3>1
      <3>2. CASE n \in 1 .. k
        <4>1. n \in Nat /\ n - 1 \in Nat /\ n # k + 1 /\ n - 1 # k + 1
          BY <3>2
        <4>2. QED
          BY <2>1, <2>4, <2>6, <3>2, <4>1
      <3>3. QED
        BY <3>1, <3>2
    <2>7. QED
      BY <2>4, <2>5, <2>6
  <1> HIDE DEF N
  <1>4. Nat \subseteq N
    BY <1>2, <1>3, SetInduction
  <1>5. PICK f \in [Nat -> Uint16] : f[0] = p /\ Upto(f, l)
    BY <1>1, <1>4 DEF N
  <1>6. Loop(op, f, p, s)
    BY <1>1, <1>5 DEF Loop, l
  <1>7. QED
    BY <1>6

(* update_crc16 as a function.                                             *)
Update == [x \in Byte \X Uint16 |-> update_crc16(x[1], x[2])]

LEMMA UpdateFunction ==
  /\ Update \in [Byte \X Uint16 -> Uint16]
  /\ \A b \in Byte, p \in Uint16 : Update[<<b, p>>] = update_crc16(b, p)
  BY UpdateTyped DEF Update

(* crc16, which the model computes one half of the frame after the other,  *)
(* is what the loop of the code computes byte by byte: with crc[n] the     *)
(* value of the variable after n bytes, the result is that after all.      *)
THEOREM CrcIsLoop ==
  ASSUME NEW bs \in Seq(Byte), Len(bs) > 0,
         NEW crc, Loop(Update, crc, 0, bs)
  PROVE  crc16(bs) = crc[Len(bs)]
  <1> DEFINE D == DOMAIN bs
             P(f) == f = [x \in D \X D \X Uint16 |->
                            IF x[1] >= x[2] THEN update_crc16(bs[x[1]], x[3])
                            ELSE f[<<((x[1] + x[2]) \div 2) + 1, x[2],
                                     f[<<x[1], (x[1] + x[2]) \div 2, x[3]>>]>>]]
             g == CHOOSE f : P(f)
  <1>1. crc16(bs) = g[<<1, Len(bs), 0>>]
    BY DEF crc16, Accumulate
  <1>2. \A i \in D : bs[i] \in Byte
    OBVIOUS
  <1>3. ASSUME NEW f PROVE Sums(Update, f, bs) <=> P(f)
    <2>1. \A x \in D \X D \X Uint16 : Update[<<bs[x[1]], x[3]>>] = update_crc16(bs[x[1]], x[3])
      BY <1>2, UpdateFunction
    <2>2. QED
      BY <2>1 DEF Sums, Step
  <1> HIDE DEF P
  <1>4. P(g)
    BY <1>3, SumsExist, UpdateFunction
  <1>5. Sums(Update, g, bs)
    BY <1>3, <1>4
  <1> HIDE DEF g
  <1>6. 0 \in Uint16
    BY DEF Uint16
  <1>7. g[<<1, Len(bs), 0>>] = crc[Len(bs)]
    BY <1>5, <1>6, SumsLoop, UpdateFunction
  <1>8. QED
    BY <1>1, <1>7

(* The loop of crc16.                                                      *)
LEMMA CrcLoop ==
  ASSUME NEW bs \in Seq(Byte)
  PROVE  \E crc : /\ Loop(Update, crc, 0, bs) /\ crc[0] = 0 /\ crc \in [Nat -> Uint16]
                 /\ \A n \in 1 .. Len(bs) : crc[n] = update_crc16(bs[n], crc[n - 1])
  <1>1. 0 \in Uint16
    BY DEF Uint16
  <1>2. Update \in [Byte \X Uint16 -> Uint16]
    BY UpdateFunction
  <1>3. PICK crc : Loop(Update, crc, 0, bs)
    BY <1>1, <1>2, LoopExists
  <1>4. crc[0] = 0
    BY <1>3 DEF Loop
  <1>5. crc \in [Nat -> Uint16]
    BY <1>3 DEF Loop
  <1>6. ASSUME NEW n \in 1 .. Len(bs) PROVE crc[n] = update_crc16(bs[n], crc[n - 1])
    <2>1. crc[n] = Update[<<bs[n], crc[n - 1]>>]
      BY <1>3 DEF Loop
    <2>2. n - 1 \in Nat /\ bs[n] \in Byte
      OBVIOUS
    <2>3. crc[n - 1] \in Uint16
      BY <1>5, <2>2
    <2>4. QED
      BY <2>1, <2>2, <2>3, UpdateFunction
  <1>7. QED
    BY <1>3, <1>4, <1>5, <1>6

(* The CRC of a frame is a word.                                           *)
LEMMA CrcTyped ==
  ASSUME NEW bs \in Seq(Byte), Len(bs) > 0
  PROVE  crc16(bs) \in Uint16
  <1>1. PICK crc : Loop(Update, crc, 0, bs) /\ crc \in [Nat -> Uint16]
    BY CrcLoop
  <1>2. crc16(bs) = crc[Len(bs)]
    BY <1>1, CrcIsLoop
  <1>3. QED
    BY <1>1, <1>2

-----------------------------------------------------------------------------
(* Reading what anybody may have sent (ParseMessage).                      *)

(* What a converter may answer: an error, a panic, or a value of its kind  *)
(* with the number of bytes it took, never more than there were.           *)
Answer(kind, bs, r) ==
  \/ r = Fails("error")
  \/ r = Fails("panic")
  \/ \E v \in Values(kind), n \in 0 .. Len(bs) : r = Got(v, n)

LEMMA GotAnswer ==
  ASSUME NEW kind, NEW bs, NEW v, NEW n,
         v \in Values(kind), n \in 0 .. Len(bs)
  PROVE  Answer(kind, bs, Got(v, n))
  BY DEF Answer

(* The first byte, and the range of a byte.                                *)
LEMMA FirstByte ==
  ASSUME NEW bs \in Seq(Byte), bs # <<>>
  PROVE  Len(bs) >= 1 /\ bs[1] \in Byte
  OBVIOUS

LEMMA ByteRange == \A b \in Byte : b \in Nat /\ b <= 255
  BY DEF Byte

(* Two bytes make a word.                                                  *)
LEMMA TwoBytes == \A a, b \in Byte : 256 * a + b \in Uint16
  BY DEF Byte, Uint16

(* The converters that take a fixed number of bytes.                       *)
LEMMA FixedAnswer ==
  ASSUME NEW kind \in {"byte", "word", "mac", "flag", "success",
                       "panelButtonModes", "sensorTemp"},
         NEW bs \in Seq(Byte)
  PROVE  Answer(kind, bs, Read(kind, bs))
  <1>1. \A n \in Nat : n <= Len(bs) =>
          /\ n \in 0 .. Len(bs)
          /\ \A i \in 1 .. n : SubSeq(bs, 1, n)[i] = bs[i] /\ bs[i] \in Byte
    OBVIOUS
  <1>2. CASE kind = "byte"
    <2>1. Read(kind, bs) = IF Len(bs) < 1 THEN Fails("error") ELSE Got(SubSeq(bs, 1, 1)[1], 1)
      BY <1>2 DEF Read, ReadFixed
    <2>2. Values(kind) = Byte
      BY <1>2 DEF Values
    <2>3. ~ (Len(bs) < 1) => SubSeq(bs, 1, 1)[1] \in Byte /\ 1 \in 0 .. Len(bs)
      BY <1>1
    <2>4. QED
      BY <2>1, <2>2, <2>3 DEF Answer
  <1>3. CASE kind = "word"
    <2>1. Read(kind, bs) =
            IF Len(bs) < 2 THEN Fails("error")
            ELSE Got(256 * SubSeq(bs, 1, 2)[1] + SubSeq(bs, 1, 2)[2], 2)
      BY <1>3 DEF Read, ReadFixed
    <2>2. Values(kind) = Uint16
      BY <1>3 DEF Values
    <2>3. \A a, b \in Byte : 256 * a + b \in Uint16
      BY TwoBytes
    <2>4. ~ (Len(bs) < 2) =>
            /\ SubSeq(bs, 1, 2)[1] \in Byte /\ SubSeq(bs, 1, 2)[2] \in Byte
            /\ 2 \in 0 .. Len(bs)
      BY <1>1
    <2>5. QED
      BY <2>1, <2>2, <2>3, <2>4 DEF Answer
  <1>4. CASE kind = "mac"
    <2>1. Read(kind, bs) = IF Len(bs) < 8 THEN Fails("error") ELSE Got(SubSeq(bs, 1, 8), 8)
      BY <1>4 DEF Read, ReadFixed
    <2>2. Values(kind) = [1 .. 8 -> Byte]
      BY <1>4 DEF Values
    <2>3. ASSUME ~ (Len(bs) < 8)
          PROVE  SubSeq(bs, 1, 8) \in [1 .. 8 -> Byte] /\ 8 \in 0 .. Len(bs)
      <3>1. SubSeq(bs, 1, 8) = [i \in 1 .. 8 |-> bs[i]]
        BY <2>3, FirstBytes
      <3>2. 8 \in 0 .. Len(bs) /\ \A i \in 1 .. 8 : bs[i] \in Byte
        BY <1>1, <2>3
      <3>3. QED
        BY <3>1, <3>2
    <2>4. QED
      BY <2>1, <2>2, <2>3 DEF Answer
  <1>5. CASE kind \in {"flag", "success"}
    <2> DEFINE map == IF kind = "flag" THEN FlagMap ELSE SuccessMap
    <2>1. Read(kind, bs) =
            IF Len(bs) < 1 THEN Fails("error")
            ELSE Got(Mapped(map, SubSeq(bs, 1, 1)[1], FALSE), 1)
      BY <1>5 DEF Read, ReadFixed
    <2>2. Values(kind) = BOOLEAN
      BY <1>5 DEF Values
    <2>3. \A b : Mapped(map, b, FALSE) \in BOOLEAN
      BY DEF Mapped, FlagMap, SuccessMap
    <2>4. ~ (Len(bs) < 1) => 1 \in 0 .. Len(bs)
      BY <1>1
    <2> HIDE DEF map
    <2>5. QED
      BY <2>1, <2>2, <2>3, <2>4 DEF Answer
  <1>6. CASE kind = "panelButtonModes"
    <2> DEFINE f == [i \in 1 .. 16 |-> Mapped(ModeMap, SubSeq(bs, 1, 16)[i], -1)]
    <2>1. Read(kind, bs) = IF Len(bs) < 16 THEN Fails("error") ELSE Got(f, 16)
      BY <1>6 DEF Read, ReadFixed, Panel
    <2>2. Values(kind) = [1 .. 16 -> -1 .. 10]
      BY <1>6 DEF Values, Panel
    <2>3. \A b : Mapped(ModeMap, b, -1) \in -1 .. 10
      BY DEF Mapped, ModeMap
    <2>4. f \in [1 .. 16 -> -1 .. 10]
      BY <2>3
    <2>5. ~ (Len(bs) < 16) => 16 \in 0 .. Len(bs)
      BY <1>1
    <2> HIDE DEF f
    <2>6. QED
      BY <2>1, <2>2, <2>4, <2>5 DEF Answer
  <1>7. CASE kind = "sensorTemp"
    <2>1. Read(kind, bs) =
            IF Len(bs) < 1 THEN Fails("error") ELSE Got(SubSeq(bs, 1, 1)[1] - 20, 1)
      BY <1>7 DEF Read, ReadFixed
    <2>2. Values(kind) = Int
      BY <1>7 DEF Values
    <2>3. \A b \in Byte : b - 20 \in Int
      BY DEF Byte
    <2>4. ~ (Len(bs) < 1) => SubSeq(bs, 1, 1)[1] \in Byte /\ 1 \in 0 .. Len(bs)
      BY <1>1
    <2>5. QED
      BY <2>1, <2>2, <2>3, <2>4 DEF Answer
  <1>8. QED
    BY <1>2, <1>3, <1>4, <1>5, <1>6, <1>7

(* The channel status: more than 248 channels, whose number of bytes wraps *)
(* around in uint8, never reach a value.                                   *)
LEMMA ChannelStatusAnswer ==
  ASSUME NEW bs \in Seq(Byte)
  PROVE  Answer("channelStatus", bs, Read("channelStatus", bs))
  <1>1. Read("channelStatus", bs) = ReadChannelStatus(bs)
    BY DEF Read
  <1>2. CASE bs = <<>>
    <2>1. ReadChannelStatus(bs) = Got(<<>>, 0)
      BY <1>2 DEF ReadChannelStatus
    <2>2. <<>> \in Values("channelStatus") /\ 0 \in 0 .. Len(bs)
      BY DEF Values
    <2>3. QED
      BY <1>1, <2>1, <2>2, GotAnswer
  <1>3. CASE bs # <<>>
    <2> DEFINE n == bs[1]
               count == ((n + 7) % 256) \div 8
    <2>1. n \in Nat /\ n <= 255
      BY <1>3, FirstByte, ByteRange
    <2>2. ReadChannelStatus(bs) =
            CASE Len(bs) - 1 < count -> Fails("error")
              [] Len(bs) - 1 >= count /\ 8 * count < n -> Fails("panic")
              [] OTHER -> Got(Bits(bs, n), 1 + count)
      BY <1>3, Zenon DEF ReadChannelStatus
    <2>3. count \in Nat /\ count <= 31
      BY <2>1
    <2> HIDE DEF n, count
    <2>4. ReadChannelStatus(bs) \in {Fails("error"), Fails("panic")}
          \/ /\ ~ (Len(bs) - 1 < count) /\ ~ (8 * count < n)
             /\ ReadChannelStatus(bs) = Got(Bits(bs, n), 1 + count)
      BY <2>1, <2>2, <2>3
    <2>5. ASSUME ~ (Len(bs) - 1 < count), ~ (8 * count < n)
          PROVE  Bits(bs, n) \in Values("channelStatus") /\ 1 + count \in 0 .. Len(bs)
      <3>1. Bits(bs, n) \in [1 .. n -> BOOLEAN]
        BY DEF Bits
      <3>2. Bits(bs, n) \in Seq(BOOLEAN) /\ Len(Bits(bs, n)) = n
        BY <2>1, <3>1, ArraySeq
      <3>3. 1 + count \in 0 .. Len(bs)
        BY <2>3, <2>5
      <3> DEFINE s == Bits(bs, n)
      <3> HIDE DEF s
      <3>4. s \in Seq(BOOLEAN) /\ Len(s) <= 255
        BY <2>1, <3>2 DEF s
      <3>5. s \in Values("channelStatus")
        BY <3>4 DEF Values
      <3>6. QED
        BY <3>3, <3>5 DEF s
    <2>6. QED
      BY <1>1, <2>4, <2>5 DEF Answer
  <1>4. QED
    BY <1>2, <1>3

(* The converters that take a list, and QueryModulesResponse.FromRaw.      *)
LEMMA ListAnswer ==
  ASSUME NEW kind \in {"statusBytes", "templist", "remark", "modules"},
         NEW bs \in Seq(Byte)
  PROVE  Answer(kind, bs, Read(kind, bs))
  <1>1. CASE kind = "statusBytes"
    <2>1. Read(kind, bs) =
            IF bs = <<>> \/ Len(bs) - 1 < bs[1] THEN Fails("error")
            ELSE Got(SubSeq(bs, 2, bs[1] + 1), bs[1] + 1)
      BY <1>1 DEF Read, ReadStatusBytes
    <2>2. ASSUME bs # <<>>, ~ (Len(bs) - 1 < bs[1])
          PROVE  SubSeq(bs, 2, bs[1] + 1) \in Values(kind) /\ bs[1] + 1 \in 0 .. Len(bs)
      <3>1. bs[1] \in Nat /\ bs[1] <= 255 /\ bs[1] + 1 <= Len(bs)
        <4>1. bs[1] \in Nat /\ bs[1] <= 255
          BY <2>2, FirstByte, ByteRange
        <4>2. QED
          BY <2>2, <4>1
      <3> DEFINE n == bs[1]
                 s == SubSeq(bs, 2, n + 1)
      <3> HIDE DEF n
      <3>2. s \in Seq(Byte) /\ Len(s) = n
        BY <3>1 DEF n
      <3> HIDE DEF s
      <3>3. s \in Seq(Byte) /\ Len(s) <= 255
        BY <3>1, <3>2 DEF n
      <3>4. s \in Values(kind)
        BY <1>1, <3>3 DEF Values
      <3>5. QED
        BY <3>1, <3>4 DEF s, n
    <2>3. QED
      BY <2>1, <2>2 DEF Answer
  <1>2. CASE kind = "templist"
    <2> DEFINE n == Taken(bs, 8)
               f == [i \in 1 .. n |-> Int8(bs[i])]
    <2>1. Read(kind, bs) = Got(f, n)
      BY <1>2 DEF Read
    <2>2. n \in 0 .. Len(bs) /\ n \in Nat
      BY DEF Taken
    <2> HIDE DEF n
    <2>3. \A b \in Byte : Int8(b) \in Temperature
      BY DEF Byte, Int8, Temperature
    <2>4. \A i \in 1 .. n : bs[i] \in Byte
      BY <2>2
    <2>5. f \in [1 .. n -> Temperature]
      BY <2>3, <2>4
    <2> HIDE DEF f
    <2>6. f \in Seq(Temperature)
      BY <2>2, <2>5, ArraySeq
    <2>7. f \in Values(kind)
      BY <1>2, <2>6 DEF Values
    <2>8. QED
      BY <2>1, <2>2, <2>7, GotAnswer
  <1>3. CASE kind = "remark"
    <2> DEFINE n == Taken(bs, 64)
    <2>1. Read(kind, bs) = IF n = 64 THEN Fails("error") ELSE Got(SubSeq(bs, 1, n), n)
      BY <1>3 DEF Read
    <2>2. n \in 0 .. Len(bs) /\ n \in Nat
      BY DEF Taken
    <2> HIDE DEF n
    <2>3. SubSeq(bs, 1, n) \in Seq(Byte)
      BY <2>2
    <2>4. SubSeq(bs, 1, n) \in Values(kind)
      BY <1>3, <2>3 DEF Values
    <2>5. QED
      BY <2>1, <2>2, <2>4 DEF Answer
  <1>4. CASE kind = "modules"
    <2> DEFINE channel == IF bs[3] \in {1, 2} THEN bs[4] ELSE 0
               hvac == IF bs[3] = 3 THEN SubSeq(bs, 4, 5) ELSE <<0, 0>>
               m == [target |-> SubSeq(bs, 1, 2), category |-> bs[3],
                     channel |-> channel, hvac |-> hvac]
    <2>1. Read(kind, bs) = IF Len(bs) < 7 \/ bs[3] \notin 1 .. 5 THEN Fails("error") ELSE Got(m, 7)
      BY <1>4 DEF Read, FromRaw
    <2>2. ASSUME ~ (Len(bs) < 7)
          PROVE  m \in Values(kind) /\ 7 \in 0 .. Len(bs)
      <3>1. bs[3] \in Byte /\ bs[4] \in Byte /\ 7 \in 0 .. Len(bs)
        BY <2>2
      <3>2. SubSeq(bs, 1, 2) \in [1 .. 2 -> Byte] /\ SubSeq(bs, 4, 5) \in [1 .. 2 -> Byte]
        <4>1. bs[1] \in Byte /\ bs[2] \in Byte /\ bs[5] \in Byte
          BY <2>2
        <4>2. SubSeq(bs, 1, 2) = [i \in 1 .. 2 |-> bs[i]]
          BY <2>2
        <4>3. SubSeq(bs, 4, 5) = [i \in 1 .. 2 |-> bs[i + 3]]
          BY <2>2
        <4>4. [i \in 1 .. 2 |-> bs[i]] \in [1 .. 2 -> Byte]
          BY <4>1
        <4>5. [i \in 1 .. 2 |-> bs[i + 3]] \in [1 .. 2 -> Byte]
          BY <3>1, <4>1
        <4>6. QED
          BY <4>2, <4>3, <4>4, <4>5
      <3>3. 0 \in Byte
        BY DEF Byte
      <3>4. <<0, 0>> \in [1 .. 2 -> Byte]
        BY <3>3
      <3>5. channel \in Byte /\ hvac \in [1 .. 2 -> Byte]
        BY <3>1, <3>2, <3>3, <3>4
      <3>6. /\ bs[3] \notin {1, 2} => channel = 0
            /\ bs[3] # 3 => hvac = <<0, 0>>
        OBVIOUS
      <3> HIDE DEF channel, hvac
      <3>7. /\ m \in [target : [1 .. 2 -> Byte], category : Byte,
                      channel : Byte, hvac : [1 .. 2 -> Byte]]
            /\ m.category \notin {1, 2} => m.channel = 0
            /\ m.category # 3 => m.hvac = <<0, 0>>
        BY <3>1, <3>2, <3>5, <3>6
      <3> HIDE DEF m
      <3>8. m \in Values(kind)
        BY <1>4, <3>7 DEF Values
      <3>9. QED
        BY <3>1, <3>8
    <2> HIDE DEF m
    <2>3. QED
      BY <2>1, <2>2 DEF Answer
  <1>5. QED
    BY <1>1, <1>2, <1>3, <1>4

(* Whatever bytes arrive, what a converter makes of them is a value of its *)
(* field's type, and it takes no byte beyond the end of the message.       *)
THEOREM ReadTyped ==
  ASSUME NEW kind \in Kinds, NEW bs \in Seq(Byte)
  PROVE  Answer(kind, bs, Read(kind, bs))
  <1>1. CASE kind \in {"byte", "word", "mac", "flag", "success",
                       "panelButtonModes", "sensorTemp"}
    BY <1>1, FixedAnswer
  <1>2. CASE kind = "channelStatus"
    BY <1>2, ChannelStatusAnswer
  <1>3. CASE kind \in {"statusBytes", "templist", "remark", "modules"}
    BY <1>3, ListAnswer
  <1>4. QED
    BY <1>1, <1>2, <1>3 DEF Kinds

-----------------------------------------------------------------------------
(* The frame (frame.go).                                                   *)

(* What the CRC of a frame covers, and the frame that WriteFrameRaw writes *)
(* for the bytes body of a message of type m.                              *)
Covered(m, h, body) ==
  <<(MIN_FRAME_SIZE + Len(body)) % 256>> \o h.orig
  \o WordBytes(Opcode(m)) \o h.target \o body

Whole(m, h, body) == Covered(m, h, body) \o WordBytes(crc16(Covered(m, h, body)))

(* Where each part of a frame f of n + 11 bytes is.                        *)
Parts(f, m, h, body, n) ==
  /\ f[1] = (n + 11) % 256
  /\ \A i \in 1 .. 4 : f[1 + i] = h.orig[i]
  /\ \A i \in 1 .. 2 : f[5 + i] = WordBytes(Opcode(m))[i]
  /\ \A i \in 1 .. 2 : f[7 + i] = h.target[i]
  /\ \A i \in 1 .. n : f[9 + i] = body[i]

LEMMA WordSeq ==
  ASSUME NEW w \in Uint16
  PROVE  WordBytes(w) \in Seq(Byte) /\ Len(WordBytes(w)) = 2
  <1>1. w \div 256 \in Byte /\ w % 256 \in Byte
    BY WordOfBytes
  <1>2. QED
    BY <1>1 DEF WordBytes

LEMMA CoveredParts ==
  ASSUME NEW m \in Messages, NEW h \in Headers, NEW body \in Seq(Byte)
  PROVE  /\ Covered(m, h, body) \in Seq(Byte)
         /\ Len(Covered(m, h, body)) = Len(body) + 9
         /\ Parts(Covered(m, h, body), m, h, body, Len(body))
  <1> DEFINE n == Len(body)
             a == <<(n + 11) % 256>>
             b == h.orig
             c == WordBytes(Opcode(m))
             d == h.target
             ab == a \o b
             abc == ab \o c
             abcd == abc \o d
             f == abcd \o body
  <1>1. n \in Nat
    OBVIOUS
  <1>2. (n + 11) % 256 \in Byte
    <2>1. n + 11 \in Nat
      OBVIOUS
    <2>2. QED
      BY <2>1, WordOfBytes
  <1>3. a \in Seq(Byte) /\ Len(a) = 1 /\ a[1] = (n + 11) % 256
    <2> HIDE DEF n
    <2>1. QED
      BY <1>2
  <1>4. b \in [1 .. 4 -> Byte] /\ d \in [1 .. 2 -> Byte]
    BY HeadersAssumption
  <1>5. /\ b \in Seq(Byte) /\ Len(b) = 4
        /\ d \in Seq(Byte) /\ Len(d) = 2
    <2> HIDE DEF b, d
    <2>1. 4 \in Nat /\ 2 \in Nat
      OBVIOUS
    <2>2. b \in Seq(Byte) /\ Len(b) = 4
      <3>1. b \in [1 .. 4 -> Byte]
        BY <1>4
      <3>2. QED
        BY <2>1, <3>1, ArraySeq, Zenon
    <2>3. d \in Seq(Byte) /\ Len(d) = 2
      BY <1>4, <2>1, ArraySeq
    <2>4. QED
      BY <2>2, <2>3
  <1>6. c \in Seq(Byte) /\ Len(c) = 2
    <2>1. Opcode(m) \in Uint16
      BY OpcodeWord, MessagesAssumption
    <2>2. QED
      BY <2>1, WordSeq
  <1>7. f = Covered(m, h, body)
    <2>1. (MIN_FRAME_SIZE + Len(body)) % 256 = (n + 11) % 256
      BY DEF MIN_FRAME_SIZE
    <2>2. QED
      BY <2>1 DEF Covered
  <1> HIDE DEF n, a, b, c, d
  <1>8. /\ ab \in Seq(Byte) /\ Len(ab) = Len(a) + Len(b)
        /\ \A i \in 1 .. Len(a) : ab[i] = a[i]
        /\ \A i \in 1 .. Len(b) : ab[Len(a) + i] = b[i]
    <2>1. a \in Seq(Byte) /\ b \in Seq(Byte)
      BY <1>3, <1>5
    <2>2. QED
      BY <2>1, Joined
  <1> HIDE DEF ab
  <1>9. /\ abc \in Seq(Byte) /\ Len(abc) = Len(ab) + Len(c)
        /\ \A i \in 1 .. Len(ab) : abc[i] = ab[i]
        /\ \A i \in 1 .. Len(c) : abc[Len(ab) + i] = c[i]
    <2>1. ab \in Seq(Byte) /\ c \in Seq(Byte)
      BY <1>6, <1>8
    <2>2. QED
      BY <2>1, Joined
  <1> HIDE DEF abc
  <1>10. /\ abcd \in Seq(Byte) /\ Len(abcd) = Len(abc) + Len(d)
         /\ \A i \in 1 .. Len(abc) : abcd[i] = abc[i]
         /\ \A i \in 1 .. Len(d) : abcd[Len(abc) + i] = d[i]
    <2>1. abc \in Seq(Byte) /\ d \in Seq(Byte)
      BY <1>5, <1>9
    <2>2. QED
      BY <2>1, Joined
  <1> HIDE DEF abcd
  <1>11. /\ f \in Seq(Byte) /\ Len(f) = Len(abcd) + Len(body)
         /\ \A i \in 1 .. Len(abcd) : f[i] = abcd[i]
         /\ \A i \in 1 .. Len(body) : f[Len(abcd) + i] = body[i]
    <2>1. abcd \in Seq(Byte) /\ body \in Seq(Byte)
      BY <1>10
    <2>2. QED
      BY <2>1, Joined
  <1> HIDE DEF f
  <1>12. Len(ab) = 5 /\ Len(abc) = 7 /\ Len(abcd) = 9
    BY <1>3, <1>5, <1>6, <1>8, <1>9, <1>10
  <1>13. f \in Seq(Byte) /\ Len(f) = n + 9
    BY <1>11, <1>12 DEF n
  <1>14. \A i \in 1 .. 9 : f[i] = abcd[i]
    BY <1>11, <1>12
  <1>15. f[1] = (n + 11) % 256
    BY <1>3, <1>8, <1>9, <1>10, <1>12, <1>14
  <1>16. \A i \in 1 .. 4 : f[1 + i] = b[i]
    <2>1. \A i \in 1 .. 4 : ab[1 + i] = b[i]
      BY <1>3, <1>5, <1>8
    <2>2. \A i \in 1 .. 5 : abc[i] = ab[i]
      BY <1>9, <1>12
    <2>3. \A i \in 1 .. 7 : abcd[i] = abc[i]
      BY <1>10, <1>12
    <2>4. \A i \in 1 .. 4 : f[1 + i] = ab[1 + i]
      BY <1>14, <2>2, <2>3
    <2>5. QED
      BY <2>1, <2>4
  <1>17. \A i \in 1 .. 2 : f[5 + i] = c[i]
    BY <1>6, <1>9, <1>10, <1>12, <1>14
  <1>18. \A i \in 1 .. 2 : f[7 + i] = d[i]
    BY <1>5, <1>10, <1>12, <1>14
  <1>19. \A i \in 1 .. n : f[9 + i] = body[i]
    BY <1>11, <1>12 DEF n
  <1>20. Parts(f, m, h, body, n)
    BY <1>15, <1>16, <1>17, <1>18, <1>19 DEF Parts, b, c, d
  <1>21. QED
    BY <1>7, <1>13, <1>20 DEF n

(* The frame: the bytes that its CRC covers, then the CRC.                 *)
LEMMA WholeParts ==
  ASSUME NEW m \in Messages, NEW h \in Headers, NEW body \in Seq(Byte)
  PROVE  LET f == Whole(m, h, body)
             c == Covered(m, h, body)
             n == Len(body)
         IN  /\ f \in Seq(Byte) /\ Len(f) = n + 11
             /\ Parts(f, m, h, body, n)
             /\ \A i \in 1 .. (n + 9) : f[i] = c[i]
             /\ crc16(c) \in Uint16
             /\ f[n + 10] = crc16(c) \div 256 /\ f[n + 11] = crc16(c) % 256
  <1> DEFINE n == Len(body)
             c == Covered(m, h, body)
             s == crc16(c)
             d == WordBytes(s)
             f == Whole(m, h, body)
  <1>1. n \in Nat
    OBVIOUS
  <1>2. c \in Seq(Byte) /\ Len(c) = n + 9 /\ Parts(c, m, h, body, n)
    BY CoveredParts
  <1> HIDE DEF n, c
  <1>3. s \in Uint16
    BY <1>1, <1>2, CrcTyped
  <1> HIDE DEF s
  <1>4. d \in Seq(Byte) /\ Len(d) = 2
    BY <1>3, WordSeq
  <1>5. d[1] = s \div 256 /\ d[2] = s % 256
    BY DEF WordBytes
  <1> HIDE DEF d
  <1>6. f = c \o d
    BY DEF Whole, c, d, s
  <1> HIDE DEF f
  <1>7. /\ f \in Seq(Byte) /\ Len(f) = Len(c) + Len(d)
        /\ \A i \in 1 .. Len(c) : f[i] = c[i]
        /\ \A i \in 1 .. Len(d) : f[Len(c) + i] = d[i]
    <2>1. c \in Seq(Byte) /\ d \in Seq(Byte)
      BY <1>2, <1>4
    <2>2. QED
      BY <1>6, <2>1, Joined
  <1>8. Len(f) = n + 11 /\ \A i \in 1 .. (n + 9) : f[i] = c[i]
    BY <1>1, <1>2, <1>4, <1>7
  <1>9. \A i \in 1 .. 2 : f[n + 9 + i] = d[i]
    BY <1>2, <1>4, <1>7
  <1>10. f[n + 10] = s \div 256 /\ f[n + 11] = s % 256
    BY <1>1, <1>5, <1>9
  <1>11. Parts(f, m, h, body, n)
    BY <1>1, <1>2, <1>8 DEF Parts
  <1>12. QED
    BY <1>3, <1>7, <1>8, <1>10, <1>11 DEF f, s, c, n

(* What DatagramIO.doSend puts before the frame.                           *)
UdpHead == <<0, 0, 0, 0>> \o SubSeq(udpSignature, 1, 10) \o <<170, 170>>

LEMMA UdpHeadBytes ==
  /\ UdpHead \in Seq(Byte) /\ Len(UdpHead) = 16
  /\ \A i \in 1 .. 12 : UdpHead[4 + i] = udpSignature[i]
  /\ Len(udpSignature) = 12 /\ udpSignature \in Seq(Byte)
  <1> DEFINE a == <<0, 0, 0, 0>>
             b == SubSeq(udpSignature, 1, 10)
             c == <<170, 170>>
             ab == a \o b
  <1>1. udpSignature \in Seq(Byte) /\ Len(udpSignature) = 12
    BY DEF udpSignature, Byte
  <1>2. udpSignature[11] = 170 /\ udpSignature[12] = 170
    BY DEF udpSignature
  <1>3. a \in Seq(Byte) /\ Len(a) = 4
    BY DEF Byte
  <1>4. c \in Seq(Byte) /\ Len(c) = 2 /\ c[1] = 170 /\ c[2] = 170
    BY DEF Byte
  <1>5. b \in Seq(Byte) /\ Len(b) = 10 /\ \A i \in 1 .. 10 : b[i] = udpSignature[i]
    <2>1. 10 \in Nat /\ 10 <= Len(udpSignature)
      BY <1>1
    <2>2. b = [i \in 1 .. 10 |-> udpSignature[i]]
      BY <1>1, <2>1, FirstBytes
    <2>3. \A i \in 1 .. 10 : udpSignature[i] \in Byte
      <3>1. udpSignature \in Seq(Byte)
        BY <1>1
      <3>2. \A i \in 1 .. Len(udpSignature) : udpSignature[i] \in Byte
        BY <3>1
      <3>3. \A i \in 1 .. 10 : i \in 1 .. Len(udpSignature)
        BY <1>1
      <3>4. QED
        BY <3>2, <3>3
    <2> HIDE DEF b
    <2>4. b \in [1 .. 10 -> Byte]
      BY <2>2, <2>3
    <2>5. b \in Seq(Byte) /\ Len(b) = 10
      BY <2>1, <2>4, ArraySeq, Zenon
    <2>6. QED
      BY <2>2, <2>5
  <1>6. UdpHead = ab \o c
    BY DEF UdpHead
  <1> HIDE DEF a, b, c
  <1>7. /\ ab \in Seq(Byte) /\ Len(ab) = Len(a) + Len(b)
        /\ \A i \in 1 .. Len(b) : ab[Len(a) + i] = b[i]
    <2>1. a \in Seq(Byte) /\ b \in Seq(Byte)
      BY <1>3, <1>5
    <2>2. QED
      BY <2>1, Joined
  <1> HIDE DEF ab
  <1>8. /\ UdpHead \in Seq(Byte) /\ Len(UdpHead) = Len(ab) + Len(c)
        /\ \A i \in 1 .. Len(ab) : UdpHead[i] = ab[i]
        /\ \A i \in 1 .. Len(c) : UdpHead[Len(ab) + i] = c[i]
    <2>1. ab \in Seq(Byte) /\ c \in Seq(Byte)
      BY <1>4, <1>7
    <2>2. QED
      BY <1>6, <2>1, Joined
  <1>9. Len(ab) = 14 /\ Len(UdpHead) = 16
    BY <1>3, <1>4, <1>5, <1>7, <1>8
  <1>10. \A i \in 1 .. 10 : UdpHead[4 + i] = udpSignature[i]
    <2>1. \A i \in 1 .. 10 : ab[4 + i] = b[i]
      BY <1>3, <1>5, <1>7
    <2>2. \A i \in 1 .. 14 : UdpHead[i] = ab[i]
      BY <1>8, <1>9
    <2>3. \A i \in 1 .. 10 : UdpHead[4 + i] = ab[4 + i]
      BY <2>2
    <2>4. QED
      BY <1>5, <2>1, <2>3
  <1>11. UdpHead[15] = 170 /\ UdpHead[16] = 170
    BY <1>4, <1>8, <1>9
  <1>12. \A i \in 1 .. 12 : UdpHead[4 + i] = udpSignature[i]
    <2>1. \A i \in 1 .. 12 : i \in 1 .. 10 \/ i = 11 \/ i = 12
      OBVIOUS
    <2>2. UdpHead[4 + 11] = udpSignature[11] /\ UdpHead[4 + 12] = udpSignature[12]
      BY <1>2, <1>11
    <2>3. QED
      BY <1>10, <2>1, <2>2
  <1>13. QED
    BY <1>1, <1>8, <1>9, <1>12

-----------------------------------------------------------------------------
(* The type invariant.                                                     *)

Any == UNION {Values(kind) : kind \in Kinds}

(* The values vs are those of the first fields of a message of type m.     *)
FieldsOf(m, vs) ==
  /\ vs \in Seq(Any)
  /\ Len(vs) <= Len(Layout(m))
  /\ \A i \in 1 .. Len(vs) : vs[i] \in Values(Layout(m)[i])

(* Inductive: TypeOK, and the types of everything that is written or read. *)
Typed ==
  /\ msg \in Messages /\ parser \in Messages
  /\ header \in Headers /\ flipped \in BOOLEAN
  /\ FieldsOf(msg, vals) /\ FieldsOf(parser, out)
  /\ wire \in Seq(Byte) /\ line \in Seq(Byte)
  /\ phase \in {"write", "sent", "datagram"} => out = <<>>
  /\ phase = "sent" => Len(line) >= MIN_FRAME_SIZE

(* The next field of a message.                                            *)
LEMMA NextField ==
  ASSUME NEW m \in Messages, NEW vs, FieldsOf(m, vs), Len(vs) < Len(Layout(m))
  PROVE  /\ Len(vs) \in Nat
         /\ Len(vs) + 1 \in 1 .. Len(Layout(m))
         /\ Layout(m)[Len(vs) + 1] \in Kinds
         /\ \A v \in Values(Layout(m)[Len(vs) + 1]) : FieldsOf(m, Append(vs, v))
  <1> DEFINE n == Len(vs)
             kind == Layout(m)[n + 1]
  <1>1. Layout(m) \in Seq(Kinds)
    BY LayoutsGood, MessagesAssumption DEF WellLaidOut
  <1>2. vs \in Seq(Any) /\ n \in Nat
    BY DEF FieldsOf
  <1>3. n + 1 \in 1 .. Len(Layout(m)) /\ kind \in Kinds
    BY <1>1, <1>2
  <1>4. ASSUME NEW v \in Values(kind)
        PROVE  FieldsOf(m, Append(vs, v))
    <2>1. v \in Any
      BY <1>3 DEF Any
    <2> DEFINE w == Append(vs, v)
    <2> HIDE DEF kind
    <2>2. /\ w \in Seq(Any) /\ Len(w) = n + 1 /\ w[n + 1] = v
          /\ \A i \in 1 .. n : w[i] = vs[i]
      BY <1>2, <2>1
    <2> HIDE DEF w, n
    <2>3. \A i \in 1 .. n : vs[i] \in Values(Layout(m)[i])
      BY DEF FieldsOf, n
    <2>4. w[n + 1] \in Values(Layout(m)[n + 1])
      BY <2>2 DEF kind
    <2>5. \A i \in 1 .. (n + 1) : w[i] \in Values(Layout(m)[i])
      BY <1>2, <2>2, <2>3, <2>4
    <2>6. n + 1 <= Len(Layout(m))
      BY <1>1, <1>3
    <2>7. FieldsOf(m, w)
      BY <2>2, <2>5, <2>6 DEF FieldsOf
    <2>8. QED
      BY <2>7 DEF w
  <1>5. QED
    BY <1>2, <1>3, <1>4

LEMMA NoFields ==
  ASSUME NEW m \in Messages
  PROVE  FieldsOf(m, <<>>)
  <1>1. Layout(m) \in Seq(Kinds)
    BY LayoutsGood, MessagesAssumption DEF WellLaidOut
  <1>2. QED
    BY <1>1 DEF FieldsOf

(* ParseFrame finds the fields of some message type in any bytes.          *)
LEMMA ParseFrameTyped ==
  ASSUME Typed, NEW f \in Seq(Byte), ParseFrame(f)
  PROVE  /\ parser' \in Messages
         /\ parser' # parser => phase' = "read"
         /\ wire' \in Seq(Byte) /\ phase' \in {"refused", "read"}
  <1> DEFINE types == recognizedMessages(Word(SubSeq(f, 6, 7)))
  <1>1. types \subseteq Messages
    BY DEF recognizedMessages
  <1>2. SubSeq(f, 10, Len(f) - 2) \in Seq(Byte)
    OBVIOUS
  <1>3. CASE types = {}
    BY <1>3 DEF ParseFrame, Typed
  <1>4. CASE types # {}
    BY <1>1, <1>2, <1>4 DEF ParseFrame
  <1>5. QED
    BY <1>3, <1>4

LEMMA TypedInit == FrameInit => Typed
  <1> SUFFICES ASSUME FrameInit PROVE Typed
    OBVIOUS
  <1>1. msg \in Messages /\ parser = msg /\ vals = <<>> /\ wire = <<>> /\ out = <<>>
        /\ phase = "write" /\ header \in Headers /\ line = <<>> /\ flipped = FALSE
    BY DEF FrameInit, Init
  <1>2. <<>> \in Seq(Byte)
    OBVIOUS
  <1>3. QED
    BY <1>1, <1>2, NoFields DEF Typed

LEMMA TypedStep == Typed /\ [FrameNext]_frameVars => Typed'
  <1> SUFFICES ASSUME Typed, [FrameNext]_frameVars PROVE Typed'
    OBVIOUS
  <1>0. msg \in Messages /\ parser \in Messages /\ header \in Headers
    BY DEF Typed
  <1>1. CASE WriteMessageField
    <2> DEFINE kind == Layout(msg)[Len(vals) + 1]
    <2>1. Len(vals) < Len(Layout(msg)) /\ phase = "write" /\ out = <<>>
      BY <1>1 DEF WriteMessageField, WriteField, Typed
    <2>2. PICK v \in Sample(kind) :
            /\ vals' = Append(vals, v)
            /\ IF Written(kind, v) = Failed
                 THEN phase' = "unwritable" /\ UNCHANGED wire
                 ELSE wire' = wire \o Written(kind, v) /\ UNCHANGED phase
      BY <1>1 DEF WriteMessageField, WriteField
    <2>3. kind \in Kinds /\ v \in Values(kind) /\ FieldsOf(msg, Append(vals, v))
      <3>1. FieldsOf(msg, vals)
        BY DEF Typed
      <3>2. kind \in Kinds /\ \A x \in Values(kind) : FieldsOf(msg, Append(vals, x))
        BY <1>0, <2>1, <3>1, NextField
      <3> HIDE DEF kind
      <3>3. QED
        BY <3>2, SampleAssumption
    <2> HIDE DEF kind
    <2>4. wire' \in Seq(Byte)
      <3>1. wire \in Seq(Byte)
        BY DEF Typed
      <3>2. CASE Written(kind, v) = Failed
        BY <2>2, <3>1, <3>2
      <3>3. CASE Written(kind, v) # Failed
        <4>1. Written(kind, v) \in Seq(Byte)
          BY <2>3, <3>3, WrittenBytes
        <4>2. wire' = wire \o Written(kind, v)
          BY <2>2, <3>3
        <4>3. QED
          BY <3>1, <4>1, <4>2
      <3>4. QED
        BY <3>2, <3>3
    <2>5. UNCHANGED <<msg, parser, out, header, line, flipped>> /\ phase' \in {"write", "unwritable"}
      BY <1>1, <2>1, <2>2 DEF WriteMessageField, WriteField
    <2>6. FieldsOf(msg', vals') /\ FieldsOf(parser', out')
      BY <2>2, <2>3, <2>5 DEF Typed
    <2>7. QED
      BY <2>1, <2>4, <2>5, <2>6 DEF Typed
  <1>2. CASE WriteFrameRaw
    <2>1. wire \in Seq(Byte)
      BY DEF Typed
    <2>2. line' = Whole(msg, header, wire)
      BY <1>2 DEF WriteFrameRaw, Whole, Covered
    <2>3. Whole(msg, header, wire) \in Seq(Byte) /\ Len(Whole(msg, header, wire)) = Len(wire) + 11
      BY <1>0, <2>1, WholeParts
    <2>4. line' \in Seq(Byte) /\ Len(line') >= MIN_FRAME_SIZE
      BY <2>1, <2>2, <2>3 DEF MIN_FRAME_SIZE
    <2>5. /\ UNCHANGED <<msg, parser, vals, out, header, flipped>>
          /\ wire' = <<>> /\ phase = "write" /\ phase' = "sent"
      BY <1>2 DEF WriteFrameRaw
    <2>6. FieldsOf(msg', vals') /\ FieldsOf(parser', out') /\ out' = <<>>
      BY <2>5 DEF Typed
    <2>7. wire' \in Seq(Byte)
      BY <2>5
    <2>8. QED
      BY <2>4, <2>5, <2>6, <2>7 DEF Typed
  <1>3. CASE Noise
    <2>1. PICK i \in DOMAIN line, k \in 1 .. 8 : line' = [line EXCEPT ![i] = Xor8(@, Weight[k])]
      BY <1>3 DEF Noise
    <2>2. Xor8(line[i], Weight[k]) \in Byte /\ line \in Seq(Byte)
      BY XorTyped DEF Typed
    <2>3. line' \in Seq(Byte) /\ Len(line') = Len(line)
      BY <2>1, <2>2
    <2>4. UNCHANGED <<msg, parser, vals, wire, out, phase, header>> /\ flipped' = TRUE
      BY <1>3 DEF Noise
    <2>5. FieldsOf(msg', vals') /\ FieldsOf(parser', out')
      BY <2>4 DEF Typed
    <2>6. QED
      BY <2>3, <2>4, <2>5 DEF Typed
  <1>4. CASE ReadSmartbusFrame
    <2> DEFINE l == line[1]
    <2>1. /\ phase = "sent" /\ out = <<>> /\ Len(line) >= MIN_FRAME_SIZE
          /\ UNCHANGED <<msg, vals, out, header, flipped>>
          /\ line \in Seq(Byte) /\ wire \in Seq(Byte)
      BY <1>4 DEF ReadSmartbusFrame, Typed
    <2>2. CASE GoodFrame(l)
      <3>1. ParseFrame(SubSeq(line, 1, l)) /\ line' = SubSeq(line, l + 1, Len(line))
        BY <1>4, <2>2 DEF ReadSmartbusFrame
      <3>2. l \in Nat /\ l <= Len(line)
        <4>1. 1 \in DOMAIN line
          BY <2>1 DEF MIN_FRAME_SIZE
        <4>2. l \in Byte
          BY <2>1, <4>1
        <4>3. QED
          BY <2>2, <4>2, ByteRange DEF GoodFrame
      <3> HIDE DEF l
      <3>3. SubSeq(line, 1, l) \in Seq(Byte) /\ SubSeq(line, l + 1, Len(line)) \in Seq(Byte)
        BY <2>1, <3>2
      <3>4. parser' \in Messages /\ wire' \in Seq(Byte) /\ phase' \in {"refused", "read"}
        BY <3>1, <3>3, ParseFrameTyped
      <3>5. FieldsOf(msg', vals') /\ FieldsOf(parser', out')
        BY <2>1, <3>4, NoFields DEF Typed
      <3>6. QED
        BY <2>1, <3>1, <3>3, <3>4, <3>5 DEF Typed
    <2>3. CASE ~ GoodFrame(l)
      <3>1. phase' = "refused" /\ UNCHANGED <<parser, wire, line>>
        BY <1>4, <2>3 DEF ReadSmartbusFrame
      <3>2. FieldsOf(msg', vals') /\ FieldsOf(parser', out')
        BY <2>1, <3>1 DEF Typed
      <3>3. QED
        BY <2>1, <3>1, <3>2 DEF Typed
    <2>4. QED
      BY <2>2, <2>3
  <1>5. CASE doSend
    <2>1. line' = UdpHead \o line
      BY <1>5 DEF doSend, UdpHead
    <2>2. UdpHead \in Seq(Byte) /\ line \in Seq(Byte)
      BY UdpHeadBytes DEF Typed
    <2>5. line' \in Seq(Byte)
      BY <2>1, <2>2
    <2>6. phase' = "datagram" /\ UNCHANGED <<msg, parser, vals, wire, out, header, flipped>>
          /\ phase = "sent"
      BY <1>5 DEF doSend
    <2>7. FieldsOf(msg', vals') /\ FieldsOf(parser', out') /\ out' = <<>>
      BY <2>6 DEF Typed
    <2>8. QED
      BY <2>5, <2>6, <2>7 DEF Typed
  <1>6. CASE processUdpPacket
    <2>1. /\ phase = "datagram" /\ out = <<>> /\ line' = <<>>
          /\ UNCHANGED <<msg, vals, out, header, flipped>>
          /\ line \in Seq(Byte) /\ wire \in Seq(Byte)
      BY <1>6 DEF processUdpPacket, Typed
    <2>2. parser' \in Messages /\ wire' \in Seq(Byte) /\ phase' \in {"refused", "read"}
      <3>1. CASE Len(line) >= 16 /\ SubSeq(line, 5, 16) = udpSignature
        <4>1. ParseFrame(SubSeq(line, 17, Len(line)))
          BY <1>6, <3>1 DEF processUdpPacket
        <4>2. SubSeq(line, 17, Len(line)) \in Seq(Byte)
          BY <2>1
        <4>3. QED
          BY <4>1, <4>2, ParseFrameTyped
      <3>2. CASE ~ (Len(line) >= 16 /\ SubSeq(line, 5, 16) = udpSignature)
        <4>1. phase' = "refused" /\ UNCHANGED <<parser, wire>>
          BY <1>6, <3>2 DEF processUdpPacket
        <4>2. QED
          BY <1>0, <2>1, <4>1
      <3>3. QED
        BY <3>1, <3>2
    <2>3. FieldsOf(msg', vals') /\ FieldsOf(parser', out')
      BY <2>1, <2>2, NoFields DEF Typed
    <2>4. <<>> \in Seq(Byte)
      OBVIOUS
    <2>5. QED
      BY <2>1, <2>2, <2>3, <2>4 DEF Typed
  <1>7. CASE ParseMessageField
    <2>0. /\ UNCHANGED <<header, line, flipped, msg, parser, vals>> /\ phase = "read"
          /\ wire \in Seq(Byte)
      BY <1>7 DEF ParseMessageField, ReadField, Parsed, Typed
    <2>1. CASE ReadField
      <3> DEFINE kind == Layout(parser)[Len(out) + 1]
                 r == Read(kind, wire)
      <3>1. Len(out) < Len(Layout(parser)) /\ FieldsOf(parser, out)
        BY <2>1 DEF ReadField, Typed
      <3>2. kind \in Kinds /\ \A v \in Values(kind) : FieldsOf(parser, Append(out, v))
        BY <1>0, <3>1, NextField
      <3>3. IF r.res = "ok"
              THEN /\ out' = Append(out, r.val)
                   /\ wire' = SubSeq(wire, r.used + 1, Len(wire))
                   /\ UNCHANGED phase
              ELSE phase' = r.res /\ UNCHANGED <<wire, out>>
        BY <2>1 DEF ReadField
      <3>4. Answer(kind, wire, r)
        BY <2>0, <3>2, ReadTyped
      <3> HIDE DEF kind, r
      <3>5. CASE r = Fails("error") \/ r = Fails("panic")
        <4>1. phase' \in {"error", "panic"} /\ UNCHANGED <<wire, out>>
          BY <3>3, <3>5 DEF Fails
        <4>2. QED
          BY <2>0, <4>1 DEF Typed
      <3>6. CASE \E v \in Values(kind), n \in 0 .. Len(wire) : r = Got(v, n)
        <4>1. PICK v \in Values(kind), n \in 0 .. Len(wire) : r = Got(v, n)
          BY <3>6
        <4>2. r.res = "ok" /\ r.val = v /\ r.used = n
          BY <4>1 DEF Got
        <4>3. out' = Append(out, v) /\ wire' = SubSeq(wire, n + 1, Len(wire)) /\ phase' = phase
          BY <3>3, <4>2
        <4>4. FieldsOf(parser, Append(out, v))
          BY <3>2
        <4>5. SubSeq(wire, n + 1, Len(wire)) \in Seq(Byte)
          BY <2>0
        <4>6. FieldsOf(msg', vals') /\ FieldsOf(parser', out') /\ wire' \in Seq(Byte)
          BY <2>0, <4>3, <4>4, <4>5 DEF Typed
        <4>7. QED
          BY <2>0, <4>3, <4>6 DEF Typed
      <3>7. QED
        BY <3>4, <3>5, <3>6 DEF Answer
    <2>2. CASE Parsed
      <3>1. phase' = "done" /\ UNCHANGED <<wire, out>>
        BY <2>2 DEF Parsed
      <3>2. QED
        BY <2>0, <3>1 DEF Typed
    <2>3. QED
      BY <1>7, <2>1, <2>2 DEF ParseMessageField
  <1>8. CASE UNCHANGED frameVars
    BY <1>8 DEF Typed, frameVars
  <1>9. QED
    BY <1>1, <1>2, <1>3, <1>4, <1>5, <1>6, <1>7, <1>8 DEF FrameNext

LEMMA TypedAlways == FrameSpec => []Typed
  BY TypedInit, TypedStep, PTL DEF FrameSpec

(* What is on the bus, and what is left of a message while it is read, are *)
(* bytes, whatever the messages and headers and also when the frame has    *)
(* been damaged or cut: no converter, and neither the length nor the CRC,  *)
(* leaves the range of uint8.                                              *)
THEOREM FrameTypes == FrameSpec => []TypeOK
  <1>1. Typed => TypeOK
    BY DEF Typed, TypeOK
  <1>2. QED
    BY <1>1, TypedAlways, PTL

-----------------------------------------------------------------------------
(* The bytes of a message: which of them belong to which field.            *)

(* The bytes of bs after byte a, up to byte b, are what the field writes.  *)
FieldAt(kind, v, bs, a, b) ==
  /\ Written(kind, v) # Failed /\ Written(kind, v) \in Seq(Byte)
  /\ b = a + Len(Written(kind, v))
  /\ b <= Len(bs)
  /\ \A j \in 1 .. Len(Written(kind, v)) : bs[a + j] = Written(kind, v)[j]

(* The bytes bs are those of the fields vs, of which field i ends at byte  *)
(* ends[i].                                                                *)
Split(m, vs, bs, ends) ==
  /\ ends \in [0 .. Len(vs) -> Nat]
  /\ ends[0] = 0
  /\ ends[Len(vs)] = Len(bs)
  /\ \A i \in 1 .. Len(vs) : FieldAt(Layout(m)[i], vs[i], bs, ends[i - 1], ends[i])

Body(m, vs, bs) == \E ends : Split(m, vs, bs, ends)

(* The first of the fields vs have been read as os.                        *)
Arrived(m, vs, os) ==
  \A i \in 1 .. Len(os) :
    os[i] = Carried(Layout(m)[i], vs[i]) /\ ~ Unreadable(Layout(m)[i], vs[i])

(* The fields os have been read, and the bytes ws of the others are left.  *)
Left(m, vs, os, ws) ==
  \E bs \in Seq(Byte), ends \in [0 .. Len(vs) -> Nat] :
    /\ Split(m, vs, bs, ends)
    /\ Len(os) <= Len(vs)
    /\ Arrived(m, vs, os)
    /\ ws = SubSeq(bs, ends[Len(os)] + 1, Len(bs))

LEMMA EmptyBody ==
  ASSUME NEW m
  PROVE  Body(m, <<>>, <<>>)
  <1> DEFINE ends == [i \in 0 .. 0 |-> 0]
  <1>1. Split(m, <<>>, <<>>, ends)
    BY DEF Split
  <1>2. QED
    BY <1>1 DEF Body

(* A field that can be written extends the message.                        *)
LEMMA LongerBody ==
  ASSUME NEW m, NEW vs, NEW bs \in Seq(Byte), NEW v,
         vs \in Seq(Any), v \in Any, Body(m, vs, bs),
         Written(Layout(m)[Len(vs) + 1], v) # Failed,
         Written(Layout(m)[Len(vs) + 1], v) \in Seq(Byte)
  PROVE  Body(m, Append(vs, v), bs \o Written(Layout(m)[Len(vs) + 1], v))
  <1> DEFINE n == Len(vs)
             kind == Layout(m)[n + 1]
             w == Written(kind, v)
             ws == Append(vs, v)
             new == bs \o w
  <1>1. PICK ends : Split(m, vs, bs, ends)
    BY DEF Body
  <1>2. n \in Nat
    OBVIOUS
  <1>3. ws \in Seq(Any) /\ Len(ws) = n + 1 /\ ws[n + 1] = v /\ \A i \in 1 .. n : ws[i] = vs[i]
    OBVIOUS
  <1>4. /\ ends \in [0 .. n -> Nat] /\ ends[0] = 0 /\ ends[n] = Len(bs)
        /\ \A i \in 1 .. n : FieldAt(Layout(m)[i], vs[i], bs, ends[i - 1], ends[i])
    BY <1>1 DEF Split
  <1>5. w \in Seq(Byte) /\ w # Failed
    OBVIOUS
  <1> HIDE DEF n, kind, w, ws
  <1>6. /\ new \in Seq(Byte) /\ Len(new) = Len(bs) + Len(w)
        /\ \A i \in 1 .. Len(bs) : new[i] = bs[i]
        /\ \A i \in 1 .. Len(w) : new[Len(bs) + i] = w[i]
    BY <1>5, Joined
  <1> HIDE DEF new
  <1> DEFINE e == [i \in 0 .. (n + 1) |-> IF i = n + 1 THEN Len(new) ELSE ends[i]]
  <1>7. /\ e \in [0 .. (n + 1) -> Nat]
        /\ e[0] = 0
        /\ e[n + 1] = Len(new)
        /\ \A i \in 0 .. n : e[i] = ends[i]
    <2>1. Len(new) \in Nat
      BY <1>6
    <2>2. \A i \in 0 .. (n + 1) : i # n + 1 => i \in 0 .. n
      BY <1>2
    <2>3. \A i \in 0 .. n : i # n + 1 /\ i \in 0 .. (n + 1)
      BY <1>2
    <2>4. e \in [0 .. (n + 1) -> Nat]
      BY <1>4, <2>1, <2>2
    <2>5. e[n + 1] = Len(new)
      BY <1>2
    <2>6. \A i \in 0 .. n : e[i] = ends[i]
      BY <2>3
    <2>7. QED
      BY <1>2, <1>4, <2>4, <2>5, <2>6
  <1> HIDE DEF e
  <1>8. ASSUME NEW i \in 1 .. (n + 1)
        PROVE  FieldAt(Layout(m)[i], ws[i], new, e[i - 1], e[i])
    <2>1. CASE i = n + 1
      <3>1. e[i - 1] = Len(bs) /\ e[i] = Len(new) /\ ws[i] = v
        BY <1>2, <1>3, <1>4, <1>7, <2>1
      <3>2. FieldAt(kind, v, new, Len(bs), Len(new))
        <4>1. Len(new) \in Nat
          BY <1>6
        <4>2. Len(new) <= Len(new)
          BY <4>1
        <4>3. QED
          BY <1>5, <1>6, <4>2, Zenon DEF FieldAt, w
      <3>3. QED
        BY <2>1, <3>1, <3>2 DEF kind
    <2>2. CASE i \in 1 .. n
      <3>1. i - 1 \in 0 .. n /\ i \in 0 .. n
        BY <1>2, <2>2
      <3>2. e[i - 1] = ends[i - 1] /\ e[i] = ends[i] /\ ws[i] = vs[i]
        BY <1>3, <1>7, <2>2, <3>1
      <3> DEFINE a == ends[i - 1]
                 b == ends[i]
                 x == Written(Layout(m)[i], vs[i])
      <3>3. FieldAt(Layout(m)[i], vs[i], bs, a, b)
        BY <1>4, <2>2
      <3>4. a \in Nat /\ b \in Nat
        BY <1>4, <3>1
      <3>5. x # Failed /\ x \in Seq(Byte) /\ b = a + Len(x) /\ b <= Len(bs) /\ \A j \in 1 .. Len(x) : bs[a + j] = x[j]
        BY <3>3 DEF FieldAt
      <3> HIDE DEF a, b, x
      <3> DEFINE lx == Len(x)
                 lb == Len(bs)
                 lw == Len(w)
      <3>6. lx \in Nat /\ lb \in Nat /\ lw \in Nat /\ Len(new) = lb + lw
        BY <1>5, <1>6, <3>5
      <3>7. b = a + lx /\ b <= lb
        BY <3>5
      <3> HIDE DEF lx, lb, lw
      <3>8. \A j \in 1 .. lx : a + j \in 1 .. lb
        BY <3>4, <3>6, <3>7
      <3>9. \A j \in 1 .. lx : new[a + j] = x[j]
        BY <1>6, <3>5, <3>8 DEF lx, lb
      <3>10. b <= Len(new)
        BY <3>4, <3>6, <3>7
      <3>11. FieldAt(Layout(m)[i], vs[i], new, a, b)
        BY <3>5, <3>9, <3>10 DEF FieldAt, x, lx
      <3>12. QED
        BY <3>2, <3>11 DEF a, b
    <2>3. QED
      BY <1>2, <2>1, <2>2
  <1>9. Split(m, ws, new, e)
    BY <1>3, <1>7, <1>8 DEF Split
  <1>10. Body(m, ws, new)
    BY <1>9 DEF Body
  <1>11. QED
    BY <1>10 DEF ws, new, w, kind, n

(* Nothing has been read yet.                                              *)
LEMMA AllLeft ==
  ASSUME NEW m, NEW vs \in Seq(Any), NEW bs \in Seq(Byte), Body(m, vs, bs)
  PROVE  Left(m, vs, <<>>, bs)
  <1>1. PICK ends : Split(m, vs, bs, ends)
    BY DEF Body
  <1>2. ends \in [0 .. Len(vs) -> Nat] /\ ends[0] = 0
    BY <1>1 DEF Split
  <1>3. SubSeq(bs, 0 + 1, Len(bs)) = bs
    OBVIOUS
  <1>4. Len(<<>>) = 0 /\ Len(<<>>) <= Len(vs) /\ Arrived(m, vs, <<>>)
    BY DEF Arrived
  <1>5. bs = SubSeq(bs, ends[Len(<<>>)] + 1, Len(bs))
    BY <1>2, <1>3, <1>4
  <1>6. QED
    BY <1>1, <1>2, <1>4, <1>5 DEF Left

(* Everything has been read.                                               *)
LEMMA NothingLeft ==
  ASSUME NEW m, NEW vs \in Seq(Any), NEW os \in Seq(Any), NEW ws,
         Left(m, vs, os, ws), Len(os) = Len(vs)
  PROVE  /\ ws = <<>>
         /\ os = [i \in DOMAIN vs |-> Carried(Layout(m)[i], vs[i])]
         /\ \A i \in DOMAIN vs : ~ Unreadable(Layout(m)[i], vs[i])
  <1>1. PICK bs \in Seq(Byte), ends \in [0 .. Len(vs) -> Nat] :
          /\ Split(m, vs, bs, ends)
          /\ Arrived(m, vs, os)
          /\ ws = SubSeq(bs, ends[Len(os)] + 1, Len(bs))
    BY DEF Left
  <1>2. ws = SubSeq(bs, Len(bs) + 1, Len(bs))
    BY <1>1 DEF Split
  <1>3. SubSeq(bs, Len(bs) + 1, Len(bs)) = <<>>
    OBVIOUS
  <1>4. DOMAIN os = 1 .. Len(os) /\ DOMAIN vs = 1 .. Len(os) /\ os = [i \in DOMAIN os |-> os[i]]
    OBVIOUS
  <1>5. /\ os = [i \in DOMAIN vs |-> Carried(Layout(m)[i], vs[i])]
        /\ \A i \in DOMAIN vs : ~ Unreadable(Layout(m)[i], vs[i])
    BY <1>1, <1>4, Zenon DEF Arrived
  <1>6. QED
    BY <1>2, <1>3, <1>5

(* A tail of a tail.                                                       *)
LEMMA TailOfTail ==
  ASSUME NEW bs \in Seq(Byte), NEW a \in Nat, NEW b \in Nat, NEW c \in Nat,
         b = a + c, b <= Len(bs), NEW ws, ws = SubSeq(bs, a + 1, Len(bs))
  PROVE  /\ ws \in Seq(Byte) /\ Len(ws) = Len(bs) - a
         /\ \A i \in 1 .. (Len(bs) - a) : ws[i] = bs[a + i]
         /\ SubSeq(ws, c + 1, Len(ws)) = SubSeq(bs, b + 1, Len(bs))
  <1> DEFINE n == Len(bs)
             t == SubSeq(ws, c + 1, Len(ws))
             u == SubSeq(bs, b + 1, n)
  <1>1. n \in Nat /\ b <= n
    OBVIOUS
  <1>2. /\ ws \in Seq(Byte) /\ Len(ws) = n - a
        /\ \A i \in 1 .. (n - a) : ws[i] = bs[a + i]
    OBVIOUS
  <1>3. u \in Seq(Byte) /\ Len(u) = n - b /\ \A i \in 1 .. (n - b) : u[i] = bs[b + i]
    OBVIOUS
  <1>4. t \in Seq(Byte) /\ Len(t) = Len(ws) - c /\ \A i \in 1 .. (Len(ws) - c) : t[i] = ws[c + i]
    BY <1>1, <1>2
  <1> HIDE DEF n, t, u
  <1>5. Len(t) = n - b /\ Len(u) = n - b
    BY <1>1, <1>2, <1>3, <1>4
  <1>6. ASSUME NEW i \in 1 .. (n - b)
        PROVE  t[i] = u[i]
    <2>1. i \in 1 .. ((n - a) - c) /\ c + i \in 1 .. (n - a) /\ a + (c + i) = b + i
      BY <1>1
    <2>2. t[i] = ws[c + i] /\ ws[c + i] = bs[a + (c + i)]
      BY <1>2, <1>4, <2>1
    <2>3. u[i] = bs[b + i]
      BY <1>3
    <2>4. QED
      BY <2>1, <2>2, <2>3
  <1>7. t = u
    BY <1>3, <1>4, <1>5, <1>6
  <1>8. QED
    BY <1>2, <1>7 DEF n, t, u

(* What arrives of a value is a value of the same kind.                    *)
LEMMA CarriedTyped ==
  ASSUME NEW kind \in Kinds, NEW v \in Values(kind)
  PROVE  Carried(kind, v) \in Any
  <1>1. Carried(kind, v) \in Values(kind)
    <2>1. CASE kind # "modules"
      BY <2>1 DEF Carried
    <2>2. CASE kind = "modules"
      <3>1. v \in [target : [1 .. 2 -> Byte], category : Byte,
                   channel : Byte, hvac : [1 .. 2 -> Byte]]
        BY <2>2 DEF Values
      <3>2. 0 \in Byte /\ <<0, 0>> \in [1 .. 2 -> Byte]
        BY DEF Byte
      <3>3. Carried(kind, v) \in [target : [1 .. 2 -> Byte], category : Byte,
                                  channel : Byte, hvac : [1 .. 2 -> Byte]]
        BY <2>2, <3>1, <3>2 DEF Carried
      <3>4. QED
        BY <2>2, <3>3 DEF Values
    <2>3. QED
      BY <2>1, <2>2
  <1>2. QED
    BY <1>1 DEF Any

(* The next field reads back what was put into it, or cannot be read.      *)
LEMMA NextRead ==
  ASSUME NEW m \in Messages, NEW vs, NEW os \in Seq(Any), NEW ws,
         FieldsOf(m, vs), Len(vs) = Len(Layout(m)), Len(os) < Len(Layout(m)),
         Left(m, vs, os, ws)
  PROVE  \/ /\ Read(Layout(m)[Len(os) + 1], ws) = Fails("panic")
            /\ \E i \in DOMAIN vs : Unreadable(Layout(m)[i], vs[i])
         \/ \E v \in Any, n \in Nat :
              /\ Read(Layout(m)[Len(os) + 1], ws) = Got(v, n)
              /\ Left(m, vs, Append(os, v), SubSeq(ws, n + 1, Len(ws)))
  <1> DEFINE k == Len(os) + 1
             kind == Layout(m)[k]
             v == vs[k]
             x == Carried(kind, v)
             w == Written(kind, v)
  <1>1. Layout(m) \in Seq(Kinds) /\ \A i \in 1 .. Len(Layout(m)) :
          Layout(m)[i] \in Greedy => i = Len(Layout(m))
    BY LayoutsGood, MessagesAssumption DEF WellLaidOut
  <1>2. Len(os) \in Nat /\ k \in Nat /\ Len(vs) \in Nat /\ k - 1 = Len(os)
    BY <1>1
  <1>3. k \in 1 .. Len(vs) /\ k \in 0 .. Len(vs) /\ k - 1 \in 0 .. Len(vs)
    BY <1>1, <1>2
  <1>4. vs \in Seq(Any) /\ v \in Values(kind) /\ v \in Any
    BY <1>3 DEF FieldsOf
  <1>5. kind \in Kinds /\ (kind \in Greedy => k = Len(vs))
    BY <1>1, <1>3
  <1>6. PICK bs \in Seq(Byte), ends \in [0 .. Len(vs) -> Nat] :
          /\ Split(m, vs, bs, ends)
          /\ Arrived(m, vs, os)
          /\ ws = SubSeq(bs, ends[Len(os)] + 1, Len(bs))
    BY DEF Left
  <1> DEFINE a == ends[k - 1]
             b == ends[k]
             c == Len(w)
  <1>7. FieldAt(kind, v, bs, a, b) /\ ends[Len(vs)] = Len(bs)
    BY <1>3, <1>6 DEF Split
  <1>8. a \in Nat /\ b \in Nat /\ ws = SubSeq(bs, a + 1, Len(bs))
    BY <1>2, <1>3, <1>6
  <1> HIDE DEF k, kind, v, w, x
  <1>9. /\ w # Failed /\ w \in Seq(Byte) /\ b = a + c /\ b <= Len(bs)
        /\ \A j \in 1 .. c : bs[a + j] = w[j]
    BY <1>7 DEF FieldAt, w
  <1>10. c \in Nat
    BY <1>9
  <1> HIDE DEF a, b, c
  <1>11. /\ ws \in Seq(Byte) /\ Len(ws) = Len(bs) - a
         /\ \A i \in 1 .. (Len(bs) - a) : ws[i] = bs[a + i]
         /\ SubSeq(ws, c + 1, Len(ws)) = SubSeq(bs, b + 1, Len(bs))
    BY <1>8, <1>9, <1>10, TailOfTail
  <1>12. Begins(ws, w)
    <2> DEFINE l == Len(bs)
    <2>1. l \in Nat
      OBVIOUS
    <2> HIDE DEF l
    <2>2. c <= l - a /\ \A i \in 1 .. c : i \in 1 .. (l - a)
      BY <1>8, <1>9, <1>10, <2>1 DEF l
    <2>3. \A i \in 1 .. c : ws[i] = w[i]
      BY <1>9, <1>11, <2>2 DEF l
    <2>4. c <= Len(ws)
      BY <1>11, <2>2 DEF l
    <2>5. QED
      BY <2>3, <2>4 DEF Begins, c
  <1>13. kind \in Greedy => Len(ws) = Len(w)
    <2>1. ASSUME kind \in Greedy PROVE Len(ws) = c
      <3>1. b = Len(bs)
        BY <1>5, <1>7, <2>1 DEF b
      <3>2. QED
        BY <1>8, <1>9, <1>10, <1>11, <3>1
    <2>2. QED
      BY <2>1 DEF c
  <1>14. Read(kind, ws) = IF Unreadable(kind, v) THEN Fails("panic") ELSE Got(x, c)
    BY <1>4, <1>5, <1>9, <1>11, <1>12, <1>13, FieldReadBack DEF w, c, x
  <1>15. x \in Any
    BY <1>4, <1>5, CarriedTyped DEF x
  <1>16. CASE Unreadable(kind, v)
    <2>1. k \in DOMAIN vs
      BY <1>3, <1>4
    <2>2. Unreadable(Layout(m)[k], vs[k])
      BY <1>16 DEF kind, v
    <2>3. QED
      BY <1>14, <1>16, <2>1, <2>2 DEF kind, k
  <1> DEFINE new == Append(os, x)
             rest == SubSeq(ws, c + 1, Len(ws))
  <1>17. Len(new) = Len(os) + 1 /\ new[Len(os) + 1] = x /\ \A i \in 1 .. Len(os) : new[i] = os[i]
    BY <1>15
  <1> HIDE DEF new, rest
  <1>18. Len(new) = k /\ Len(new) <= Len(vs)
    BY <1>2, <1>3, <1>17 DEF k
  <1>19. CASE ~ Unreadable(kind, v)
    <2>1. \A i \in 1 .. Len(new) : i \in 1 .. Len(os) \/ i = k
      BY <1>2, <1>17 DEF k
    <2>2. new[k] = Carried(Layout(m)[k], vs[k]) /\ ~ Unreadable(Layout(m)[k], vs[k])
      BY <1>17, <1>19 DEF v, k, x, kind
    <2>3. \A i \in 1 .. Len(os) :
            new[i] = Carried(Layout(m)[i], vs[i]) /\ ~ Unreadable(Layout(m)[i], vs[i])
      BY <1>6, <1>17 DEF Arrived
    <2>4. Arrived(m, vs, new)
      BY <2>1, <2>2, <2>3 DEF Arrived
    <2>5. rest = SubSeq(bs, ends[Len(new)] + 1, Len(bs))
      BY <1>11, <1>18 DEF rest, b
    <2>6. Left(m, vs, new, rest)
      BY <1>6, <1>18, <2>4, <2>5 DEF Left
    <2>7. Read(kind, ws) = Got(x, c)
      BY <1>14, <1>19
    <2>8. QED
      BY <1>10, <1>15, <2>6, <2>7 DEF new, rest, kind, k
  <1>20. QED
    BY <1>16, <1>19

-----------------------------------------------------------------------------
(* A frame is read as it was sent.                                         *)

(* Two sequences of n bytes are the same if their bytes are.               *)
LEMMA SameBytes ==
  ASSUME NEW n \in Nat, NEW s \in Seq(Byte), NEW t \in Seq(Byte),
         Len(s) = n, Len(t) = n, \A i \in 1 .. n : s[i] = t[i]
  PROVE  s = t
  OBVIOUS

(* The n bytes after byte a of a frame.                                    *)
LEMMA Slice ==
  ASSUME NEW f \in Seq(Byte), NEW a \in Nat, NEW n \in Nat, NEW b \in Int,
         b = a + n, b <= Len(f), NEW t \in Seq(Byte), Len(t) = n,
         \A i \in 1 .. n : f[a + i] = t[i]
  PROVE  SubSeq(f, a + 1, b) = t
  <1> DEFINE s == SubSeq(f, a + 1, b)
  <1>1. s \in Seq(Byte) /\ Len(s) = n /\ \A i \in 1 .. n : s[i] = f[a + i]
    OBVIOUS
  <1> HIDE DEF s
  <1>2. \A i \in 1 .. n : s[i] = t[i]
    BY <1>1
  <1>3. s = t
    BY <1>1, <1>2, SameBytes
  <1>4. QED
    BY <1>3 DEF s

(* The parts of a frame, where ParseFrame looks for them.                  *)
LEMMA FrameSlices ==
  ASSUME NEW m \in Messages, NEW h \in Headers, NEW body \in Seq(Byte)
  PROVE  LET f == Whole(m, h, body)
         IN  /\ SubSeq(f, 2, 5) = h.orig
             /\ SubSeq(f, 6, 7) = WordBytes(Opcode(m))
             /\ SubSeq(f, 8, 9) = h.target
             /\ SubSeq(f, 10, Len(f) - 2) = body
  <1> DEFINE f == Whole(m, h, body)
             n == Len(body)
             c == WordBytes(Opcode(m))
             orig == h.orig
             target == h.target
  <1>1. f \in Seq(Byte) /\ Len(f) = n + 11 /\ Parts(f, m, h, body, n)
    BY WholeParts
  <1>2. c \in Seq(Byte) /\ Len(c) = 2
    <2>1. Opcode(m) \in Uint16
      BY OpcodeWord, MessagesAssumption
    <2>2. QED
      BY <2>1, WordSeq
  <1>3. orig \in [1 .. 4 -> Byte] /\ target \in [1 .. 2 -> Byte]
    BY HeadersAssumption
  <1>4. n \in Nat
    OBVIOUS
  <1> HIDE DEF f, n, c, orig, target
  <1>5. orig \in Seq(Byte) /\ Len(orig) = 4
    <2>1. 4 \in Nat /\ orig \in [1 .. 4 -> Byte]
      BY <1>3
    <2>2. QED
      BY <2>1, ArraySeq, Zenon
  <1>6. target \in Seq(Byte) /\ Len(target) = 2
    <2>1. 2 \in Nat /\ target \in [1 .. 2 -> Byte]
      BY <1>3
    <2>2. QED
      BY <2>1, ArraySeq, Zenon
  <1>7. /\ \A i \in 1 .. 4 : f[1 + i] = orig[i]
        /\ \A i \in 1 .. 2 : f[5 + i] = c[i]
        /\ \A i \in 1 .. 2 : f[7 + i] = target[i]
        /\ \A i \in 1 .. n : f[9 + i] = body[i]
    BY <1>1 DEF Parts, c, orig, target
  <1>8. \A s \in Seq(Byte) : \A a, k \in Nat : \A b \in Int :
          b = a + k /\ b <= Len(f) /\ Len(s) = k /\ (\A i \in 1 .. k : f[a + i] = s[i])
            => SubSeq(f, a + 1, b) = s
    BY <1>1, Slice
  <1>9. 5 = 1 + 4 /\ 7 = 5 + 2 /\ 9 = 7 + 2 /\ 5 <= Len(f) /\ 7 <= Len(f) /\ 9 <= Len(f)
    BY <1>1, <1>4
  <1>10. SubSeq(f, 1 + 1, 5) = orig
    BY <1>5, <1>7, <1>8, <1>9
  <1>11. SubSeq(f, 5 + 1, 7) = c
    BY <1>2, <1>7, <1>8, <1>9
  <1>12. SubSeq(f, 7 + 1, 9) = target
    BY <1>6, <1>7, <1>8, <1>9
  <1>13. SubSeq(f, 9 + 1, Len(f) - 2) = body
    <2>1. Len(f) - 2 \in Int /\ Len(f) - 2 = 9 + n /\ Len(f) - 2 <= Len(f)
      BY <1>1, <1>4
    <2>2. body \in Seq(Byte) /\ Len(body) = n
      BY DEF n
    <2>3. QED
      BY <1>4, <1>7, <1>8, <2>1, <2>2
  <1>14. 1 + 1 = 2 /\ 5 + 1 = 6 /\ 7 + 1 = 8 /\ 9 + 1 = 10
    OBVIOUS
  <1>15. QED
    BY <1>10, <1>11, <1>12, <1>13, <1>14 DEF f, c, orig, target

(* ParseFrame on a frame as it was sent.                                   *)
LEMMA ParseWhole ==
  ASSUME msg \in Messages, header \in Headers, NEW body \in Seq(Byte),
         ParseFrame(Whole(msg, header, body))
  PROVE  parser' = msg /\ got' = header /\ wire' = body /\ phase' = "read"
  <1> DEFINE f == Whole(msg, header, body)
  <1>1. /\ SubSeq(f, 2, 5) = header.orig
        /\ SubSeq(f, 6, 7) = WordBytes(Opcode(msg))
        /\ SubSeq(f, 8, 9) = header.target
        /\ SubSeq(f, 10, Len(f) - 2) = body
    BY FrameSlices
  <1>2. recognizedMessages(Word(SubSeq(f, 6, 7))) = {msg}
    <2>1. recognizedMessages(Word(WordBytes(Opcode(msg)))) = {msg}
      BY OwnParser
    <2>2. QED
      BY <1>1, <2>1
  <1> HIDE DEF f
  <1>3. /\ parser' \in {msg} /\ phase' = "read"
        /\ got' = [orig |-> SubSeq(f, 2, 5), target |-> SubSeq(f, 8, 9)]
        /\ wire' = SubSeq(f, 10, Len(f) - 2)
    <2>1. ParseFrame(f)
      BY DEF f
    <2>2. recognizedMessages(Word(SubSeq(f, 6, 7))) # {}
      BY <1>2
    <2>3. QED
      BY <1>2, <2>1, <2>2 DEF ParseFrame
  <1>4. header = [orig |-> header.orig, target |-> header.target]
    BY HeadersAssumption
  <1>5. QED
    BY <1>1, <1>3, <1>4

(* The reader finds the CRC of a frame as it was sent in order, if its     *)
(* length fits the length byte.                                            *)
LEMMA WholeIsGood ==
  ASSUME msg \in Messages, header \in Headers, NEW body \in Seq(Byte),
         line = Whole(msg, header, body), line[1] = Len(line)
  PROVE  GoodFrame(line[1])
  <1> DEFINE n == Len(body)
             c == Covered(msg, header, body)
             s == crc16(c)
  <1>1. /\ line \in Seq(Byte) /\ Len(line) = n + 11
        /\ \A i \in 1 .. (n + 9) : line[i] = c[i]
        /\ s \in Uint16
        /\ line[n + 10] = s \div 256 /\ line[n + 11] = s % 256
    BY WholeParts
  <1>2. c \in Seq(Byte) /\ Len(c) = n + 9
    BY CoveredParts
  <1>3. n \in Nat
    OBVIOUS
  <1> HIDE DEF n, c
  <1>4. SubSeq(line, 1, n + 9) = c
    <2> DEFINE t == SubSeq(line, 1, n + 9)
    <2>1. t \in Seq(Byte) /\ Len(t) = n + 9 /\ \A i \in 1 .. (n + 9) : t[i] = line[i]
      BY <1>1, <1>3
    <2> HIDE DEF t
    <2>2. n + 9 \in Nat /\ \A i \in 1 .. (n + 9) : t[i] = c[i]
      BY <1>1, <1>3, <2>1
    <2>3. t = c
      BY <1>2, <2>1, <2>2, SameBytes
    <2>4. QED
      BY <2>3 DEF t
  <1>5. Word(SubSeq(line, n + 10, n + 11)) = s
    <2> DEFINE t == SubSeq(line, n + 10, n + 11)
    <2>1. t[1] = line[n + 10] /\ t[2] = line[n + 11]
      BY <1>1, <1>3
    <2> HIDE DEF t
    <2>2. 256 * (s \div 256) + (s % 256) = s
      BY <1>1, WordOfBytes
    <2>3. Word(t) = s
      BY <1>1, <2>1, <2>2 DEF Word
    <2>4. QED
      BY <2>3 DEF t
  <1>6. /\ Len(line) >= MIN_FRAME_SIZE
        /\ Len(line) >= Len(line)
        /\ Len(line) - 2 = n + 9 /\ Len(line) - 1 = n + 10 /\ Len(line) = n + 11
    BY <1>1, <1>3 DEF MIN_FRAME_SIZE
  <1> DEFINE l == line[1]
  <1>7. l >= MIN_FRAME_SIZE /\ Len(line) >= l /\ l - 2 = n + 9 /\ l - 1 = n + 10 /\ l = n + 11
    BY <1>6
  <1> HIDE DEF l
  <1>8. crc16(SubSeq(line, 1, l - 2)) = Word(SubSeq(line, l - 1, l))
    BY <1>4, <1>5, <1>7
  <1>9. QED
    BY <1>7, <1>8 DEF GoodFrame, l

-----------------------------------------------------------------------------
(* From the sender to the bus.                                             *)

(* The frame f with one byte changed.                                      *)
OneByteOff(l, f) ==
  /\ l \in Seq(Byte) /\ Len(l) = Len(f)
  /\ \E i \in 1 .. Len(f) :
       ~ (l[i] = f[i]) /\ \A j \in 1 .. Len(f) : j # i => l[j] = f[j]

(* A frame for the message, with the bytes body, is on its way.            *)
Carries(body) ==
  LET f == Whole(msg, header, body)
  IN  /\ Body(msg, vals, body)
      /\ phase = "datagram" => ~ flipped /\ line = UdpHead \o f
      /\ phase = "sent" /\ ~ flipped => line = f
      /\ phase = "sent" /\ flipped => OneByteOff(line, f)

(* Inductive: the bytes written are those of the fields, and what is on    *)
(* the bus is their frame.                                                 *)
OnTheWay ==
  /\ phase \in {"write", "unwritable", "sent", "datagram"} =>
       parser = msg /\ got = header /\ out = <<>>
  /\ phase = "write" => Body(msg, vals, wire) /\ ~ flipped
  /\ phase \in {"sent", "datagram"} =>
       Len(vals) = Len(Layout(msg)) /\ \E body \in Seq(Byte) : Carries(body)

(* The bits of an exclusive or.                                            *)
LEMMA XorBit ==
  ASSUME NEW a, NEW b
  PROVE  \A k \in 1 .. 8 :
           Bit(Xor8(a, b), Weight[k]) = IF Bit(a, Weight[k]) # Bit(b, Weight[k]) THEN 1 ELSE 0
  <1> DEFINE x(k) == IF Bit(a, Weight[k]) # Bit(b, Weight[k]) THEN 1 ELSE 0
             n == x(1) + 2 * x(2) + 4 * x(3) + 8 * x(4)
                  + 16 * x(5) + 32 * x(6) + 64 * x(7) + 128 * x(8)
  <1>1. Xor8(a, b) = n
    BY DEF Xor8, Weight
  <1>2. \A k : x(k) \in {0, 1}
    OBVIOUS
  <1> HIDE DEF x
  <1>3. /\ Bit(n, 1) = x(1) /\ Bit(n, 2) = x(2) /\ Bit(n, 4) = x(3) /\ Bit(n, 8) = x(4)
        /\ Bit(n, 16) = x(5) /\ Bit(n, 32) = x(6) /\ Bit(n, 64) = x(7) /\ Bit(n, 128) = x(8)
    BY <1>2, EightBits
  <1> HIDE DEF n
  <1>4. \A k \in 1 .. 8 : Bit(n, Weight[k]) = x(k)
    BY <1>3 DEF Weight
  <1>5. QED
    BY <1>1, <1>4 DEF x

(* A bit that changes in a byte changes the byte.                          *)
LEMMA FlipChanges == \A b : \A k \in 1 .. 8 : ~ (Xor8(b, Weight[k]) = b)
  <1> SUFFICES ASSUME NEW b, NEW k \in 1 .. 8, Xor8(b, Weight[k]) = b
               PROVE  FALSE
    OBVIOUS
  <1> DEFINE w == Weight[k]
  <1>1. Bit(w, w) = 1
    BY DEF Weight, Bit
  <1>2. Bit(Xor8(b, w), w) = IF Bit(b, w) # Bit(w, w) THEN 1 ELSE 0
    BY XorBit
  <1> HIDE DEF w
  <1>3. Bit(b, w) = IF Bit(b, w) # 1 THEN 1 ELSE 0
    BY <1>1, <1>2 DEF w
  <1>4. QED
    BY <1>3

LEMMA OnTheWayInit == FrameInit => OnTheWay
  <1> SUFFICES ASSUME FrameInit PROVE OnTheWay
    OBVIOUS
  <1>1. parser = msg /\ vals = <<>> /\ wire = <<>> /\ out = <<>>
        /\ phase = "write" /\ flipped = FALSE /\ got = header
    BY DEF FrameInit, Init
  <1>2. QED
    BY <1>1, EmptyBody DEF OnTheWay

LEMMA OnTheWayStep == Typed /\ OnTheWay /\ [FrameNext]_frameVars => OnTheWay'
  <1> SUFFICES ASSUME Typed, OnTheWay, [FrameNext]_frameVars PROVE OnTheWay'
    OBVIOUS
  <1>0. msg \in Messages /\ header \in Headers /\ wire \in Seq(Byte) /\ line \in Seq(Byte)
    BY DEF Typed
  <1>1. CASE WriteMessageField
    <2> DEFINE kind == Layout(msg)[Len(vals) + 1]
    <2>1. /\ Len(vals) < Len(Layout(msg)) /\ phase = "write"
          /\ UNCHANGED <<msg, parser, out, header, line, flipped, got>>
      BY <1>1 DEF WriteMessageField, WriteField
    <2>2. PICK v \in Sample(kind) :
            /\ vals' = Append(vals, v)
            /\ IF Written(kind, v) = Failed
                 THEN phase' = "unwritable" /\ UNCHANGED wire
                 ELSE wire' = wire \o Written(kind, v) /\ UNCHANGED phase
      BY <1>1 DEF WriteMessageField, WriteField
    <2>3. FieldsOf(msg, vals) /\ vals \in Seq(Any)
      BY DEF Typed, FieldsOf
    <2>4. kind \in Kinds
      BY <1>0, <2>1, <2>3, NextField
    <2>5. v \in Values(kind) /\ v \in Any
      <3> HIDE DEF kind
      <3>1. v \in Values(kind)
        BY <2>4, SampleAssumption
      <3>2. QED
        BY <2>4, <3>1 DEF Any
    <2>6. CASE Written(kind, v) = Failed
      <3>1. phase' = "unwritable"
        BY <2>2, <2>6
      <3>2. QED
        BY <2>1, <3>1 DEF OnTheWay
    <2>7. CASE Written(kind, v) # Failed
      <3>1. wire' = wire \o Written(kind, v) /\ phase' = "write" /\ vals' = Append(vals, v)
        BY <2>1, <2>2, <2>7
      <3>2. Written(kind, v) \in Seq(Byte)
        BY <2>4, <2>5, <2>7, WrittenBytes
      <3>3. Body(msg, vals, wire)
        BY <2>1 DEF OnTheWay
      <3>4. Body(msg, Append(vals, v), wire \o Written(kind, v))
        BY <1>0, <2>3, <2>5, <2>7, <3>2, <3>3, LongerBody
      <3> HIDE DEF kind
      <3>5. Body(msg', vals', wire')
        BY <2>1, <3>1, <3>4
      <3>6. QED
        BY <2>1, <3>1, <3>5 DEF OnTheWay
    <2>8. QED
      BY <2>6, <2>7
  <1>2. CASE WriteFrameRaw
    <2>1. /\ line' = Whole(msg, header, wire)
          /\ phase = "write" /\ Len(vals) = Len(Layout(msg)) /\ phase' = "sent"
          /\ UNCHANGED <<msg, parser, vals, out, header, flipped, got>>
      BY <1>2 DEF WriteFrameRaw, Whole, Covered
    <2>2. Body(msg, vals, wire) /\ ~ flipped
      BY <2>1 DEF OnTheWay
    <2>3. PICK body \in Seq(Byte) : body = wire
      BY <1>0
    <2>4. Carries(body)'
      BY <2>1, <2>2, <2>3 DEF Carries
    <2>5. QED
      BY <2>1, <2>4 DEF OnTheWay
  <1>3. CASE Noise
    <2>1. PICK i \in DOMAIN line, k \in 1 .. 8 : line' = [line EXCEPT ![i] = Xor8(@, Weight[k])]
      BY <1>3 DEF Noise
    <2>2. /\ UNCHANGED <<msg, parser, vals, wire, out, phase, header, got>>
          /\ flipped' = TRUE /\ phase = "sent" /\ ~ flipped
      BY <1>3 DEF Noise
    <2>3. PICK body \in Seq(Byte) : Carries(body)
      BY <2>2 DEF OnTheWay
    <2>4. line = Whole(msg, header, body)
      BY <2>2, <2>3 DEF Carries
    <2>5. OneByteOff(line', line)
      <3>1. Xor8(line[i], Weight[k]) \in Byte /\ ~ (Xor8(line[i], Weight[k]) = line[i])
        BY XorTyped, FlipChanges
      <3>2. line' \in Seq(Byte) /\ Len(line') = Len(line)
        BY <1>0, <2>1, <3>1
      <3>3. i \in 1 .. Len(line) /\ line'[i] = Xor8(line[i], Weight[k])
        BY <1>0, <2>1
      <3>4. \A j \in 1 .. Len(line) : j # i => line'[j] = line[j]
        BY <1>0, <2>1
      <3>5. QED
        BY <3>1, <3>2, <3>3, <3>4 DEF OneByteOff
    <2>6. Carries(body)'
      BY <2>2, <2>3, <2>4, <2>5 DEF Carries
    <2>7. QED
      BY <2>2, <2>6 DEF OnTheWay
  <1>4. CASE doSend
    <2>1. /\ line' = UdpHead \o line
          /\ phase = "sent" /\ phase' = "datagram" /\ ~ flipped
          /\ UNCHANGED <<msg, parser, vals, wire, out, header, flipped, got>>
      BY <1>4 DEF doSend, UdpHead
    <2>2. PICK body \in Seq(Byte) : Carries(body)
      BY <2>1 DEF OnTheWay
    <2>3. Carries(body)'
      BY <2>1, <2>2 DEF Carries
    <2>4. QED
      BY <2>1, <2>3 DEF OnTheWay
  <1>5. CASE ReadSmartbusFrame \/ processUdpPacket
    <2>1. phase' \in {"read", "refused"}
      BY <1>5 DEF ReadSmartbusFrame, processUdpPacket, ParseFrame
    <2>2. QED
      BY <2>1 DEF OnTheWay
  <1>6. CASE ParseMessageField
    <2>1. phase' \notin {"write", "unwritable", "sent", "datagram"}
      <3>1. CASE Parsed
        BY <3>1 DEF Parsed
      <3>2. CASE ReadField
        <4> DEFINE kind == Layout(parser)[Len(out) + 1]
                   r == Read(kind, wire)
        <4>1. Len(out) < Len(Layout(parser)) /\ FieldsOf(parser, out) /\ parser \in Messages
          BY <3>2 DEF ReadField, Typed
        <4>2. kind \in Kinds
          BY <4>1, NextField
        <4>3. Answer(kind, wire, r)
          BY <1>0, <4>2, ReadTyped
        <4>4. phase = "read" /\ (IF r.res = "ok" THEN phase' = phase ELSE phase' = r.res)
          BY <3>2 DEF ReadField
        <4> HIDE DEF kind, r
        <4>5. r.res \in {"ok", "error", "panic"}
          BY <4>3 DEF Answer, Got, Fails
        <4>6. QED
          BY <4>4, <4>5
      <3>3. QED
        BY <1>6, <3>1, <3>2 DEF ParseMessageField
    <2>2. QED
      BY <2>1 DEF OnTheWay
  <1>7. CASE UNCHANGED frameVars
    BY <1>7 DEF OnTheWay, Carries, frameVars
  <1>8. QED
    BY <1>1, <1>2, <1>3, <1>4, <1>5, <1>6, <1>7 DEF FrameNext

-----------------------------------------------------------------------------
(* From the bus to the receiver.                                           *)

(* Inductive while CrcDetects holds: the message is read with its own      *)
(* parser, what was carried of every field so far has been read, and the   *)
(* bytes that are left are those of the other fields.                      *)
Received ==
  /\ phase \in {"read", "done"} =>
       /\ parser = msg /\ got = header /\ line = <<>> /\ ~ flipped
       /\ Len(vals) = Len(Layout(msg))
       /\ Left(msg, vals, out, wire)
  /\ phase = "done" => Len(out) = Len(vals)
  /\ phase = "refused" => line # <<>> /\ (flipped \/ line[1] # Len(line))
  /\ phase # "error"
  /\ phase = "panic" => TooManyChannels

(* A datagram: the frame after its head.                                   *)
LEMMA DatagramFrame ==
  ASSUME NEW f \in Seq(Byte), NEW d, d = UdpHead \o f
  PROVE  Len(d) >= 16 /\ SubSeq(d, 5, 16) = udpSignature /\ SubSeq(d, 17, Len(d)) = f
  <1> DEFINE h == UdpHead
             n == Len(f)
  <1>1. h \in Seq(Byte) /\ Len(h) = 16 /\ \A i \in 1 .. 12 : h[4 + i] = udpSignature[i]
    BY UdpHeadBytes
  <1>2. udpSignature \in Seq(Byte) /\ Len(udpSignature) = 12
    BY UdpHeadBytes
  <1> HIDE DEF h
  <1>3. /\ d \in Seq(Byte) /\ Len(d) = Len(h) + Len(f)
        /\ \A i \in 1 .. Len(h) : d[i] = h[i]
        /\ \A i \in 1 .. Len(f) : d[Len(h) + i] = f[i]
    <2>1. h \in Seq(Byte) /\ f \in Seq(Byte) /\ d = h \o f
      BY <1>1 DEF h
    <2>2. QED
      BY <2>1, Joined
  <1>4. n \in Nat
    OBVIOUS
  <1> HIDE DEF n
  <1>5. Len(d) = 16 + n /\ Len(d) >= 16 /\ Len(f) = n
    BY <1>1, <1>3, <1>4 DEF n
  <1>6. \A i \in 1 .. 12 : d[4 + i] = udpSignature[i]
    <2>1. \A i \in 1 .. 12 : 4 + i \in 1 .. Len(h)
      BY <1>1
    <2>2. QED
      BY <1>1, <1>3, <2>1
  <1>7. \A i \in 1 .. n : d[16 + i] = f[i]
    BY <1>1, <1>3 DEF n
  <1>8. \A s \in Seq(Byte) : \A a, k \in Nat : \A b \in Int :
          b = a + k /\ b <= Len(d) /\ Len(s) = k /\ (\A i \in 1 .. k : d[a + i] = s[i])
            => SubSeq(d, a + 1, b) = s
    BY <1>3, Slice
  <1>9. SubSeq(d, 4 + 1, 16) = udpSignature
    <2>1. 16 = 4 + 12 /\ 4 \in Nat /\ 12 \in Nat /\ 16 \in Int /\ 16 <= Len(d)
      BY <1>5
    <2> DEFINE s == udpSignature
    <2>2. s \in Seq(Byte) /\ Len(s) = 12 /\ \A i \in 1 .. 12 : d[4 + i] = s[i]
      BY <1>2, <1>6
    <2> HIDE DEF s
    <2>3. SubSeq(d, 4 + 1, 16) = s
      BY <1>8, <2>1, <2>2, Zenon
    <2>4. QED
      BY <2>3 DEF s
  <1>10. SubSeq(d, 16 + 1, Len(d)) = f
    <2>1. Len(d) \in Int /\ Len(d) = 16 + n /\ Len(d) <= Len(d)
      BY <1>4, <1>5
    <2>2. QED
      BY <1>4, <1>5, <1>7, <1>8, <2>1
  <1>11. 4 + 1 = 5 /\ 16 + 1 = 17
    OBVIOUS
  <1>12. QED
    BY <1>5, <1>9, <1>10, <1>11

LEMMA ReceivedStep ==
  Typed /\ OnTheWay /\ CrcDetects /\ Received /\ [FrameNext]_frameVars => Received'
  <1> SUFFICES ASSUME Typed, OnTheWay, CrcDetects, Received, [FrameNext]_frameVars
               PROVE  Received'
    OBVIOUS
  <1>0. /\ msg \in Messages /\ header \in Headers /\ wire \in Seq(Byte) /\ line \in Seq(Byte)
        /\ FieldsOf(msg, vals) /\ vals \in Seq(Any) /\ out \in Seq(Any)
    BY DEF Typed, FieldsOf
  <1>1. CASE WriteMessageField \/ WriteFrameRaw \/ Noise \/ doSend
    <2>1. phase' \in {"write", "unwritable", "sent", "datagram"}
      BY <1>1 DEF WriteMessageField, WriteField, WriteFrameRaw, Noise, doSend
    <2>2. QED
      BY <2>1 DEF Received
  <1>2. CASE ReadSmartbusFrame
    <2>1. /\ phase = "sent" /\ UNCHANGED <<msg, vals, out, header, flipped>>
          /\ parser = msg /\ got = header /\ out = <<>> /\ Len(vals) = Len(Layout(msg))
      BY <1>2 DEF ReadSmartbusFrame, OnTheWay
    <2>2. PICK body \in Seq(Byte) : Carries(body)
      BY <2>1 DEF OnTheWay
    <2>3. Body(msg, vals, body) /\ (~ flipped => line = Whole(msg, header, body))
      BY <2>1, <2>2 DEF Carries
    <2>4. CASE GoodFrame(line[1])
      <3>1. ~ flipped /\ line[1] = Len(line)
        BY <2>1, <2>4 DEF CrcDetects
      <3>2. /\ ParseFrame(SubSeq(line, 1, line[1]))
            /\ line' = SubSeq(line, line[1] + 1, Len(line))
        BY <1>2, <2>4 DEF ReadSmartbusFrame
      <3>3. SubSeq(line, 1, Len(line)) = line /\ SubSeq(line, Len(line) + 1, Len(line)) = <<>>
        BY <1>0
      <3>4. ParseFrame(Whole(msg, header, body)) /\ line' = <<>>
        BY <2>3, <3>1, <3>2, <3>3
      <3>5. parser' = msg /\ got' = header /\ wire' = body /\ phase' = "read"
        BY <1>0, <3>4, ParseWhole
      <3>6. Left(msg, vals, <<>>, body)
        BY <1>0, <2>3, AllLeft
      <3>7. Left(msg', vals', out', wire')
        BY <2>1, <3>5, <3>6
      <3>8. QED
        BY <2>1, <3>1, <3>4, <3>5, <3>7 DEF Received
    <2>5. CASE ~ GoodFrame(line[1])
      <3>1. phase' = "refused" /\ UNCHANGED line
        BY <1>2, <2>5 DEF ReadSmartbusFrame
      <3>2. flipped \/ line[1] # Len(line)
        BY <1>0, <2>3, <2>5, WholeIsGood
      <3>3. line # <<>>
        BY <1>0, <2>1 DEF Typed, MIN_FRAME_SIZE
      <3>4. QED
        BY <2>1, <3>1, <3>2, <3>3 DEF Received
    <2>6. QED
      BY <2>4, <2>5
  <1>3. CASE processUdpPacket
    <2>1. /\ phase = "datagram" /\ UNCHANGED <<msg, vals, out, header, flipped>>
          /\ parser = msg /\ got = header /\ out = <<>> /\ Len(vals) = Len(Layout(msg))
          /\ line' = <<>>
      BY <1>3 DEF processUdpPacket, OnTheWay
    <2>2. PICK body \in Seq(Byte) : Carries(body)
      BY <2>1 DEF OnTheWay
    <2>3. Body(msg, vals, body) /\ ~ flipped /\ line = UdpHead \o Whole(msg, header, body)
      BY <2>1, <2>2 DEF Carries
    <2>4. Whole(msg, header, body) \in Seq(Byte)
      BY <1>0, WholeParts
    <2>5. /\ Len(line) >= 16 /\ SubSeq(line, 5, 16) = udpSignature
          /\ SubSeq(line, 17, Len(line)) = Whole(msg, header, body)
      BY <2>3, <2>4, DatagramFrame
    <2>6. ParseFrame(Whole(msg, header, body))
      BY <1>3, <2>5 DEF processUdpPacket
    <2>7. parser' = msg /\ got' = header /\ wire' = body /\ phase' = "read"
      BY <1>0, <2>6, ParseWhole
    <2>8. Left(msg, vals, <<>>, body)
      BY <1>0, <2>3, AllLeft
    <2>9. Left(msg', vals', out', wire')
      BY <2>1, <2>7, <2>8
    <2>10. QED
      BY <2>1, <2>3, <2>7, <2>9 DEF Received
  <1>4. CASE ParseMessageField
    <2>1. /\ UNCHANGED <<header, line, flipped, got, msg, parser, vals>> /\ phase = "read"
          /\ parser = msg /\ Len(vals) = Len(Layout(msg)) /\ Left(msg, vals, out, wire)
      BY <1>4 DEF ParseMessageField, ReadField, Parsed, Received
    <2>2. CASE ReadField
      <3> DEFINE kind == Layout(msg)[Len(out) + 1]
                 r == Read(kind, wire)
      <3>1. /\ Len(out) < Len(Layout(msg))
            /\ IF r.res = "ok"
                 THEN /\ out' = Append(out, r.val)
                      /\ wire' = SubSeq(wire, r.used + 1, Len(wire))
                      /\ UNCHANGED phase
                 ELSE phase' = r.res /\ UNCHANGED <<wire, out>>
        BY <2>1, <2>2 DEF ReadField
      <3> DEFINE Next(v, n) ==
                   /\ r = Got(v, n)
                   /\ Left(msg, vals, Append(out, v), SubSeq(wire, n + 1, Len(wire)))
      <3>2. (r = Fails("panic") /\ TooManyChannels) \/ \E v \in Any, n \in Nat : Next(v, n)
        BY <1>0, <2>1, <3>1, NextRead DEF TooManyChannels
      <3> HIDE DEF kind, r
      <3>3. CASE r = Fails("panic") /\ TooManyChannels
        <4>1. phase' = "panic"
          BY <3>1, <3>3 DEF Fails
        <4>2. TooManyChannels'
          BY <2>1, <3>3 DEF TooManyChannels
        <4>3. QED
          BY <4>1, <4>2 DEF Received
      <3>4. CASE \E v \in Any, n \in Nat : Next(v, n)
        <4>1. PICK v \in Any, n \in Nat : Next(v, n)
          BY <3>4
        <4>2. r.res = "ok" /\ r.val = v /\ r.used = n
          BY <4>1 DEF Got
        <4>3. out' = Append(out, v) /\ wire' = SubSeq(wire, n + 1, Len(wire)) /\ phase' = "read"
          BY <2>1, <3>1, <4>2
        <4>4. Left(msg', vals', out', wire')
          BY <2>1, <4>1, <4>3
        <4>5. QED
          BY <2>1, <4>3, <4>4 DEF Received
      <3>5. QED
        BY <3>2, <3>3, <3>4
    <2>3. CASE Parsed
      <3>1. phase' = "done" /\ Len(out) = Len(Layout(parser)) /\ UNCHANGED <<out, wire>>
        BY <2>3 DEF Parsed
      <3>2. Left(msg', vals', out', wire')
        BY <2>1, <3>1
      <3>3. QED
        BY <2>1, <3>1, <3>2 DEF Received
    <2>4. QED
      BY <1>4, <2>2, <2>3 DEF ParseMessageField
  <1>5. CASE UNCHANGED frameVars
    BY <1>5 DEF Received, TooManyChannels, frameVars
  <1>6. QED
    BY <1>1, <1>2, <1>3, <1>4, <1>5 DEF FrameNext

LEMMA OnTheWayAlways == FrameSpec => []OnTheWay
  BY OnTheWayInit, OnTheWayStep, TypedAlways, PTL DEF FrameSpec

LEMMA ReceivedAlways == FrameSpec /\ []CrcDetects => []Received
  <1>1. FrameInit => Received
    BY DEF FrameInit, Init, Received
  <1>2. QED
    BY <1>1, ReceivedStep, OnTheWayAlways, TypedAlways, PTL DEF FrameSpec

(* Messages of all types and all values of their fields (lists of up to    *)
(* 255 entries) that can be written are read to their end, from the stream *)
(* and from datagrams, and nothing of them is left over; the parser panics *)
(* on a status of more than 248 channels and on nothing else.  This as     *)
(* long as the reader accepts no frame that is not whole (CrcDetects).     *)
THEOREM FramesRoundTrip == FrameSpec /\ []CrcDetects => []RoundTrip
  <1>1. Typed /\ Received => RoundTrip
    <2> SUFFICES ASSUME Typed, Received PROVE RoundTrip
      OBVIOUS
    <2>1. phase = "done" => wire = <<>> /\ line = <<>> /\ ~ TooManyChannels
      BY NothingLeft DEF Typed, Received, FieldsOf, TooManyChannels
    <2>2. QED
      BY <2>1 DEF Received, RoundTrip
  <1>2. QED
    BY <1>1, ReceivedAlways, TypedAlways, PTL

(* Under the same condition, what ParseFrame returns is what was sent: the *)
(* type, the header and every field, but for those that the category of a  *)
(* QueryModulesResponse does not use, which are read as zero.              *)
THEOREM FramesTrusted == FrameSpec /\ []CrcDetects => []FrameTrusted
  <1>1. Typed /\ Received => FrameTrusted
    <2> SUFFICES ASSUME Typed, Received, phase = "done"
                 PROVE  /\ parser = msg /\ got = header
                        /\ out = [i \in DOMAIN vals |-> Carried(Layout(msg)[i], vals[i])]
      BY DEF FrameTrusted
    <2>1. vals \in Seq(Any) /\ out \in Seq(Any)
      BY DEF Typed, FieldsOf
    <2>2. /\ parser = msg /\ got = header /\ Left(msg, vals, out, wire)
          /\ Len(out) = Len(vals)
      BY DEF Received
    <2>3. QED
      BY <2>1, <2>2, NothingLeft
  <1>2. QED
    BY <1>1, ReceivedAlways, TypedAlways, PTL

-----------------------------------------------------------------------------
(* What the CRC detects.                                                   *)

(* A byte is the sum of its bits.                                          *)
LEMMA ByteOfBits ==
  ASSUME NEW b \in Byte
  PROVE  /\ b = Bit(b, 1) + 2 * Bit(b, 2) + 4 * Bit(b, 4) + 8 * Bit(b, 8)
                + 16 * Bit(b, 16) + 32 * Bit(b, 32) + 64 * Bit(b, 64) + 128 * Bit(b, 128)
         /\ \A k \in 1 .. 8 : Bit(b, Weight[k]) \in {0, 1}
  <1>1. b \in 0 .. 255
    BY DEF Byte
  <1>2. b = Bit(b, 1) + 2 * Bit(b, 2) + 4 * Bit(b, 4) + 8 * Bit(b, 8)
            + 16 * Bit(b, 16) + 32 * Bit(b, 32) + 64 * Bit(b, 64) + 128 * Bit(b, 128)
    BY <1>1 DEF Bit
  <1>3. \A k \in 1 .. 8 : Bit(b, Weight[k]) \in {0, 1}
    BY <1>1 DEF Bit, Weight
  <1>4. QED
    BY <1>2, <1>3

LEMMA SameBits ==
  ASSUME NEW b \in Byte, NEW c \in Byte,
         \A k \in 1 .. 8 : Bit(b, Weight[k]) = Bit(c, Weight[k])
  PROVE  b = c
  <1>1. /\ Bit(b, 1) = Bit(c, 1) /\ Bit(b, 2) = Bit(c, 2) /\ Bit(b, 4) = Bit(c, 4)
        /\ Bit(b, 8) = Bit(c, 8) /\ Bit(b, 16) = Bit(c, 16) /\ Bit(b, 32) = Bit(c, 32)
        /\ Bit(b, 64) = Bit(c, 64) /\ Bit(b, 128) = Bit(c, 128)
    BY DEF Weight
  <1>2. /\ b = Bit(b, 1) + 2 * Bit(b, 2) + 4 * Bit(b, 4) + 8 * Bit(b, 8)
               + 16 * Bit(b, 16) + 32 * Bit(b, 32) + 64 * Bit(b, 64) + 128 * Bit(b, 128)
        /\ c = Bit(c, 1) + 2 * Bit(c, 2) + 4 * Bit(c, 4) + 8 * Bit(c, 8)
               + 16 * Bit(c, 16) + 32 * Bit(c, 32) + 64 * Bit(c, 64) + 128 * Bit(c, 128)
    BY ByteOfBits
  <1>3. QED
    BY <1>1, <1>2

(* Exclusive or with the same byte, on either side, loses nothing, and     *)
(* exclusive or with 0 changes nothing.                                    *)
LEMMA XorCancels ==
  ASSUME NEW a \in Byte, NEW b \in Byte, NEW c \in Byte,
         Xor8(a, b) = Xor8(a, c) \/ Xor8(b, a) = Xor8(c, a)
  PROVE  b = c
  <1>1. ASSUME NEW k \in 1 .. 8 PROVE Bit(b, Weight[k]) = Bit(c, Weight[k])
    <2> DEFINE A == Bit(a, Weight[k])
               B == Bit(b, Weight[k])
               C == Bit(c, Weight[k])
    <2>1. A \in {0, 1} /\ B \in {0, 1} /\ C \in {0, 1}
      BY ByteOfBits
    <2>2. /\ Bit(Xor8(a, b), Weight[k]) = IF A # B THEN 1 ELSE 0
          /\ Bit(Xor8(a, c), Weight[k]) = IF A # C THEN 1 ELSE 0
          /\ Bit(Xor8(b, a), Weight[k]) = IF B # A THEN 1 ELSE 0
          /\ Bit(Xor8(c, a), Weight[k]) = IF C # A THEN 1 ELSE 0
      BY XorBit
    <2> HIDE DEF A, B, C
    <2>3. \/ (IF A # B THEN 1 ELSE 0) = (IF A # C THEN 1 ELSE 0)
          \/ (IF B # A THEN 1 ELSE 0) = (IF C # A THEN 1 ELSE 0)
      BY <2>2
    <2>4. B = C
      BY <2>1, <2>3
    <2>5. QED
      BY <2>4 DEF B, C
  <1>2. QED
    BY <1>1, SameBits

LEMMA XorZero ==
  ASSUME NEW b \in Byte
  PROVE  Xor8(0, b) = b
  <1>1. Xor8(0, b) \in Byte
    BY XorTyped
  <1>2. ASSUME NEW k \in 1 .. 8 PROVE Bit(Xor8(0, b), Weight[k]) = Bit(b, Weight[k])
    <2>1. Bit(0, Weight[k]) = 0
      BY DEF Bit, Weight
    <2>2. Bit(b, Weight[k]) \in {0, 1}
      BY ByteOfBits
    <2>3. Bit(Xor8(0, b), Weight[k]) = IF Bit(0, Weight[k]) # Bit(b, Weight[k]) THEN 1 ELSE 0
      BY XorBit
    <2>4. QED
      BY <2>1, <2>2, <2>3
  <1>3. QED
    BY <1>1, <1>2, SameBits

(* The index of the entry of crc16tab with each low byte.                  *)
Origin ==
  <<0, 35, 70, 101, 140, 175, 202, 233, 8, 43, 78, 109, 132, 167, 194, 225,
    17, 50, 87, 116, 157, 190, 219, 248, 25, 58, 95, 124, 149, 182, 211, 240,
    34, 1, 100, 71, 174, 141, 232, 203, 42, 9, 108, 79, 166, 133, 224, 195,
    51, 16, 117, 86, 191, 156, 249, 218, 59, 24, 125, 94, 183, 148, 241, 210,
    68, 103, 2, 33, 200, 235, 142, 173, 76, 111, 10, 41, 192, 227, 134, 165,
    85, 118, 19, 48, 217, 250, 159, 188, 93, 126, 27, 56, 209, 242, 151, 180,
    102, 69, 32, 3, 234, 201, 172, 143, 110, 77, 40, 11, 226, 193, 164, 135,
    119, 84, 49, 18, 251, 216, 189, 158, 127, 92, 57, 26, 243, 208, 181, 150,
    136, 171, 206, 237, 4, 39, 66, 97, 128, 163, 198, 229, 12, 47, 74, 105,
    153, 186, 223, 252, 21, 54, 83, 112, 145, 178, 215, 244, 29, 62, 91, 120,
    170, 137, 236, 207, 38, 5, 96, 67, 162, 129, 228, 199, 46, 13, 104, 75,
    187, 152, 253, 222, 55, 20, 113, 82, 179, 144, 245, 214, 63, 28, 121, 90,
    204, 239, 138, 169, 64, 99, 6, 37, 196, 231, 130, 161, 72, 107, 14, 45,
    221, 254, 155, 184, 81, 114, 23, 52, 213, 246, 147, 176, 89, 122, 31, 60,
    238, 205, 168, 139, 98, 65, 36, 7, 230, 197, 160, 131, 106, 73, 44, 15,
    255, 220, 185, 154, 115, 80, 53, 22, 247, 212, 177, 146, 123, 88, 61, 30>>

LEMMA WordRange ==
  ASSUME NEW n \in Nat, n <= 65535
  PROVE  n \in Uint16
  <1> DEFINE a == n \div 256
             b == n % 256
  <1>1. a \in Nat /\ a <= 255 /\ b \in Nat /\ b <= 255 /\ 256 * a + b = n
    OBVIOUS
  <1> HIDE DEF a, b
  <1>2. a \in Byte /\ b \in Byte
    BY <1>1 DEF Byte
  <1>3. 256 * a + b \in Uint16
    BY <1>2, TwoBytes
  <1>4. QED
    BY <1>1, <1>3

(* The low byte of an entry of the table tells which entry it is.          *)
LEMMA TableEntries ==
  /\ \A i \in Byte : crc16tab[i + 1] \in Uint16
  /\ \A i, j \in Byte : crc16tab[i + 1] % 256 = crc16tab[j + 1] % 256 => i = j
  <1>1. \A i \in 0 .. 255 : Origin[(crc16tab[i + 1] % 256) + 1] = i
    BY DEF crc16tab, Origin
  <1>2. \A i \in 0 .. 255 : crc16tab[i + 1] \in Nat /\ crc16tab[i + 1] <= 65535
    BY DEF crc16tab
  <1>3. ASSUME NEW i \in Byte PROVE crc16tab[i + 1] \in Uint16
    <2>1. i \in 0 .. 255
      BY DEF Byte
    <2>2. QED
      BY <1>2, <2>1, WordRange
  <1>4. ASSUME NEW i \in Byte, NEW j \in Byte,
               crc16tab[i + 1] % 256 = crc16tab[j + 1] % 256
        PROVE  i = j
    <2>1. i \in 0 .. 255 /\ j \in 0 .. 255
      BY DEF Byte
    <2>2. Origin[(crc16tab[i + 1] % 256) + 1] = i /\ Origin[(crc16tab[j + 1] % 256) + 1] = j
      BY <1>1, <2>1
    <2>3. QED
      BY <1>4, <2>2, Zenon
  <1>5. QED
    BY <1>3, <1>4

(* The parts of the two words in update_crc16.                             *)
LEMMA UpdateParts ==
  ASSUME NEW b \in Byte, NEW p \in Uint16
  PROVE  LET i == Xor8(p \div 256, b)
             t == crc16tab[i + 1]
         IN  /\ i \in Byte /\ t \in Uint16
             /\ update_crc16(b, p) = 256 * Xor8(p % 256, t \div 256) + (t % 256)
  <1> DEFINE i == Xor8(p \div 256, b)
             t == crc16tab[i + 1]
             x == (p * 256) % 65536
  <1>1. i \in Byte
    BY XorTyped
  <1>2. t \in Uint16
    BY <1>1, TableEntries
  <1>3. x \div 256 = p % 256 /\ x % 256 = 0
    <2>1. p \in Nat /\ p <= 65535
      BY DEF Uint16
    <2>2. QED
      BY <2>1
  <1>4. update_crc16(b, p) = 256 * Xor8(x \div 256, t \div 256) + Xor8(x % 256, t % 256)
    BY DEF update_crc16, Xor16
  <1> HIDE DEF x, t
  <1>5. t % 256 \in Byte
    BY <1>2, WordOfBytes
  <1>6. Xor8(0, t % 256) = t % 256
    BY <1>5, XorZero
  <1>7. update_crc16(b, p) = 256 * Xor8(p % 256, t \div 256) + (t % 256)
    BY <1>3, <1>4, <1>6
  <1>8. QED
    BY <1>1, <1>2, <1>7 DEF t

LEMMA UniqueBytes ==
  ASSUME NEW a \in Byte, NEW b \in Byte, NEW c \in Byte, NEW d \in Byte,
         256 * a + b = 256 * c + d
  PROVE  a = c /\ b = d
  BY DEF Byte

(* The update loses nothing: two sums remain different when the same byte  *)
(* is added, and the same sum becomes different when different bytes are.  *)
LEMMA UpdateKeepsApart ==
  ASSUME NEW b \in Byte, NEW c \in Byte, NEW p \in Uint16, NEW q \in Uint16,
         b = c \/ p = q, update_crc16(b, p) = update_crc16(c, q)
  PROVE  b = c /\ p = q
  <1> DEFINE i == Xor8(p \div 256, b)
             j == Xor8(q \div 256, c)
             t == crc16tab[i + 1]
             u == crc16tab[j + 1]
  <1>1. i \in Byte /\ t \in Uint16
        /\ update_crc16(b, p) = 256 * Xor8(p % 256, t \div 256) + (t % 256)
    BY UpdateParts
  <1>2. j \in Byte /\ u \in Uint16
        /\ update_crc16(c, q) = 256 * Xor8(q % 256, u \div 256) + (u % 256)
    BY UpdateParts
  <1> HIDE DEF t, u, i, j
  <1>3. /\ t % 256 \in Byte /\ u % 256 \in Byte /\ t \div 256 \in Byte /\ u \div 256 \in Byte
    BY <1>1, <1>2, WordOfBytes
  <1>4. Xor8(p % 256, t \div 256) \in Byte /\ Xor8(q % 256, u \div 256) \in Byte
    BY XorTyped
  <1>5. Xor8(p % 256, t \div 256) = Xor8(q % 256, u \div 256) /\ t % 256 = u % 256
    <2> DEFINE e == Xor8(p % 256, t \div 256)
               f == Xor8(q % 256, u \div 256)
               g == t % 256
               h == u % 256
    <2>1. e \in Byte /\ f \in Byte /\ g \in Byte /\ h \in Byte /\ 256 * e + g = 256 * f + h
      BY <1>1, <1>2, <1>3, <1>4
    <2> HIDE DEF e, f, g, h
    <2>2. e = f /\ g = h
      BY <2>1, UniqueBytes
    <2>3. QED
      BY <2>2 DEF e, f, g, h
  <1>6. i = j
    BY <1>1, <1>2, <1>5, TableEntries DEF t, u
  <1>7. t = u
    BY <1>6 DEF t, u
  <1>8. /\ p \div 256 \in Byte /\ p % 256 \in Byte /\ 256 * (p \div 256) + (p % 256) = p
        /\ q \div 256 \in Byte /\ q % 256 \in Byte /\ 256 * (q \div 256) + (q % 256) = q
    BY WordOfBytes
  <1>9. p % 256 = q % 256
    BY <1>3, <1>5, <1>7, <1>8, XorCancels
  <1>10. Xor8(p \div 256, b) = Xor8(q \div 256, c)
    BY <1>6 DEF i, j
  <1>11. CASE b = c
    <2>1. p \div 256 = q \div 256
      BY <1>8, <1>10, <1>11, XorCancels
    <2>2. QED
      BY <1>8, <1>9, <1>11, <2>1
  <1>12. CASE p = q
    BY <1>8, <1>10, <1>12, XorCancels
  <1>13. QED
    BY <1>11, <1>12

(* A byte of what the CRC covers has changed, to whatever value: the CRC   *)
(* is another one.                                                         *)
THEOREM ByteDetected ==
  ASSUME NEW bs \in Seq(Byte), NEW cs \in Seq(Byte), OneByteOff(cs, bs)
  PROVE  ~ (crc16(bs) = crc16(cs))
  <1> DEFINE l == Len(bs)
  <1>1. l \in Nat /\ Len(cs) = l
    BY DEF OneByteOff
  <1>2. PICK i \in 1 .. l : ~ (cs[i] = bs[i]) /\ \A j \in 1 .. l : j # i => cs[j] = bs[j]
    BY DEF OneByteOff
  <1>3. PICK f : /\ Loop(Update, f, 0, bs) /\ f[0] = 0 /\ f \in [Nat -> Uint16]
                  /\ \A n \in 1 .. Len(bs) : f[n] = update_crc16(bs[n], f[n - 1])
    BY CrcLoop
  <1>4. PICK g : /\ Loop(Update, g, 0, cs) /\ g[0] = 0 /\ g \in [Nat -> Uint16]
                  /\ \A n \in 1 .. Len(cs) : g[n] = update_crc16(cs[n], g[n - 1])
    BY CrcLoop
  <1>5. /\ f \in [Nat -> Uint16] /\ f[0] = 0
        /\ \A n \in 1 .. l : f[n] = update_crc16(bs[n], f[n - 1])
    BY <1>3
  <1>6. /\ g \in [Nat -> Uint16] /\ g[0] = 0
        /\ \A n \in 1 .. l : g[n] = update_crc16(cs[n], g[n - 1])
    BY <1>1, <1>4
  <1>7. \A n \in 1 .. l : bs[n] \in Byte /\ cs[n] \in Byte
    BY <1>1
  <1> HIDE DEF l
  <1> DEFINE S == {n \in Nat : n <= l => (f[n] = g[n] <=> n < i)}
  <1>8. 0 \in S
    BY <1>1, <1>2, <1>5, <1>6
  <1>9. ASSUME NEW n \in Nat, n \in S PROVE n + 1 \in S
    <2> SUFFICES ASSUME n + 1 <= l PROVE f[n + 1] = g[n + 1] <=> n + 1 < i
      OBVIOUS
    <2>1. n + 1 \in 1 .. l /\ (n + 1) - 1 = n /\ n <= l
      BY <1>1
    <2>2. f[n] = g[n] <=> n < i
      BY <1>9, <2>1
    <2>3. /\ f[n + 1] = update_crc16(bs[n + 1], f[n])
          /\ g[n + 1] = update_crc16(cs[n + 1], g[n])
      BY <1>5, <1>6, <2>1
    <2>4. f[n] \in Uint16 /\ g[n] \in Uint16 /\ bs[n + 1] \in Byte /\ cs[n + 1] \in Byte
      BY <1>5, <1>6, <1>7, <2>1
    <2>5. CASE n + 1 < i
      <3>1. n < i /\ n + 1 # i
        BY <1>2, <2>5
      <3>2. f[n] = g[n] /\ cs[n + 1] = bs[n + 1]
        BY <1>2, <2>1, <2>2, <3>1
      <3>3. f[n + 1] = g[n + 1]
        BY <2>3, <3>2
      <3>4. QED
        BY <2>5, <3>3
    <2>6. CASE n + 1 = i
      <3>1. f[n] = g[n] /\ ~ (bs[n + 1] = cs[n + 1])
        BY <1>2, <2>2, <2>6
      <3>2. ~ (f[n + 1] = g[n + 1])
        BY <2>3, <2>4, <3>1, UpdateKeepsApart
      <3>3. QED
        BY <2>6, <3>2
    <2>7. CASE n + 1 > i
      <3>1. ~ (f[n] = g[n]) /\ bs[n + 1] = cs[n + 1] /\ ~ (n + 1 < i)
        BY <1>2, <2>1, <2>2, <2>7
      <3>2. ~ (f[n + 1] = g[n + 1])
        BY <2>3, <2>4, <3>1, UpdateKeepsApart
      <3>3. QED
        BY <3>1, <3>2
    <2>8. QED
      BY <1>2, <2>5, <2>6, <2>7
  <1> HIDE DEF S
  <1>10. l \in S
    BY <1>1, <1>8, <1>9, SetInduction
  <1>11. ~ (f[l] = g[l]) /\ l > 0
    BY <1>1, <1>2, <1>10 DEF S
  <1>12. crc16(bs) = f[l]
    BY <1>3, <1>11, CrcIsLoop DEF l
  <1>13. crc16(cs) = g[l]
    BY <1>1, <1>4, <1>11, CrcIsLoop
  <1>14. QED
    BY <1>11, <1>12, <1>13

-----------------------------------------------------------------------------
(* A damaged frame is refused.                                             *)

(* The reader knows where the frame ends: the length byte has not changed, *)
(* and it could hold the length.                                           *)
LengthIntact == phase = "sent" => line[1] = Len(line)

LEMMA DamageRefused ==
  ASSUME msg \in Messages, header \in Headers, NEW body \in Seq(Byte),
         OneByteOff(line, Whole(msg, header, body)), line[1] = Len(line)
  PROVE  ~ GoodFrame(line[1])
  <1> SUFFICES ASSUME GoodFrame(line[1]) PROVE FALSE
    OBVIOUS
  <1> DEFINE n == Len(body)
             c == Covered(msg, header, body)
             s == crc16(c)
             f == Whole(msg, header, body)
  <1>1. /\ f \in Seq(Byte) /\ Len(f) = n + 11
        /\ \A i \in 1 .. (n + 9) : f[i] = c[i]
        /\ s \in Uint16
        /\ f[n + 10] = s \div 256 /\ f[n + 11] = s % 256
    BY WholeParts
  <1>2. c \in Seq(Byte) /\ Len(c) = n + 9
    BY CoveredParts
  <1>3. n \in Nat
    OBVIOUS
  <1>4. line \in Seq(Byte) /\ Len(line) = Len(f)
    BY DEF OneByteOff
  <1>5. PICK i \in 1 .. Len(f) :
          ~ (line[i] = f[i]) /\ \A j \in 1 .. Len(f) : j # i => line[j] = f[j]
    BY DEF OneByteOff
  <1> HIDE DEF n, c, s, f
  <1>6. Len(line) = n + 11
    BY <1>1, <1>4
  <1> DEFINE d == SubSeq(line, 1, n + 9)
             w == SubSeq(line, n + 10, n + 11)
  <1>7. d \in Seq(Byte) /\ Len(d) = n + 9 /\ \A j \in 1 .. (n + 9) : d[j] = line[j]
    BY <1>3, <1>4, <1>6
  <1>8. w[1] = line[n + 10] /\ w[2] = line[n + 11]
    BY <1>3, <1>4, <1>6
  <1>9. line[n + 10] \in Byte /\ line[n + 11] \in Byte
    BY <1>3, <1>4, <1>6
  <1>10. crc16(d) = Word(w)
    <2> DEFINE k == line[1]
    <2>1. k = n + 11 /\ k - 2 = n + 9 /\ k - 1 = n + 10
      BY <1>3, <1>6
    <2>2. crc16(SubSeq(line, 1, k - 2)) = Word(SubSeq(line, k - 1, k))
      BY DEF GoodFrame
    <2> HIDE DEF k
    <2>3. QED
      BY <2>1, <2>2
  <1> HIDE DEF d, w
  <1>11. crc16(d) = 256 * line[n + 10] + line[n + 11]
    BY <1>8, <1>10 DEF Word
  <1>12. CASE i \in 1 .. (n + 9)
    <2>1. line[n + 10] = f[n + 10] /\ line[n + 11] = f[n + 11]
      <3>1. n + 10 \in 1 .. Len(f) /\ n + 11 \in 1 .. Len(f) /\ n + 10 # i /\ n + 11 # i
        BY <1>1, <1>3, <1>12
      <3>2. QED
        BY <1>5, <3>1
    <2>2. 256 * (s \div 256) + (s % 256) = s
      BY <1>1, WordOfBytes
    <2>3. crc16(d) = s
      BY <1>1, <1>11, <2>1, <2>2
    <2>4. ~ (d[i] = c[i])
      BY <1>1, <1>5, <1>7, <1>12
    <2>5. ASSUME NEW j \in 1 .. (n + 9), j # i PROVE d[j] = c[j]
      <3>1. j \in 1 .. Len(f)
        BY <1>1, <1>3
      <3>2. QED
        BY <1>1, <1>5, <1>7, <2>5, <3>1
    <2>6. OneByteOff(d, c)
      BY <1>2, <1>7, <1>12, <2>4, <2>5 DEF OneByteOff
    <2>7. QED
      BY <1>2, <1>7, <2>3, <2>6, ByteDetected DEF s
  <1>13. CASE i = n + 10 \/ i = n + 11
    <2>1. ASSUME NEW j \in 1 .. (n + 9) PROVE d[j] = c[j]
      <3>1. j \in 1 .. Len(f) /\ j # i
        BY <1>1, <1>3, <1>13
      <3>2. QED
        BY <1>1, <1>5, <1>7, <3>1
    <2>2. n + 9 \in Nat
      BY <1>3
    <2>3. d = c
      BY <1>2, <1>7, <2>1, <2>2, SameBytes
    <2>4. crc16(d) = s
      BY <2>3 DEF s
    <2> DEFINE s1 == s \div 256
               s2 == s % 256
               l1 == line[n + 10]
               l2 == line[n + 11]
    <2>5. s1 \in Byte /\ s2 \in Byte /\ 256 * s1 + s2 = s
      BY <1>1, WordOfBytes
    <2>6. l1 \in Byte /\ l2 \in Byte /\ 256 * l1 + l2 = s
      BY <1>9, <1>11, <2>4
    <2>7. f[n + 10] = s1 /\ f[n + 11] = s2
      BY <1>1
    <2> HIDE DEF s1, s2, l1, l2
    <2>8. l1 = s1 /\ l2 = s2
      BY <2>5, <2>6, UniqueBytes
    <2>9. line[n + 10] = f[n + 10] /\ line[n + 11] = f[n + 11]
      BY <2>7, <2>8 DEF l1, l2
    <2>10. QED
      BY <1>5, <1>13, <2>9
  <1>14. i \in 1 .. (n + 9) \/ i = n + 10 \/ i = n + 11
    BY <1>1, <1>3
  <1>15. QED
    BY <1>12, <1>13, <1>14

(* Whatever bit changes behind the length byte, in the header, the message *)
(* or the CRC itself, of a frame whose length fits the length byte, the    *)
(* reader does not accept the frame.                                       *)
THEOREM DamageDetected == FrameSpec /\ []LengthIntact => []CrcDetects
  <1>1. Typed /\ OnTheWay /\ LengthIntact => CrcDetects
    <2> SUFFICES ASSUME Typed, OnTheWay, LengthIntact, phase = "sent", GoodFrame(line[1])
                 PROVE  ~ flipped /\ line[1] = Len(line)
      BY DEF CrcDetects
    <2>1. line[1] = Len(line) /\ msg \in Messages /\ header \in Headers
      BY DEF LengthIntact, Typed
    <2>2. PICK body \in Seq(Byte) : Carries(body)
      BY DEF OnTheWay
    <2>3. flipped => OneByteOff(line, Whole(msg, header, body))
      BY <2>2 DEF Carries
    <2>4. QED
      BY <2>1, <2>3, DamageRefused
  <1>2. QED
    BY <1>1, OnTheWayAlways, TypedAlways, PTL

(* So without any condition on the CRC: as long as the length byte tells   *)
(* the length of the frame, every message is read to its end (or panics,   *)
(* with more than 248 channels), and what is read is what was carried of   *)
(* the message sent.                                                       *)
THEOREM FramesSafe == FrameSpec /\ []LengthIntact => [](RoundTrip /\ FrameTrusted)
  BY DamageDetected, FramesRoundTrip, FramesTrusted, PTL

-----------------------------------------------------------------------------
(* The CRC is that of the polynomial x^16 + x^12 + x^5 + 1.                *)

(* The exclusive or of two bits, and a byte shifted to the left by one bit *)
(* with another one behind.                                                *)
XorBits(c, d) == IF c # d THEN 1 ELSE 0
Shift(x, c) == (2 * x + c) % 256

(* The bits move up by one.                                               *)
LEMMA ShiftBits ==
  ASSUME NEW x \in Byte, NEW c \in {0, 1}
  PROVE  /\ Shift(x, c) \in Byte
         /\ Bit(Shift(x, c), Weight[1]) = c
         /\ \A k \in 1 .. 7 : Bit(Shift(x, c), Weight[k + 1]) = Bit(x, Weight[k])
  <1> DEFINE y == Shift(x, c)
  <1>1. x \in Nat /\ x <= 255 /\ c \in Nat /\ c <= 1
    BY DEF Byte
  <1>2. y \in Byte
    BY <1>1 DEF Shift, Byte
  <1>3. y % 2 = c
    BY <1>1 DEF Shift
  <1>4. /\ (y \div 2) % 2 = x % 2 /\ (y \div 4) % 2 = (x \div 2) % 2
    BY <1>1 DEF Shift
  <1>5. /\ (y \div 8) % 2 = (x \div 4) % 2 /\ (y \div 16) % 2 = (x \div 8) % 2
    BY <1>1 DEF Shift
  <1>6. /\ (y \div 32) % 2 = (x \div 16) % 2 /\ (y \div 64) % 2 = (x \div 32) % 2
    BY <1>1 DEF Shift
  <1>7. /\ (y \div 128) % 2 = (x \div 64) % 2
    BY <1>1 DEF Shift
  <1>8. y \div 1 = y /\ x \div 1 = x
    BY <1>1, <1>2 DEF Byte
  <1> HIDE DEF y
  <1>9. Bit(y, Weight[1]) = c
    BY <1>3, <1>8 DEF Bit, Weight
  <1>10. \A k \in 1 .. 7 : Bit(y, Weight[k + 1]) = Bit(x, Weight[k])
    BY <1>4, <1>5, <1>6, <1>7, <1>8 DEF Bit, Weight
  <1>11. QED
    BY <1>2, <1>9, <1>10 DEF y

(* Shifting goes with exclusive or.                                        *)
LEMMA ShiftXor ==
  ASSUME NEW x \in Byte, NEW y \in Byte, NEW c \in {0, 1}, NEW d \in {0, 1}
  PROVE  Shift(Xor8(x, y), XorBits(c, d)) = Xor8(Shift(x, c), Shift(y, d))
  <1> DEFINE e == XorBits(c, d)
             z == Xor8(x, y)
             l == Shift(z, e)
             r == Xor8(Shift(x, c), Shift(y, d))
  <1>1. e \in {0, 1} /\ z \in Byte
    BY XorTyped DEF XorBits
  <1>2. l \in Byte /\ r \in Byte
    BY <1>1, ShiftBits, XorTyped
  <1>3. Bit(l, Weight[1]) = Bit(r, Weight[1])
    <2>1. Bit(l, Weight[1]) = e
      BY <1>1, ShiftBits
    <2>2. Bit(Shift(x, c), Weight[1]) = c /\ Bit(Shift(y, d), Weight[1]) = d
      BY ShiftBits
    <2>3. 1 \in 1 .. 8
      OBVIOUS
    <2>4. Bit(r, Weight[1]) = IF c # d THEN 1 ELSE 0
      BY <2>2, <2>3, XorBit
    <2>5. QED
      BY <2>1, <2>4 DEF XorBits
  <1>4. ASSUME NEW k \in 1 .. 7 PROVE Bit(l, Weight[k + 1]) = Bit(r, Weight[k + 1])
    <2>1. Bit(l, Weight[k + 1]) = Bit(z, Weight[k])
      BY <1>1, ShiftBits
    <2>2. /\ Bit(Shift(x, c), Weight[k + 1]) = Bit(x, Weight[k])
          /\ Bit(Shift(y, d), Weight[k + 1]) = Bit(y, Weight[k])
      BY ShiftBits
    <2>3. k \in 1 .. 8 /\ k + 1 \in 1 .. 8
      OBVIOUS
    <2>4. Bit(r, Weight[k + 1]) =
            IF Bit(x, Weight[k]) # Bit(y, Weight[k]) THEN 1 ELSE 0
      BY <2>2, <2>3, XorBit
    <2>5. Bit(z, Weight[k]) = IF Bit(x, Weight[k]) # Bit(y, Weight[k]) THEN 1 ELSE 0
      BY <2>3, XorBit
    <2>6. QED
      BY <2>1, <2>4, <2>5
  <1> HIDE DEF l, r
  <1>5. ASSUME NEW k \in 1 .. 8 PROVE Bit(l, Weight[k]) = Bit(r, Weight[k])
    <2>1. CASE k = 1
      BY <1>3, <2>1
    <2>2. CASE k # 1
      <3>1. k - 1 \in 1 .. 7 /\ (k - 1) + 1 = k
        BY <2>2
      <3>2. QED
        BY <1>4, <3>1
    <2>3. QED
      BY <2>1, <2>2
  <1>6. l = r
    BY <1>2, <1>5, SameBits
  <1>7. QED
    BY <1>6 DEF l, r

(* Exclusive or of four bytes, two by two, in either order.                *)
LEMMA XorFour ==
  ASSUME NEW a \in Byte, NEW b \in Byte, NEW c \in Byte, NEW d \in Byte
  PROVE  Xor8(Xor8(a, b), Xor8(c, d)) = Xor8(Xor8(a, c), Xor8(b, d))
  <1> DEFINE l == Xor8(Xor8(a, b), Xor8(c, d))
             r == Xor8(Xor8(a, c), Xor8(b, d))
  <1>1. l \in Byte /\ r \in Byte
    BY XorTyped
  <1>2. ASSUME NEW k \in 1 .. 8 PROVE Bit(l, Weight[k]) = Bit(r, Weight[k])
    <2> DEFINE A == Bit(a, Weight[k])
               B == Bit(b, Weight[k])
               C == Bit(c, Weight[k])
               D == Bit(d, Weight[k])
               ab == IF A # B THEN 1 ELSE 0
               cd == IF C # D THEN 1 ELSE 0
               ac == IF A # C THEN 1 ELSE 0
               bd == IF B # D THEN 1 ELSE 0
    <2>1. A \in {0, 1} /\ B \in {0, 1} /\ C \in {0, 1} /\ D \in {0, 1}
      BY ByteOfBits
    <2>2. /\ Bit(Xor8(a, b), Weight[k]) = ab /\ Bit(Xor8(c, d), Weight[k]) = cd
          /\ Bit(Xor8(a, c), Weight[k]) = ac /\ Bit(Xor8(b, d), Weight[k]) = bd
      BY XorBit
    <2>3. /\ Bit(l, Weight[k]) =
               IF Bit(Xor8(a, b), Weight[k]) # Bit(Xor8(c, d), Weight[k]) THEN 1 ELSE 0
          /\ Bit(r, Weight[k]) =
               IF Bit(Xor8(a, c), Weight[k]) # Bit(Xor8(b, d), Weight[k]) THEN 1 ELSE 0
      BY XorBit
    <2> HIDE DEF A, B, C, D
    <2>4. (IF ab # cd THEN 1 ELSE 0) = (IF ac # bd THEN 1 ELSE 0)
      BY <2>1
    <2> HIDE DEF ab, cd, ac, bd, l, r
    <2>5. QED
      BY <2>2, <2>3, <2>4
  <1> HIDE DEF l, r
  <1>3. l = r
    BY <1>1, <1>2, SameBits
  <1>4. QED
    BY <1>3 DEF l, r

LEMMA XorSwap ==
  ASSUME NEW a, NEW b
  PROVE  Xor8(a, b) = Xor8(b, a) /\ Xor8(a, a) = 0
  BY DEF Xor8

(* A word from its bytes, and the exclusive or of two words.               *)
LEMMA BytesOfWord ==
  ASSUME NEW h \in Byte, NEW l \in Byte
  PROVE  /\ 256 * h + l \in Uint16
         /\ (256 * h + l) \div 256 = h
         /\ (256 * h + l) % 256 = l
  <1>1. 256 * h + l \in Uint16
    BY TwoBytes
  <1>2. (256 * h + l) \div 256 = h /\ (256 * h + l) % 256 = l
    BY DEF Byte
  <1>3. QED
    BY <1>1, <1>2

LEMMA XorWords ==
  ASSUME NEW a \in Byte, NEW b \in Byte, NEW c \in Byte, NEW d \in Byte
  PROVE  Xor16(256 * a + b, 256 * c + d) = 256 * Xor8(a, c) + Xor8(b, d)
  BY BytesOfWord DEF Xor16

LEMMA ZeroXor ==
  ASSUME NEW b \in Byte
  PROVE  Xor8(b, 0) = b /\ Xor8(0, b) = b
  BY XorZero, XorSwap

(* A step of the division, byte by byte.                                   *)
LEMMA DivideParts ==
  ASSUME NEW h \in Byte, NEW l \in Byte, NEW c \in {0, 1}
  PROVE  LET t == Bit(h, 128)
         IN  DivideBit(c, 256 * h + l) =
               256 * Xor8(Shift(h, Bit(l, 128)), 16 * t) + Xor8(Shift(l, c), 33 * t)
  <1> DEFINE t == Bit(h, 128)
             u == Bit(l, 128)
             s == 2 * (256 * h + l) + c
             H == Shift(h, u)
             L == Shift(l, c)
  <1>1. h \in Nat /\ h <= 255 /\ l \in Nat /\ l <= 255 /\ c \in Nat /\ c <= 1
    BY DEF Byte
  <1>2. t \in {0, 1} /\ u \in {0, 1}
    BY <1>1 DEF Bit
  <1>3. H \in Byte /\ L \in Byte
    BY <1>2, ShiftBits
  <1>4. 2 * l + c = 256 * u + L
    BY <1>1 DEF Bit, Shift
  <1>5. 2 * h + u = 256 * t + H
    BY <1>1, <1>2 DEF Bit, Shift
  <1> HIDE DEF H, L, t, u
  <1>6. s = 65536 * t + 256 * H + L
    BY <1>1, <1>2, <1>3, <1>4, <1>5 DEF Byte
  <1>7. H \in Nat /\ H <= 255 /\ L \in Nat /\ L <= 255
    BY <1>3 DEF Byte
  <1>8. CASE t = 0
    <2>1. s < 65536 /\ s = 256 * H + L
      BY <1>6, <1>7, <1>8
    <2>2. DivideBit(c, 256 * h + l) = 256 * H + L
      BY <2>1 DEF DivideBit
    <2>3. Xor8(H, 0) = H /\ Xor8(L, 0) = L
      BY <1>3, ZeroXor
    <2>4. 16 * t = 0 /\ 33 * t = 0
      BY <1>8
    <2>5. QED
      BY <2>2, <2>3, <2>4 DEF H, L, t, u
  <1>9. CASE t = 1
    <2>1. ~ (s < 65536) /\ s - 65536 = 256 * H + L
      BY <1>6, <1>7, <1>9
    <2>2. DivideBit(c, 256 * h + l) = Xor16(256 * H + L, \h1021)
      BY <2>1 DEF DivideBit
    <2>3. \h1021 = 256 * 16 + 33 /\ 16 \in Byte /\ 33 \in Byte
      BY DEF Byte
    <2>4. Xor16(256 * H + L, 256 * 16 + 33) = 256 * Xor8(H, 16) + Xor8(L, 33)
      BY <1>3, <2>3, XorWords
    <2>5. 16 * t = 16 /\ 33 * t = 33
      BY <1>9
    <2>6. QED
      BY <2>2, <2>3, <2>4, <2>5 DEF H, L, t, u
  <1>10. QED
    BY <1>2, <1>8, <1>9

(* The remainder is a word.                                                *)
LEMMA DivideTyped == \A c \in {0, 1}, r \in Uint16 : DivideBit(c, r) \in Uint16
  <1> SUFFICES ASSUME NEW c \in {0, 1}, NEW r \in Uint16
               PROVE  DivideBit(c, r) \in Uint16
    OBVIOUS
  <1>1. r \in Nat
    BY DEF Uint16
  <1>2. CASE 2 * r + c < 65536
    <2>1. 2 * r + c \in Nat /\ 2 * r + c <= 65535
      BY <1>1, <1>2
    <2>2. QED
      BY <1>2, <2>1, WordRange DEF DivideBit
  <1>3. CASE ~ (2 * r + c < 65536)
    BY <1>3, XorTyped DEF DivideBit
  <1>4. QED
    BY <1>2, <1>3

(* The division goes with exclusive or.                                    *)
LEMMA DivideXor ==
  ASSUME NEW p \in Uint16, NEW q \in Uint16, NEW c \in {0, 1}
  PROVE  DivideBit(c, Xor16(p, q)) = Xor16(DivideBit(c, p), DivideBit(0, q))
  <1> DEFINE ph == p \div 256
             pl == p % 256
             qh == q \div 256
             ql == q % 256
             h == Xor8(ph, qh)
             l == Xor8(pl, ql)
             t == Bit(ph, 128)
             u == Bit(qh, 128)
             v == Bit(pl, 128)
             w == Bit(ql, 128)
  <1>1. /\ ph \in Byte /\ pl \in Byte /\ qh \in Byte /\ ql \in Byte
        /\ p = 256 * ph + pl /\ q = 256 * qh + ql
    BY WordOfBytes
  <1>2. h \in Byte /\ l \in Byte
    BY XorTyped
  <1>3. Xor16(p, q) = 256 * h + l
    BY DEF Xor16
  <1>4. t \in {0, 1} /\ u \in {0, 1} /\ v \in {0, 1} /\ w \in {0, 1}
    <2>1. 8 \in 1 .. 8 /\ Weight[8] = 128
      BY DEF Weight
    <2>2. QED
      BY <1>1, <2>1, ByteOfBits
  <1>5. Bit(h, 128) = XorBits(t, u) /\ Bit(l, 128) = XorBits(v, w)
    <2>1. 8 \in 1 .. 8 /\ Weight[8] = 128
      BY DEF Weight
    <2>2. QED
      BY <2>1, XorBit DEF XorBits
  <1> HIDE DEF ph, pl, qh, ql, h, l, t, u, v, w
  <1> DEFINE a == Shift(ph, v)
             b == Shift(qh, w)
             d == Shift(pl, c)
             e == Shift(ql, 0)
  <1>6. a \in Byte /\ b \in Byte /\ d \in Byte /\ e \in Byte
    <2>1. 0 \in {0, 1}
      OBVIOUS
    <2>2. QED
      BY <1>1, <1>4, <2>1, ShiftBits
  <1>7. Shift(h, XorBits(v, w)) = Xor8(a, b)
    BY <1>1, <1>4, ShiftXor DEF h
  <1>8. Shift(l, c) = Xor8(d, e)
    <2>1. XorBits(c, 0) = c /\ 0 \in {0, 1}
      BY DEF XorBits
    <2>2. QED
      BY <1>1, <2>1, ShiftXor DEF l
  <1> HIDE DEF a, b, d, e
  <1> DEFINE x(n) == 16 * n
             y(n) == 33 * n
  <1>9. x(XorBits(t, u)) = Xor8(x(t), x(u)) /\ y(XorBits(t, u)) = Xor8(y(t), y(u))
    BY <1>4 DEF XorBits, Xor8, Bit
  <1>10. x(t) \in Byte /\ x(u) \in Byte /\ y(t) \in Byte /\ y(u) \in Byte
    BY <1>4 DEF Byte
  <1>11. DivideBit(c, 256 * h + l)
           = 256 * Xor8(Shift(h, XorBits(v, w)), x(XorBits(t, u))) + Xor8(Shift(l, c), y(XorBits(t, u)))
    BY <1>2, <1>5, DivideParts
  <1>12. DivideBit(c, p) = 256 * Xor8(a, x(t)) + Xor8(d, y(t))
    BY <1>1, DivideParts DEF a, d, t, v
  <1>13. DivideBit(0, q) = 256 * Xor8(b, x(u)) + Xor8(e, y(u))
    <2>1. 0 \in {0, 1}
      OBVIOUS
    <2>2. QED
      BY <1>1, <2>1, DivideParts DEF b, e, u, w
  <1> HIDE DEF x, y
  <1>14. DivideBit(c, 256 * h + l)
           = 256 * Xor8(Xor8(a, b), Xor8(x(t), x(u))) + Xor8(Xor8(d, e), Xor8(y(t), y(u)))
    BY <1>7, <1>8, <1>9, <1>11
  <1>15. /\ Xor8(Xor8(a, b), Xor8(x(t), x(u))) = Xor8(Xor8(a, x(t)), Xor8(b, x(u)))
         /\ Xor8(Xor8(d, e), Xor8(y(t), y(u))) = Xor8(Xor8(d, y(t)), Xor8(e, y(u)))
    BY <1>6, <1>10, XorFour
  <1>16. /\ Xor8(a, x(t)) \in Byte /\ Xor8(b, x(u)) \in Byte
         /\ Xor8(d, y(t)) \in Byte /\ Xor8(e, y(u)) \in Byte
    BY XorTyped
  <1>17. Xor16(DivideBit(c, p), DivideBit(0, q))
           = 256 * Xor8(Xor8(a, x(t)), Xor8(b, x(u))) + Xor8(Xor8(d, y(t)), Xor8(e, y(u)))
    BY <1>12, <1>13, <1>16, XorWords
  <1>18. QED
    BY <1>3, <1>14, <1>15, <1>17

(* Eight zero bits.                                                        *)
Zero(r) == DivideBit(0, r)
Zeros(r) == Zero(Zero(Zero(Zero(Zero(Zero(Zero(Zero(r))))))))

LEMMA ZeroTyped == \A r \in Uint16 : Zero(r) \in Uint16 /\ Zeros(r) \in Uint16
  <1>1. \A r \in Uint16 : Zero(r) \in Uint16
    BY DivideTyped DEF Zero
  <1>2. QED
    BY <1>1 DEF Zeros

LEMMA ZerosXor ==
  \A p, q \in Uint16 : Zeros(Xor16(p, q)) = Xor16(Zeros(p), Zeros(q))
  <1>1. \A p, q \in Uint16 : Zero(Xor16(p, q)) = Xor16(Zero(p), Zero(q))
    BY DivideXor DEF Zero
  <1>2. QED
    BY <1>1, ZeroTyped DEF Zeros

(* Exclusive or with the polynomial turns three bits.                      *)
Turn(n, w) == w - 2 * w * Bit(n, w)
Poly(n) == n + Turn(n, 1) + Turn(n, 32) + Turn(n, 4096)

(* Each entry of the table comes from the one at half its index.           *)
LEMMA TableDoubles ==
  \A g \in 0 .. 127 :
     crc16tab[2 * g + 1] =
       LET s == 2 * crc16tab[g + 1] IN IF s < 65536 THEN s ELSE Poly(s - 65536)
  BY DEF crc16tab, Poly, Turn, Bit

LEMMA TableOdd ==
  \A g \in 0 .. 127 : crc16tab[2 * g + 2] = Poly(crc16tab[2 * g + 1])
  BY DEF crc16tab, Poly, Turn, Bit

LEMMA XorPoly ==
  ASSUME NEW h \in Byte, NEW l \in Byte
  PROVE  Xor16(256 * h + l, \h1021) = Poly(256 * h + l)
  <1> DEFINE n == 256 * h + l
  <1>1. h \in Nat /\ h <= 255 /\ l \in Nat /\ l <= 255
    BY DEF Byte
  <1>2. \h1021 = 256 * 16 + 33 /\ 16 \in Byte /\ 33 \in Byte
    BY DEF Byte
  <1>3. Xor16(n, 256 * 16 + 33) = 256 * Xor8(h, 16) + Xor8(l, 33)
    BY <1>2, XorWords
  <1>4. Xor8(h, 16) = h + Turn(h, 16)
    <2>1. /\ Bit(16, 1) = 0 /\ Bit(16, 2) = 0 /\ Bit(16, 4) = 0 /\ Bit(16, 8) = 0
          /\ Bit(16, 16) = 1 /\ Bit(16, 32) = 0 /\ Bit(16, 64) = 0 /\ Bit(16, 128) = 0
      BY DEF Bit
    <2>2. /\ h = Bit(h, 1) + 2 * Bit(h, 2) + 4 * Bit(h, 4) + 8 * Bit(h, 8)
                 + 16 * Bit(h, 16) + 32 * Bit(h, 32) + 64 * Bit(h, 64) + 128 * Bit(h, 128)
          /\ \A k \in 1 .. 8 : Bit(h, Weight[k]) \in {0, 1}
      BY ByteOfBits
    <2>3. /\ Bit(h, 1) \in {0, 1} /\ Bit(h, 2) \in {0, 1} /\ Bit(h, 4) \in {0, 1}
          /\ Bit(h, 8) \in {0, 1} /\ Bit(h, 16) \in {0, 1} /\ Bit(h, 32) \in {0, 1}
          /\ Bit(h, 64) \in {0, 1} /\ Bit(h, 128) \in {0, 1}
      BY <2>2 DEF Weight
    <2>4. QED
      BY <2>1, <2>2, <2>3 DEF Xor8, Turn
  <1>5. Xor8(l, 33) = l + Turn(l, 1) + Turn(l, 32)
    <2>1. /\ Bit(33, 1) = 1 /\ Bit(33, 2) = 0 /\ Bit(33, 4) = 0 /\ Bit(33, 8) = 0
          /\ Bit(33, 16) = 0 /\ Bit(33, 32) = 1 /\ Bit(33, 64) = 0 /\ Bit(33, 128) = 0
      BY DEF Bit
    <2>2. /\ l = Bit(l, 1) + 2 * Bit(l, 2) + 4 * Bit(l, 4) + 8 * Bit(l, 8)
                 + 16 * Bit(l, 16) + 32 * Bit(l, 32) + 64 * Bit(l, 64) + 128 * Bit(l, 128)
          /\ \A k \in 1 .. 8 : Bit(l, Weight[k]) \in {0, 1}
      BY ByteOfBits
    <2>3. /\ Bit(l, 1) \in {0, 1} /\ Bit(l, 2) \in {0, 1} /\ Bit(l, 4) \in {0, 1}
          /\ Bit(l, 8) \in {0, 1} /\ Bit(l, 16) \in {0, 1} /\ Bit(l, 32) \in {0, 1}
          /\ Bit(l, 64) \in {0, 1} /\ Bit(l, 128) \in {0, 1}
      BY <2>2 DEF Weight
    <2> DEFINE x(w) == IF Bit(l, w) # Bit(33, w) THEN w ELSE 0
    <2>4. /\ x(1) = 1 - Bit(l, 1) /\ x(2) = 2 * Bit(l, 2) /\ x(4) = 4 * Bit(l, 4)
          /\ x(8) = 8 * Bit(l, 8) /\ x(16) = 16 * Bit(l, 16) /\ x(32) = 32 - 32 * Bit(l, 32)
          /\ x(64) = 64 * Bit(l, 64) /\ x(128) = 128 * Bit(l, 128)
      BY <2>1, <2>3
    <2>5. Xor8(l, 33) = x(1) + x(2) + x(4) + x(8) + x(16) + x(32) + x(64) + x(128)
      BY DEF Xor8
    <2> HIDE DEF x
    <2>6. QED
      BY <2>2, <2>3, <2>4, <2>5 DEF Turn
  <1>6. Bit(n, 1) = Bit(l, 1)
    BY <1>1 DEF Bit
  <1>7. Bit(n, 32) = Bit(l, 32)
    BY <1>1 DEF Bit
  <1>8. Bit(n, 4096) = Bit(h, 16)
    BY <1>1 DEF Bit
  <1>9. Bit(h, 16) \in {0, 1} /\ Bit(l, 1) \in {0, 1} /\ Bit(l, 32) \in {0, 1}
    BY <1>1 DEF Bit
  <1>10. 256 * (h + Turn(h, 16)) + (l + Turn(l, 1) + Turn(l, 32)) = Poly(n)
    BY <1>1, <1>6, <1>7, <1>8, <1>9 DEF Poly, Turn
  <1>11. QED
    BY <1>2, <1>3, <1>4, <1>5, <1>10

(* A bit more of the index is a step more of the division.                 *)
LEMMA TableGrows ==
  ASSUME NEW g \in 0 .. 127
  PROVE  /\ crc16tab[2 * g + 1] = Zero(crc16tab[g + 1])
         /\ crc16tab[2 * g + 2] = Xor16(Zero(crc16tab[g + 1]), \h1021)
  <1>1. \A n \in Uint16 : Xor16(n, \h1021) = Poly(n)
    <2> SUFFICES ASSUME NEW n \in Uint16 PROVE Xor16(n, \h1021) = Poly(n)
      OBVIOUS
    <2>1. n \div 256 \in Byte /\ n % 256 \in Byte /\ 256 * (n \div 256) + (n % 256) = n
      BY WordOfBytes
    <2>2. QED
      BY <2>1, XorPoly
  <1>2. g \in Byte /\ 2 * g \in Byte
    BY DEF Byte
  <1> DEFINE t == crc16tab[g + 1]
             u == crc16tab[2 * g + 1]
             s == 2 * t
  <1>3. t \in Uint16 /\ u \in Uint16
    BY <1>2, TableEntries
  <1>4. u = IF s < 65536 THEN s ELSE Poly(s - 65536)
    BY TableDoubles
  <1>5. crc16tab[2 * g + 2] = Poly(u)
    BY TableOdd
  <1> HIDE DEF t, u
  <1>6. t \in Nat /\ t <= 65535
    BY <1>3 DEF Uint16
  <1>7. Zero(t) = IF s < 65536 THEN s ELSE Xor16(s - 65536, \h1021)
    BY <1>6 DEF Zero, DivideBit
  <1>8. u = Zero(t)
    <2>1. CASE s < 65536
      BY <1>4, <1>7, <2>1
    <2>2. CASE ~ (s < 65536)
      <3>1. s - 65536 \in Uint16
        BY <1>6, <2>2, WordRange
      <3>2. QED
        BY <1>1, <1>4, <1>7, <2>2, <3>1
    <2>3. QED
      BY <2>1, <2>2
  <1>9. QED
    BY <1>1, <1>3, <1>5, <1>8 DEF t, u

(* The entry for h is what is left of h and two bytes of zeros.            *)
LEMMA TableIsDivision == \A h \in Byte : Zeros(256 * h) = crc16tab[h + 1]
  <1> DEFINE T == {h \in Byte : ~ (Zeros(256 * h) = crc16tab[h + 1])}
  <1>1. SUFFICES ASSUME T # {} PROVE FALSE
    OBVIOUS
  <1>2. T \subseteq Nat
    BY DEF Byte
  <1> HIDE DEF T
  <1>3. PICK h \in T : \A k \in T : h <= k
    BY <1>1, <1>2, LeastMember
  <1>4. h \in Byte /\ h \in Nat /\ h <= 255 /\ ~ (Zeros(256 * h) = crc16tab[h + 1])
    BY <1>3 DEF T, Byte
  <1>5. \A k \in Byte : k < h => Zeros(256 * k) = crc16tab[k + 1]
    <2> SUFFICES ASSUME NEW k \in Byte, k < h, ~ (Zeros(256 * k) = crc16tab[k + 1])
                 PROVE  FALSE
      OBVIOUS
    <2>1. k \in T
      BY DEF T
    <2>2. QED
      BY <1>3, <1>4, <2>1 DEF Byte
  <1>6. Zeros(0) = 0 /\ Zeros(256) = \h1021
    <2>1. \A r \in Nat : r < 32768 => Zero(r) = 2 * r
      BY DEF Zero, DivideBit
    <2>2. Zero(0) = 0
      BY <2>1
    <2>3. Zero(32768) = \h1021
      <3>1. Zero(32768) = Xor16(0, \h1021)
        BY DEF Zero, DivideBit
      <3>2. Xor16(0, \h1021) = Poly(0)
        <4>1. 0 \in Byte /\ 256 * 0 + 0 = 0
          BY DEF Byte
        <4>2. QED
          BY <4>1, XorPoly
      <3>3. Poly(0) = \h1021
        BY DEF Poly, Turn, Bit
      <3>4. QED
        BY <3>1, <3>2, <3>3
    <2>4. /\ Zero(256) = 512 /\ Zero(512) = 1024 /\ Zero(1024) = 2048
          /\ Zero(2048) = 4096 /\ Zero(4096) = 8192 /\ Zero(8192) = 16384
          /\ Zero(16384) = 32768
      BY <2>1
    <2>5. QED
      BY <2>2, <2>3, <2>4 DEF Zeros
  <1>7. crc16tab[1] = 0 /\ crc16tab[2] = \h1021
    BY DEF crc16tab
  <1>8. CASE h = 0
    BY <1>4, <1>6, <1>7, <1>8
  <1>9. CASE h = 1
    BY <1>4, <1>6, <1>7, <1>9
  <1>10. CASE h > 1
    <2> DEFINE g == h \div 2
               e == h % 2
    <2>1. g \in 0 .. 127 /\ g < h /\ e \in {0, 1} /\ h = 2 * g + e
      BY <1>4, <1>10
    <2> HIDE DEF g, e
    <2>2. g \in Byte /\ 2 * g \in Byte /\ e \in Byte
      BY <2>1 DEF Byte
    <2>3. Zeros(256 * g) = crc16tab[g + 1]
      BY <1>5, <2>1, <2>2
    <2>4. Zero(256 * g) = 256 * (2 * g)
      BY <2>1 DEF Zero, DivideBit
    <2>5. Zeros(256 * (2 * g)) = Zero(crc16tab[g + 1])
      <3>1. Zeros(Zero(256 * g)) = Zero(Zeros(256 * g))
        BY DEF Zeros
      <3>2. QED
        BY <2>3, <2>4, <3>1
    <2>6. CASE e = 0
      <3>1. h = 2 * g
        BY <2>1, <2>6
      <3>2. QED
        BY <1>4, <2>1, <2>5, <3>1, TableGrows
    <2>7. CASE e = 1
      <3>1. Xor8(2 * g, 1) = h
        <4>1. 0 \in {0, 1} /\ 1 \in {0, 1} /\ 0 \in Byte /\ 1 \in Byte
          BY DEF Byte
        <4>2. Shift(Xor8(g, 0), XorBits(0, 1)) = Xor8(Shift(g, 0), Shift(0, 1))
          BY <2>2, <4>1, ShiftXor
        <4>3. Xor8(g, 0) = g
          BY <2>2, ZeroXor
        <4>4. XorBits(0, 1) = 1
          BY DEF XorBits
        <4>5. Shift(g, 1) = 2 * g + 1 /\ Shift(g, 0) = 2 * g /\ Shift(0, 1) = 1
          BY <2>1 DEF Shift
        <4>6. QED
          BY <2>1, <2>7, <4>2, <4>3, <4>4, <4>5
      <3>2. 256 * h = Xor16(256 * (2 * g), 256)
        <4>1. 0 \in Byte /\ 1 \in Byte
          BY DEF Byte
        <4>2. Xor16(256 * (2 * g) + 0, 256 * 1 + 0) = 256 * Xor8(2 * g, 1) + Xor8(0, 0)
          BY <2>2, <4>1, XorWords
        <4>3. Xor8(0, 0) = 0
          BY XorSwap
        <4>4. 256 * (2 * g) + 0 = 256 * (2 * g) /\ 256 * 1 + 0 = 256 /\ 256 * h + 0 = 256 * h
          BY <2>1, <1>4
        <4>5. QED
          BY <3>1, <4>2, <4>3, <4>4
      <3>3. 256 * (2 * g) \in Uint16 /\ 256 \in Uint16
        BY <2>1, WordRange
      <3>4. Zeros(256 * h) = Xor16(Zeros(256 * (2 * g)), Zeros(256))
        BY <3>2, <3>3, ZerosXor
      <3>5. h + 1 = 2 * g + 2
        BY <2>1, <2>7
      <3>6. QED
        BY <1>4, <1>6, <2>1, <2>5, <3>4, <3>5, TableGrows
    <2>8. QED
      BY <2>1, <2>6, <2>7
  <1>11. QED
    BY <1>4, <1>8, <1>9, <1>10

(* The steps of the division as functions, and the bits of a byte as       *)
(* DivideByte takes them.                                                  *)
BinaryDigits == {0, 1}
BitStep == [x \in BinaryDigits \X Uint16 |-> DivideBit(x[1], x[2])]
ByteStep == [x \in Byte \X Uint16 |-> DivideByte(x[1], x[2])]
BitsOf(b) == [i \in 1 .. 8 |-> Bit(b, Weight[9 - i])]

LEMMA Members ==
  ASSUME NEW S, NEW s \in Seq(S)
  PROVE  (\A i \in DOMAIN s : s[i] \in S) /\ \A i \in 1 .. Len(s) : s[i] \in S
  OBVIOUS

LEMMA BitStepFunction ==
  /\ BitStep \in [BinaryDigits \X Uint16 -> Uint16]
  /\ \A c \in BinaryDigits, p \in Uint16 : BitStep[<<c, p>>] = DivideBit(c, p)
  BY DivideTyped DEF BitStep, BinaryDigits

LEMMA BitsTyped ==
  ASSUME NEW b \in Byte
  PROVE  BitsOf(b) \in Seq(BinaryDigits) /\ Len(BitsOf(b)) = 8
  <1>1. ASSUME NEW i \in 1 .. 8 PROVE Bit(b, Weight[9 - i]) \in BinaryDigits
    <2>1. 9 - i \in 1 .. 8
      OBVIOUS
    <2>2. QED
      BY <2>1, ByteOfBits DEF BinaryDigits
  <1>2. BitsOf(b) \in [1 .. 8 -> BinaryDigits]
    BY <1>1 DEF BitsOf
  <1>3. 8 \in Nat
    OBVIOUS
  <1>4. QED
    BY <1>2, <1>3, ArraySeq, Zenon

(* DivideByte is eight steps.                                              *)
LEMMA ByteIsLoop ==
  ASSUME NEW b \in Byte, NEW r \in Uint16, NEW acc, Loop(BitStep, acc, r, BitsOf(b))
  PROVE  DivideByte(b, r) = acc[8]
  <1> DEFINE s == BitsOf(b)
             D == DOMAIN s
             P(f) == f = [x \in D \X D \X Uint16 |->
                            IF x[1] >= x[2] THEN DivideBit(s[x[1]], x[3])
                            ELSE f[<<((x[1] + x[2]) \div 2) + 1, x[2],
                                     f[<<x[1], (x[1] + x[2]) \div 2, x[3]>>]>>]]
             g == CHOOSE f : P(f)
  <1>1. DivideByte(b, r) = g[<<1, Len(s), r>>]
    BY DEF DivideByte, Accumulate, BitsOf
  <1>2. s \in Seq(BinaryDigits) /\ Len(s) = 8
    BY BitsTyped
  <1> HIDE DEF s
  <1>3. \A i \in D : s[i] \in BinaryDigits
    BY <1>2, Members
  <1>4. ASSUME NEW f PROVE Sums(BitStep, f, s) <=> P(f)
    <2>1. \A x \in D \X D \X Uint16 : BitStep[<<s[x[1]], x[3]>>] = DivideBit(s[x[1]], x[3])
      BY <1>3, BitStepFunction
    <2>2. QED
      BY <2>1 DEF Sums, Step
  <1> HIDE DEF P
  <1>5. P(g)
    BY <1>2, <1>4, SumsExist, BitStepFunction
  <1>6. Sums(BitStep, g, s)
    BY <1>4, <1>5
  <1> HIDE DEF g
  <1>7. Loop(BitStep, acc, r, s) /\ Len(s) > 0
    BY <1>2 DEF s
  <1>8. g[<<1, Len(s), r>>] = acc[Len(s)]
    BY <1>2, <1>6, <1>7, SumsLoop, BitStepFunction
  <1>9. QED
    BY <1>1, <1>2, <1>8

(* The eight steps from r, bit by bit.                                     *)
Chain(acc, b, r) ==
  /\ \A k \in 0 .. 8 : acc[k] \in Uint16
  /\ acc[0] = r
  /\ acc[1] = DivideBit(Bit(b, 128), acc[0]) /\ acc[2] = DivideBit(Bit(b, 64), acc[1])
  /\ acc[3] = DivideBit(Bit(b, 32), acc[2]) /\ acc[4] = DivideBit(Bit(b, 16), acc[3])
  /\ acc[5] = DivideBit(Bit(b, 8), acc[4]) /\ acc[6] = DivideBit(Bit(b, 4), acc[5])
  /\ acc[7] = DivideBit(Bit(b, 2), acc[6]) /\ acc[8] = DivideBit(Bit(b, 1), acc[7])

LEMMA ChainExists ==
  ASSUME NEW b \in Byte, NEW r \in Uint16
  PROVE  \E acc : Chain(acc, b, r) /\ acc[8] = DivideByte(b, r)
  <1> DEFINE s == BitsOf(b)
  <1>1. s \in Seq(BinaryDigits) /\ Len(s) = 8
    BY BitsTyped
  <1> HIDE DEF s
  <1>2. PICK acc : Loop(BitStep, acc, r, s)
    BY <1>1, LoopExists, BitStepFunction
  <1>3. acc \in [Nat -> Uint16] /\ acc[0] = r
    BY <1>2 DEF Loop
  <1>4. ASSUME NEW n \in 1 .. 8 PROVE acc[n] = DivideBit(Bit(b, Weight[9 - n]), acc[n - 1])
    <2>1. acc[n] = BitStep[<<s[n], acc[n - 1]>>]
      BY <1>1, <1>2 DEF Loop
    <2>2. s[n] \in BinaryDigits
      <3>1. \A i \in 1 .. Len(s) : s[i] \in BinaryDigits
        BY <1>1, Members
      <3>2. QED
        BY <1>1, <3>1
    <2>3. acc[n - 1] \in Uint16
      BY <1>3
    <2>4. acc[n] = DivideBit(s[n], acc[n - 1])
      BY <2>1, <2>2, <2>3, BitStepFunction
    <2>5. s[n] = Bit(b, Weight[9 - n])
      BY DEF s, BitsOf
    <2>6. QED
      BY <2>4, <2>5
  <1>5. \A k \in 0 .. 8 : acc[k] \in Uint16
    BY <1>3
  <1>6. /\ acc[1] = DivideBit(Bit(b, 128), acc[0]) /\ acc[2] = DivideBit(Bit(b, 64), acc[1])
        /\ acc[3] = DivideBit(Bit(b, 32), acc[2]) /\ acc[4] = DivideBit(Bit(b, 16), acc[3])
        /\ acc[5] = DivideBit(Bit(b, 8), acc[4]) /\ acc[6] = DivideBit(Bit(b, 4), acc[5])
        /\ acc[7] = DivideBit(Bit(b, 2), acc[6]) /\ acc[8] = DivideBit(Bit(b, 1), acc[7])
    BY <1>4 DEF Weight
  <1>7. acc[8] = DivideByte(b, r)
    BY <1>2, ByteIsLoop DEF s
  <1>8. QED
    BY <1>3, <1>5, <1>6, <1>7 DEF Chain

(* The low byte of the remainder only moves, and the bits of b follow it.  *)
LEMMA LowChain ==
  ASSUME NEW b \in Byte, NEW l \in Byte, NEW u, Chain(u, b, l)
  PROVE  u[8] = 256 * l + b
  <1> DEFINE c1 == Bit(b, 1)
             c2 == Bit(b, 2)
             c3 == Bit(b, 4)
             c4 == Bit(b, 8)
             c5 == Bit(b, 16)
             c6 == Bit(b, 32)
             c7 == Bit(b, 64)
             c8 == Bit(b, 128)
  <1>1. \A r \in Nat, c \in {0, 1} : r < 32768 => DivideBit(c, r) = 2 * r + c
    BY DEF DivideBit
  <1>2. b = c1 + 2 * c2 + 4 * c3 + 8 * c4 + 16 * c5 + 32 * c6 + 64 * c7 + 128 * c8
    BY ByteOfBits
  <1>3. /\ c1 \in {0, 1} /\ c2 \in {0, 1} /\ c3 \in {0, 1} /\ c4 \in {0, 1}
        /\ c5 \in {0, 1} /\ c6 \in {0, 1} /\ c7 \in {0, 1} /\ c8 \in {0, 1}
    <2>1. \A k \in 1 .. 8 : Bit(b, Weight[k]) \in {0, 1}
      BY ByteOfBits
    <2>2. QED
      BY <2>1 DEF Weight
  <1>4. /\ u[0] = l
        /\ u[1] = DivideBit(c8, u[0]) /\ u[2] = DivideBit(c7, u[1])
        /\ u[3] = DivideBit(c6, u[2]) /\ u[4] = DivideBit(c5, u[3])
        /\ u[5] = DivideBit(c4, u[4]) /\ u[6] = DivideBit(c3, u[5])
        /\ u[7] = DivideBit(c2, u[6]) /\ u[8] = DivideBit(c1, u[7])
    BY DEF Chain
  <1>5. l \in Nat /\ l <= 255
    BY DEF Byte
  <1> HIDE DEF c1, c2, c3, c4, c5, c6, c7, c8
  <1>6. u[1] = 2 * l + c8 /\ u[1] \in Nat /\ u[1] <= 511
    <2>1. DivideBit(c8, l) = 2 * l + c8
      BY <1>3, <1>5 DEF DivideBit
    <2>2. u[1] = 2 * l + c8
      BY <1>4, <2>1
    <2>3. QED
      BY <1>3, <1>5, <2>2
  <1>7. u[2] = 2 * u[1] + c7 /\ u[2] \in Nat /\ u[2] <= 1023
    BY <1>1, <1>3, <1>4, <1>6
  <1>8. u[3] = 2 * u[2] + c6 /\ u[3] \in Nat /\ u[3] <= 2047
    BY <1>1, <1>3, <1>4, <1>7
  <1>9. u[4] = 2 * u[3] + c5 /\ u[4] \in Nat /\ u[4] <= 4095
    BY <1>1, <1>3, <1>4, <1>8
  <1>10. u[5] = 2 * u[4] + c4 /\ u[5] \in Nat /\ u[5] <= 8191
    BY <1>1, <1>3, <1>4, <1>9
  <1>11. u[6] = 2 * u[5] + c3 /\ u[6] \in Nat /\ u[6] <= 16383
    BY <1>1, <1>3, <1>4, <1>10
  <1>12. u[7] = 2 * u[6] + c2 /\ u[7] \in Nat /\ u[7] <= 32767
    BY <1>1, <1>3, <1>4, <1>11
  <1>13. u[8] = 2 * u[7] + c1
    BY <1>1, <1>3, <1>4, <1>12
  <1>14. QED
    BY <1>2, <1>3, <1>5, <1>6, <1>7, <1>8, <1>9, <1>10, <1>11, <1>12, <1>13

(* A byte of the division is an entry of the table.                        *)
LEMMA DivideByTable ==
  ASSUME NEW b \in Byte, NEW h \in Byte, NEW l \in Byte
  PROVE  DivideByte(b, 256 * h + l) = Xor16(256 * l + b, crc16tab[h + 1])
  <1>1. 256 * h + l \in Uint16 /\ l \in Uint16 /\ 256 * h \in Uint16
    <2>1. l \in Nat /\ l <= 65535 /\ 256 * h \in Nat /\ 256 * h <= 65535
      BY DEF Byte
    <2>2. QED
      BY <2>1, WordRange, TwoBytes
  <1>2. PICK q : Chain(q, b, 256 * h + l) /\ q[8] = DivideByte(b, 256 * h + l)
    BY <1>1, ChainExists
  <1>3. PICK u : Chain(u, b, l)
    BY <1>1, ChainExists
  <1>4. u[8] = 256 * l + b
    BY <1>3, LowChain
  <1> DEFINE z0 == 256 * h
             z1 == Zero(z0)
             z2 == Zero(z1)
             z3 == Zero(z2)
             z4 == Zero(z3)
             z5 == Zero(z4)
             z6 == Zero(z5)
             z7 == Zero(z6)
             z8 == Zero(z7)
  <1>5. z8 = crc16tab[h + 1]
    BY TableIsDivision DEF Zeros
  <1>6. q[0] = Xor16(u[0], z0)
    <2>1. 0 \in Byte
      BY DEF Byte
    <2>2. Xor16(256 * 0 + l, 256 * h + 0) = 256 * Xor8(0, h) + Xor8(l, 0)
      BY <2>1, XorWords
    <2>3. 256 * 0 + l = l /\ 256 * h + 0 = 256 * h
      BY DEF Byte
    <2>4. Xor8(0, h) = h /\ Xor8(l, 0) = l
      BY ZeroXor
    <2>5. QED
      BY <1>2, <1>3, <2>2, <2>3, <2>4 DEF Chain
  <1>7. /\ z0 \in Uint16 /\ z1 \in Uint16 /\ z2 \in Uint16 /\ z3 \in Uint16
        /\ z4 \in Uint16 /\ z5 \in Uint16 /\ z6 \in Uint16 /\ z7 \in Uint16
    BY <1>1, ZeroTyped
  <1>8. ASSUME NEW c \in {0, 1}, NEW p \in Uint16, NEW r \in Uint16
        PROVE  DivideBit(c, Xor16(p, r)) = Xor16(DivideBit(c, p), Zero(r))
    BY DivideXor DEF Zero
  <1>9. /\ Bit(b, 1) \in {0, 1} /\ Bit(b, 2) \in {0, 1} /\ Bit(b, 4) \in {0, 1}
        /\ Bit(b, 8) \in {0, 1} /\ Bit(b, 16) \in {0, 1} /\ Bit(b, 32) \in {0, 1}
        /\ Bit(b, 64) \in {0, 1} /\ Bit(b, 128) \in {0, 1}
    <2>1. \A k \in 1 .. 8 : Bit(b, Weight[k]) \in {0, 1}
      BY ByteOfBits
    <2>2. QED
      BY <2>1 DEF Weight
  <1>10. \A k \in 0 .. 8 : u[k] \in Uint16
    BY <1>3 DEF Chain
  <1>11. /\ u[0] \in Uint16 /\ u[1] \in Uint16 /\ u[2] \in Uint16 /\ u[3] \in Uint16
         /\ u[4] \in Uint16 /\ u[5] \in Uint16 /\ u[6] \in Uint16 /\ u[7] \in Uint16
    BY <1>10
  <1> HIDE DEF z0, z1, z2, z3, z4, z5, z6, z7, z8
  <1>12. q[1] = Xor16(u[1], z1)
    BY <1>2, <1>3, <1>6, <1>7, <1>8, <1>9, <1>11 DEF Chain, z1
  <1>13. q[2] = Xor16(u[2], z2)
    BY <1>2, <1>3, <1>12, <1>7, <1>8, <1>9, <1>11 DEF Chain, z2
  <1>14. q[3] = Xor16(u[3], z3)
    BY <1>2, <1>3, <1>13, <1>7, <1>8, <1>9, <1>11 DEF Chain, z3
  <1>15. q[4] = Xor16(u[4], z4)
    BY <1>2, <1>3, <1>14, <1>7, <1>8, <1>9, <1>11 DEF Chain, z4
  <1>16. q[5] = Xor16(u[5], z5)
    BY <1>2, <1>3, <1>15, <1>7, <1>8, <1>9, <1>11 DEF Chain, z5
  <1>17. q[6] = Xor16(u[6], z6)
    BY <1>2, <1>3, <1>16, <1>7, <1>8, <1>9, <1>11 DEF Chain, z6
  <1>18. q[7] = Xor16(u[7], z7)
    BY <1>2, <1>3, <1>17, <1>7, <1>8, <1>9, <1>11 DEF Chain, z7
  <1>19. q[8] = Xor16(u[8], z8)
    BY <1>2, <1>3, <1>18, <1>7, <1>8, <1>9, <1>11 DEF Chain, z8
  <1>20. QED
    BY <1>2, <1>4, <1>5, <1>19

(* The same, with the parts of the words apart.                            *)
LEMMA DivideBytes ==
  ASSUME NEW b \in Byte, NEW h \in Byte, NEW l \in Byte
  PROVE  LET t == crc16tab[h + 1]
         IN  /\ t \div 256 \in Byte /\ t % 256 \in Byte
             /\ DivideByte(b, 256 * h + l) = 256 * Xor8(l, t \div 256) + Xor8(b, t % 256)
  <1> DEFINE t == crc16tab[h + 1]
  <1>1. t \in Uint16
    BY TableEntries
  <1>2. DivideByte(b, 256 * h + l) = Xor16(256 * l + b, t)
    BY DivideByTable
  <1> HIDE DEF t
  <1>3. t \div 256 \in Byte /\ t % 256 \in Byte /\ 256 * (t \div 256) + (t % 256) = t
    BY <1>1, WordOfBytes
  <1>4. Xor16(256 * l + b, 256 * (t \div 256) + (t % 256))
          = 256 * Xor8(l, t \div 256) + Xor8(b, t % 256)
    BY <1>3, XorWords
  <1>5. QED
    BY <1>2, <1>3, <1>4 DEF t

LEMMA ByteStepFunction ==
  /\ ByteStep \in [Byte \X Uint16 -> Uint16]
  /\ \A b \in Byte, p \in Uint16 :
       DivideByte(b, p) \in Uint16 /\ ByteStep[<<b, p>>] = DivideByte(b, p)
  <1>1. ASSUME NEW b \in Byte, NEW p \in Uint16 PROVE DivideByte(b, p) \in Uint16
    <2>1. p \div 256 \in Byte /\ p % 256 \in Byte /\ 256 * (p \div 256) + (p % 256) = p
      BY WordOfBytes
    <2>2. DivideByte(b, p) = Xor16(256 * (p % 256) + b, crc16tab[(p \div 256) + 1])
      BY <2>1, DivideByTable
    <2>3. QED
      BY <2>2, XorTyped
  <1>2. QED
    BY <1>1 DEF ByteStep

(* Remainder is a loop too.                                                *)
LEMMA RemainderIsLoop ==
  ASSUME NEW bs \in Seq(Byte), Len(bs) > 0, NEW acc, Loop(ByteStep, acc, 0, bs)
  PROVE  Remainder(bs) = acc[Len(bs)]
  <1> DEFINE D == DOMAIN bs
             P(f) == f = [x \in D \X D \X Uint16 |->
                            IF x[1] >= x[2] THEN DivideByte(bs[x[1]], x[3])
                            ELSE f[<<((x[1] + x[2]) \div 2) + 1, x[2],
                                     f[<<x[1], (x[1] + x[2]) \div 2, x[3]>>]>>]]
             g == CHOOSE f : P(f)
  <1>1. Remainder(bs) = g[<<1, Len(bs), 0>>]
    BY DEF Remainder, Accumulate
  <1>2. \A i \in D : bs[i] \in Byte
    OBVIOUS
  <1>3. ASSUME NEW f PROVE Sums(ByteStep, f, bs) <=> P(f)
    <2>1. \A x \in D \X D \X Uint16 : ByteStep[<<bs[x[1]], x[3]>>] = DivideByte(bs[x[1]], x[3])
      BY <1>2, ByteStepFunction
    <2>2. QED
      BY <2>1 DEF Sums, Step
  <1> HIDE DEF P
  <1>4. P(g)
    BY <1>3, SumsExist, ByteStepFunction
  <1>5. Sums(ByteStep, g, bs)
    BY <1>3, <1>4
  <1> HIDE DEF g
  <1>6. 0 \in Uint16
    BY WordRange
  <1>7. g[<<1, Len(bs), 0>>] = acc[Len(bs)]
    BY <1>5, <1>6, SumsLoop, ByteStepFunction
  <1>8. QED
    BY <1>1, <1>7

LEMMA XorAssociative ==
  ASSUME NEW a \in Byte, NEW b \in Byte, NEW c \in Byte
  PROVE  Xor8(Xor8(a, b), c) = Xor8(a, Xor8(b, c))
  <1>1. 0 \in Byte
    BY DEF Byte
  <1>2. Xor8(Xor8(a, b), Xor8(0, c)) = Xor8(Xor8(a, 0), Xor8(b, c))
    BY <1>1, XorFour
  <1>3. QED
    BY <1>2, ZeroXor

(* What the code's step does to the sum and the division to its remainder: *)
(* c is what is left of r and two bytes of zeros, and remains so.          *)
LEMMA StepsAgree ==
  ASSUME NEW r \in Uint16, NEW c, c = DivideByte(0, DivideByte(0, r))
  PROVE  /\ \A b \in Byte : update_crc16(b, c) = DivideByte(0, DivideByte(0, DivideByte(b, r)))
         /\ DivideByte(c % 256, DivideByte(c \div 256, r)) = 0
  <1> DEFINE h == r \div 256
             l == r % 256
             t == crc16tab[h + 1]
             th == t \div 256
             tl == t % 256
             m == Xor8(l, th)
             s == crc16tab[m + 1]
             sh == s \div 256
             sl == s % 256
             d == Xor8(tl, sh)
  <1>0. 0 \in Byte
    BY DEF Byte
  <1>1. h \in Byte /\ l \in Byte /\ r = 256 * h + l
    BY WordOfBytes
  <1>2. /\ th \in Byte /\ tl \in Byte
        /\ \A b \in Byte : DivideByte(b, r) = 256 * m + Xor8(b, tl)
    <2> HIDE DEF h, l
    <2>1. \A b \in Byte : /\ th \in Byte /\ tl \in Byte
                          /\ DivideByte(b, 256 * h + l) = 256 * m + Xor8(b, tl)
      BY <1>1, DivideBytes
    <2>2. QED
      BY <1>0, <1>1, <2>1
  <1>3. m \in Byte
    BY XorTyped
  <1> HIDE DEF h, l, t, th, tl, m
  <1>4. /\ sh \in Byte /\ sl \in Byte
        /\ \A b, x \in Byte : DivideByte(x, 256 * m + b) = 256 * Xor8(b, sh) + Xor8(x, sl)
    <2>1. \A b, x \in Byte : /\ sh \in Byte /\ sl \in Byte
                             /\ DivideByte(x, 256 * m + b) = 256 * Xor8(b, sh) + Xor8(x, sl)
      BY <1>3, DivideBytes
    <2>2. QED
      BY <1>0, <2>1
  <1>5. d \in Byte
    BY XorTyped
  <1> HIDE DEF s, sh, sl
  <1>6. ASSUME NEW b \in Byte, NEW x \in Byte
        PROVE  DivideByte(x, DivideByte(b, r)) = 256 * Xor8(b, d) + Xor8(x, sl)
    <2>1. Xor8(b, tl) \in Byte
      BY XorTyped
    <2>2. DivideByte(x, 256 * m + Xor8(b, tl)) = 256 * Xor8(Xor8(b, tl), sh) + Xor8(x, sl)
      BY <1>4, <2>1
    <2>3. Xor8(Xor8(b, tl), sh) = Xor8(b, d)
      BY <1>2, <1>4, XorAssociative
    <2>4. QED
      BY <1>2, <2>2, <2>3
  <1>7. c = 256 * d + sl
    <2>1. c = 256 * Xor8(0, d) + Xor8(0, sl)
      BY <1>0, <1>6
    <2>2. Xor8(0, d) = d /\ Xor8(0, sl) = sl
      BY <1>4, <1>5, ZeroXor
    <2>3. QED
      BY <2>1, <2>2
  <1> HIDE DEF d
  <1>8. c \in Uint16 /\ c \div 256 = d /\ c % 256 = sl
    BY <1>4, <1>5, <1>7, BytesOfWord
  <1>9. DivideByte(c % 256, DivideByte(c \div 256, r)) = 0
    <2>1. DivideByte(sl, DivideByte(d, r)) = 256 * Xor8(d, d) + Xor8(sl, sl)
      BY <1>4, <1>5, <1>6
    <2>2. Xor8(d, d) = 0 /\ Xor8(sl, sl) = 0
      BY XorSwap
    <2>3. QED
      BY <1>8, <2>1, <2>2
  <1>10. ASSUME NEW b \in Byte
         PROVE  update_crc16(b, c) = DivideByte(0, DivideByte(0, DivideByte(b, r)))
    <2> DEFINE i == Xor8(b, d)
               u == crc16tab[i + 1]
    <2>1. DivideByte(0, DivideByte(b, r)) = 256 * i + sl
      <3>1. DivideByte(0, DivideByte(b, r)) = 256 * Xor8(b, d) + Xor8(0, sl)
        BY <1>0, <1>6
      <3>2. Xor8(0, sl) = sl
        BY <1>4, ZeroXor
      <3>3. QED
        BY <3>1, <3>2
    <2>2. i \in Byte
      BY XorTyped
    <2>3. Xor8(c \div 256, b) = i
      BY <1>8, XorSwap
    <2>4. update_crc16(b, c) = 256 * Xor8(sl, u \div 256) + (u % 256)
      BY <1>8, <2>3, UpdateParts
    <2> HIDE DEF i
    <2>5. /\ u % 256 \in Byte
          /\ DivideByte(0, 256 * i + sl) = 256 * Xor8(sl, u \div 256) + Xor8(0, u % 256)
      BY <1>0, <1>4, <2>2, DivideBytes
    <2> HIDE DEF u
    <2>6. Xor8(0, u % 256) = u % 256
      BY <2>5, ZeroXor
    <2>7. QED
      BY <2>1, <2>4, <2>5, <2>6
  <1>11. QED
    BY <1>9, <1>10

(* The division of a byte that nothing comes before.                       *)
LEMMA DivideSmall ==
  /\ \A b \in Byte : DivideByte(b, 0) = b
  /\ \A b \in Byte : DivideByte(0, b) = 256 * b
  /\ \A b \in Byte : DivideByte(0, 256 * b) = crc16tab[b + 1]
  <1>0. 0 \in Byte /\ 256 * 0 + 0 = 0 /\ 0 + 1 = 1
    BY DEF Byte
  <1>1. crc16tab[0 + 1] = 0
    BY DEF crc16tab
  <1>2. ASSUME NEW b \in Byte, NEW l \in Byte
        PROVE  DivideByte(b, l) = 256 * l + b
    <2> DEFINE t == crc16tab[0 + 1]
    <2>1. DivideByte(b, 256 * 0 + l) = 256 * Xor8(l, t \div 256) + Xor8(b, t % 256)
      <3>1. \A h \in Byte :
              DivideByte(b, 256 * h + l)
                = 256 * Xor8(l, crc16tab[h + 1] \div 256) + Xor8(b, crc16tab[h + 1] % 256)
        BY DivideBytes
      <3>2. QED
        BY <1>0, <3>1, Zenon
    <2>2. t \div 256 = 0 /\ t % 256 = 0
      <3>1. t = 0
        BY <1>1
      <3> HIDE DEF t
      <3>2. QED
        BY <3>1
    <2> HIDE DEF t
    <2>3. Xor8(l, 0) = l /\ Xor8(b, 0) = b
      BY ZeroXor
    <2>4. 256 * 0 + l = l
      BY DEF Byte
    <2>5. QED
      BY <2>1, <2>2, <2>3, <2>4
  <1>3. ASSUME NEW b \in Byte PROVE DivideByte(0, 256 * b) = crc16tab[b + 1]
    <2> DEFINE t == crc16tab[b + 1]
    <2>1. DivideByte(0, 256 * b + 0) = 256 * Xor8(0, t \div 256) + Xor8(0, t % 256)
      BY <1>0, DivideBytes
    <2>2. t \in Uint16
      BY TableEntries
    <2> HIDE DEF t
    <2>3. t \div 256 \in Byte /\ t % 256 \in Byte /\ 256 * (t \div 256) + (t % 256) = t
      BY <2>2, WordOfBytes
    <2>4. Xor8(0, t \div 256) = t \div 256 /\ Xor8(0, t % 256) = t % 256
      BY <2>3, ZeroXor
    <2>5. 256 * b + 0 = 256 * b
      BY DEF Byte
    <2>6. QED
      BY <2>1, <2>3, <2>4, <2>5 DEF t
  <1>4. ASSUME NEW b \in Byte PROVE DivideByte(b, 0) = b /\ DivideByte(0, b) = 256 * b
    <2>1. DivideByte(b, 0) = 256 * 0 + b /\ DivideByte(0, b) = 256 * b + 0
      BY <1>0, <1>2
    <2>2. 256 * 0 + b = b /\ 256 * b + 0 = 256 * b
      BY DEF Byte
    <2>3. QED
      BY <2>1, <2>2
  <1>5. QED
    BY <1>3, <1>4

(* The loop of the division.                                               *)
LEMMA DivisionLoop ==
  ASSUME NEW bs \in Seq(Byte), Len(bs) > 0
  PROVE  \E acc : /\ acc \in [Nat -> Uint16] /\ acc[0] = 0
                  /\ \A n \in 1 .. Len(bs) : acc[n] = DivideByte(bs[n], acc[n - 1])
                  /\ Remainder(bs) = acc[Len(bs)]
  <1>1. 0 \in Uint16
    BY WordRange
  <1>2. PICK acc : Loop(ByteStep, acc, 0, bs)
    BY <1>1, LoopExists, ByteStepFunction
  <1>3. acc \in [Nat -> Uint16] /\ acc[0] = 0
    BY <1>2 DEF Loop
  <1>4. ASSUME NEW n \in 1 .. Len(bs) PROVE acc[n] = DivideByte(bs[n], acc[n - 1])
    <2>1. acc[n] = ByteStep[<<bs[n], acc[n - 1]>>]
      BY <1>2 DEF Loop
    <2>2. n - 1 \in Nat /\ bs[n] \in Byte
      OBVIOUS
    <2>3. acc[n - 1] \in Uint16
      BY <1>3, <2>2
    <2>4. QED
      BY <2>1, <2>2, <2>3, ByteStepFunction
  <1>5. Remainder(bs) = acc[Len(bs)]
    BY <1>2, RemainderIsLoop
  <1>6. QED
    BY <1>3, <1>4, <1>5

(* The table of crc16.go is the one of the polynomial.                     *)
LEMMA TableOfPolynomial == \A b \in Byte : crc16tab[b + 1] = Remainder(<<b, 0, 0>>)
  <1> SUFFICES ASSUME NEW b \in Byte PROVE crc16tab[b + 1] = Remainder(<<b, 0, 0>>)
    OBVIOUS
  <1> DEFINE bs == <<b, 0, 0>>
  <1>1. 0 \in Byte
    BY DEF Byte
  <1>2. bs \in Seq(Byte) /\ Len(bs) = 3 /\ bs[1] = b /\ bs[2] = 0 /\ bs[3] = 0
    BY <1>1
  <1> HIDE DEF bs
  <1>3. PICK acc : /\ acc \in [Nat -> Uint16] /\ acc[0] = 0
                   /\ \A n \in 1 .. Len(bs) : acc[n] = DivideByte(bs[n], acc[n - 1])
                   /\ Remainder(bs) = acc[Len(bs)]
    BY <1>2, DivisionLoop
  <1>4. /\ acc[1] = DivideByte(b, 0) /\ acc[2] = DivideByte(0, acc[1])
        /\ acc[3] = DivideByte(0, acc[2]) /\ Remainder(bs) = acc[3]
    BY <1>2, <1>3
  <1>5. acc[1] = b /\ acc[2] = 256 * b /\ acc[3] = crc16tab[b + 1]
    BY <1>4, DivideSmall
  <1>6. QED
    BY <1>4, <1>5 DEF bs

(* Bytes with their CRC behind them, high byte first, are divided by the   *)
(* polynomial without remainder.                                           *)
THEOREM CrcDivides ==
  ASSUME NEW bs \in Seq(Byte), Len(bs) > 0
  PROVE  Remainder(bs \o WordBytes(crc16(bs))) = 0
  <1> DEFINE c == crc16(bs)
             w == WordBytes(c)
             f == bs \o w
             l == Len(bs)
  <1>1. c \in Uint16
    BY CrcTyped
  <1>2. w \in Seq(Byte) /\ Len(w) = 2 /\ w[1] = c \div 256 /\ w[2] = c % 256
    BY <1>1, WordSeq DEF WordBytes
  <1> HIDE DEF c, w
  <1>3. /\ f \in Seq(Byte) /\ Len(f) = l + 2 /\ l \in Nat
        /\ \A n \in 1 .. l : f[n] = bs[n]
        /\ f[l + 1] = c \div 256 /\ f[l + 2] = c % 256
    <2>1. f = bs \o w /\ w \in Seq(Byte)
      BY <1>2
    <2> HIDE DEF f
    <2>2. /\ f \in Seq(Byte) /\ Len(f) = l + Len(w)
          /\ \A n \in 1 .. l : f[n] = bs[n]
          /\ \A n \in 1 .. Len(w) : f[l + n] = w[n]
      BY <2>1, Joined
    <2>3. l \in Nat
      OBVIOUS
    <2>4. 1 \in 1 .. Len(w) /\ 2 \in 1 .. Len(w)
      BY <1>2
    <2>5. QED
      BY <1>2, <2>2, <2>3, <2>4
  <1>4. \A n \in 1 .. l : bs[n] \in Byte
    OBVIOUS
  <1>5. PICK sum : /\ Loop(Update, sum, 0, bs) /\ sum[0] = 0 /\ sum \in [Nat -> Uint16]
                   /\ \A n \in 1 .. Len(bs) : sum[n] = update_crc16(bs[n], sum[n - 1])
    BY CrcLoop
  <1>6. c = sum[l]
    BY <1>5, CrcIsLoop DEF c
  <1> HIDE DEF f
  <1>7. PICK acc : /\ acc \in [Nat -> Uint16] /\ acc[0] = 0
                   /\ \A n \in 1 .. Len(f) : acc[n] = DivideByte(f[n], acc[n - 1])
                   /\ Remainder(f) = acc[Len(f)]
    <2>1. Len(f) > 0
      BY <1>3
    <2>2. QED
      BY <1>3, <2>1, DivisionLoop
  <1>8. \A n \in 1 .. l : sum[n] = update_crc16(bs[n], sum[n - 1])
    BY <1>5
  <1> DEFINE N == {n \in Nat : n <= l => sum[n] = DivideByte(0, DivideByte(0, acc[n]))}
  <1>9. 0 \in N
    <2>1. 0 \in Byte
      BY DEF Byte
    <2>2. DivideByte(0, 0) = 0
      BY <2>1, DivideSmall
    <2>3. QED
      BY <1>5, <1>7, <2>2
  <1> HIDE DEF l
  <1>10. ASSUME NEW n \in Nat, n \in N PROVE n + 1 \in N
    <2> SUFFICES ASSUME n + 1 <= l
                 PROVE  sum[n + 1] = DivideByte(0, DivideByte(0, acc[n + 1]))
      OBVIOUS
    <2>1. n + 1 \in 1 .. l /\ n + 1 \in 1 .. Len(f) /\ (n + 1) - 1 = n /\ n <= l
      BY <1>3
    <2>2. sum[n] = DivideByte(0, DivideByte(0, acc[n])) /\ acc[n] \in Uint16
      BY <1>7, <1>10, <2>1
    <2>3. bs[n + 1] \in Byte /\ f[n + 1] = bs[n + 1]
      BY <1>3, <1>4, <2>1
    <2>4. sum[n + 1] = update_crc16(bs[n + 1], sum[n])
      BY <1>8, <2>1
    <2>5. acc[n + 1] = DivideByte(bs[n + 1], acc[n])
      BY <1>7, <2>1, <2>3
    <2>6. update_crc16(bs[n + 1], sum[n])
            = DivideByte(0, DivideByte(0, DivideByte(bs[n + 1], acc[n])))
      BY <2>2, <2>3, StepsAgree
    <2>7. QED
      BY <2>4, <2>5, <2>6
  <1> HIDE DEF N
  <1>11. l \in N
    BY <1>3, <1>9, <1>10, SetInduction
  <1>12. c = DivideByte(0, DivideByte(0, acc[l])) /\ acc[l] \in Uint16
    BY <1>3, <1>6, <1>7, <1>11 DEF N
  <1>13. acc[l + 1] = DivideByte(c \div 256, acc[l])
    <2>1. l + 1 \in 1 .. Len(f) /\ (l + 1) - 1 = l
      BY <1>3
    <2>2. QED
      BY <1>3, <1>7, <2>1
  <1>14. acc[l + 2] = DivideByte(c % 256, acc[l + 1])
    <2>1. l + 2 \in 1 .. Len(f) /\ (l + 2) - 1 = l + 1
      BY <1>3
    <2>2. QED
      BY <1>3, <1>7, <2>1
  <1>15. DivideByte(c % 256, DivideByte(c \div 256, acc[l])) = 0
    BY <1>12, StepsAgree
  <1>16. Remainder(f) = 0
    BY <1>3, <1>7, <1>13, <1>14, <1>15
  <1>17. QED
    BY <1>16 DEF f, w, c

(* The CRC that the driver computes is that of the polynomial: the table   *)
(* is its table, and every frame is a multiple of it when it is sent.      *)
THEOREM FramesDivide == FrameSpec => []CrcIsRemainder
  <1>1. Typed /\ OnTheWay => CrcIsRemainder
    <2> SUFFICES ASSUME Typed, OnTheWay PROVE CrcIsRemainder
      OBVIOUS
    <2>1. \A b \in Byte : crc16tab[b + 1] = Remainder(<<b, 0, 0>>)
      BY TableOfPolynomial
    <2>2. ASSUME phase = "sent", ~ flipped PROVE Remainder(line) = 0
      <3>1. msg \in Messages /\ header \in Headers
        BY DEF Typed
      <3>2. PICK body \in Seq(Byte) : Carries(body)
        BY <2>2 DEF OnTheWay
      <3>3. line = Whole(msg, header, body)
        BY <2>2, <3>2 DEF Carries
      <3> DEFINE c == Covered(msg, header, body)
      <3>4. c \in Seq(Byte) /\ Len(c) > 0
        <4>1. c \in Seq(Byte) /\ Len(c) = Len(body) + 9
          BY <3>1, CoveredParts
        <4> HIDE DEF c
        <4>2. Len(body) \in Nat
          OBVIOUS
        <4>3. QED
          BY <4>1, <4>2
      <3>5. line = c \o WordBytes(crc16(c))
        BY <3>3 DEF Whole
      <3> HIDE DEF c
      <3>6. QED
        BY <3>4, <3>5, CrcDivides
    <2>3. QED
      BY <2>1, <2>2 DEF CrcIsRemainder
  <1>2. QED
    BY <1>1, TypedAlways, OnTheWayAlways, PTL
=============================================================================
