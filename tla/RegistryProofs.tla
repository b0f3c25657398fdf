--------------------------- MODULE RegistryProofs ---------------------------
(***************************************************************************)
(* Proofs about the way of a message to the controls of MQTT: for any      *)
(* number of devices, channels, temperatures and measured quantities, and  *)
(* for any order of messages.                                              *)
(***************************************************************************)
EXTENDS Registry, SequenceTheorems, FiniteSetTheorems, TLAPS

-----------------------------------------------------------------------------
(* The operators of the model.                                             *)

(* UpTo is the sequences of bounded length.                                *)
LEMMA UpToFact ==
  ASSUME NEW N \in Nat, NEW S, NEW s
  PROVE  s \in UpTo(N, S) <=> s \in Seq(S) /\ Len(s) <= N
  <1>1. ASSUME s \in UpTo(N, S) PROVE s \in Seq(S) /\ Len(s) <= N
    BY <1>1 DEF UpTo
  <1>2. ASSUME s \in Seq(S), Len(s) <= N PROVE s \in UpTo(N, S)
    <2>1. s \in [1 .. Len(s) -> S] /\ Len(s) \in 0 .. N
      BY <1>2
    <2>2. QED
      BY <2>1 DEF UpTo
  <1>3. QED
    BY <1>1, <1>2

(* Controls of different kinds or numbers are different controls.          *)
LEMMA ControlFact ==
  /\ \A n, k : Channel(n) = Channel(k) => n = k
  /\ \A n, k : Temp(n) = Temp(k) => n = k
  /\ \A n, k : Channel(n) # Temp(k)
  /\ \A n, f : Channel(n) # Measured(f)
  /\ \A n, f : Temp(n) # Measured(f)
  BY DEF Channel, Temp, Measured

(* updateChannelStatus knows what was known and what the message lists,    *)
(* and the message wins.                                                   *)
LEMMA UpdateFact ==
  ASSUME NEW status \in UpTo(MaxChannels, Reading),
         NEW r \in UpTo(MaxChannels, Reading),
         NEW u, u = updateChannelStatus(status, r)
  PROVE  /\ u \in UpTo(MaxChannels, Reading)
         /\ DOMAIN u = DOMAIN status \cup DOMAIN r
         /\ \A n \in DOMAIN u : u[n] = IF n \in DOMAIN r THEN r[n] ELSE status[n]
  <1> DEFINE t == SubSeq(status, Len(r) + 1, Len(status))
  <1>1. /\ status \in Seq(Reading) /\ Len(status) \in Nat /\ Len(status) <= MaxChannels
        /\ r \in Seq(Reading) /\ Len(r) \in Nat /\ Len(r) <= MaxChannels
        /\ DOMAIN status = 1 .. Len(status) /\ DOMAIN r = 1 .. Len(r)
    BY UpToFact, RegistryAssumption
  <1>2. /\ t \in Seq(Reading)
        /\ Len(t) = IF Len(r) < Len(status) THEN Len(status) - Len(r) ELSE 0
        /\ \A i \in 1 .. Len(t) : t[i] = status[Len(r) + i]
    BY <1>1
  <1>3. /\ u \in Seq(Reading) /\ Len(u) = Len(r) + Len(t)
        /\ \A i \in 1 .. Len(u) : u[i] = IF i <= Len(r) THEN r[i] ELSE t[i - Len(r)]
    BY <1>1, <1>2, ConcatProperties DEF updateChannelStatus
  <1>4. Len(u) <= MaxChannels
    BY <1>1, <1>2, <1>3
  <1>5. DOMAIN u = DOMAIN status \cup DOMAIN r
    <2>1. DOMAIN u = 1 .. Len(u) /\ Len(u) \in Nat
      BY <1>3
    <2>2. Len(u) = IF Len(r) < Len(status) THEN Len(status) ELSE Len(r)
      BY <1>1, <1>2, <1>3
    <2>3. \A n : n \in 1 .. Len(u) <=> n \in 1 .. Len(status) \/ n \in 1 .. Len(r)
      BY <1>1, <2>1, <2>2
    <2>4. QED
      BY <1>1, <2>1, <2>3
  <1>6. \A n \in DOMAIN u : u[n] = IF n \in DOMAIN r THEN r[n] ELSE status[n]
    BY <1>1, <1>2, <1>3
  <1>7. QED
    BY <1>3, <1>4, <1>5, <1>6, UpToFact, RegistryAssumption

(* updateSingleChannel never makes a channel known, and changes one that   *)
(* is known at most; channel 0, whose index is 255, changes nothing.       *)
LEMMA SingleFact ==
  ASSUME NEW status \in UpTo(MaxChannels, Reading), NEW ch \in 0 .. MaxChannels + 1,
         NEW on \in Reading
  PROVE  LET u == updateSingleChannel(status, ChannelIndex(ch), on)
         IN  u \in UpTo(MaxChannels, Reading) /\ DOMAIN u = DOMAIN status
  <1> DEFINE n == ChannelIndex(ch)
             u == updateSingleChannel(status, n, on)
  <1>1. status \in Seq(Reading) /\ Len(status) \in Nat /\ Len(status) <= MaxChannels
    BY UpToFact, RegistryAssumption
  <1>2. n \in Nat
    BY RegistryAssumption DEF ChannelIndex
  <1>3. u \in Seq(Reading) /\ Len(u) = Len(status)
    BY <1>1, <1>2, ExceptSeq DEF updateSingleChannel
  <1>4. QED
    BY <1>1, <1>3, UpToFact, RegistryAssumption

-----------------------------------------------------------------------------
(* The handlers.                                                           *)

(* The controls that a device model takes for announced.                   *)
Known(dm) ==
  {Channel(n) : n \in DOMAIN dm.channelStatus}
    \cup {Temp(n) : n \in 1 .. dm.numTemps}
    \cup {Measured(f) : f \in IF dm.isNew THEN {} ELSE Field}

(* What a handler promises of its effect e on the device model dm: it      *)
(* announces exactly the controls that become known, gives values to known *)
(* controls only, and publishes every channel whose state it changes.      *)
Sound(dm, e) ==
  /\ e.dm \in Model
  /\ Known(e.dm) = Known(dm) \cup DOMAIN e.new
  /\ DOMAIN e.new \cap Known(dm) = {}
  /\ DOMAIN e.value \subseteq Known(dm)
  /\ \A c \in DOMAIN e.new : e.new[c] \in Reading
  /\ \A c \in DOMAIN e.value : e.value[c] \in Reading
  /\ \A n \in DOMAIN e.dm.channelStatus :
       e.dm.channelStatus[n] =
         IF Channel(n) \in DOMAIN e.new THEN e.new[Channel(n)]
         ELSE IF Channel(n) \in DOMAIN e.value THEN e.value[Channel(n)]
         ELSE dm.channelStatus[n]

(* To do nothing is sound, and so is to set or reset skipBroadcast.        *)
LEMMA NothingSound ==
  ASSUME NEW dm \in Model, NEW skip \in BOOLEAN
  PROVE  /\ Sound(dm, Effect(dm, Nothing, Nothing))
         /\ Sound(dm, Effect([dm EXCEPT !.skipBroadcast = skip], Nothing, Nothing))
  <1>1. DOMAIN Nothing = {}
    BY DEF Nothing
  <1>2. ASSUME NEW d \in Model, d.channelStatus = dm.channelStatus,
               d.numTemps = dm.numTemps, d.isNew = dm.isNew
        PROVE  Sound(dm, Effect(d, Nothing, Nothing))
    BY <1>1, <1>2 DEF Sound, Effect, Known
  <1>3. QED
    BY <1>2 DEF Model

(* New channels are announced and those that changed get a value, if no    *)
(* channel is forgotten.                                                   *)
LEMMA StatusSound ==
  ASSUME NEW dm \in Model, NEW status \in UpTo(MaxChannels, Reading),
         NEW skip \in BOOLEAN, DOMAIN dm.channelStatus \subseteq DOMAIN status
  PROVE  /\ Sound(dm, StatusEffect(dm, status))
         /\ Sound(dm, StatusEffect([dm EXCEPT !.skipBroadcast = skip], status))
  <1> DEFINE old == dm.channelStatus
             fresh == DOMAIN status \ DOMAIN old
             changed == {n \in DOMAIN old : status[n] # old[n]}
             new == For(fresh, Channel, status)
             value == For(changed, Channel, status)
  <1>1. \A n \in DOMAIN status : status[n] \in Reading
    BY UpToFact, RegistryAssumption
  <1>2. /\ DOMAIN new = {Channel(n) : n \in fresh}
        /\ \A n \in fresh : new[Channel(n)] = status[n]
    BY DEF For, Channel
  <1>3. /\ DOMAIN value = {Channel(n) : n \in changed}
        /\ \A n \in changed : value[Channel(n)] = status[n]
    BY DEF For, Channel
  <1> HIDE DEF new, value
  <1>4. ASSUME NEW d \in Model, d.channelStatus = status,
               d.numTemps = dm.numTemps, d.isNew = dm.isNew
        PROVE  Sound(dm, Effect(d, new, value))
    <2> DEFINE e == Effect(d, new, value)
    <2>1. e.dm = d /\ e.new = new /\ e.value = value
      BY DEF Effect
    <2>2. Known(d) = Known(dm) \cup DOMAIN new
      BY <1>2, <1>4 DEF Known
    <2>3. DOMAIN new \cap Known(dm) = {}
      BY <1>2, ControlFact DEF Known
    <2>4. DOMAIN value \subseteq Known(dm)
      BY <1>3 DEF Known
    <2>5. /\ \A c \in DOMAIN new : new[c] \in Reading
          /\ \A c \in DOMAIN value : value[c] \in Reading
      BY <1>1, <1>2, <1>3
    <2>6. ASSUME NEW n \in DOMAIN status
          PROVE  status[n] = IF Channel(n) \in DOMAIN new THEN new[Channel(n)]
                             ELSE IF Channel(n) \in DOMAIN value THEN value[Channel(n)]
                             ELSE old[n]
      BY <1>2, <1>3, ControlFact
    <2>7. QED
      BY <1>4, <2>1, <2>2, <2>3, <2>4, <2>5, <2>6 DEF Sound
  <1>5. QED
    BY <1>4 DEF StatusEffect, Model, new, value

(* Temperatures are counted: those beyond numTemps are new.                *)
LEMMA TemperaturesSound ==
  ASSUME NEW dm \in Model, NEW m \in Temperatures
  PROVE  Sound(dm, OnReadTemperatureValuesResponse(dm, m))
  <1> DEFINE n == Len(m.values)
             fresh == DOMAIN m.values \ (1 .. dm.numTemps)
             old == DOMAIN m.values \cap (1 .. dm.numTemps)
             new == For(fresh, Temp, m.values)
             value == For(old, Temp, m.values)
             d == [dm EXCEPT !.numTemps = IF n > @ THEN n ELSE @]
  <1>1. m.values \in UpTo(MaxTemps, Reading) /\ m.celsius \in BOOLEAN
    BY DEF Temperatures
  <1>2. /\ n \in 0 .. MaxTemps /\ DOMAIN m.values = 1 .. n
        /\ \A k \in 1 .. n : m.values[k] \in Reading
    BY <1>1, UpToFact, RegistryAssumption
  <1>3. CASE ~m.celsius
    BY <1>3, NothingSound DEF OnReadTemperatureValuesResponse
  <1>4. CASE m.celsius
    <2>1. /\ DOMAIN new = {Temp(k) : k \in fresh}
          /\ \A k \in fresh : new[Temp(k)] = m.values[k]
      BY DEF For, Temp
    <2>2. /\ DOMAIN value = {Temp(k) : k \in old}
          /\ \A k \in old : value[Temp(k)] = m.values[k]
      BY DEF For, Temp
    <2>3. /\ d \in Model /\ d.channelStatus = dm.channelStatus /\ d.isNew = dm.isNew
          /\ d.numTemps = IF n > dm.numTemps THEN n ELSE dm.numTemps
          /\ dm.numTemps \in 0 .. MaxTemps
      BY <1>2, RegistryAssumption DEF Model
    <2> HIDE DEF new, value, d
    <2>4. 1 .. d.numTemps = (1 .. dm.numTemps) \cup fresh
      BY <1>2, <2>3, RegistryAssumption
    <2>5. Known(d) = Known(dm) \cup DOMAIN new
      BY <2>1, <2>3, <2>4 DEF Known
    <2>6. DOMAIN new \cap Known(dm) = {}
      BY <2>1, ControlFact DEF Known
    <2>7. DOMAIN value \subseteq Known(dm)
      BY <2>2 DEF Known
    <2>8. /\ \A c \in DOMAIN new : new[c] \in Reading
          /\ \A c \in DOMAIN value : value[c] \in Reading
      BY <1>2, <2>1, <2>2
    <2>9. \A k : Channel(k) \notin DOMAIN new /\ Channel(k) \notin DOMAIN value
      BY <2>1, <2>2, ControlFact
    <2>10. Sound(dm, Effect(d, new, value))
      BY <2>3, <2>5, <2>6, <2>7, <2>8, <2>9 DEF Sound, Effect
    <2>11. QED
      BY <1>4, <2>10 DEF OnReadTemperatureValuesResponse, new, value, d
  <1>5. QED
    BY <1>1, <1>3, <1>4

(* A sensor announces all its controls or gives all of them a value.       *)
LEMMA SensorSound ==
  ASSUME NEW dm \in Model, NEW m \in SensorStatus
  PROVE  Sound(dm, OnReadSensorStatusResponse(dm, m))
  <1> DEFINE all == For(Field, Measured, m.values)
             d == [dm EXCEPT !.isNew = FALSE]
             new == IF dm.isNew THEN all ELSE Nothing
             value == IF dm.isNew THEN Nothing ELSE all
  <1>1. \A f \in Field : m.values[f] \in Reading
    BY DEF SensorStatus
  <1>2. /\ DOMAIN all = {Measured(f) : f \in Field}
        /\ \A f \in Field : all[Measured(f)] = m.values[f]
    BY DEF For, Measured
  <1>3. /\ d \in Model /\ d.channelStatus = dm.channelStatus
        /\ d.numTemps = dm.numTemps /\ d.isNew = FALSE /\ dm.isNew \in BOOLEAN
    BY DEF Model
  <1>4. DOMAIN Nothing = {}
    BY DEF Nothing
  <1> HIDE DEF all, d
  <1>5. Known(d) = Known(dm) \cup DOMAIN new
    BY <1>2, <1>3, <1>4 DEF Known
  <1>6. DOMAIN new \cap Known(dm) = {}
    BY <1>2, <1>3, <1>4, ControlFact DEF Known
  <1>7. DOMAIN value \subseteq Known(dm)
    BY <1>2, <1>3, <1>4 DEF Known
  <1>8. /\ \A c \in DOMAIN new : new[c] \in Reading
        /\ \A c \in DOMAIN value : value[c] \in Reading
    BY <1>1, <1>2, <1>4
  <1>9. \A k : Channel(k) \notin DOMAIN new /\ Channel(k) \notin DOMAIN value
    BY <1>2, <1>4, ControlFact
  <1> HIDE DEF new, value
  <1>10. Sound(dm, Effect(d, new, value))
    BY <1>3, <1>5, <1>6, <1>7, <1>8, <1>9 DEF Sound, Effect
  <1>11. QED
    BY <1>10 DEF OnReadSensorStatusResponse, new, value, d, all

(* What can be on the bus, whoever says it and whether asked or not.       *)
Message ==
  Greeting \cup SensorBroadcast \cup SensorStatus \cup Temperatures
    \cup Broadcast \cup Statuses \cup SetAnswer

(* Devices say messages, and the opcode tells what is in one.              *)
LEMMA MessageFact ==
  /\ \A type : Says(type) \subseteq Message /\ PollAnswer(type) \subseteq Message
  /\ \A m \in Message :
       /\ m.op = "broadcast" => m \in Broadcast
       /\ m.op = "set" => m \in SetAnswer
       /\ m.op = "temperatures" => m \in Temperatures
       /\ m.op = "statuses" => m \in Statuses
       /\ m.op = "sensorStatus" => m \in SensorStatus
  <1>1. ASSUME NEW type PROVE Says(type) \subseteq Message
    BY DEF Says, Message
  <1>2. ASSUME NEW type PROVE PollAnswer(type) \subseteq Message
    BY DEF PollAnswer, Message
  <1>3. ASSUME NEW m \in Message
        PROVE  /\ m.op = "broadcast" => m \in Broadcast
               /\ m.op = "set" => m \in SetAnswer
               /\ m.op = "temperatures" => m \in Temperatures
               /\ m.op = "statuses" => m \in Statuses
               /\ m.op = "sensorStatus" => m \in SensorStatus
    <2>1. /\ m \in Greeting => m.op = "greeting"
          /\ m \in SensorBroadcast => m.op = "sensorBroadcast"
      BY DEF Greeting, SensorBroadcast
    <2>2. /\ m \in SensorStatus => m.op = "sensorStatus"
          /\ m \in Temperatures => m.op = "temperatures"
          /\ m \in Broadcast => m.op = "broadcast"
          /\ m \in Statuses => m.op = "statuses"
          /\ m \in SetAnswer => m.op = "set"
      BY DEF SensorStatus, Temperatures, Broadcast, Statuses, SetAnswer
    <2>3. QED
      BY <2>1, <2>2 DEF Message
  <1>4. QED
    BY <1>1, <1>2, <1>3

(* Whatever a device model is sent, its handler is sound.                  *)
LEMMA VisitSound ==
  ASSUME NEW dm \in Model, NEW m \in Message
  PROVE  Sound(dm, Visit(dm, m))
  <1>1. dm.channelStatus \in UpTo(MaxChannels, Reading) /\ MaxChannels \in Nat
    BY RegistryAssumption DEF Model
  <1>2. ASSUME NEW r \in UpTo(MaxChannels, Reading)
        PROVE  Sound(dm, StatusEffect(dm, updateChannelStatus(dm.channelStatus, r)))
    <2>1. PICK u : u = updateChannelStatus(dm.channelStatus, r)
      OBVIOUS
    <2>2. /\ u \in UpTo(MaxChannels, Reading)
          /\ DOMAIN u = DOMAIN dm.channelStatus \cup DOMAIN r
      BY <1>1, <1>2, <2>1, UpdateFact
    <2>3. QED
      BY <2>1, <2>2, StatusSound
  <1>3. CASE m.op = "broadcast" /\ dm.type \in Relays
    <2>1. m.status \in UpTo(MaxChannels, Reading)
      BY <1>3, MessageFact DEF Broadcast
    <2>2. QED
      BY <1>2, <1>3, <2>1, NothingSound DEF Visit, OnZoneBeastBroadcast
  <1>4. CASE m.op = "set" /\ dm.type \in Relays
    <2>1. m.ch \in 0 .. MaxChannels + 1 /\ m.on \in Reading
      BY <1>4, MessageFact DEF SetAnswer
    <2>2. QED
      BY <1>1, <1>4, <2>1, SingleFact, StatusSound, NothingSound
         DEF Visit, OnSingleChannelControlResponse
  <1>5. CASE m.op = "temperatures" /\ dm.type \in Relays
    BY <1>5, MessageFact, TemperaturesSound DEF Visit
  <1>6. CASE m.op = "statuses" /\ dm.type = "hmix12"
    <2>1. m.status \in UpTo(MaxChannels, Reading)
      BY <1>6, MessageFact DEF Statuses
    <2>2. QED
      BY <1>2, <1>6, <2>1 DEF Visit, OnQueryChannelStatusesResponse
  <1>7. CASE m.op = "sensorStatus" /\ dm.type \in Sensors
    BY <1>7, MessageFact, SensorSound DEF Visit
  <1>8. CASE /\ ~(m.op = "broadcast" /\ dm.type \in Relays)
             /\ ~(m.op = "set" /\ dm.type \in Relays)
             /\ ~(m.op = "temperatures" /\ dm.type \in Relays)
             /\ ~(m.op = "statuses" /\ dm.type = "hmix12")
             /\ ~(m.op = "sensorStatus" /\ dm.type \in Sensors)
    BY <1>8, NothingSound DEF Visit
  <1>9. QED
    BY <1>3, <1>4, <1>5, <1>6, <1>7, <1>8

-----------------------------------------------------------------------------
(* The registry.                                                           *)

(* The inductive invariant: the types, and that MQTT agrees with the       *)
(* device models.  AnnouncedOnce follows from the agreement step by step:  *)
(* what is announced is new to the model and hence to MQTT, and what gets  *)
(* a value is known to the model and hence to MQTT.                        *)
RegIInv ==
  /\ RegistryTypeOK
  /\ deviceMap = [a \in Addr |-> deviceMap[a]]
  /\ shown = [a \in Addr |-> shown[a]]
  /\ ShownIsKnown /\ AnnouncedOnce

(* A device model and what MQTT has of it agree (ShownIsKnown, by device). *)
Agree(dm, sh) ==
  /\ DOMAIN sh = Known(dm)
  /\ \A n \in DOMAIN dm.channelStatus : sh[Channel(n)] = dm.channelStatus[n]
  /\ \A c \in DOMAIN sh : sh[c] \in Reading

(* A device model that was just made knows nothing, and MQTT shows         *)
(* nothing.                                                                *)
LEMMA NewModelFact ==
  ASSUME NEW type \in Registered
  PROVE  NewModel(type) \in Model /\ Agree(NewModel(type), <<>>)
  <1>1. <<>> \in UpTo(MaxChannels, Reading)
    <2>1. <<>> \in Seq(Reading) /\ Len(<<>>) <= MaxChannels /\ MaxChannels \in Nat
      BY RegistryAssumption
    <2>2. QED
      BY <2>1, UpToFact, Zenon
  <1>2. NewModel(type) \in Model
    BY <1>1, RegistryAssumption DEF NewModel, Model
  <1>3. Known(NewModel(type)) = {}
    BY DEF NewModel, Known
  <1>4. DOMAIN <<>> = {} /\ NewModel(type).channelStatus = <<>>
    BY DEF NewModel
  <1>5. QED
    BY <1>2, <1>3, <1>4 DEF Agree

(* A device model knows controls that exist.                               *)
LEMMA KnownFact ==
  ASSUME NEW dm \in Model PROVE Known(dm) \subseteq Control
  <1>1. DOMAIN dm.channelStatus \subseteq 1 .. MaxChannels
    BY UpToFact, RegistryAssumption DEF Model
  <1>2. 1 .. dm.numTemps \subseteq 1 .. MaxTemps
    BY RegistryAssumption DEF Model
  <1>3. QED
    BY <1>1, <1>2 DEF Known, Control

(* Publishing a sound effect keeps the agreement, and misuses nothing.     *)
LEMMA PublishFact ==
  ASSUME NEW dm, NEW e, NEW sh, Agree(dm, sh), Sound(dm, e)
  PROVE  /\ Agree(e.dm, Publish(Publish(sh, e.value), e.new))
         /\ DOMAIN e.new \cap DOMAIN sh = {}
         /\ DOMAIN e.value \ DOMAIN sh = {}
  <1> DEFINE p == Publish(sh, e.value)
             q == Publish(p, e.new)
  <1>1. /\ DOMAIN p = DOMAIN sh \cup DOMAIN e.value
        /\ \A c \in DOMAIN p :
             p[c] = IF c \in DOMAIN e.value THEN e.value[c] ELSE sh[c]
    BY DEF Publish
  <1>2. /\ DOMAIN q = DOMAIN p \cup DOMAIN e.new
        /\ \A c \in DOMAIN q : q[c] = IF c \in DOMAIN e.new THEN e.new[c] ELSE p[c]
    BY DEF Publish
  <1> HIDE DEF p, q
  <1>3. DOMAIN q = Known(e.dm)
    BY <1>1, <1>2 DEF Agree, Sound
  <1>4. \A c \in DOMAIN q : q[c] \in Reading
    BY <1>1, <1>2 DEF Agree, Sound
  <1>5. ASSUME NEW n \in DOMAIN e.dm.channelStatus
        PROVE  q[Channel(n)] = e.dm.channelStatus[n]
    <2>1. Channel(n) \in DOMAIN q
      BY <1>3 DEF Known
    <2>2. CASE Channel(n) \in DOMAIN e.new
      BY <1>2, <2>1, <2>2 DEF Sound
    <2>3. CASE Channel(n) \notin DOMAIN e.new
      <3>1. Channel(n) \in Known(dm)
        BY <1>3, <2>1, <2>3 DEF Sound
      <3>2. n \in DOMAIN dm.channelStatus
        BY <3>1, ControlFact DEF Known
      <3>3. QED
        BY <1>1, <1>2, <2>1, <2>3, <3>1, <3>2 DEF Sound, Agree
    <2>4. QED
      BY <2>2, <2>3
  <1>6. QED
    BY <1>3, <1>4, <1>5 DEF Agree, Sound, p, q

(* A message from any device to the driver keeps the invariant.            *)
LEMMA OnAnythingIInv ==
  ASSUME RegIInv, NEW a \in Addr, NEW m \in Message, OnAnything(a, m),
         world' \in [Addr -> Type], asked' \subseteq Addr, swapped' = swapped
  PROVE  RegIInv'
  <1> DEFINE dm == ensureDevice(a)
             e == Visit(dm, m)
             sh == Publish(Publish(shown[a], e.value), e.new)
  <1>1. CASE dm = None
    BY <1>1 DEF OnAnything, RegIInv, RegistryTypeOK, ShownIsKnown, AnnouncedOnce
  <1>2. CASE dm # None
    <2>1. dm \in Model /\ Agree(dm, shown[a])
      <3>1. CASE deviceMap[a] # None
        <4>1. dm = deviceMap[a] /\ dm \in Model
          BY <3>1 DEF ensureDevice, RegIInv, RegistryTypeOK
        <4>2. QED
          BY <3>1, <4>1 DEF RegIInv, RegistryTypeOK, ShownIsKnown, Agree, Known
      <3>2. CASE deviceMap[a] = None
        <4>1. world[a] \in Registered /\ dm = NewModel(world[a])
          BY <1>2, <3>2 DEF ensureDevice
        <4>2. shown[a] = <<>>
          BY <3>2 DEF RegIInv, ShownIsKnown
        <4>3. QED
          BY <4>1, <4>2, NewModelFact
      <3>3. QED
        BY <3>1, <3>2
    <2>2. Sound(dm, e)
      BY <2>1, VisitSound
    <2>3. /\ deviceMap' = [deviceMap EXCEPT ![a] = e.dm]
          /\ shown' = [shown EXCEPT ![a] = sh]
          /\ misused' = misused \cup
               ({a} \X ((DOMAIN e.new \cap DOMAIN shown[a])
                          \cup (DOMAIN e.value \ DOMAIN shown[a])))
      BY <1>2 DEF OnAnything
    <2> HIDE DEF dm, e
    <2>4. Agree(e.dm, sh) /\ misused' = {}
      BY <2>1, <2>2, <2>3, PublishFact DEF RegIInv, AnnouncedOnce
    <2>5. e.dm \in Model /\ e.dm # None /\ DOMAIN sh \subseteq Control
      BY <2>2, <2>4, NoneAssumption, KnownFact DEF Sound, Agree
    <2> HIDE DEF sh
    <2>6. /\ deviceMap'[a] = e.dm /\ shown'[a] = sh
          /\ \A c \in Addr \ {a} : deviceMap'[c] = deviceMap[c] /\ shown'[c] = shown[c]
          /\ deviceMap' = [c \in Addr |-> deviceMap'[c]]
          /\ shown' = [c \in Addr |-> shown'[c]]
      BY <2>3 DEF RegIInv
    <2>7. ShownIsKnown'
      BY <2>4, <2>5, <2>6 DEF RegIInv, ShownIsKnown, Agree, Known
    <2>8. RegistryTypeOK'
      BY <2>4, <2>5, <2>6 DEF RegIInv, RegistryTypeOK, Agree
    <2>9. QED
      BY <2>4, <2>6, <2>7, <2>8 DEF RegIInv, AnnouncedOnce
  <1>3. QED
    BY <1>1, <1>2

(* The registry satisfies and preserves its invariant.                     *)
THEOREM RegistryInvariance == Spec => []RegIInv
  <1>1. Init => RegIInv
    <2> SUFFICES ASSUME Init PROVE RegIInv
      OBVIOUS
    <2>1. Cardinality(swapped) <= MaxSwaps
      BY FS_EmptySet, RegistryAssumption DEF Init
    <2>2. QED
      BY <2>1 DEF Init, RegIInv, RegistryTypeOK, ShownIsKnown, AnnouncedOnce
  <1>2. RegIInv /\ [Next]_vars => RegIInv'
    <2> SUFFICES ASSUME RegIInv, [Next]_vars PROVE RegIInv'
      OBVIOUS
    <2>1. ASSUME NEW a \in Addr, NEW messages \in SUBSET Message, NEW target,
                 maybeHandleMessage(a, messages, target),
                 world' = world, asked' \subseteq Addr, swapped' = swapped
          PROVE  RegIInv'
      <3>1. CASE isMessageForUs(target)
        BY <2>1, <3>1, OnAnythingIInv DEF maybeHandleMessage, RegIInv, RegistryTypeOK
      <3>2. CASE ~isMessageForUs(target)
        BY <2>1, <3>2 DEF maybeHandleMessage, RegIInv, RegistryTypeOK, ShownIsKnown,
                          AnnouncedOnce
      <3>3. QED
        BY <3>1, <3>2
    <2>2. ASSUME NEW a \in Addr, NEW target \in Target, DeviceSays(a, target)
          PROVE  RegIInv'
      BY <2>1, <2>2, MessageFact DEF DeviceSays, RegIInv, RegistryTypeOK
    <2>3. CASE Poll
      BY <2>3 DEF Poll, RegIInv, RegistryTypeOK, ShownIsKnown, AnnouncedOnce
    <2>4. ASSUME NEW a \in Addr, AnswersPoll(a) PROVE RegIInv'
      BY <2>1, <2>4, MessageFact DEF AnswersPoll, RegIInv, RegistryTypeOK
    <2>5. ASSUME NEW a \in Addr, PollLost(a) PROVE RegIInv'
      BY <2>5 DEF PollLost, RegIInv, RegistryTypeOK, ShownIsKnown, AnnouncedOnce
    <2>6. ASSUME NEW a \in Addr, NEW type \in Type, Swap(a, type) PROVE RegIInv'
      BY <2>6 DEF Swap, RegIInv, RegistryTypeOK, ShownIsKnown, AnnouncedOnce
    <2>7. CASE UNCHANGED vars
      BY <2>7 DEF vars, RegIInv, RegistryTypeOK, ShownIsKnown, AnnouncedOnce
    <2>8. QED
      BY <2>2, <2>3, <2>4, <2>5, <2>6, <2>7 DEF Next
  <1>3. QED
    BY <1>1, <1>2, PTL DEF Spec

(* The type invariant of the registry.                                     *)
THEOREM RegistryTypeCorrect == Spec => []RegistryTypeOK
  <1>1. RegIInv => RegistryTypeOK
    BY DEF RegIInv
  <1>2. QED
    BY <1>1, RegistryInvariance, PTL

(* Whatever the devices say and however often, a control is announced to   *)
(* MQTT once, and before it gets a value.                                  *)
THEOREM ControlsAnnouncedOnce == Spec => []AnnouncedOnce
  <1>1. RegIInv => AnnouncedOnce
    BY DEF RegIInv
  <1>2. QED
    BY <1>1, RegistryInvariance, PTL

(* MQTT has exactly the controls that the device models take for           *)
(* announced, and shows every channel as its device model has it.          *)
THEOREM MqttAgrees == Spec => []ShownIsKnown
  <1>1. RegIInv => ShownIsKnown
    BY DEF RegIInv
  <1>2. QED
    BY <1>1, RegistryInvariance, PTL
=============================================================================
