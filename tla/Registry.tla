------------------------------ MODULE Registry ------------------------------
(***************************************************************************)
(* From a message on the bus to the controls of MQTT: the filter of        *)
(* SmartbusEndpoint (connection.go), the device map of SmartbusModel and   *)
(* the device models that learn their controls from what the devices say   *)
(* (smartbus_model.go): relay modules with their channels and temperatures *)
(* and the 8-in-1 sensors.  Panels are only registered here (PanelDriver   *)
(* has the rest), and the requests of the relay modules are left out       *)
(* (RelayDriver has them).                                                 *)
(*                                                                         *)
(* There are four ways to remember what was announced already: the number  *)
(* of known channels, numTemps, isNew, and the buttons of a panel.         *)
(***************************************************************************)
EXTENDS Channels, FiniteSets

CONSTANTS
  Addr,         \* addresses of devices
  Field,        \* what an 8-in-1 sensor measures, with a control for each
  MaxChannels,  \* channels that a relay module lists at most
  MaxTemps,     \* temperature sensors that a relay module has at most
  MaxSwaps,     \* how many devices are replaced by others
  None          \* no device model

(* The number of channels is a byte on the wire.                           *)
ASSUME RegistryAssumption ==
  MaxChannels \in 0 .. 255 /\ MaxTemps \in Nat /\ MaxSwaps \in Nat

(* smartbusDeviceModelTypes, and a type that is not in it.                 *)
Relays == {"zonebeast", "hmix12"}
Sensors == {"8in1", "sb_cms_8in1"}
Registered == Relays \cup Sensors \cup {"ddp"}
Type == Registered \cup {"unknown"}

Reading == 0 .. 1
UpTo(n, S) == UNION {[1 .. k -> S] : k \in 0 .. n}

VARIABLES
  world,      \* the type of the device at each address
  deviceMap,  \* deviceMap: the device model of each address, or None
  shown,      \* the controls of each device that MQTT has, with their values
  misused,    \* history: controls announced twice or given a value unannounced
  asked,      \* addresses with a poll on the way
  swapped     \* history: addresses whose device was replaced by another

vars == <<world, deviceMap, shown, misused, asked, swapped>>

Model == [type : Registered, channelStatus : UpTo(MaxChannels, Reading),
          skipBroadcast : BOOLEAN, numTemps : 0 .. MaxTemps, isNew : BOOLEAN]

ASSUME NoneAssumption == None \notin Model

Channel(n) == <<"Channel", n>>
Temp(n) == <<"Temp", n>>
Measured(f) == <<"Field", f>>
Control == {Channel(n) : n \in 1 .. MaxChannels} \cup {Temp(n) : n \in 1 .. MaxTemps}
             \cup {Measured(f) : f \in Field}

RegistryTypeOK ==
  /\ world \in [Addr -> Type]
  /\ \A a \in Addr : deviceMap[a] = None \/ deviceMap[a] \in Model
  /\ \A a \in Addr : DOMAIN shown[a] \subseteq Control
                     /\ \A c \in DOMAIN shown[a] : shown[a][c] \in Reading
  /\ misused \subseteq Addr \X Control
  /\ asked \subseteq Addr
  /\ swapped \subseteq Addr /\ Cardinality(swapped) <= MaxSwaps

Init ==
  /\ world \in [Addr -> Type]
  /\ deviceMap = [a \in Addr |-> None]
  /\ shown = [a \in Addr |-> <<>>]
  /\ misused = {}
  /\ asked = {}
  /\ swapped = {}

-----------------------------------------------------------------------------
(* Messages.  A message has a target, which is <<subnet, device>>; each    *)
(* half is ours, somebody else's or the broadcast address.                 *)

isMessageForUs(target) == target[1] # "other" /\ target[2] # "other"

AllAddr == <<"all", "all">>
OurAddr == <<"us", "us">>
Target == {AllAddr, OurAddr, <<"us", "other">>, <<"other", "us">>}

(* What devices of a type say, besides ReadMACAddressResponse and          *)
(* QueryModules, which no handler here acts on.                            *)
Greeting == {[op |-> "greeting"]}
SensorBroadcast == {[op |-> "sensorBroadcast"]}
SensorStatus == [op : {"sensorStatus"}, values : [Field -> Reading]]
Temperatures ==
  [op : {"temperatures"}, celsius : BOOLEAN, values : UpTo(MaxTemps, Reading)]
Broadcast == [op : {"broadcast"}, status : UpTo(MaxChannels, Reading)]
Statuses == [op : {"statuses"}, status : UpTo(MaxChannels, Reading)]
SetAnswer == [op : {"set"}, ch : 0 .. MaxChannels + 1, on : Reading, ok : BOOLEAN]

Says(type) ==
  CASE type = "zonebeast" -> Greeting \cup Temperatures \cup Broadcast \cup SetAnswer
    [] type = "hmix12" -> Greeting \cup Statuses \cup Broadcast \cup SetAnswer
    [] type \in Sensors -> Greeting \cup SensorBroadcast \cup SensorStatus
    [] OTHER -> Greeting

(* What Poll asks a device model's device for; a panel is asked nothing,   *)
(* and the device, if it is one that understands, answers.                 *)
Asks(type) == IF type \in Sensors THEN "sensorStatus" ELSE type

PollAnswer(type) ==
  CASE type = "zonebeast" -> {m \in Temperatures : m.celsius /\ m.values # <<>>}
    [] type = "hmix12" -> {m \in Statuses : m.status # <<>>}
    [] type \in Sensors -> SensorStatus
    [] OTHER -> {}

-----------------------------------------------------------------------------
(* The handlers.  A handler maps the device model dm and a message to the  *)
(* new model, the controls it announces (OnNewControl) and those it gives  *)
(* a value (OnValue).                                                      *)

Nothing == <<>>   \* the empty function
Effect(dm, new, value) == [dm |-> dm, new |-> new, value |-> value]

(* fn on the controls C(n) of the numbers n in S                           *)
For(S, C(_), fn) == [c \in {C(n) : n \in S} |-> fn[c[2]]]

(* The channels that changed get a value and those that are new are        *)
(* announced.                                                              *)
StatusEffect(dm, status) ==
  LET old == dm.channelStatus
      known == DOMAIN old
  IN  Effect([dm EXCEPT !.channelStatus = status],
             For(DOMAIN status \ known, Channel, status),
             For({n \in known : status[n] # old[n]}, Channel, status))

OnZoneBeastBroadcast(dm, m) ==
  IF dm.skipBroadcast
    THEN Effect([dm EXCEPT !.skipBroadcast = FALSE], Nothing, Nothing)
    ELSE StatusEffect(dm, updateChannelStatus(dm.channelStatus, m.status))

OnQueryChannelStatusesResponse(dm, m) ==
  StatusEffect(dm, updateChannelStatus(dm.channelStatus, m.status))

(* Faulty: the channel is published although it is not known.              *)
PublishUnknownChannel(dm, m) ==
  IF m.ok /\ m.ch \in 1 .. MaxChannels
    THEN Effect([dm EXCEPT !.skipBroadcast = TRUE], Nothing,
                For({m.ch}, Channel, [n \in {m.ch} |-> m.on]))
    ELSE Effect(dm, Nothing, Nothing)

OnSingleChannelControlResponse(dm, m) ==
  IF m.ok
    THEN StatusEffect([dm EXCEPT !.skipBroadcast = TRUE],
                      updateSingleChannel(dm.channelStatus, ChannelIndex(m.ch), m.on))
    ELSE Effect(dm, Nothing, Nothing)

(* updateTemperatureValue, for each of the values in turn.                 *)
OnReadTemperatureValuesResponse(dm, m) ==
  LET n == Len(m.values)
  IN  IF ~m.celsius THEN Effect(dm, Nothing, Nothing)
      ELSE Effect([dm EXCEPT !.numTemps = IF n > @ THEN n ELSE @],
                  For(DOMAIN m.values \ (1 .. dm.numTemps), Temp, m.values),
                  For(DOMAIN m.values \cap (1 .. dm.numTemps), Temp, m.values))

(* Faulty: isNew is not reset.                                             *)
SensorStaysNew(dm, m) == Effect(dm, For(Field, Measured, m.values), Nothing)

(* Its reportValue announces all the controls or gives all a value.        *)
OnReadSensorStatusResponse(dm, m) ==
  LET all == For(Field, Measured, m.values)
  IN  Effect([dm EXCEPT !.isNew = FALSE], IF dm.isNew THEN all ELSE Nothing,
                                          IF dm.isNew THEN Nothing ELSE all)

(* wbgo.Visit calls the handler that the model has for the message, if any; *)
(* the one for SensorStatusBroadcast is commented out.                     *)
Visit(dm, m) ==
  CASE m.op = "broadcast" /\ dm.type \in Relays -> OnZoneBeastBroadcast(dm, m)
    [] m.op = "set" /\ dm.type \in Relays -> OnSingleChannelControlResponse(dm, m)
    [] m.op = "temperatures" /\ dm.type \in Relays ->
         OnReadTemperatureValuesResponse(dm, m)
    [] m.op = "statuses" /\ dm.type = "hmix12" -> OnQueryChannelStatusesResponse(dm, m)
    [] m.op = "sensorStatus" /\ dm.type \in Sensors -> OnReadSensorStatusResponse(dm, m)
    [] OTHER -> Effect(dm, Nothing, Nothing)

-----------------------------------------------------------------------------
NewModel(type) ==
  [type |-> type, channelStatus |-> <<>>, skipBroadcast |-> FALSE,
   numTemps |-> 0, isNew |-> TRUE]

(* ensureDevice: by address; the type counts for the first message only.   *)
ensureDevice(a) ==
  IF deviceMap[a] # None THEN deviceMap[a]
  ELSE IF world[a] \in Registered THEN NewModel(world[a])
  ELSE None

(* MQTT takes the values of some controls, new ones or not.                *)
Publish(controls, values) ==
  [c \in DOMAIN controls \cup DOMAIN values |->
     IF c \in DOMAIN values THEN values[c] ELSE controls[c]]

(* OnAnything: the whole way of a message for us from the device at a.     *)
OnAnything(a, m) ==
  LET dm == ensureDevice(a)
      e == Visit(dm, m)
  IN  IF dm = None THEN UNCHANGED <<deviceMap, shown, misused>>
      ELSE /\ deviceMap' = [deviceMap EXCEPT ![a] = e.dm]
           /\ shown' = [shown EXCEPT ![a] = Publish(Publish(@, e.value), e.new)]
           /\ misused' = misused \cup
                ({a} \X ((DOMAIN e.new \cap DOMAIN shown[a])
                           \cup (DOMAIN e.value \ DOMAIN shown[a])))

(* maybeHandleMessage: what is not for us only goes to the sniffers.       *)
maybeHandleMessage(a, messages, target) ==
  IF isMessageForUs(target) THEN \E m \in messages : OnAnything(a, m)
                            ELSE UNCHANGED <<deviceMap, shown, misused>>

(* A device says something to somebody.                                    *)
DeviceSays(a, target) ==
  /\ maybeHandleMessage(a, Says(world[a]), target)
  /\ UNCHANGED <<world, asked, swapped>>

(* Faulty: only devices with controls are polled.                          *)
PollShownOnly ==
  /\ asked' = {a \in Addr : deviceMap[a] # None /\ DOMAIN shown[a] # {}}
  /\ UNCHANGED <<world, deviceMap, shown, misused, swapped>>

(* SmartbusModel.Poll asks every device that is in the map.                *)
Poll ==
  /\ asked' = {a \in Addr : deviceMap[a] # None}
  /\ UNCHANGED <<world, deviceMap, shown, misused, swapped>>

AnswersPoll(a) ==
  /\ a \in asked
  /\ Asks(deviceMap[a].type) = Asks(world[a])
  /\ maybeHandleMessage(a, PollAnswer(world[a]), OurAddr)
  /\ asked' = asked \ {a}
  /\ UNCHANGED <<world, swapped>>

(* A poll or its answer is lost; nobody repeats it but the next poll.      *)
PollLost(a) ==
  /\ a \in asked
  /\ asked' = asked \ {a}
  /\ UNCHANGED <<world, deviceMap, shown, misused, swapped>>

(* Another device is installed at the address.                             *)
Swap(a, type) ==
  /\ Cardinality(swapped \cup {a}) <= MaxSwaps
  /\ world' = [world EXCEPT ![a] = type]
  /\ swapped' = swapped \cup {a}
  /\ UNCHANGED <<deviceMap, shown, misused, asked>>

Next ==
  \/ \E a \in Addr, target \in Target : DeviceSays(a, target)
  \/ Poll
  \/ \E a \in Addr : AnswersPoll(a) \/ PollLost(a)
  \/ \E a \in Addr, type \in Type : Swap(a, type)

Spec == Init /\ [][Next]_vars

(* The driver polls again and again, each device sends some broadcast at   *)
(* some time, and the bus does not lose every poll.                        *)
Fairness ==
  /\ WF_vars(Poll)
  /\ \A a \in Addr : WF_vars(deviceMap[a] = None /\ DeviceSays(a, AllAddr))
  /\ \A a \in Addr : SF_vars(AnswersPoll(a))

FairSpec == Spec /\ Fairness

-----------------------------------------------------------------------------
(* Whatever devices say, in whatever order and number of channels and      *)
(* values, a control is announced to MQTT once, and before it gets a value. *)
AnnouncedOnce == misused = {}

(* MQTT has exactly the controls that the device models take for announced, *)
(* though each model remembers that in its own way, and it shows each      *)
(* channel as the model has it, though only changes are published.         *)
ShownIsKnown ==
  \A a \in Addr :
    LET dm == deviceMap[a]
    IN  IF dm = None THEN shown[a] = <<>>
        ELSE /\ DOMAIN shown[a] =
                  {Channel(n) : n \in DOMAIN dm.channelStatus}
                    \cup {Temp(n) : n \in 1 .. dm.numTemps}
                    \cup {Measured(f) : f \in IF dm.isNew THEN {} ELSE Field}
             /\ \A n \in DOMAIN dm.channelStatus :
                  shown[a][Channel(n)] = dm.channelStatus[n]

(* A device that can be polled comes to be shown, although polls get lost, *)
(* and although what a sensor broadcasts is not looked at: it is enough    *)
(* that the driver hears of the device once.  (A device that takes over    *)
(* the address of another keeps that one's model and may stay unknown.)    *)
PolledIsShown ==
  \A a \in Addr : <>(\/ world[a] \in Relays \cup Sensors => DOMAIN shown[a] # {}
                     \/ a \in swapped)
=============================================================================
