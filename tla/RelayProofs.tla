---------------------------- MODULE RelayProofs -----------------------------
(***************************************************************************)
(* Proofs about the relay driver, for any number of channels, every queue  *)
(* and any number of values set, retries and repeated answers.             *)
(***************************************************************************)
EXTENDS RelayDriver, LoopProofs

-----------------------------------------------------------------------------
(* The shapes of requests, frames and messages.                            *)

(* A frame for the module: a request, or the poll that passes the queue.   *)
RelayFrame == RelayItem \cup {Poll}

(* The fields of a request, ...                                            *)
LEMMA ItemFact ==
  ASSUME NEW i \in Item
  PROVE  /\ i.op = "set" /\ i.ch \in Channel /\ i.on \in BOOLEAN
         /\ i \in RelayFrame /\ i # None
  <1>1. i.op = "set" /\ i.ch \in Channel /\ i.on \in BOOLEAN
    BY RelayWiring DEF RelayItem, SetItem
  <1>2. QED
    BY <1>1, RelayWiring, ItemAssumption DEF RelayFrame

(* ... of a frame, ...                                                     *)
LEMMA FrameFact ==
  ASSUME NEW f \in RelayFrame
  PROVE  /\ f.op \in {"set", "poll"}
         /\ f.op = "set" => f \in Item
  BY RelayWiring DEF RelayFrame, RelayItem, SetItem, Poll

(* ... and of a message: answers pass the queue, statuses do not.          *)
LEMMA MsgFact ==
  ASSUME NEW m \in Msg \cup Unqueued
  PROVE  /\ m.op \in {"set", "broadcast", "poll"}
         /\ m.op = "set" => m \in Msg /\ m.ch \in Channel /\ m.on \in BOOLEAN
         /\ m.op # "set" => m \in Unqueued /\ m.status \in Relays
  <1>1. \A a \in Msg : a.op = "set" /\ a.ch \in Channel /\ a.on \in BOOLEAN
    BY RelayWiring DEF RelayMsg, SetAnswer
  <1>2. \A u \in Unqueued : u.op \in {"broadcast", "poll"} /\ u.status \in Relays
    BY RelayWiring DEF RelayUnqueued, Status, PollAnswer
  <1>3. QED
    BY <1>1, <1>2

(* The module's messages.                                                  *)
LEMMA MadeFact ==
  /\ \A c \in Channel, on \in BOOLEAN, ok \in BOOLEAN : SetAnswer(c, on, ok) \in Msg
  /\ \A r \in Relays : Status(r) \in Unqueued /\ PollAnswer(r) \in Unqueued
  /\ \A c \in Channel, on \in BOOLEAN : SetItem(c, on) \in Item
  /\ Poll \in RelayFrame
  BY RelayWiring DEF RelayMsg, RelayUnqueued, RelayItem, RelayFrame

(* A list of all relays is a sequence of states.                           *)
LEMMA RelaysFact ==
  ASSUME NEW r \in Relays
  PROVE  /\ r \in Seq(BOOLEAN) /\ Len(r) = NumChannels /\ DOMAIN r = Channel
         /\ r # <<>>
  <1>1. NumChannels \in Nat /\ 1 \in Channel
    BY RelayAssumption DEF Channel
  <1>2. r \in [1 .. NumChannels -> BOOLEAN] /\ DOMAIN r = Channel
    BY DEF Relays, Channel
  <1>3. r \in Seq(BOOLEAN) /\ Len(r) = NumChannels
    BY <1>1, <1>2
  <1>4. QED
    BY <1>1, <1>2, <1>3

(* updateSingleChannel, when all channels are known or none is.            *)
LEMMA SingleChannel ==
  ASSUME NEW c \in Channel, NEW on \in BOOLEAN
  PROVE  /\ updateSingleChannel(<<>>, ChannelIndex(c), on) = <<>>
         /\ \A r \in Relays : updateSingleChannel(r, ChannelIndex(c), on)
                                = [r EXCEPT ![c] = on]
  <1>1. c \in 1 .. 255 /\ c <= NumChannels
    BY RelayAssumption DEF Channel
  <1>2. ChannelIndex(c) = c - 1
    BY <1>1 DEF ChannelIndex
  <1>3. updateSingleChannel(<<>>, c - 1, on) = <<>>
    BY <1>1 DEF updateSingleChannel
  <1>4. ASSUME NEW r \in Relays
        PROVE  updateSingleChannel(r, c - 1, on) = [r EXCEPT ![c] = on]
    <2>1. ~(c - 1 >= Len(r)) /\ (c - 1) + 1 = c
      BY <1>1, RelaysFact, RelayAssumption
    <2>2. QED
      BY <2>1 DEF updateSingleChannel
  <1>5. QED
    BY <1>2, <1>3, <1>4

(* updateChannelStatus, when the message lists all channels.               *)
LEMMA AllChannels ==
  ASSUME NEW status \in Relays \cup {<<>>}, NEW r \in Relays
  PROVE  updateChannelStatus(status, r) = r
  <1>1. /\ r \in Seq(BOOLEAN) /\ status \in Seq(BOOLEAN)
        /\ Len(status) <= Len(r) /\ Len(r) \in Nat /\ Len(status) \in Nat
    <2>1. r \in Seq(BOOLEAN) /\ Len(r) = NumChannels /\ NumChannels \in Nat
      BY RelaysFact, RelayAssumption
    <2>2. CASE status = <<>>
      BY <2>1, <2>2, EmptyFact
    <2>3. CASE status \in Relays
      <3>1. status \in Seq(BOOLEAN) /\ Len(status) = NumChannels
        BY <2>3, RelaysFact
      <3>2. QED
        BY <2>1, <3>1
    <2>4. QED
      BY <2>2, <2>3
  <1>2. SubSeq(status, Len(r) + 1, Len(status)) = <<>>
    BY <1>1
  <1>3. r \o <<>> = r
    BY <1>1
  <1>4. QED
    BY <1>2, <1>3 DEF updateChannelStatus

-----------------------------------------------------------------------------
(* What the commands and the answers on their way say of a channel.        *)

(* The command, or the answer, f sets channel c.                           *)
Sets(f, c) == f.op = "set" /\ f.ch = c

(* Channel c, that was as given, is v after the first n frames of s.       *)
Says(s, n, c, was, v) ==
  \/ was = v /\ \A k \in 1 .. n : ~Sets(s[k], c)
  \/ \E k \in 1 .. n :
       Sets(s[k], c) /\ s[k].on = v /\ \A j \in k + 1 .. n : ~Sets(s[j], c)

(* A frame at the end has the last word.                                   *)
LEMMA SaysAppend ==
  ASSUME NEW S, NEW s \in Seq(S), NEW f \in S, NEW c, NEW was, NEW v,
         Says(s, Len(s), c, was, v)
  PROVE  Says(Append(s, f), Len(Append(s, f)), c, was, IF Sets(f, c) THEN f.on ELSE v)
  <1>1. /\ Len(Append(s, f)) = Len(s) + 1 /\ Len(s) \in Nat
        /\ \A k \in 1 .. Len(s) : Append(s, f)[k] = s[k]
        /\ Append(s, f)[Len(s) + 1] = f
    OBVIOUS
  <1>2. PICK t : t = Append(s, f)
    OBVIOUS
  <1>3. PICK n \in Nat : n = Len(s)
    BY <1>1
  <1>4. /\ \A k \in 1 .. n : t[k] = s[k]
        /\ t[n + 1] = f /\ Says(s, n, c, was, v)
    BY <1>1, <1>2, <1>3
  <1>5. Says(t, n + 1, c, was, IF Sets(f, c) THEN f.on ELSE v)
    <2>1. CASE Sets(f, c)
      BY <1>4, <2>1 DEF Says
    <2>2. CASE ~Sets(f, c)
      <3>1. CASE was = v /\ \A k \in 1 .. n : ~Sets(s[k], c)
        <4>1. \A k \in 1 .. n + 1 : ~Sets(t[k], c)
          BY <1>4, <2>2, <3>1
        <4>2. QED
          BY <2>2, <3>1, <4>1 DEF Says
      <3>2. ASSUME NEW k \in 1 .. n, Sets(s[k], c), s[k].on = v,
                   \A j \in k + 1 .. n : ~Sets(s[j], c)
            PROVE  Says(t, n + 1, c, was, v)
        <4>1. \A j \in k + 1 .. n + 1 : ~Sets(t[j], c)
          <5> SUFFICES ASSUME NEW j \in k + 1 .. n + 1 PROVE ~Sets(t[j], c)
            OBVIOUS
          <5>1. CASE j = n + 1
            BY <1>4, <2>2, <5>1
          <5>2. CASE j # n + 1
            BY <1>4, <3>2, <5>2
          <5>3. QED
            BY <5>1, <5>2
        <4>2. k \in 1 .. n + 1 /\ Sets(t[k], c) /\ t[k].on = v
          BY <1>4, <3>2
        <4>3. QED
          BY <4>1, <4>2 DEF Says
      <3>3. QED
        BY <1>4, <2>2, <3>1, <3>2 DEF Says
    <2>3. QED
      BY <2>1, <2>2
  <1>6. QED
    BY <1>1, <1>2, <1>3, <1>5

(* A frame at the end changes nothing of what those before it say.         *)
LEMMA SaysBefore ==
  ASSUME NEW S, NEW s \in Seq(S), NEW f \in S, NEW n \in 0 .. Len(s),
         NEW c, NEW was, NEW v, Says(s, n, c, was, v)
  PROVE  Says(Append(s, f), n, c, was, v)
  <1>1. \A k \in 1 .. n : Append(s, f)[k] = s[k]
    OBVIOUS
  <1>2. PICK t : t = Append(s, f)
    OBVIOUS
  <1>3. n \in Nat
    OBVIOUS
  <1>4. Says(t, n, c, was, v)
    BY <1>1, <1>2, <1>3 DEF Says
  <1>5. QED
    BY <1>2, <1>4

(* Once the first frame is taken, what it said is how the channel was.     *)
LEMMA SaysTail ==
  ASSUME NEW S, NEW s \in Seq(S), s # <<>>, NEW n \in 1 .. Len(s),
         NEW c, NEW was, NEW v, Says(s, n, c, was, v)
  PROVE  Says(Tail(s), n - 1, c, IF Sets(s[1], c) THEN s[1].on ELSE was, v)
  <1>1. PICK t : t = Tail(s)
    OBVIOUS
  <1>2. n \in Nat /\ n >= 1 /\ \A k \in 1 .. n - 1 : t[k] = s[k + 1]
    BY <1>1
  <1>3. Says(t, n - 1, c, IF Sets(s[1], c) THEN s[1].on ELSE was, v)
    <2>1. CASE was = v /\ \A k \in 1 .. n : ~Sets(s[k], c)
      <3>1. ~Sets(s[1], c) /\ \A k \in 1 .. n - 1 : ~Sets(t[k], c)
        BY <1>2, <2>1
      <3>2. QED
        BY <2>1, <3>1 DEF Says
    <2>2. ASSUME NEW k \in 1 .. n, Sets(s[k], c), s[k].on = v,
                 \A j \in k + 1 .. n : ~Sets(s[j], c)
          PROVE  Says(t, n - 1, c, IF Sets(s[1], c) THEN s[1].on ELSE was, v)
      <3>1. \A j \in k .. n - 1 : ~Sets(t[j], c)
        BY <1>2, <2>2
      <3>2. CASE k = 1
        BY <1>2, <2>2, <3>1, <3>2 DEF Says
      <3>3. CASE k # 1
        <4>1. k - 1 \in 1 .. n - 1 /\ t[k - 1] = s[k] /\ (k - 1) + 1 = k
          BY <1>2, <3>3
        <4>2. QED
          BY <2>2, <3>1, <4>1 DEF Says
      <3>4. QED
        BY <3>2, <3>3
    <2>3. QED
      BY <2>1, <2>2 DEF Says
  <1>4. QED
    BY <1>1, <1>3

(* No frame says nothing.                                                  *)
LEMMA SaysNothing ==
  ASSUME NEW s, NEW c, NEW was, NEW v
  PROVE  Says(s, 0, c, was, v) <=> was = v
  BY DEF Says

-----------------------------------------------------------------------------
(* Types.                                                                  *)

(* The driver knows all channels of the module or none.                    *)
StatusTyped == channelStatus \in Relays \cup {<<>>}

DeviceTyped ==
  /\ StatusTyped
  /\ kind \in Kinds
  /\ skipBroadcast \in BOOLEAN
  /\ relays \in Relays
  /\ outdated \subseteq Relays /\ answered \in BOOLEAN
  /\ wanted \in Relays
  /\ sets \in 0 .. MaxSets /\ toggles \in 0 .. MaxToggles
  /\ disturbed \in BOOLEAN /\ overtaken \in BOOLEAN

RelayIInv == LoopIInv(RelayFrame) /\ DeviceTyped

(* The start of the driver.                                                *)
LEMMA RelayStarts == RelayInit => RelayIInv
  <1> SUFFICES ASSUME RelayInit PROVE RelayIInv
    OBVIOUS
  <1>1. LoopIInv(RelayFrame)
    BY LoopStarts DEF RelayInit
  <1>2. DeviceTyped
    <2>1. sets \in 0 .. MaxSets /\ toggles \in 0 .. MaxToggles
      BY RelayAssumption DEF RelayInit
    <2>2. /\ skipBroadcast \in BOOLEAN /\ answered \in BOOLEAN
          /\ disturbed \in BOOLEAN /\ overtaken \in BOOLEAN
      BY DEF RelayInit
    <2>3. QED
      BY <2>1, <2>2 DEF RelayInit, DeviceTyped, StatusTyped
  <1>3. QED
    BY <1>1, <1>2 DEF RelayIInv

(* Types the steps below use.                                              *)
LEMMA Shapes ==
  ASSUME RelayIInv
  PROVE  /\ worker \in {"loop", "send", "wait"}
         /\ worker = "loop" <=> cur = None
         /\ cur # None => cur \in Item
         /\ items \in Seq(Item) /\ Len(items) <= QueueSize
         /\ toDevice \in Seq(RelayFrame)
         /\ toDriver \in Seq(Msg \cup Unqueued)
         /\ stage # "idle" => job \in Msg \cup Unqueued
  BY WorkerPlaces DEF RelayIInv, LoopIInv, IInv, TypeOK, HandlerTyped,
                      InboundTyped, OutboundTyped

(* A step that changes neither the device model nor the module.            *)
LEMMA DeviceIdle ==
  ASSUME DeviceTyped, UNCHANGED <<device, world>>
  PROVE  DeviceTyped'
  BY DEF DeviceTyped, StatusTyped, device, world, module, history

(* The queue's worker, the transport and the poll.                         *)
LEMMA LoopRelayIInv ==
  ASSUME RelayIInv, RelayThunk \/ RelayWorker \/ RelayReceives \/ BusLoses
  PROVE  RelayIInv'
  <1>1. CASE RelayThunk
    <2>1. RunItem /\ ToDevice(cur) /\ UNCHANGED <<stage, job, toDriver, device, world>>
      BY <1>1 DEF RelayThunk, RunThunk, WorkerRest
    <2>2. PICK f \in RelayFrame : f = cur
      BY <2>1, Shapes, ItemFact DEF RunItem
    <2>3. LoopIInv(RelayFrame)'
      BY <2>1, <2>2, ThunkLoop DEF RelayIInv
    <2>4. QED
      BY <2>1, <2>3, DeviceIdle DEF RelayIInv
  <1>2. CASE RelayWorker
    BY <1>2, WorkerLoop, DeviceIdle DEF RelayWorker, WorkerRest, RelayIInv
  <1>3. CASE RelayReceives
    BY <1>3, OnAnythingLoop, NotifyLoop, DeviceIdle DEF RelayReceives, WorkerRest, RelayIInv
  <1>4. CASE BusLoses
    <2>1. LoopIInv(RelayFrame)'
      BY <1>4, LossLoop DEF BusLoses, RelayIInv
    <2>2. DeviceTyped'
      BY <1>4 DEF BusLoses, RelayIInv, DeviceTyped, StatusTyped, device, module
    <2>3. QED
      BY <2>1, <2>2 DEF RelayIInv
  <1>5. QED
    BY <1>1, <1>2, <1>3, <1>4

(* Hmix12DeviceModel.Poll sends past the queue.                            *)
LEMMA PollRelayIInv == RelayIInv /\ PollDevice => RelayIInv'
  <1> SUFFICES ASSUME RelayIInv, PollDevice PROVE RelayIInv'
    OBVIOUS
  <1>1. IInv' /\ Running'
    BY QueueIdle DEF RelayIInv, LoopIInv, PollDevice
  <1>2. OutboundTyped(RelayFrame)'
    BY AppendFact, MadeFact, LoopAssumption
       DEF RelayIInv, LoopIInv, OutboundTyped, PollDevice, ToDevice
  <1>3. HandlerTyped' /\ InboundTyped' /\ DeviceTyped'
    BY DeviceIdle DEF RelayIInv, LoopIInv, HandlerTyped, InboundTyped, PollDevice
  <1>4. QED
    BY <1>1, <1>2, <1>3 DEF RelayIInv, LoopIInv

(* What the handlers do to the driver's view.                              *)
LEMMA HandlerViews ==
  ASSUME RelayIInv, \/ OnSingleChannelControlResponse \/ OnZoneBeastBroadcast
                    \/ OnQueryChannelStatusesResponse
  PROVE  /\ job \in Msg \cup Unqueued /\ stage = "apply" /\ stage' = "idle"
         /\ UNCHANGED <<vars, bus, world>> /\ HandlerReturns
         /\ \/ /\ job.op = "set" /\ job.ok /\ skipBroadcast' = TRUE
               /\ channelStatus' = IF channelStatus = <<>> THEN <<>>
                                   ELSE [channelStatus EXCEPT ![job.ch] = job.on]
            \/ job.op = "set" /\ ~job.ok /\ UNCHANGED <<channelStatus, skipBroadcast>>
            \/ /\ job.op = "broadcast" /\ skipBroadcast' = FALSE
               /\ channelStatus' = IF skipBroadcast THEN channelStatus ELSE job.status
            \/ /\ job.op = "poll" /\ UNCHANGED skipBroadcast
               /\ channelStatus' = job.status
  <1>1. /\ stage = "apply" /\ stage' = "idle" /\ UNCHANGED <<vars, bus, world>>
        /\ HandlerReturns
    BY DEF OnSingleChannelControlResponse, OnZoneBeastBroadcast,
           OnQueryChannelStatusesResponse, Handler, HandlerReturns
  <1>2. job \in Msg \cup Unqueued /\ channelStatus \in Relays \cup {<<>>}
    BY <1>1, Shapes DEF RelayIInv, DeviceTyped, StatusTyped
  <1>3. CASE OnSingleChannelControlResponse
    <2>1. /\ job.op = "set"
          /\ \/ job.ok /\ channelStatus' = updateSingleChannel(channelStatus,
                                                     ChannelIndex(job.ch), job.on)
                       /\ skipBroadcast' = TRUE
             \/ ~job.ok /\ UNCHANGED <<channelStatus, skipBroadcast>>
      BY <1>3 DEF OnSingleChannelControlResponse, device
    <2>2. job.ch \in Channel /\ job.on \in BOOLEAN
      BY <1>2, <2>1, MsgFact
    <2>3. updateSingleChannel(channelStatus, ChannelIndex(job.ch), job.on)
            = IF channelStatus = <<>> THEN <<>>
                                      ELSE [channelStatus EXCEPT ![job.ch] = job.on]
      BY <1>2, <2>2, SingleChannel
    <2>4. QED
      BY <1>1, <1>2, <2>1, <2>3
  <1>4. CASE OnZoneBeastBroadcast \/ OnQueryChannelStatusesResponse
    <2>1. job.op \in {"broadcast", "poll"}
      BY <1>4 DEF OnZoneBeastBroadcast, OnQueryChannelStatusesResponse
    <2>2. updateChannelStatus(channelStatus, job.status) = job.status
      BY <1>2, <2>1, MsgFact, AllChannels
    <2>3. QED
      BY <1>1, <1>2, <1>4, <2>2 DEF OnZoneBeastBroadcast, OnQueryChannelStatusesResponse
  <1>5. QED
    BY <1>3, <1>4

(* The handlers of ZoneBeastDeviceModel and Hmix12DeviceModel.             *)
LEMMA HandlersRelayIInv ==
  ASSUME RelayIInv, \/ OnSingleChannelControlResponse \/ OnZoneBeastBroadcast
                    \/ OnQueryChannelStatusesResponse
  PROVE  RelayIInv'
  <1>1. IInv' /\ Running'
    BY HandlerViews, QueueIdle DEF RelayIInv, LoopIInv
  <1>2. LoopIInv(RelayFrame)'
    BY <1>1, HandlerViews, ReturnLoop DEF RelayIInv
  <1>3. channelStatus' \in Relays \cup {<<>>} /\ skipBroadcast' \in BOOLEAN
    <2>1. channelStatus \in Relays \cup {<<>>} /\ skipBroadcast \in BOOLEAN
      BY DEF RelayIInv, DeviceTyped, StatusTyped
    <2>2. CASE job.op = "set"
      <3>1. job.ch \in Channel /\ job.on \in BOOLEAN
        BY <2>2, HandlerViews, MsgFact
      <3>2. \A r \in Relays : [r EXCEPT ![job.ch] = job.on] \in Relays
        BY <3>1 DEF Relays
      <3>3. QED
        BY <2>1, <2>2, <3>2, HandlerViews
    <2>3. CASE job.op # "set"
      <3>1. job.status \in Relays
        BY <2>3, HandlerViews, MsgFact
      <3>2. QED
        BY <2>1, <2>3, <3>1, HandlerViews
    <2>4. QED
      BY <2>2, <2>3
  <1>4. DeviceTyped'
    BY <1>3, HandlerViews DEF RelayIInv, DeviceTyped, StatusTyped, world, module, history
  <1>5. QED
    BY <1>2, <1>4 DEF RelayIInv

(* The user sets a channel that was announced.                             *)
LEMMA AcceptRelayIInv ==
  ASSUME RelayIInv, NEW c \in Channel, NEW on \in BOOLEAN, AcceptOnValue(c, on)
  PROVE  RelayIInv'
  <1> USE DEF AcceptOnValue
  <1>1. IInv' /\ Running'
    BY RequestStep, MadeFact DEF RelayIInv, LoopIInv
  <1>2. LoopIInv(RelayFrame)'
    BY <1>1, CallLoop DEF RelayIInv
  <1>3. DeviceTyped'
    BY RelayAssumption DEF RelayIInv, DeviceTyped, StatusTyped, Relays, device,
       module, history
  <1>4. QED
    BY <1>2, <1>3 DEF RelayIInv

(* The module obeys, answers, broadcasts or is switched by hand.           *)
LEMMA ModuleRelayIInv == RelayIInv /\ Module => RelayIInv'
  <1> SUFFICES ASSUME RelayIInv, Module PROVE RelayIInv'
    OBVIOUS
  <1>1. ModuleRest
    BY DEF Module, ModuleSets, ModuleAnswersPoll, ModuleBroadcastsLate,
           ModuleBroadcasts, SwitchedByHand
  <1>2. IInv' /\ Running' /\ HandlerTyped'
    BY <1>1, QueueIdle DEF RelayIInv, LoopIInv, HandlerTyped, ModuleRest
  <1>3. /\ relays \in Relays /\ outdated \subseteq Relays /\ answered \in BOOLEAN
        /\ toggles \in 0 .. MaxToggles /\ disturbed \in BOOLEAN /\ overtaken \in BOOLEAN
    BY DEF RelayIInv, DeviceTyped
  <1>4. /\ InboundTyped' /\ OutboundTyped(RelayFrame)'
        /\ relays' \in Relays /\ outdated' \subseteq Relays /\ answered' \in BOOLEAN
        /\ toggles' \in 0 .. MaxToggles /\ disturbed' \in BOOLEAN /\ overtaken' \in BOOLEAN
    <2>1. CASE ModuleSets
      <3>1. PICK f \in RelayFrame : f = Head(toDevice)
        BY <2>1, OutboundShrinks DEF ModuleSets, RelayIInv
      <3>2. f.ch \in Channel /\ f.on \in BOOLEAN
        BY <2>1, <3>1, FrameFact, ItemFact DEF ModuleSets
      <3>3. \E ok \in BOOLEAN : ToDriver(SetAnswer(f.ch, f.on, ok))
        BY <2>1, <3>1 DEF ModuleSets
      <3>4. InboundTyped'
        BY <3>2, <3>3, MadeFact, InboundGrows DEF RelayIInv
      <3>5. OutboundTyped(RelayFrame)'
        BY <2>1, OutboundShrinks DEF ModuleSets, RelayIInv
      <3>6. relays' \in Relays /\ outdated' \subseteq Relays
        <4>1. [relays EXCEPT ![f.ch] = f.on] \in Relays
          BY <1>3, <3>2 DEF Relays
        <4>2. QED
          BY <1>3, <2>1, <3>1, <4>1 DEF ModuleSets, module
      <3>7. answered' \in BOOLEAN /\ disturbed' \in BOOLEAN
        BY <1>3, <2>1 DEF ModuleSets, module
      <3>8. QED
        BY <1>3, <2>1, <3>4, <3>5, <3>6, <3>7 DEF ModuleSets
    <2>2. CASE ModuleAnswersPoll
      <3>1. InboundTyped'
        BY <1>3, <2>2, MadeFact, InboundGrows DEF ModuleAnswersPoll, RelayIInv
      <3>2. OutboundTyped(RelayFrame)'
        BY <2>2, OutboundShrinks DEF ModuleAnswersPoll, RelayIInv
      <3>3. QED
        BY <1>3, <2>2, <3>1, <3>2 DEF ModuleAnswersPoll, module, history
    <2>3. CASE ModuleBroadcastsLate \/ ModuleBroadcasts
      <3>1. \E r \in Relays : ToDriver(Status(r))
        BY <1>3, <2>3 DEF ModuleBroadcastsLate, ModuleBroadcasts
      <3>2. InboundTyped'
        BY <3>1, MadeFact, InboundGrows DEF RelayIInv
      <3>3. OutboundTyped(RelayFrame)' /\ UNCHANGED <<relays, toggles, disturbed>>
        BY <2>3 DEF ModuleBroadcastsLate, ModuleBroadcasts, RelayIInv, LoopIInv,
             OutboundTyped, history
      <3>4. outdated' \subseteq Relays /\ answered' = FALSE
        BY <1>3, <2>3 DEF ModuleBroadcastsLate, ModuleBroadcasts
      <3>5. overtaken' \in BOOLEAN
        BY <1>3, <2>3 DEF ModuleBroadcastsLate, ModuleBroadcasts, history
      <3>6. QED
        BY <1>3, <3>2, <3>3, <3>4, <3>5
    <2>4. CASE \E c \in Channel : SwitchedByHand(c)
      <3>1. PICK c \in Channel : SwitchedByHand(c)
        BY <2>4
      <3>2. QED
        BY <1>3, <3>1, RelayAssumption DEF SwitchedByHand, RelayIInv, LoopIInv,
             InboundTyped, OutboundTyped, bus, Relays
    <2>5. QED
      BY <2>1, <2>2, <2>3, <2>4 DEF Module
  <1>5. DeviceTyped'
    BY <1>1, <1>4 DEF RelayIInv, DeviceTyped, StatusTyped, ModuleRest, device
  <1>6. QED
    BY <1>2, <1>4, <1>5 DEF RelayIInv, LoopIInv

(* Every step preserves the invariant.                                     *)
LEMMA StepRelayIInv == RelayIInv /\ [RelayNext]_rvars => RelayIInv'
  <1> SUFFICES ASSUME RelayIInv, [RelayNext]_rvars PROVE RelayIInv'
    OBVIOUS
  <1>1. CASE UNCHANGED rvars
    <2>1. IInv' /\ Running'
      BY <1>1, QueueIdle DEF RelayIInv, LoopIInv, rvars
    <2>2. LoopIInv(RelayFrame)'
      BY <1>1, <2>1, CallLoop DEF RelayIInv, rvars
    <2>3. QED
      BY <1>1, <2>2, DeviceIdle DEF rvars, RelayIInv
  <1>2. CASE RelayNext
    BY <1>2, LoopRelayIInv, PollRelayIInv, HandlersRelayIInv, AcceptRelayIInv,
       ModuleRelayIInv DEF RelayNext, Driver, User
  <1>3. QED
    BY <1>1, <1>2

(* Types are an invariant of the relay driver.                             *)
THEOREM RelayInvariance == RelaySpec => []RelayIInv
  BY RelayStarts, StepRelayIInv, PTL DEF RelaySpec

(* The type invariant: no sequence of answers, polls and broadcasts makes  *)
(* updateSingleChannel or updateChannelStatus leave the array of channels  *)
(* with a wrong length, and the driver knows all channels or none.         *)
THEOREM RelayTypeCorrect == RelaySpec => []RelayTypeOK
  <1>1. RelayIInv => RelayTypeOK
    <2> SUFFICES ASSUME RelayIInv PROVE RelayTypeOK
      OBVIOUS
    <2>1. channelStatus \in Seq(BOOLEAN) /\ Len(channelStatus) \in {0, NumChannels}
      <3>1. channelStatus \in Relays \/ channelStatus = <<>>
        BY DEF RelayIInv, DeviceTyped, StatusTyped
      <3>2. NumChannels \in Nat
        BY RelayAssumption
      <3>3. CASE channelStatus \in Relays
        BY <3>2, <3>3, RelaysFact
      <3>4. CASE channelStatus = <<>>
        BY <3>2, <3>4, EmptyFact
      <3>5. QED
        BY <3>1, <3>3, <3>4
    <2>2. LoopTypeOK
      BY LoopTypes DEF RelayIInv
    <2>3. QED
      BY <2>1, <2>2 DEF RelayIInv, DeviceTyped, RelayTypeOK
  <1>2. QED
    BY <1>1, RelayInvariance, PTL

(* The relay driver uses its queue as the request channel allows, though   *)
(* polls and broadcasts pass it by: one command at a time, in order, at    *)
(* most NumRetries + 1 times, until its response or its exhaustion.        *)
THEOREM RelayKeepsChannel == RelaySpec => [][RC!Next]_RC!chan
  <1>1. RelayIInv /\ [RelayNext]_rvars => [Next]_vars
    <2> SUFFICES ASSUME RelayIInv, [RelayNext]_rvars PROVE [Next]_vars
      OBVIOUS
    <2> IInv /\ Running /\ HandlerTyped
      BY DEF RelayIInv, LoopIInv
    <2>1. CASE RelayThunk \/ RelayWorker
      BY <2>1, WorkerStep DEF RelayThunk, RunThunk, RelayWorker
    <2>2. CASE RelayReceives
      BY <2>2, NotifyStep DEF RelayReceives, OnAnything
    <2>3. CASE User
      BY <2>3, RequestStep, MadeFact DEF User, AcceptOnValue
    <2>4. CASE \/ OnSingleChannelControlResponse \/ OnZoneBeastBroadcast
               \/ OnQueryChannelStatusesResponse
      BY <2>4, HandlerViews
    <2>5. CASE PollDevice \/ Module \/ BusLoses \/ UNCHANGED rvars
      BY <2>5 DEF PollDevice, Module, ModuleSets, ModuleAnswersPoll, ModuleRest,
         ModuleBroadcastsLate, ModuleBroadcasts, SwitchedByHand, BusLoses,
         LoseCommand, LoseAnswer, rvars
    <2>6. QED
      BY <2>1, <2>2, <2>3, <2>4, <2>5 DEF RelayNext, Driver
  <1>2. RelayIInv => IInv
    BY DEF RelayIInv, LoopIInv
  <1>3. QED
    BY <1>1, <1>2, StepRefines, RelayInvariance, PTL DEF RelaySpec

-----------------------------------------------------------------------------
(* The commands.                                                           *)

(* g is what the commands on the bus make of the relays; the request that  *)
(* waits for its answer is among them or was obeyed.                       *)
OnBus(g) ==
  /\ \A c \in Channel : Says(toDevice, Len(toDevice), c, relays[c], g[c])
  /\ worker = "wait" => g[cur.ch] = cur.on

(* ... and what the request about to be sent makes of that.                *)
Sent(g) == IF worker = "send" THEN [g EXCEPT ![cur.ch] = cur.on] ELSE g

(* Once all requests are sent and obeyed each relay is as wanted.          *)
OnTheWay ==
  \E g \in Relays :
    /\ OnBus(g)
    /\ \A c \in Channel : Says(items, Len(items), c, Sent(g)[c], wanted[c])

SetsIInv == ~disturbed => OnTheWay

(* A step that touches neither commands, requests nor relays.              *)
LEMMA SetsKept ==
  ASSUME SetsIInv, UNCHANGED <<items, worker, cur, toDevice, relays, wanted, disturbed>>
  PROVE  SetsIInv'
  BY DEF SetsIInv, OnTheWay, OnBus, Sent

(* The thunk puts its command behind those on the bus.                     *)
LEMMA ThunkSets ==
  ASSUME RelayIInv, SetsIInv, RelayThunk
  PROVE  SetsIInv'
  <1>1. /\ worker = "send" /\ worker' = "wait" /\ toDevice' = Append(toDevice, cur)
        /\ UNCHANGED <<items, cur, relays, wanted, disturbed>>
    BY DEF RelayThunk, RunThunk, RunItem, ToDevice, WorkerRest, world, module, history
  <1>2. cur \in Item /\ cur.op = "set" /\ cur.ch \in Channel /\ cur.on \in BOOLEAN
    BY <1>1, Shapes, ItemFact
  <1>3. ASSUME OnTheWay PROVE OnTheWay'
    <2>1. PICK g \in Relays :
            /\ OnBus(g)
            /\ \A c \in Channel : Says(items, Len(items), c, Sent(g)[c], wanted[c])
      BY <1>3 DEF OnTheWay
    <2>2. PICK h \in Relays : h = [g EXCEPT ![cur.ch] = cur.on]
      BY <1>2 DEF Relays
    <2>3. /\ h[cur.ch] = cur.on
          /\ \A c \in Channel : h[c] = IF Sets(cur, c) THEN cur.on ELSE g[c]
      BY <1>2, <2>2 DEF Relays, Sets
    <2>4. \A c \in Channel : Says(toDevice', Len(toDevice'), c, relays[c], h[c])
      <3> SUFFICES ASSUME NEW c \in Channel
                   PROVE  Says(toDevice', Len(toDevice'), c, relays[c], h[c])
        OBVIOUS
      <3>1. Says(toDevice, Len(toDevice), c, relays[c], g[c])
        BY <2>1 DEF OnBus
      <3>2. cur \in RelayFrame /\ toDevice \in Seq(RelayFrame)
        BY <1>2, Shapes, ItemFact
      <3>3. QED
        BY <1>1, <2>3, <3>1, <3>2, SaysAppend
    <2>5. OnBus(h)'
      BY <1>1, <2>3, <2>4 DEF OnBus
    <2>6. Sent(g) = h /\ Sent(h)' = h
      BY <1>1, <2>2 DEF Sent
    <2>7. \A c \in Channel : Says(items, Len(items), c, Sent(h)[c], wanted[c])'
      BY <1>1, <2>1, <2>6
    <2>8. QED
      BY <2>5, <2>7 DEF OnTheWay
  <1>4. QED
    BY <1>1, <1>3 DEF SetsIInv

(* The first request becomes the one about to be sent.                     *)
LEMMA TakesSets ==
  ASSUME RelayIInv, SetsIInv, RelayWorker, WorkerTakes
  PROVE  SetsIInv'
  <1>1. /\ worker = "loop" /\ worker' = "send" /\ items # <<>>
        /\ cur' = Head(items) /\ items' = Tail(items)
        /\ UNCHANGED <<toDevice, relays, wanted, disturbed>>
    BY DEF WorkerTakes, RunTakeItem, RelayWorker, WorkerRest, world, module, history, loop, bus
  <1>2. /\ items \in Seq(Item) /\ cur' = items[1] /\ items[1] \in Item
        /\ Len(items) \in 1 .. Len(items) /\ Len(items') = Len(items) - 1
    BY <1>1, Shapes
  <1>3. cur'.op = "set" /\ cur'.ch \in Channel /\ cur'.on \in BOOLEAN
    BY <1>2, ItemFact
  <1>4. ASSUME OnTheWay PROVE OnTheWay'
    <2>1. PICK g \in Relays :
            /\ OnBus(g)
            /\ \A c \in Channel : Says(items, Len(items), c, Sent(g)[c], wanted[c])
      BY <1>4 DEF OnTheWay
    <2>2. OnBus(g)'
      BY <1>1, <2>1 DEF OnBus
    <2>3. Sent(g) = g /\ \A c \in Channel :
            Sent(g)'[c] = IF Sets(items[1], c) THEN items[1].on ELSE g[c]
      BY <1>1, <1>2, <1>3 DEF Sent, Sets, Relays
    <2>4. \A c \in Channel : Says(items', Len(items'), c, Sent(g)'[c], wanted'[c])
      <3> SUFFICES ASSUME NEW c \in Channel
                   PROVE  Says(items', Len(items'), c, Sent(g)'[c], wanted'[c])
        OBVIOUS
      <3>1. Says(items, Len(items), c, g[c], wanted[c])
        BY <2>1, <2>3
      <3>2. Says(Tail(items), Len(items) - 1, c,
                 IF Sets(items[1], c) THEN items[1].on ELSE g[c], wanted[c])
        BY <1>1, <1>2, <3>1, SaysTail
      <3>3. QED
        BY <1>1, <1>2, <2>3, <3>2
    <2>5. QED
      BY <2>2, <2>4 DEF OnTheWay
  <1>5. QED
    BY <1>1, <1>4 DEF SetsIInv

(* A retry repeats a command that nothing has overridden on the bus; a     *)
(* request that is answered, or given up, has been sent before.            *)
LEMMA EndsSets ==
  ASSUME RelayIInv, SetsIInv, RelayWorker, worker = "wait"
  PROVE  SetsIInv'
  <1>1. UNCHANGED <<items, toDevice, relays, wanted, disturbed>>
    BY DEF RelayWorker, WorkerTakes, RunTakeItem, WorkerRetries, ProcessRetry,
           WorkerGivesUp, ProcessGiveUp, WorkerReads, RunIgnoreMessage,
           ProcessResponse, ProcessOther, WorkerRest, world, module, history, loop, bus
  <1>2. worker' = "loop" \/ (worker' \in {"send", "wait"} /\ cur' = cur)
    BY DEF RelayWorker, WorkerTakes, RunTakeItem, WorkerRetries, ProcessRetry,
           WorkerGivesUp, ProcessGiveUp, WorkerReads, RunIgnoreMessage,
           ProcessResponse, ProcessOther
  <1>3. cur.ch \in Channel
    BY Shapes, ItemFact
  <1>4. ASSUME OnTheWay PROVE OnTheWay'
    <2>1. PICK g \in Relays :
            /\ OnBus(g)
            /\ \A c \in Channel : Says(items, Len(items), c, Sent(g)[c], wanted[c])
      BY <1>4 DEF OnTheWay
    <2>2. OnBus(g)'
      BY <1>1, <1>2, <2>1 DEF OnBus
    <2>3. g[cur.ch] = cur.on /\ Sent(g) = g
      BY <2>1 DEF OnBus, Sent
    <2>4. [g EXCEPT ![cur.ch] = cur.on] = g
      BY <1>3, <2>3 DEF Relays
    <2>5. Sent(g)' = g
      BY <1>2, <2>4 DEF Sent
    <2>6. QED
      BY <1>1, <2>1, <2>2, <2>3, <2>5 DEF OnTheWay
  <1>5. QED
    BY <1>1, <1>4 DEF SetsIInv

(* The queue's worker: what it gives up or retries is on the bus already.  *)
LEMMA WorkerSets ==
  ASSUME RelayIInv, SetsIInv, RelayWorker
  PROVE  SetsIInv'
  <1>1. CASE worker = "wait"
    BY <1>1, EndsSets
  <1>2. CASE WorkerTakes
    BY <1>2, TakesSets
  <1>3. CASE worker # "wait" /\ ~WorkerTakes
    <2>1. WorkerReads /\ RunIgnoreMessage
      BY <1>3 DEF RelayWorker, WorkerRetries, ProcessRetry, WorkerGivesUp,
           ProcessGiveUp, WorkerReads, ProcessResponse, ProcessOther
    <2>2. UNCHANGED <<items, worker, cur, toDevice, relays, wanted, disturbed>>
      BY <2>1 DEF WorkerReads, RunIgnoreMessage, RelayWorker, WorkerRest, world, module, history, loop, bus
    <2>3. QED
      BY <2>2, SetsKept
  <1>4. QED
    BY <1>1, <1>2, <1>3

(* A poll sets nothing.                                                    *)
LEMMA PollSets ==
  ASSUME RelayIInv, SetsIInv, PollDevice
  PROVE  SetsIInv'
  <1>1. /\ toDevice' = Append(toDevice, Poll)
        /\ UNCHANGED <<items, worker, cur, relays, wanted, disturbed>>
    BY DEF PollDevice, ToDevice, vars, world, module, history
  <1>2. \A c : ~Sets(Poll, c)
    BY DEF Sets, Poll
  <1>3. ASSUME NEW c, NEW v, Says(toDevice, Len(toDevice), c, relays[c], v)
        PROVE  Says(toDevice', Len(toDevice'), c, relays[c], v)
    BY <1>1, <1>2, <1>3, SaysAppend, Shapes, MadeFact
  <1>4. ASSUME NEW g \in Relays, OnBus(g) PROVE OnBus(g)'
    BY <1>1, <1>3, <1>4 DEF OnBus
  <1>5. QED
    BY <1>1, <1>4 DEF SetsIInv, OnTheWay, Sent

(* A value that the queue accepts is the last request for its channel.     *)
LEMMA AcceptSets ==
  ASSUME RelayIInv, SetsIInv, NEW c \in Channel, NEW on \in BOOLEAN,
         AcceptOnValue(c, on)
  PROVE  SetsIInv'
  <1>1. UNCHANGED <<worker, cur, toDevice, relays, disturbed>>
    BY DEF AcceptOnValue, EnqueueRequest, loop, bus, module, history
  <1>2. CASE ~(Len(items) < QueueSize)
    <2>1. UNCHANGED <<items, wanted>>
      BY <1>2 DEF AcceptOnValue, EnqueueRequest
    <2>2. QED
      BY <1>1, <2>1, SetsKept
  <1>3. CASE Len(items) < QueueSize
    <2>1. PICK i \in Item : i = SetItem(c, on)
      BY MadeFact
    <2>2. /\ items' = Append(items, i) /\ wanted' = [wanted EXCEPT ![c] = on]
          /\ i.op = "set" /\ i.ch = c /\ i.on = on
      BY <1>3, <2>1 DEF AcceptOnValue, EnqueueRequest, SetItem
    <2>3. \A d \in Channel : wanted'[d] = IF Sets(i, d) THEN i.on ELSE wanted[d]
      BY <2>2 DEF Sets, RelayIInv, DeviceTyped, Relays
    <2>4. ASSUME NEW d \in Channel, NEW w, Says(items, Len(items), d, w, wanted[d])
          PROVE  Says(items', Len(items'), d, w, wanted'[d])
      BY <2>2, <2>3, <2>4, SaysAppend, Shapes
    <2>5. ASSUME OnTheWay PROVE OnTheWay'
      <3>1. PICK g \in Relays :
              /\ OnBus(g)
              /\ \A d \in Channel : Says(items, Len(items), d, Sent(g)[d], wanted[d])
        BY <2>5 DEF OnTheWay
      <3>2. OnBus(g)' /\ Sent(g)' = Sent(g)
        BY <1>1, <3>1 DEF OnBus, Sent
      <3>3. \A d \in Channel : Says(items', Len(items'), d, Sent(g)[d], wanted'[d])
        BY <2>4, <3>1
      <3>4. QED
        BY <3>2, <3>3 DEF OnTheWay
    <2>6. QED
      BY <1>1, <2>5 DEF SetsIInv
  <1>4. QED
    BY <1>2, <1>3

(* The module obeys the commands in their order.                           *)
LEMMA ModuleSetsSets ==
  ASSUME RelayIInv, SetsIInv, Module
  PROVE  SetsIInv'
  <1> SUFFICES ASSUME ~disturbed' PROVE SetsIInv'
    BY DEF SetsIInv
  <1>1. UNCHANGED <<items, worker, cur, wanted>>
    BY DEF Module, ModuleSets, ModuleAnswersPoll, ModuleBroadcastsLate,
           ModuleBroadcasts, SwitchedByHand, ModuleRest, vars
  <1>2. CASE ModuleBroadcastsLate \/ ModuleBroadcasts
    BY <1>1, <1>2, SetsKept DEF ModuleBroadcastsLate, ModuleBroadcasts, history
  <1>3. CASE \E c \in Channel : SwitchedByHand(c)
    BY <1>3 DEF SwitchedByHand
  <1>4. CASE ModuleSets \/ ModuleAnswersPoll
    <2>1. toDevice # <<>> /\ toDevice' = Tail(toDevice) /\ UNCHANGED disturbed
      BY <1>4 DEF ModuleSets, ModuleAnswersPoll, history
    <2>2. /\ toDevice \in Seq(RelayFrame) /\ Head(toDevice) = toDevice[1]
          /\ toDevice[1] \in RelayFrame
          /\ Len(toDevice) \in 1 .. Len(toDevice) /\ Len(toDevice') = Len(toDevice) - 1
      BY <2>1, Shapes
    <2>3. \A c \in Channel :
            relays'[c] = IF Sets(toDevice[1], c) THEN toDevice[1].on ELSE relays[c]
      <3>1. CASE ModuleSets
        <4>1. /\ toDevice[1].op = "set" /\ toDevice[1].ch \in Channel
              /\ relays' = [relays EXCEPT ![toDevice[1].ch] = toDevice[1].on]
          BY <2>2, <3>1, FrameFact, ItemFact DEF ModuleSets
        <4>2. QED
          BY <4>1 DEF Sets, RelayIInv, DeviceTyped, Relays
      <3>2. CASE ModuleAnswersPoll
        BY <2>2, <3>2 DEF ModuleAnswersPoll, Sets, module
      <3>3. QED
        BY <1>4, <3>1, <3>2
    <2>4. ASSUME NEW c \in Channel, NEW v, Says(toDevice, Len(toDevice), c, relays[c], v)
          PROVE  Says(toDevice', Len(toDevice'), c, relays'[c], v)
      <3>1. Says(Tail(toDevice), Len(toDevice) - 1, c,
                 IF Sets(toDevice[1], c) THEN toDevice[1].on ELSE relays[c], v)
        BY <2>1, <2>2, <2>4, SaysTail
      <3>2. QED
        BY <2>1, <2>2, <2>3, <3>1
    <2>5. ASSUME NEW g \in Relays, OnBus(g) PROVE OnBus(g)'
      BY <1>1, <2>4, <2>5 DEF OnBus
    <2>6. QED
      BY <1>1, <2>1, <2>5 DEF SetsIInv, OnTheWay, Sent
  <1>5. QED
    BY <1>2, <1>3, <1>4 DEF Module

(* The start: every relay is as wanted, and nothing is on its way.         *)
LEMMA SetsStart == RelayInit => SetsIInv
  <1> SUFFICES ASSUME RelayInit PROVE OnTheWay
    BY DEF SetsIInv
  <1>1. /\ relays \in Relays /\ wanted = relays /\ items = <<>> /\ toDevice = <<>>
        /\ worker = "loop"
    BY DEF RelayInit, LoopInit
  <1>2. Len(items) = 0 /\ Len(toDevice) = 0
    BY <1>1
  <1>3. OnBus(relays) /\ Sent(relays) = relays
    BY <1>1, <1>2, SaysNothing DEF OnBus, Sent
  <1>4. \A c \in Channel : Says(items, Len(items), c, Sent(relays)[c], wanted[c])
    BY <1>1, <1>2, <1>3, SaysNothing
  <1>5. QED
    BY <1>1, <1>3, <1>4 DEF OnTheWay

(* Every step preserves the invariant or is recorded as a disturbance.     *)
LEMMA StepSets ==
  ASSUME RelayIInv, SetsIInv, [RelayNext]_rvars
  PROVE  SetsIInv'
  <1>1. CASE UNCHANGED rvars
    BY <1>1, SetsKept DEF rvars, vars, loop, bus, device, world, module, history
  <1>2. CASE RelayReceives
    <2>1. UNCHANGED <<items, worker, cur, toDevice, relays, wanted, disturbed>>
      BY <1>2 DEF RelayReceives, OnAnything, Notify, HandleReceivedMessage, WorkerRest,
           vars, bus, world, module, history
    <2>2. QED
      BY <2>1, SetsKept
  <1>3. CASE \/ OnSingleChannelControlResponse \/ OnZoneBeastBroadcast
             \/ OnQueryChannelStatusesResponse
    BY <1>3, SetsKept, HandlerViews DEF vars, bus, world, module, history
  <1>4. CASE BusLoses
    BY <1>4 DEF BusLoses, SetsIInv
  <1>5. CASE User
    BY <1>5, AcceptSets DEF User
  <1>6. QED
    BY <1>1, <1>2, <1>3, <1>4, <1>5, ThunkSets, WorkerSets, PollSets, ModuleSetsSets
       DEF RelayNext, Driver

(* Until a frame is lost, a command refused or a relay switched by hand,   *)
(* the queue, the request in flight and the commands on the bus together   *)
(* lead the relays to what the user wants.                                 *)
THEOREM SetsInvariance == RelaySpec => []SetsIInv
  <1>1. RelayIInv /\ SetsIInv /\ [RelayNext]_rvars => SetsIInv'
    BY StepSets
  <1>2. QED
    BY <1>1, SetsStart, RelayInvariance, PTL DEF RelaySpec

(* LastSetWins: as long as no frame was lost, no command refused and no    *)
(* relay switched by hand, each relay ends as the user last set it, however *)
(* early timeouts fired and however often commands were repeated.          *)
THEOREM RelayLastSetWins == RelaySpec => []LastSetWins
  <1>1. RelayIInv /\ SetsIInv => LastSetWins
    <2> SUFFICES ASSUME RelayIInv, SetsIInv, Settled, ~disturbed
                 PROVE  relays = wanted
      BY DEF LastSetWins
    <2>1. /\ items = <<>> /\ toDevice = <<>> /\ worker = "loop"
          /\ Len(items) = 0 /\ Len(toDevice) = 0
      BY Shapes DEF Settled
    <2>2. PICK g \in Relays :
            /\ OnBus(g)
            /\ \A c \in Channel : Says(items, Len(items), c, Sent(g)[c], wanted[c])
      BY DEF SetsIInv, OnTheWay
    <2>3. Sent(g) = g
      BY <2>1 DEF Sent
    <2>4. \A c \in Channel : relays[c] = g[c] /\ g[c] = wanted[c]
      BY <2>1, <2>2, <2>3, SaysNothing DEF OnBus
    <2>5. QED
      BY <2>4 DEF RelayIInv, DeviceTyped, Relays
  <1>2. QED
    BY <1>1, SetsInvariance, RelayInvariance, PTL

-----------------------------------------------------------------------------
(* The answers and the broadcasts.                                         *)

Handling(op) == stage # "idle" /\ job.op = op

(* What MQTT shows of c once the handler has returned.                     *)
Shown(c) == IF Handling("set") /\ job.ch = c THEN job.on ELSE channelStatus[c]

(* A broadcast at the place k will be skipped.                             *)
Armed(k) ==
  IF k = 1 THEN Handling("set") \/ (skipBroadcast /\ ~Handling("broadcast"))
           ELSE toDriver[k - 1].op = "set"

(* Before the first broadcast nothing was set.                             *)
Unknown ==
  /\ items = <<>> /\ cur = None /\ ~skipBroadcast /\ outdated = {} /\ ~answered
  /\ \A k \in DOMAIN toDevice : toDevice[k].op # "set"
  /\ \A k \in DOMAIN toDriver : toDriver[k].op # "set" /\ toDriver[k].status = relays
  /\ stage # "idle" => job.op # "set" /\ job.status = relays

(* Afterwards the messages tell how MQTT's view gets to the relays' state; *)
(* a broadcast that does not agree with the view is about to be skipped.   *)
Told ==
  /\ \A c \in Channel : Says(toDriver, Len(toDriver), c, Shown(c), relays[c])
  /\ \A k \in DOMAIN toDriver : toDriver[k].op # "set" =>
       \/ toDriver[k].op = "broadcast" /\ Armed(k)
       \/ \A c \in Channel : Says(toDriver, k - 1, c, Shown(c), toDriver[k].status[c])
  /\ Handling("broadcast") => skipBroadcast \/ job.status = channelStatus
  /\ Handling("poll") => job.status = channelStatus
  /\ answered /\ Broadcasts => Armed(Len(toDriver) + 1)

Successful ==
  /\ \A k \in DOMAIN toDriver : toDriver[k].op = "set" => toDriver[k].ok
  /\ Handling("set") => job.ok

Account ==
  /\ Successful
  /\ IF channelStatus = <<>> THEN Unknown ELSE Told

FlickerIInv == ~disturbed /\ ~overtaken => Account

(* A step that leaves the messages, the view and the relays alone.         *)
LEMMA FlickerKept ==
  ASSUME Account, stage' = "idle" <=> stage = "idle",
         UNCHANGED <<toDriver, job, channelStatus, skipBroadcast, kind, module>>,
         channelStatus = <<>> => UNCHANGED <<items, cur, toDevice>>
  PROVE  Account'
  <1> USE DEF module, Broadcasts
  <1>1. Successful'
    BY DEF Account, Successful, Handling
  <1>2. CASE channelStatus = <<>>
    BY <1>1, <1>2 DEF Account, Unknown
  <1>3. CASE channelStatus # <<>>
    <2>1. Told'
      BY <1>3 DEF Account, Told, Shown, Armed, Handling
    <2>2. QED
      BY <1>1, <1>3, <2>1 DEF Account
  <1>4. QED
    BY <1>2, <1>3

(* A request in flight, or on the bus, means that the channels are known.  *)
LEMMA WorkerFlicker ==
  ASSUME RelayIInv, Account, RelayThunk \/ RelayWorker
  PROVE  Account'
  <1>1. UNCHANGED <<stage, job, toDriver, channelStatus, skipBroadcast, kind, module>>
    BY DEF RelayThunk, RunThunk, RelayWorker, WorkerTakes, WorkerRetries, WorkerGivesUp,
           WorkerReads, WorkerRest, device, world, loop, bus
  <1>2. ASSUME channelStatus = <<>> PROVE UNCHANGED <<items, cur, toDevice>>
    <2>1. items = <<>> /\ worker = "loop"
      BY <1>2, Shapes DEF Account, Unknown
    <2>2. WorkerReads /\ RunIgnoreMessage
      BY <2>1 DEF RelayThunk, RunThunk, RunItem, RelayWorker, WorkerTakes, RunTakeItem,
           WorkerRetries, ProcessRetry, WorkerGivesUp, ProcessGiveUp, WorkerReads,
           ProcessResponse, ProcessOther
    <2>3. QED
      BY <2>2 DEF WorkerReads, RunIgnoreMessage, loop, bus
  <1>3. QED
    BY <1>1, <1>2, FlickerKept

(* The handler takes the first message: what was said of it as the first   *)
(* on the bus is said of it in the handler's hands.                        *)
LEMMA OnAnythingFlicker ==
  ASSUME RelayIInv, Account, RelayReceives, OnAnything
  PROVE  Account'
  <1>1. /\ stage = "idle" /\ stage' # "idle" /\ toDriver # <<>>
        /\ toDriver' = Tail(toDriver) /\ job' = Head(toDriver)
        /\ UNCHANGED <<items, cur, toDevice>>
        /\ UNCHANGED <<channelStatus, skipBroadcast, relays, outdated, answered, kind>>
    BY DEF OnAnything, RelayReceives, WorkerRest, vars, device, world, module
  <1>2. /\ toDriver \in Seq(Msg \cup Unqueued) /\ job' = toDriver[1]
        /\ toDriver[1] \in Msg \cup Unqueued
        /\ 1 \in DOMAIN toDriver /\ DOMAIN toDriver = 1 .. Len(toDriver)
        /\ Len(toDriver) \in Nat /\ Len(toDriver) >= 1
        /\ Len(toDriver') = Len(toDriver) - 1
        /\ DOMAIN toDriver' = 1 .. Len(toDriver) - 1
        /\ \A k \in DOMAIN toDriver' : toDriver'[k] = toDriver[k + 1]
    BY <1>1, Shapes
  <1>3. /\ \A op : ~Handling(op)
        /\ \A op : Handling(op)' <=> toDriver[1].op = op
    BY <1>1, <1>2 DEF Handling
  <1>4. Successful'
    BY <1>2, <1>3 DEF Account, Successful, Handling
  <1>5. CASE channelStatus = <<>>
    BY <1>1, <1>2, <1>4, <1>5 DEF Account, Unknown
  <1>6. CASE channelStatus # <<>>
    <2>1. Told
      BY <1>6 DEF Account
    <2>2. \A c : /\ Shown(c) = channelStatus[c]
                 /\ Shown(c)' = IF Sets(toDriver[1], c) THEN toDriver[1].on ELSE Shown(c)
      BY <1>1, <1>2, <1>3 DEF Shown, Sets
    <2>3. ASSUME NEW n \in 1 .. Len(toDriver), NEW c, NEW v,
                 Says(toDriver, n, c, Shown(c), v)
          PROVE  Says(toDriver', n - 1, c, Shown(c)', v)
      <3>1. PICK w : w = Shown(c)
        OBVIOUS
      <3>2. Says(Tail(toDriver), n - 1, c,
                 IF Sets(toDriver[1], c) THEN toDriver[1].on ELSE w, v)
        BY <1>1, <1>2, <2>3, <3>1, SaysTail
      <3>3. QED
        BY <1>1, <2>2, <3>1, <3>2
    <2>4. \A c \in Channel : Says(toDriver', Len(toDriver'), c, Shown(c)', relays'[c])
      BY <1>1, <1>2, <2>1, <2>3 DEF Told
    <2>5. ASSUME NEW k \in 1 .. Len(toDriver) PROVE Armed(k + 1) => Armed(k)'
      <3>1. Armed(k + 1) => toDriver[k].op = "set"
        BY DEF Armed
      <3>2. CASE k = 1
        BY <1>3, <3>1, <3>2 DEF Armed
      <3>3. CASE k # 1
        <4>1. k - 1 \in DOMAIN toDriver' /\ toDriver'[k - 1] = toDriver[k]
          BY <1>2, <3>3
        <4>2. QED
          BY <3>1, <3>3, <4>1 DEF Armed
      <3>4. QED
        BY <3>2, <3>3
    <2>6. ASSUME NEW k \in DOMAIN toDriver', toDriver'[k].op # "set"
          PROVE  \/ toDriver'[k].op = "broadcast" /\ Armed(k)'
                 \/ \A c \in Channel :
                      Says(toDriver', k - 1, c, Shown(c)', toDriver'[k].status[c])
      <3>1. /\ k + 1 \in DOMAIN toDriver /\ toDriver'[k] = toDriver[k + 1]
            /\ (k + 1) - 1 = k /\ k \in 1 .. Len(toDriver)
        BY <1>2
      <3>2. \/ toDriver[k + 1].op = "broadcast" /\ Armed(k + 1)
            \/ \A c \in Channel :
                 Says(toDriver, k, c, Shown(c), toDriver[k + 1].status[c])
        BY <2>1, <2>6, <3>1 DEF Told
      <3>3. QED
        BY <2>3, <2>5, <3>1, <3>2
    <2>7. /\ toDriver[1].op = "broadcast" => skipBroadcast \/ toDriver[1].status = channelStatus
          /\ toDriver[1].op = "poll" => toDriver[1].status = channelStatus
      <3>1. Armed(1) => skipBroadcast
        BY <1>3 DEF Armed
      <3>2. CASE \A c \in Channel :
                   Says(toDriver, 0, c, Shown(c), toDriver[1].status[c])
        <4>1. \A c \in Channel : channelStatus[c] = toDriver[1].status[c]
          BY <2>2, <3>2, SaysNothing
        <4>2. toDriver[1].op # "set" => toDriver[1].status \in Relays
          BY <1>2, MsgFact
        <4>3. channelStatus \in Relays
          BY <1>6 DEF RelayIInv, DeviceTyped, StatusTyped
        <4>4. QED
          BY <4>1, <4>2, <4>3 DEF Relays
      <3>3. toDriver[1].op # "set" =>
              \/ toDriver[1].op = "broadcast" /\ Armed(1)
              \/ \A c \in Channel : Says(toDriver, 0, c, Shown(c), toDriver[1].status[c])
        <4>1. 1 - 1 = 0
          OBVIOUS
        <4>2. QED
          BY <1>2, <2>1, <4>1 DEF Told
      <3>4. QED
        BY <3>1, <3>2, <3>3
    <2>8. answered /\ Broadcasts => Armed(Len(toDriver) + 1)'
      <3>1. PICK k \in 1 .. Len(toDriver) : k = Len(toDriver)
        <4>1. Len(toDriver) \in 1 .. Len(toDriver)
          BY <1>2
        <4>2. QED
          BY <4>1, Zenon
      <3>2. answered /\ Broadcasts => Armed(k)'
        BY <2>1, <2>5, <3>1 DEF Told
      <3>3. (Len(toDriver) + 1)' = k
        BY <1>2, <3>1
      <3>4. QED
        BY <3>2, <3>3
    <2>9. Told'
      <3>1. \A k \in DOMAIN toDriver' : toDriver'[k].op # "set" =>
              \/ toDriver'[k].op = "broadcast" /\ Armed(k)'
              \/ \A c \in Channel :
                   Says(toDriver', k - 1, c, Shown(c)', toDriver'[k].status[c])
        BY <2>6
      <3>2. /\ Handling("broadcast")' => (skipBroadcast \/ job.status = channelStatus)'
            /\ Handling("poll")' => (job.status = channelStatus)'
            /\ (answered /\ Broadcasts)' => Armed(Len(toDriver) + 1)'
        BY <1>1, <1>2, <1>3, <2>7, <2>8 DEF Broadcasts
      <3>3. QED
        BY <2>4, <3>1, <3>2 DEF Told
    <2>10. QED
      BY <1>1, <1>4, <1>6, <2>9 DEF Account
  <1>7. QED
    BY <1>5, <1>6

(* A handler brings the view to what it was said to become.                *)
LEMMA HandlersFlicker ==
  ASSUME RelayIInv, Account,
         \/ OnSingleChannelControlResponse \/ OnZoneBeastBroadcast
         \/ OnQueryChannelStatusesResponse
  PROVE  Account'
  <1>1. /\ stage = "apply" /\ stage' = "idle" /\ job \in Msg \cup Unqueued
        /\ UNCHANGED <<items, cur, toDevice, toDriver, relays, outdated, answered, kind>>
    BY HandlerViews DEF vars, bus, world, module
  <1>2. \A op : (Handling(op) <=> job.op = op) /\ ~Handling(op)'
    BY <1>1 DEF Handling
  <1>3. Successful' /\ (job.op = "set" => job.ok)
    BY <1>1, <1>2 DEF Account, Successful
  <1>4. CASE channelStatus = <<>>
    <2>1. /\ Unknown /\ job.op # "set" /\ job.status = relays
      BY <1>1, <1>4 DEF Account, Unknown
    <2>2. channelStatus' = relays
      BY <1>4, <2>1, HandlerViews DEF Unknown
    <2>3. relays \in Relays /\ relays # <<>>
      BY RelaysFact DEF RelayIInv, DeviceTyped
    <2>4. \A c : Shown(c)' = relays[c]
      BY <1>2, <2>2 DEF Shown
    <2>5. /\ toDriver \in Seq(Msg \cup Unqueued) /\ DOMAIN toDriver = 1 .. Len(toDriver)
          /\ Len(toDriver) \in Nat
      BY Shapes
    <2>6. \A n \in 0 .. Len(toDriver) : \A c : Says(toDriver, n, c, relays[c], relays[c])
      BY <2>1, <2>5 DEF Unknown, Says, Sets
    <2>7. Told'
      <3>1. \A c \in Channel : Says(toDriver, Len(toDriver), c, Shown(c), relays[c])'
        BY <1>1, <2>4, <2>5, <2>6
      <3>2. \A k \in DOMAIN toDriver, c \in Channel :
              Says(toDriver, k - 1, c, Shown(c), toDriver[k].status[c])'
        BY <1>1, <2>1, <2>4, <2>5, <2>6 DEF Unknown
      <3>3. QED
        BY <1>1, <1>2, <2>1, <3>1, <3>2 DEF Told, Unknown, Broadcasts
    <2>8. QED
      BY <1>3, <2>2, <2>3, <2>7 DEF Account
  <1>5. CASE channelStatus # <<>>
    <2>1. Told /\ channelStatus \in Relays
      BY <1>5 DEF Account, RelayIInv, DeviceTyped, StatusTyped
    <2>2. job.op = "set" => job.ch \in Channel
      BY <1>1, MsgFact
    <2>3. \A c \in Channel : Shown(c)' = Shown(c)
      <3>1. \A c : Shown(c)' = channelStatus'[c]
        BY <1>2 DEF Shown
      <3>2. CASE job.op = "set"
        <4>1. channelStatus' = [channelStatus EXCEPT ![job.ch] = job.on]
          BY <1>3, <1>5, <3>2, HandlerViews
        <4>2. QED
          BY <1>2, <2>1, <2>2, <3>1, <3>2, <4>1 DEF Shown, Relays
      <3>3. CASE job.op # "set"
        <4>1. channelStatus' = channelStatus
          BY <1>2, <2>1, <3>3, HandlerViews DEF Told
        <4>2. QED
          BY <1>2, <3>1, <3>3, <4>1 DEF Shown
      <3>4. QED
        BY <3>2, <3>3
    <2>4. \A k : Armed(k) => Armed(k)'
      <3>1. skipBroadcast \in BOOLEAN
        BY DEF RelayIInv, DeviceTyped
      <3>2. Armed(1) => job.op = "set" \/ (skipBroadcast /\ job.op # "broadcast")
        BY <1>2 DEF Armed
      <3>3. Armed(1) => skipBroadcast'
        BY <1>3, <3>1, <3>2, HandlerViews
      <3>4. QED
        BY <1>1, <1>2, <3>3 DEF Armed
    <2>5. channelStatus' # <<>>
      <3>1. \/ channelStatus' = channelStatus
            \/ channelStatus' = [channelStatus EXCEPT ![job.ch] = job.on]
        BY <1>2, <1>5, <2>1, HandlerViews DEF Told
      <3>2. channelStatus' \in Relays
        <4>1. job.op = "set" => job.on \in BOOLEAN /\ job.ch \in Channel
          BY <1>1, MsgFact
        <4>2. CASE job.op = "set"
          BY <2>1, <3>1, <4>1, <4>2 DEF Relays
        <4>3. CASE job.op # "set"
          BY <1>2, <2>1, <4>3, HandlerViews DEF Told
        <4>4. QED
          BY <4>2, <4>3
      <3>3. QED
        BY <3>2, RelaysFact
    <2>6. Told'
      BY <1>1, <1>2, <2>1, <2>3, <2>4 DEF Told, Broadcasts
    <2>7. QED
      BY <1>3, <2>5, <2>6 DEF Account
  <1>6. QED
    BY <1>4, <1>5

(* A message of the module joins the others: an answer, the relays as they *)
(* are, or an outdated broadcast before which none came since the answer.  *)
LEMMA ToldGrows ==
  ASSUME RelayIInv, Told, NEW CONSTANT m \in Msg \cup Unqueued,
         toDriver' = Append(toDriver, m),
         UNCHANGED <<stage, job, channelStatus, skipBroadcast>>,
         \A c \in Channel : relays'[c] = IF Sets(m, c) THEN m.on ELSE relays[c],
         m.op # "set" => \/ m.op = "broadcast" /\ Armed(Len(toDriver) + 1)
                         \/ m.status = relays,
         answered' /\ Broadcasts' => m.op = "set"
  PROVE  Told'
  <1>1. /\ toDriver \in Seq(Msg \cup Unqueued) /\ DOMAIN toDriver = 1 .. Len(toDriver)
        /\ Len(toDriver) \in Nat /\ Len(toDriver') = Len(toDriver) + 1
        /\ DOMAIN toDriver' = 1 .. Len(toDriver) + 1
        /\ \A k \in 1 .. Len(toDriver) : toDriver'[k] = toDriver[k]
        /\ toDriver'[Len(toDriver) + 1] = m
    BY Shapes
  <1>2. \A c : Shown(c)' = Shown(c)
    BY DEF Shown, Handling
  <1>3. \A k \in 1 .. Len(toDriver) + 1 : Armed(k) => Armed(k)'
    BY <1>1 DEF Armed, Handling
  <1>4. \A c \in Channel : Says(toDriver, Len(toDriver), c, Shown(c), relays[c])'
    <2> SUFFICES ASSUME NEW c \in Channel
                 PROVE  Says(toDriver', Len(toDriver'), c, Shown(c)', relays'[c])
      OBVIOUS
    <2>1. PICK w, v : w = Shown(c) /\ v = relays[c]
      OBVIOUS
    <2>2. Says(toDriver, Len(toDriver), c, w, v)
      BY <2>1 DEF Told
    <2>3. Says(Append(toDriver, m), Len(Append(toDriver, m)), c, w,
               IF Sets(m, c) THEN m.on ELSE v)
      BY <1>1, <2>2, SaysAppend
    <2>4. QED
      BY <1>2, <2>1, <2>3
  <1>5. ASSUME NEW n \in 0 .. Len(toDriver), NEW c, NEW v,
               Says(toDriver, n, c, Shown(c), v)
        PROVE  Says(toDriver', n, c, Shown(c)', v)
    <2>1. PICK w : w = Shown(c)
      OBVIOUS
    <2>2. Says(Append(toDriver, m), n, c, w, v)
      BY <1>1, <1>5, <2>1, SaysBefore
    <2>3. QED
      BY <1>2, <2>1, <2>2
  <1>6. ASSUME NEW k \in DOMAIN toDriver', toDriver'[k].op # "set"
        PROVE  \/ toDriver'[k].op = "broadcast" /\ Armed(k)'
               \/ \A c \in Channel :
                    Says(toDriver', k - 1, c, Shown(c)', toDriver'[k].status[c])
    <2>1. k \in 1 .. Len(toDriver) + 1 /\ k - 1 \in 0 .. Len(toDriver)
      BY <1>1
    <2>2. CASE k = Len(toDriver) + 1
      <3>1. toDriver'[k] = m /\ k - 1 = Len(toDriver)
        BY <1>1, <2>2
      <3>2. CASE m.op = "broadcast" /\ Armed(k)
        BY <1>3, <2>1, <3>1, <3>2
      <3>3. CASE m.status = relays
        <4>1. \A c \in Channel : Says(toDriver, Len(toDriver), c, Shown(c), m.status[c])
          BY <3>3 DEF Told
        <4>2. Len(toDriver) \in 0 .. Len(toDriver)
          BY <1>1
        <4>3. QED
          BY <1>5, <3>1, <4>1, <4>2
      <3>4. QED
        BY <1>6, <2>2, <3>1, <3>2, <3>3
    <2>3. CASE k # Len(toDriver) + 1
      <3>1. k \in DOMAIN toDriver /\ toDriver'[k] = toDriver[k]
        BY <1>1, <2>1, <2>3
      <3>2. \/ toDriver[k].op = "broadcast" /\ Armed(k)
            \/ \A c \in Channel :
                 Says(toDriver, k - 1, c, Shown(c), toDriver[k].status[c])
        BY <1>6, <3>1 DEF Told
      <3>3. QED
        BY <1>3, <1>5, <2>1, <3>1, <3>2
    <2>4. QED
      BY <2>2, <2>3
  <1>7. answered' /\ Broadcasts' => Armed(Len(toDriver) + 1)'
    <2>1. (Len(toDriver) + 1) + 1 # 1 /\ ((Len(toDriver) + 1) + 1) - 1 = Len(toDriver) + 1
      BY <1>1
    <2>2. QED
      BY <1>1, <2>1 DEF Armed
  <1>8. QED
    BY <1>4, <1>6, <1>7 DEF Told, Handling

(* The module.                                                             *)
LEMMA ModuleFlicker ==
  ASSUME ~disturbed', ~overtaken', RelayIInv, Account, Module
  PROVE  Account'
  <1>1. /\ UNCHANGED <<stage, job, channelStatus, skipBroadcast, items, cur, kind>>
        /\ relays \in Relays
    BY DEF Module, ModuleSets, ModuleAnswersPoll, ModuleBroadcastsLate,
           ModuleBroadcasts, SwitchedByHand, ModuleRest, vars, device, RelayIInv, DeviceTyped
  <1>2. ~\E c \in Channel : SwitchedByHand(c)
    BY DEF SwitchedByHand
  <1>3. ASSUME NEW CONSTANT m \in Msg \cup Unqueued, toDriver' = Append(toDriver, m),
               m.op = "set" => m.ok
        PROVE  Successful'
    <2>1. \A k \in DOMAIN toDriver' :
            toDriver'[k] = m \/ (k \in DOMAIN toDriver /\ toDriver'[k] = toDriver[k])
      BY <1>3, Shapes
    <2>2. QED
      BY <1>1, <1>3, <2>1 DEF Account, Successful, Handling
  <1>4. CASE ModuleSets
    <2>1. PICK f \in RelayFrame : f = Head(toDevice) /\ f = toDevice[1] /\ 1 \in DOMAIN toDevice
      BY <1>4, Shapes DEF ModuleSets
    <2>2. f.op = "set" /\ f.ch \in Channel /\ f.on \in BOOLEAN
      BY <1>4, <2>1, FrameFact, ItemFact DEF ModuleSets
    <2>3. channelStatus # <<>> /\ Told
      BY <2>1, <2>2 DEF Account, Unknown
    <2>4. PICK m \in Msg : m = SetAnswer(f.ch, f.on, TRUE)
      BY <2>2, MadeFact
    <2>5. m.op = "set" /\ m.ok /\ m.ch = f.ch /\ m.on = f.on
      BY <2>4 DEF SetAnswer
    <2>6. toDriver' = Append(toDriver, m) /\ relays' = [relays EXCEPT ![f.ch] = f.on]
      BY <1>4, <2>1, <2>4 DEF ModuleSets, ToDriver
    <2>7. \A c \in Channel : relays'[c] = IF Sets(m, c) THEN m.on ELSE relays[c]
      BY <1>1, <2>2, <2>5, <2>6 DEF Sets, Relays
    <2>8. Told'
      BY <1>1, <2>3, <2>5, <2>6, <2>7, ToldGrows
    <2>9. QED
      BY <1>1, <1>3, <2>3, <2>5, <2>6, <2>8 DEF Account
  <1>5. ASSUME NEW CONSTANT m \in Msg \cup Unqueued, toDriver' = Append(toDriver, m),
               m.op # "set", m.status = relays, UNCHANGED <<relays, outdated>>,
               answered' /\ Broadcasts' => FALSE, ~answered => ~answered',
               toDevice' = toDevice \/ (toDevice # <<>> /\ toDevice' = Tail(toDevice))
        PROVE  Account'
    <2>1. Successful'
      BY <1>3, <1>5
    <2>2. CASE channelStatus # <<>>
      <3>1. \A c \in Channel : relays'[c] = IF Sets(m, c) THEN m.on ELSE relays[c]
        BY <1>5 DEF Sets
      <3>2. Told'
        BY <1>1, <1>5, <2>2, <3>1, ToldGrows DEF Account
      <3>3. QED
        BY <1>1, <2>1, <2>2, <3>2 DEF Account
    <2>3. CASE channelStatus = <<>>
      <3>1. Unknown
        BY <2>3 DEF Account
      <3>2. \A k \in DOMAIN toDriver' :
              toDriver'[k] = m \/ (k \in DOMAIN toDriver /\ toDriver'[k] = toDriver[k])
        BY <1>5, Shapes
      <3>3. \A k \in DOMAIN toDevice' : \E j \in DOMAIN toDevice : toDevice'[k] = toDevice[j]
        <4>1. CASE toDevice # <<>> /\ toDevice' = Tail(toDevice)
          <5>1. \A k \in DOMAIN toDevice' :
                  k + 1 \in DOMAIN toDevice /\ toDevice'[k] = toDevice[k + 1]
            BY <4>1, Shapes
          <5>2. QED
            BY <5>1
        <4>2. QED
          BY <1>5, <4>1
      <3>4. Unknown'
        BY <1>1, <1>5, <3>1, <3>2, <3>3 DEF Unknown
      <3>5. QED
        BY <1>1, <2>1, <2>3, <3>4 DEF Account
    <2>4. QED
      BY <2>2, <2>3
  <1>6. CASE ModuleAnswersPoll
    <2>1. PICK m \in Unqueued : m = PollAnswer(relays)
      BY <1>1, MadeFact
    <2>2. m.op = "poll" /\ m.status = relays
      BY <2>1 DEF PollAnswer
    <2>3. QED
      BY <1>1, <1>5, <1>6, <2>1, <2>2
         DEF ModuleAnswersPoll, ToDriver, module, Broadcasts, Polled
  <1>7. CASE ModuleBroadcasts
    <2>1. PICK m \in Unqueued : m = Status(relays)
      BY <1>1, MadeFact
    <2>2. m.op = "broadcast" /\ m.status = relays
      BY <2>1 DEF Status
    <2>3. QED
      BY <1>5, <1>7, <2>1, <2>2 DEF ModuleBroadcasts, ToDriver
  <1>8. CASE ModuleBroadcastsLate
    <2>1. answered /\ Broadcasts /\ outdated # {}
      BY <1>8 DEF ModuleBroadcastsLate
    <2>2. channelStatus # <<>> /\ Told /\ Armed(Len(toDriver) + 1)
      BY <2>1 DEF Account, Unknown, Told
    <2>3. PICK m \in Unqueued : m.op = "broadcast" /\ toDriver' = Append(toDriver, m)
      <3>1. PICK r \in Relays : ToDriver(Status(r))
        BY <1>8 DEF ModuleBroadcastsLate, RelayIInv, DeviceTyped
      <3>2. Status(r) \in Unqueued /\ Status(r).op = "broadcast"
        BY <3>1, MadeFact DEF Status
      <3>3. QED
        BY <3>1, <3>2 DEF ToDriver
    <2>4. UNCHANGED relays /\ answered' = FALSE
      BY <1>8 DEF ModuleBroadcastsLate
    <2>5. \A c \in Channel : relays'[c] = IF Sets(m, c) THEN m.on ELSE relays[c]
      BY <2>3, <2>4 DEF Sets
    <2>6. Told'
      BY <1>1, <2>2, <2>3, <2>4, <2>5, ToldGrows
    <2>7. QED
      BY <1>1, <1>3, <2>2, <2>3, <2>4, <2>6 DEF Account
  <1>9. QED
    BY <1>2, <1>4, <1>6, <1>7, <1>8 DEF Module

(* A poll makes no message by itself.                                      *)
LEMMA PollFlicker ==
  ASSUME RelayIInv, Account, PollDevice
  PROVE  Account'
  <1>1. /\ UNCHANGED <<toDriver, stage, job, channelStatus, skipBroadcast, kind,
                       module, items, cur>>
        /\ toDevice' = Append(toDevice, Poll)
    BY DEF PollDevice, ToDevice, vars, device, world
  <1>2. CASE channelStatus # <<>>
    BY <1>1, <1>2, FlickerKept
  <1>3. CASE channelStatus = <<>>
    <2>1. \A k \in DOMAIN toDevice' :
            toDevice'[k] = Poll \/ (k \in DOMAIN toDevice /\ toDevice'[k] = toDevice[k])
      BY <1>1, Shapes
    <2>2. Unknown'
      BY <1>1, <1>3, <2>1 DEF Account, Unknown, Poll, module
    <2>3. QED
      BY <1>1, <1>3, <2>2 DEF Account, Successful, Handling
  <1>4. QED
    BY <1>2, <1>3

(* Nothing is known and nothing was said.                                  *)
LEMMA FlickerStart == RelayInit => FlickerIInv
  BY DEF RelayInit, LoopInit, FlickerIInv, Account, Successful, Unknown, Handling

(* Every step keeps the account of the messages, or is recorded as one     *)
(* that does not.                                                          *)
LEMMA StepFlicker ==
  ASSUME RelayIInv, FlickerIInv, [RelayNext]_rvars
  PROVE  FlickerIInv'
  <1> SUFFICES ASSUME ~disturbed', ~overtaken' PROVE Account'
    BY DEF FlickerIInv
  <1>1. CASE UNCHANGED rvars
    <2>1. Account
      BY <1>1 DEF FlickerIInv, rvars, world, history
    <2>2. QED
      BY <1>1, <2>1, FlickerKept DEF rvars, vars, loop, bus, device, world
  <1>2. CASE Module
    <2>1. ~disturbed /\ ~overtaken
      <3>1. CASE ModuleSets
        <4>1. overtaken' = overtaken
          BY <3>1, Zenon DEF ModuleSets
        <4>2. disturbed' = disturbed \/ disturbed' = TRUE
          BY <3>1, Zenon DEF ModuleSets
        <4>3. QED
          BY <4>1, <4>2
      <3>2. CASE ModuleAnswersPoll
        BY <3>2 DEF ModuleAnswersPoll, history
      <3>3. CASE ModuleBroadcastsLate
        BY <3>3, Zenon DEF ModuleBroadcastsLate
      <3>4. CASE ModuleBroadcasts
        BY <3>4 DEF ModuleBroadcasts, history
      <3>5. CASE \E c \in Channel : SwitchedByHand(c)
        BY <3>5, Zenon DEF SwitchedByHand
      <3>6. QED
        BY <1>2, <3>1, <3>2, <3>3, <3>4, <3>5 DEF Module
    <2>2. QED
      BY <1>2, <2>1, ModuleFlicker DEF FlickerIInv
  <1>3. CASE RelayReceives \/ RelayThunk \/ RelayWorker \/ PollDevice
    <2>1. Account
      BY <1>3 DEF RelayReceives, RelayThunk, RelayWorker, PollDevice, WorkerRest,
           FlickerIInv, world, history
    <2>2. CASE Notify /\ RelayReceives
      BY <2>1, <2>2, FlickerKept DEF RelayReceives, WorkerRest, Notify,
           HandleReceivedMessage, bus, device, world
    <2>3. QED
      BY <1>3, <2>1, <2>2, OnAnythingFlicker, WorkerFlicker, PollFlicker
         DEF RelayReceives
  <1>4. CASE User
    <2>1. PICK c \in Channel, on \in BOOLEAN : AcceptOnValue(c, on)
      BY <1>4 DEF User
    <2>2. channelStatus # <<>>
      BY <2>1, RelayAssumption DEF AcceptOnValue, Channel
    <2>3. Account
      BY <2>1 DEF AcceptOnValue, FlickerIInv, history
    <2>4. QED
      BY <2>1, <2>2, <2>3, FlickerKept DEF AcceptOnValue, EnqueueRequest, loop, bus, device
  <1>5. CASE \/ OnSingleChannelControlResponse \/ OnZoneBeastBroadcast
             \/ OnQueryChannelStatusesResponse
    <2>1. Account
      BY <1>5, HandlerViews DEF FlickerIInv, world, history
    <2>2. QED
      BY <1>5, <2>1, HandlersFlicker
  <1>6. CASE BusLoses
    BY <1>6 DEF BusLoses
  <1>7. QED
    BY <1>1, <1>2, <1>3, <1>4, <1>5, <1>6 DEF RelayNext, Driver

(* Until a frame is lost, a command refused, a relay switched by hand or   *)
(* an outdated broadcast overtaken by another, the messages on the way     *)
(* account for the difference between the relays and MQTT's view, and      *)
(* every outdated broadcast finds skipBroadcast set.                       *)
THEOREM FlickerInvariance == RelaySpec => []FlickerIInv
  <1>1. RelayIInv /\ FlickerIInv /\ [RelayNext]_rvars => FlickerIInv'
    BY StepFlicker
  <1>2. QED
    BY <1>1, FlickerStart, RelayInvariance, PTL DEF RelaySpec

(* NoFlicker: OnZoneBeastBroadcast changes a channel that MQTT shows       *)
(* already only after a loss, a refusal or a switch by hand, or after an   *)
(* outdated broadcast that was not the first one after the last answer.    *)
THEOREM RelaysDoNotFlicker == RelaySpec => NoFlicker
  <1>1. RelayIInv /\ FlickerIInv /\ OnZoneBeastBroadcast /\ ~disturbed /\ ~overtaken =>
          \A c \in DOMAIN channelStatus : channelStatus'[c] = channelStatus[c]
    <2> SUFFICES ASSUME RelayIInv, Account, OnZoneBeastBroadcast,
                        NEW c \in DOMAIN channelStatus
                 PROVE  channelStatus'[c] = channelStatus[c]
      BY DEF FlickerIInv
    <2>1. channelStatus # <<>>
      OBVIOUS
    <2>2. Told /\ Handling("broadcast")
      BY <2>1 DEF Account, OnZoneBeastBroadcast, Handling
    <2>3. channelStatus' = channelStatus
      BY <2>2, HandlerViews DEF Told, Handling
    <2>4. QED
      BY <2>3
  <1>2. QED
    BY <1>1, FlickerInvariance, RelayInvariance, PTL DEF RelaySpec, NoFlicker
=============================================================================
