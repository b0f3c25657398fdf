---------------------------- MODULE RelayDriver -----------------------------
(***************************************************************************)
(* A relay module (Zone Beast or HMIX12) and the driver: the device models *)
(* ZoneBeastDeviceModel and Hmix12DeviceModel of smartbus_model.go on top  *)
(* of the driver's loop, with the relay module as the environment.         *)
(*                                                                         *)
(* The driver knows nothing of the relays until a broadcast, or an answer  *)
(* to a poll, lists them.                                                  *)
(***************************************************************************)
EXTENDS DriverLoop, Channels

CONSTANTS
  NumChannels,  \* relays of the module
  Kinds,        \* the kinds of module: "zonebeast" or "hmix12"
  Refuses,      \* the module may answer that it was unsuccessful
  MaxSets,      \* how many values the user sets
  MaxToggles    \* how many relays are switched by hand

ASSUME RelayAssumption ==
  /\ NumChannels \in 1 .. 255
  /\ Kinds \subseteq {"zonebeast", "hmix12"} /\ Refuses \in BOOLEAN
  /\ MaxSets \in Nat /\ MaxToggles \in Nat

Channel == 1 .. NumChannels
Relays == [Channel -> BOOLEAN]

(* SingleChannelControl, the only queued request, with its answer.         *)
SetItem(c, on) == [op |-> "set", ch |-> c, on |-> on]
SetAnswer(c, on, ok) == [op |-> "set", ch |-> c, on |-> on, ok |-> ok]
RelayItem == {SetItem(c, on) : c \in Channel, on \in BOOLEAN}
RelayMsg == {SetAnswer(c, on, ok) : c \in Channel, on \in BOOLEAN, ok \in BOOLEAN}

(* ZoneBeastBroadcast and QueryChannelStatusesResponse do not pass the     *)
(* queue, nor does the poll.                                               *)
Status(r) == [op |-> "broadcast", status |-> r]
PollAnswer(r) == [op |-> "poll", status |-> r]
Poll == [op |-> "poll"]
RelayUnqueued ==
  {Status(r) : r \in Relays} \cup {PollAnswer(r) : r \in Relays}

RelaySameOpcode(i, m) == i.op = m.op

(* The queue and the loop serve the relay module.                          *)
ASSUME RelayWiring ==
  /\ Item = RelayItem /\ Msg = RelayMsg /\ Unqueued = RelayUnqueued
  /\ \A i \in RelayItem, m \in RelayMsg : IsResponse(i, m) <=> RelaySameOpcode(i, m)

VARIABLES
  kind,           \* the kind of the module
  channelStatus,  \* channelStatus, and what MQTT shows of the channels
  skipBroadcast,  \* skipBroadcast
  relays,         \* the module's relays
  outdated,       \* states from before a command that may yet be broadcast
  answered,       \* no broadcast was sent since the last successful answer
  wanted,         \* the last value of each channel that the queue accepted
  sets, toggles,  \* values set by the user, relays switched by hand
  disturbed,      \* history: a frame was lost, a command refused or a relay
                  \* switched by hand
  overtaken       \* history: a broadcast came between an answer and an
                  \* outdated broadcast

device == <<channelStatus, skipBroadcast>>
module == <<relays, outdated, answered>>
history == <<disturbed, overtaken>>
world == <<kind, module, wanted, sets, toggles, history>>
rvars == <<vars, loop, device, world>>

(* A Zone Beast broadcasts its state from time to time; a HMIX12 does not, *)
(* and Poll asks it for its channels.                                      *)
Broadcasts == kind = "zonebeast"
Polled == kind = "hmix12"

RelayTypeOK ==
  /\ LoopTypeOK
  /\ kind \in Kinds
  /\ channelStatus \in Seq(BOOLEAN) /\ Len(channelStatus) \in {0, NumChannels}
  /\ skipBroadcast \in BOOLEAN
  /\ relays \in Relays
  /\ outdated \subseteq Relays /\ answered \in BOOLEAN
  /\ wanted \in Relays
  /\ sets \in 0 .. MaxSets /\ toggles \in 0 .. MaxToggles
  /\ disturbed \in BOOLEAN /\ overtaken \in BOOLEAN

RelayInit ==
  /\ LoopInit
  /\ kind \in Kinds
  /\ channelStatus = <<>>
  /\ skipBroadcast = FALSE
  /\ relays \in Relays
  /\ outdated = {} /\ answered = FALSE
  /\ wanted = relays
  /\ sets = 0 /\ toggles = 0
  /\ disturbed = FALSE /\ overtaken = FALSE

-----------------------------------------------------------------------------
(* The driver.                                                             *)

WorkerRest == UNCHANGED <<device, world>>

RelayThunk == RunThunk({cur}) /\ WorkerRest
RelayWorker ==
  /\ WorkerTakes \/ WorkerRetries \/ WorkerGivesUp \/ WorkerReads
  /\ WorkerRest
RelayReceives == (OnAnything \/ Notify) /\ WorkerRest

Handler == HandlerReturns /\ UNCHANGED <<vars, bus, world>>

OnSingleChannelControlResponse ==
  /\ stage = "apply" /\ job.op = "set"
  /\ Handler
  /\ \/ job.ok /\ channelStatus' = updateSingleChannel(channelStatus,
                                                       ChannelIndex(job.ch), job.on)
               /\ skipBroadcast' = TRUE
     \/ ~job.ok /\ UNCHANGED device

(* Faulty: the broadcast after an answer is not skipped.                   *)
BroadcastNotSkipped ==
  /\ stage = "apply" /\ job.op = "broadcast"
  /\ Handler
  /\ channelStatus' = updateChannelStatus(channelStatus, job.status)
  /\ skipBroadcast' = FALSE

(* Faulty: once a broadcast was skipped all are.                           *)
SkippedForever ==
  /\ stage = "apply" /\ job.op = "broadcast"
  /\ Handler
  /\ channelStatus' = IF skipBroadcast THEN channelStatus
                                       ELSE updateChannelStatus(channelStatus, job.status)
  /\ UNCHANGED skipBroadcast

OnZoneBeastBroadcast ==
  /\ stage = "apply" /\ job.op = "broadcast"
  /\ Handler
  /\ channelStatus' = IF skipBroadcast THEN channelStatus
                                       ELSE updateChannelStatus(channelStatus, job.status)
  /\ skipBroadcast' = FALSE

(* Faulty: the answer to a poll is skipped like a broadcast.               *)
PollSkipped ==
  /\ stage = "apply" /\ job.op = "poll"
  /\ Handler
  /\ channelStatus' = IF skipBroadcast THEN channelStatus
                                       ELSE updateChannelStatus(channelStatus, job.status)
  /\ UNCHANGED skipBroadcast

OnQueryChannelStatusesResponse ==
  /\ stage = "apply" /\ job.op = "poll"
  /\ Handler
  /\ channelStatus' = updateChannelStatus(channelStatus, job.status)
  /\ UNCHANGED skipBroadcast

(* Hmix12DeviceModel.Poll, on the driver's goroutine, past the queue.      *)
PollDevice ==
  /\ Polled
  /\ stage = "idle"
  /\ ToDevice(Poll)
  /\ UNCHANGED <<vars, stage, job, toDriver, device, world>>

(* The user sets a channel that was announced.  wanted is a history of the *)
(* requests that the queue did not refuse.                                 *)
AcceptOnValue(c, on) ==
  /\ stage = "idle"
  /\ c <= Len(channelStatus)
  /\ sets < MaxSets
  /\ EnqueueRequest(SetItem(c, on))
  /\ wanted' = IF Len(items) < QueueSize THEN [wanted EXCEPT ![c] = on]
                                         ELSE wanted
  /\ sets' = sets + 1
  /\ UNCHANGED <<loop, device, kind, module, toggles, history>>

-----------------------------------------------------------------------------
(* The relay module.  "ZoneBeast may send an outdated broadcast after      *)
(* SingleChannelControlResponse": one of the state before the command, at  *)
(* any time after the answer, and several may be due at once.              *)

ModuleRest == UNCHANGED <<vars, stage, job, device, kind, wanted, sets>>

ModuleSets ==
  /\ toDevice # <<>> /\ Head(toDevice).op = "set"
  /\ toDevice' = Tail(toDevice)
  /\ LET f == Head(toDevice) IN
       \/ /\ ToDriver(SetAnswer(f.ch, f.on, TRUE))
          /\ relays' = [relays EXCEPT ![f.ch] = f.on]
          /\ UNCHANGED outdated \/ (Broadcasts /\ outdated' = outdated \cup {relays})
          /\ answered' = TRUE
          /\ UNCHANGED disturbed
       \/ /\ Refuses
          /\ ToDriver(SetAnswer(f.ch, f.on, FALSE))
          /\ disturbed' = TRUE
          /\ UNCHANGED module
  /\ UNCHANGED <<toggles, overtaken>>
  /\ ModuleRest

ModuleAnswersPoll ==
  /\ Polled
  /\ toDevice # <<>> /\ Head(toDevice).op = "poll"
  /\ toDevice' = Tail(toDevice)
  /\ ToDriver(PollAnswer(relays))
  /\ UNCHANGED <<module, toggles, history>>
  /\ ModuleRest

ModuleBroadcastsLate ==
  /\ Broadcasts
  /\ \E r \in outdated :
       /\ ToDriver(Status(r))
       /\ outdated' = outdated \ {r}
  /\ overtaken' = (overtaken \/ ~answered)
  /\ answered' = FALSE
  /\ UNCHANGED <<toDevice, relays, toggles, disturbed>>
  /\ ModuleRest

ModuleBroadcasts ==
  /\ Broadcasts
  /\ ToDriver(Status(relays))
  /\ answered' = FALSE
  /\ UNCHANGED <<toDevice, relays, outdated, toggles, history>>
  /\ ModuleRest

SwitchedByHand(c) ==
  /\ toggles < MaxToggles
  /\ relays' = [relays EXCEPT ![c] = ~relays[c]]
  /\ toggles' = toggles + 1
  /\ disturbed' = TRUE
  /\ UNCHANGED <<bus, outdated, answered, overtaken>>
  /\ ModuleRest

BusLoses ==
  /\ LoseCommand \/ LoseAnswer
  /\ disturbed' = TRUE
  /\ UNCHANGED <<device, kind, module, wanted, sets, toggles, overtaken>>

-----------------------------------------------------------------------------
Driver ==
  \/ RelayReceives
  \/ OnSingleChannelControlResponse
  \/ OnZoneBeastBroadcast \/ OnQueryChannelStatusesResponse

User == \E c \in Channel, on \in BOOLEAN : AcceptOnValue(c, on)

Module ==
  \/ ModuleSets \/ ModuleAnswersPoll \/ ModuleBroadcastsLate \/ ModuleBroadcasts
  \/ \E c \in Channel : SwitchedByHand(c)

RelayNext ==
  RelayThunk \/ RelayWorker \/ Driver \/ PollDevice \/ User \/ Module \/ BusLoses

RelaySpec == RelayInit /\ [][RelayNext]_rvars

(* The goroutines go on, timers fire, select is fair.  The driver polls    *)
(* and the module broadcasts again and again; the bus, though it loses     *)
(* frames, does not lose every poll, command and answer.                   *)
RelayFairness ==
  /\ WF_rvars(RelayThunk)
  /\ WF_rvars(RelayWorker /\ WorkerTakes)
  /\ WF_rvars(RelayWorker /\ (WorkerRetries \/ WorkerGivesUp))
  /\ SF_rvars(RelayWorker /\ WorkerReads)
  /\ WF_rvars(Driver)
  /\ SF_rvars(OnZoneBeastBroadcast) /\ SF_rvars(OnQueryChannelStatusesResponse)
  /\ SF_rvars(RelayReceives)
  /\ WF_rvars(PollDevice)
  /\ SF_rvars(ModuleSets) /\ SF_rvars(ModuleAnswersPoll)
  /\ WF_rvars(ModuleBroadcasts)

RelayFairSpec == RelaySpec /\ RelayFairness

-----------------------------------------------------------------------------
(* A broadcast changes what MQTT shows of a channel only if the answers    *)
(* could not tell it (a frame was lost, a command refused or a relay       *)
(* switched by hand) or the module's outdated broadcast was not the first  *)
(* one after its last answer, the only one that skipBroadcast keeps out.   *)
NoFlicker ==
  [][OnZoneBeastBroadcast /\ ~disturbed /\ ~overtaken =>
       \A c \in DOMAIN channelStatus : channelStatus'[c] = channelStatus[c]]_rvars

(* When no frame was lost, nothing refused or switched by hand, and        *)
(* nothing is under way any more, each relay is as the user last set it,   *)
(* however early timeouts fired and however often commands and answers     *)
(* were repeated.                                                          *)
LastSetWins == Settled /\ ~disturbed => relays = wanted

(* Once the relays are left alone, MQTT comes to show them as they are and *)
(* goes on doing so, although broadcasts are skipped and lost.             *)
Converges == <>[](channelStatus = relays)
=============================================================================
