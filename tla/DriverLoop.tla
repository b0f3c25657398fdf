----------------------------- MODULE DriverLoop -----------------------------
(***************************************************************************)
(* The running driver around a device model: the message queue, the        *)
(* driver's goroutine and the bus to the devices.                          *)
(*                                                                         *)
(* Handlers of bus messages and of MQTT values run on the driver's         *)
(* goroutine (CallSync), one at a time; the requests' thunks run on the    *)
(* queue's worker.  A handler first gives the message to the queue, which  *)
(* blocks when the queue is full, and then applies it, so the worker may   *)
(* run between the two.  The bus keeps the order of the frames in each     *)
(* direction and may lose them.                                            *)
(***************************************************************************)
EXTENDS MessageQueue, Integers, Functions

CONSTANTS
  Unqueued,     \* messages whose handlers do not notify the queue
  Lossy,        \* frames may be lost
  Prompt,       \* REQUEST_TIMEOUT exceeds the longest round trip
  TransitBound  \* frames in flight in each direction

ASSUME LoopAssumption ==
  /\ Lossy \in BOOLEAN /\ Prompt \in BOOLEAN
  /\ TransitBound \in Nat \ {0}
  /\ None \notin Msg \cup Unqueued

VARIABLES
  stage,     \* the driver's goroutine: "idle", "notify" or "apply"
  job,       \* the message it handles
  toDevice,  \* frames on their way to the device
  toDriver   \* frames on their way to the driver

bus == <<toDevice, toDriver>>
loop == <<stage, job, bus>>

LoopTypeOK ==
  /\ TypeOK
  /\ stage \in {"idle", "notify", "apply"}
  /\ job \in Msg \cup Unqueued \cup {None}
  /\ stage = "idle" <=> job = None
  /\ Len(toDevice) <= TransitBound
  /\ toDriver \in Seq(Msg \cup Unqueued) /\ Len(toDriver) <= TransitBound

(* The queue as SmartbusModel.Start leaves it.                             *)
LoopInit ==
  /\ hasTimer = TRUE
  /\ active = TRUE /\ mutex = "free" /\ quit = "open" /\ worker = "loop"
  /\ items = <<>> /\ messages = <<>> /\ cur = None /\ left = 0 /\ timers = 0
  /\ stage = "idle" /\ job = None
  /\ toDevice = <<>> /\ toDriver = <<>>

-----------------------------------------------------------------------------
(* The bus.                                                                *)

ToDevice(f) ==
  /\ Len(toDevice) < TransitBound
  /\ toDevice' = Append(toDevice, f)

ToDriver(f) ==
  /\ Len(toDriver) < TransitBound
  /\ toDriver' = Append(toDriver, f)

LoseCommand ==
  /\ Lossy
  /\ toDevice # <<>>
  /\ toDevice' = Tail(toDevice)
  /\ UNCHANGED <<vars, stage, job, toDriver>>

LoseAnswer ==
  /\ Lossy
  /\ toDriver # <<>>
  /\ toDriver' = Tail(toDriver)
  /\ UNCHANGED <<vars, stage, job, toDevice>>

-----------------------------------------------------------------------------
(* The queue's worker.  The thunk of the item sends one of the frames fs.  *)

RunThunk(fs) ==
  /\ RunItem
  /\ \E f \in fs : ToDevice(f)
  /\ UNCHANGED <<stage, job, toDriver>>

(* With a timeout that exceeds the round trip, a timer that fires finds    *)
(* neither the request nor its answer under way.                           *)
UnderWay ==
  Range(toDevice) \cup Range(toDriver) \cup Range(messages) \cup ({job} \ {None})

Overdue == Prompt => \A f \in UnderWay : f.op # cur.op

WorkerTakes == RunTakeItem /\ UNCHANGED loop
WorkerRetries == ProcessRetry /\ Overdue /\ UNCHANGED loop
WorkerGivesUp == ProcessGiveUp /\ Overdue /\ UNCHANGED loop
WorkerReads ==
  (RunIgnoreMessage \/ ProcessResponse \/ ProcessOther) /\ UNCHANGED loop

-----------------------------------------------------------------------------
(* The driver's goroutine.                                                 *)

(* enqueueRequest: the error of a full queue is dropped with the request.  *)
EnqueueRequest(i) ==
  /\ items' = IF Len(items) < QueueSize THEN Append(items, i) ELSE items
  /\ UNCHANGED <<hasTimer, active, mutex, quit, messages, worker, cur, left,
                 timers>>

(* OnAnything: the connection hands the next message to the driver.        *)
OnAnything ==
  /\ stage = "idle"
  /\ toDriver # <<>>
  /\ job' = Head(toDriver)
  /\ toDriver' = Tail(toDriver)
  /\ stage' = IF job' \in Unqueued THEN "apply" ELSE "notify"
  /\ UNCHANGED <<vars, toDevice>>

(* queue.HandleReceivedMessage(msg), the first line of most handlers.      *)
Notify ==
  /\ stage = "notify"
  /\ HandleReceivedMessage(job)
  /\ stage' = "apply"
  /\ UNCHANGED <<job, bus>>

HandlerReturns ==
  /\ stage = "apply"
  /\ stage' = "idle"
  /\ job' = None

(* Nothing is under way between the user, the queue and the device.        *)
Settled ==
  /\ items = <<>> /\ messages = <<>> /\ cur = None
  /\ stage = "idle" /\ toDevice = <<>> /\ toDriver = <<>>
=============================================================================
