----------------------------- MODULE LoopProofs -----------------------------
(***************************************************************************)
(* What the driver's loop guarantees whatever device models it runs: the   *)
(* queue inside it keeps its invariant and stays running, and the bus and  *)
(* the handler keep their types.  The proofs about the device models rest  *)
(* on these lemmas.                                                        *)
(***************************************************************************)
EXTENDS DriverLoop, MessageQueueProofs

(* SmartbusModel.Start has returned, and Stop is not called.               *)
Running == active /\ mutex = "free" /\ quit = "open" /\ hasTimer

(* The handler and the frames on their way to the driver.                  *)
HandlerTyped ==
  /\ stage \in {"idle", "notify", "apply"}
  /\ job \in Msg \cup Unqueued \cup {None}
  /\ stage = "idle" <=> job = None
  /\ stage = "notify" => job \in Msg

InboundTyped ==
  toDriver \in Seq(Msg \cup Unqueued) /\ Len(toDriver) <= TransitBound

(* The frames on their way to the device are members of F.                 *)
OutboundTyped(F) == toDevice \in Seq(F) /\ Len(toDevice) <= TransitBound

LoopIInv(F) ==
  IInv /\ Running /\ HandlerTyped /\ InboundTyped /\ OutboundTyped(F)

(* The type invariant of the loop is a part of its inductive invariant.    *)
LEMMA LoopTypes ==
  ASSUME NEW CONSTANT F, LoopIInv(F)
  PROVE  LoopTypeOK
  BY DEF LoopIInv, IInv, HandlerTyped, InboundTyped, OutboundTyped, LoopTypeOK

(* A running worker is at one of three places, with an item at two.        *)
LEMMA WorkerPlaces ==
  ASSUME IInv, Running
  PROVE  /\ worker \in {"loop", "send", "wait"}
         /\ worker = "loop" <=> cur = None
         /\ cur # None => cur \in Item
  BY DEF IInv, TypeOK, Lifecycle, Busy, Running

(* The loop starts with a queue that has just been started.                *)
LEMMA LoopStarts ==
  ASSUME NEW CONSTANT F, LoopInit
  PROVE  LoopIInv(F)
  <1> USE DEF LoopInit
  <1>1. IInv
    <2>1. TypeOK
      BY EmptyFact, BoundsAssumption DEF TypeOK, WorkerState
    <2>2. Lifecycle /\ Busy /\ TimerDiscipline
      BY DEF Lifecycle, Busy, TimerDiscipline
    <2>3. QED
      BY <2>1, <2>2 DEF IInv
  <1>2. Running /\ HandlerTyped
    BY LoopAssumption DEF Running, HandlerTyped
  <1>3. InboundTyped /\ OutboundTyped(F)
    BY EmptyFact, LoopAssumption DEF InboundTyped, OutboundTyped
  <1>4. QED
    BY <1>1, <1>2, <1>3 DEF LoopIInv

-----------------------------------------------------------------------------
(* Steps.                                                                  *)

(* A step that leaves the queue alone.                                     *)
LEMMA QueueIdle ==
  ASSUME IInv, Running, UNCHANGED vars
  PROVE  IInv' /\ Running'
  BY StepIInv DEF Running, vars

(* A step of the worker is a step of the queue.                            *)
LEMMA WorkerStep ==
  ASSUME IInv, Running,
         \/ WorkerTakes \/ WorkerRetries \/ WorkerGivesUp \/ WorkerReads \/ RunItem
  PROVE  IInv' /\ Running' /\ Next
  <1>1. Worker
    BY DEF WorkerTakes, WorkerRetries, WorkerGivesUp, WorkerReads, Worker
  <1>2. Next
    BY <1>1 DEF Next
  <1>3. IInv'
    BY <1>2, StepIInv
  <1>4. UNCHANGED <<active, mutex, quit, hasTimer>>
    BY DEF WorkerTakes, WorkerRetries, WorkerGivesUp, WorkerReads, RunItem,
           RunTakeItem, ProcessRetry, ProcessGiveUp, RunIgnoreMessage,
           ProcessResponse, ProcessOther
  <1>5. QED
    BY <1>2, <1>3, <1>4 DEF Running

(* A worker's step outside a thunk preserves the loop's invariant.         *)
LEMMA WorkerLoop ==
  ASSUME NEW CONSTANT F, LoopIInv(F),
         WorkerTakes \/ WorkerRetries \/ WorkerGivesUp \/ WorkerReads
  PROVE  LoopIInv(F)'
  <1>1. IInv' /\ Running'
    BY WorkerStep DEF LoopIInv
  <1>2. UNCHANGED loop
    BY DEF WorkerTakes, WorkerRetries, WorkerGivesUp, WorkerReads
  <1>3. QED
    BY <1>1, <1>2
       DEF LoopIInv, HandlerTyped, InboundTyped, OutboundTyped, loop, bus

(* A thunk that sends a frame of F preserves the loop's invariant.         *)
LEMMA ThunkLoop ==
  ASSUME NEW CONSTANT F, LoopIInv(F), NEW CONSTANT f \in F,
         RunItem, ToDevice(f), UNCHANGED <<stage, job, toDriver>>
  PROVE  LoopIInv(F)'
  <1>1. IInv' /\ Running'
    BY WorkerStep DEF LoopIInv
  <1>2. OutboundTyped(F)'
    BY AppendFact, LoopAssumption DEF LoopIInv, OutboundTyped, ToDevice
  <1>3. QED
    BY <1>1, <1>2 DEF LoopIInv, HandlerTyped, InboundTyped

(* enqueueRequest is a step of the queue, or leaves a full queue alone.    *)
LEMMA RequestStep ==
  ASSUME IInv, Running, NEW CONSTANT i \in Item, EnqueueRequest(i)
  PROVE  IInv' /\ Running' /\ [Next]_vars
  <1>1. CASE Len(items) < QueueSize
    <2>1. Enqueue(i)
      BY <1>1 DEF EnqueueRequest, Enqueue
    <2>2. Next
      BY <2>1 DEF Next, Clients
    <2>3. QED
      BY <2>2, StepIInv DEF EnqueueRequest, Running
  <1>2. CASE ~(Len(items) < QueueSize)
    <2>1. UNCHANGED vars
      BY <1>2 DEF EnqueueRequest, vars
    <2>2. QED
      BY <2>1, QueueIdle
  <1>3. QED
    BY <1>1, <1>2

(* Taking the next message from the connection.                            *)
LEMMA OnAnythingLoop ==
  ASSUME NEW CONSTANT F, LoopIInv(F), OnAnything
  PROVE  LoopIInv(F)'
  <1>1. IInv' /\ Running'
    BY QueueIdle DEF LoopIInv, OnAnything
  <1>2. job' \in Msg \cup Unqueued /\ InboundTyped'
    BY TailFact, LoopAssumption DEF LoopIInv, InboundTyped, OnAnything
  <1>3. HandlerTyped'
    BY <1>2, LoopAssumption DEF HandlerTyped, OnAnything
  <1>4. OutboundTyped(F)'
    BY DEF LoopIInv, OutboundTyped, OnAnything
  <1>5. QED
    BY <1>1, <1>2, <1>3, <1>4 DEF LoopIInv

(* Giving a message to the queue is a step of the queue.                   *)
LEMMA NotifyStep ==
  ASSUME IInv, Running, HandlerTyped, Notify
  PROVE  IInv' /\ Running' /\ Next
  <1>1. \E m \in Msg : HandleReceivedMessage(m)
    BY DEF HandlerTyped, Notify
  <1>2. Next
    BY <1>1 DEF Next, Clients
  <1>3. QED
    BY <1>2, StepIInv DEF Running, Notify, HandleReceivedMessage

(* HandleReceivedMessage on the driver's goroutine keeps the loop's types. *)
LEMMA NotifyLoop ==
  ASSUME NEW CONSTANT F, LoopIInv(F), Notify
  PROVE  LoopIInv(F)'
  <1>1. IInv' /\ Running'
    BY NotifyStep DEF LoopIInv
  <1>2. HandlerTyped'
    BY DEF LoopIInv, HandlerTyped, Notify
  <1>3. QED
    BY <1>1, <1>2 DEF LoopIInv, InboundTyped, OutboundTyped, Notify, bus

(* A handler that leaves a sound queue behind.                             *)
LEMMA ReturnLoop ==
  ASSUME NEW CONSTANT F, LoopIInv(F), HandlerReturns, UNCHANGED bus,
         IInv', Running'
  PROVE  LoopIInv(F)'
  <1>1. HandlerTyped'
    BY DEF HandlerTyped, HandlerReturns
  <1>2. QED
    BY <1>1 DEF LoopIInv, InboundTyped, OutboundTyped, bus

(* A call of the user that leaves a sound queue behind.                    *)
LEMMA CallLoop ==
  ASSUME NEW CONSTANT F, LoopIInv(F), UNCHANGED loop, IInv', Running'
  PROVE  LoopIInv(F)'
  BY DEF LoopIInv, HandlerTyped, InboundTyped, OutboundTyped, loop, bus

(* A frame for the driver.                                                 *)
LEMMA InboundGrows ==
  ASSUME NEW CONSTANT F, LoopIInv(F), NEW f \in Msg \cup Unqueued, ToDriver(f)
  PROVE  InboundTyped'
  BY AppendFact, LoopAssumption DEF LoopIInv, InboundTyped, ToDriver

(* A frame the device takes off the bus, or the bus loses.                 *)
LEMMA OutboundShrinks ==
  ASSUME NEW CONSTANT F, LoopIInv(F), toDevice # <<>>, toDevice' = Tail(toDevice)
  PROVE  OutboundTyped(F)' /\ Head(toDevice) \in F
  BY TailFact, LoopAssumption DEF LoopIInv, OutboundTyped

(* A frame that the bus loses.                                             *)
LEMMA LossLoop ==
  ASSUME NEW CONSTANT F, LoopIInv(F), LoseCommand \/ LoseAnswer
  PROVE  LoopIInv(F)'
  <1>1. IInv' /\ Running'
    BY QueueIdle DEF LoopIInv, LoseCommand, LoseAnswer
  <1>2. OutboundTyped(F)'
    BY OutboundShrinks DEF LoopIInv, OutboundTyped, LoseCommand, LoseAnswer
  <1>3. InboundTyped'
    BY TailFact, LoopAssumption DEF LoopIInv, InboundTyped, LoseCommand, LoseAnswer
  <1>4. HandlerTyped'
    BY DEF LoopIInv, HandlerTyped, LoseCommand, LoseAnswer
  <1>5. QED
    BY <1>1, <1>2, <1>3, <1>4 DEF LoopIInv
=============================================================================
