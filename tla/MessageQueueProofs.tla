------------------------- MODULE MessageQueueProofs -------------------------
(***************************************************************************)
(* Proofs about the message queue, for every set of items and messages,    *)
(* every response relation, every capacity and every number of retries,    *)
(* with and without timers.                                                *)
(***************************************************************************)
EXTENDS QueueProperties, TLAPS

(* Taking the head of a channel's buffer keeps it within its type.         *)
LEMMA TailFact ==
  ASSUME NEW S, NEW s \in Seq(S), s # <<>>
  PROVE  /\ Head(s) \in S
         /\ Tail(s) \in Seq(S)
         /\ Len(Tail(s)) = Len(s) - 1
         /\ Len(s) \in Nat
  OBVIOUS

(* Adding to a channel's buffer keeps it within its type.                  *)
LEMMA AppendFact ==
  ASSUME NEW S, NEW s \in Seq(S), NEW e \in S
  PROVE  /\ Append(s, e) \in Seq(S)
         /\ Len(Append(s, e)) = Len(s) + 1
         /\ Len(s) \in Nat
  OBVIOUS

(* A channel starts with an empty buffer, which any capacity admits.       *)
LEMMA EmptyFact ==
  ASSUME NEW S
  PROVE  <<>> \in Seq(S) /\ Len(<<>>) = 0
  OBVIOUS

(* The queue as NewMessageQueue makes it satisfies the invariant.          *)
LEMMA InitIInv == Init => IInv
  <1> SUFFICES ASSUME Init PROVE IInv
    OBVIOUS
  <1>1. TypeOK
    <2>1. items \in Seq(Item) /\ Len(items) <= QueueSize
      BY EmptyFact, BoundsAssumption DEF Init
    <2>2. messages \in Seq(Msg) /\ Len(messages) <= InboundSize
      BY EmptyFact, BoundsAssumption DEF Init
    <2>3. active \in BOOLEAN
      BY DEF Init
    <2>4. QED
      BY <2>1, <2>2, <2>3, BoundsAssumption DEF Init, TypeOK, WorkerState
  <1>2. Lifecycle
    BY DEF Init, Lifecycle
  <1>3. Busy /\ TimerDiscipline
    BY DEF Init, Busy, TimerDiscipline
  <1>4. QED
    BY <1>1, <1>2, <1>3 DEF IInv

(* Start and Stop preserve the invariant.                                  *)
LEMMA ControlIInv == IInv /\ Control => IInv'
  <1> SUFFICES ASSUME IInv, Control PROVE IInv'
    OBVIOUS
  <1> USE BoundsAssumption, ItemAssumption
          DEF IInv, TypeOK, Lifecycle, Busy, TimerDiscipline, WorkerState
  <1>1. CASE StartBegin
    BY <1>1 DEF StartBegin
  <1>2. CASE FlushItem
    <2>1. items' \in Seq(Item) /\ Len(items') <= QueueSize
      BY <1>2, TailFact DEF FlushItem
    <2>2. QED
      BY <1>2, <2>1 DEF FlushItem
  <1>3. CASE FlushMessage
    <2>1. messages' \in Seq(Msg) /\ Len(messages') <= InboundSize
      BY <1>3, TailFact DEF FlushMessage
    <2>2. QED
      BY <1>3, <2>1 DEF FlushMessage
  <1>4. CASE StartEnd
    BY <1>4 DEF StartEnd
  <1>5. CASE StopBegin
    BY <1>5 DEF StopBegin
  <1>6. CASE StopEnd
    BY <1>6 DEF StopEnd
  <1>7. QED
    BY <1>1, <1>2, <1>3, <1>4, <1>5, <1>6 DEF Control

(* The worker's steps preserve the invariant.                              *)
LEMMA WorkerIInv == IInv /\ Worker => IInv'
  <1> SUFFICES ASSUME IInv, Worker PROVE IInv'
    OBVIOUS
  <1> USE BoundsAssumption, ItemAssumption
          DEF IInv, TypeOK, Lifecycle, Busy, TimerDiscipline, WorkerState
  <1>1. CASE RunQuit
    BY <1>1 DEF RunQuit
  <1>2. CASE RunIgnoreMessage
    <2>1. messages' \in Seq(Msg) /\ Len(messages') <= InboundSize
      BY <1>2, TailFact DEF RunIgnoreMessage
    <2>2. QED
      BY <1>2, <2>1 DEF RunIgnoreMessage
  <1>3. CASE RunTakeItem
    <2>1. /\ items' \in Seq(Item) /\ Len(items') <= QueueSize
          /\ cur' \in Item
      BY <1>3, TailFact DEF RunTakeItem
    <2>2. left' \in 0 .. NumRetries
      BY <1>3 DEF RunTakeItem
    <2>3. QED
      BY <1>3, <2>1, <2>2 DEF RunTakeItem
  <1>4. CASE RunItem
    BY <1>4 DEF RunItem
  <1>5. CASE RunItemOnly
    BY <1>5 DEF RunItemOnly
  <1>6. CASE ProcessQuit
    BY <1>6 DEF ProcessQuit
  <1>7. CASE ProcessGiveUp
    BY <1>7 DEF ProcessGiveUp
  <1>8. CASE ProcessRetry
    BY <1>8 DEF ProcessRetry
  <1>9. CASE ProcessResponse
    <2>1. messages' \in Seq(Msg) /\ Len(messages') <= InboundSize
      BY <1>9, TailFact DEF ProcessResponse
    <2>2. QED
      BY <1>9, <2>1 DEF ProcessResponse
  <1>10. CASE ProcessOther
    <2>1. messages' \in Seq(Msg) /\ Len(messages') <= InboundSize
      BY <1>10, TailFact DEF ProcessOther
    <2>2. QED
      BY <1>10, <2>1 DEF ProcessOther
  <1>11. QED
    BY <1>1, <1>2, <1>3, <1>4, <1>5, <1>6, <1>7, <1>8, <1>9, <1>10 DEF Worker

(* Enqueue and HandleReceivedMessage preserve the invariant at any moment. *)
LEMMA ClientsIInv == IInv /\ Clients => IInv'
  <1> SUFFICES ASSUME IInv, Clients PROVE IInv'
    OBVIOUS
  <1> USE BoundsAssumption
          DEF IInv, TypeOK, Lifecycle, Busy, TimerDiscipline, WorkerState
  <1>1. ASSUME NEW i \in Item, Enqueue(i) PROVE IInv'
    <2>1. items' \in Seq(Item) /\ Len(items') <= QueueSize
      BY <1>1, AppendFact DEF Enqueue
    <2>2. QED
      BY <1>1, <2>1 DEF Enqueue
  <1>2. ASSUME NEW m \in Msg, HandleReceivedMessage(m) PROVE IInv'
    <2>1. messages' \in Seq(Msg) /\ Len(messages') <= InboundSize
      BY <1>2, AppendFact DEF HandleReceivedMessage
    <2>2. QED
      BY <1>2, <2>1 DEF HandleReceivedMessage
  <1>3. QED
    BY <1>1, <1>2 DEF Clients

(* Every step of the queue, and every step that leaves it alone, preserves *)
(* the invariant.                                                          *)
LEMMA StepIInv == IInv /\ [Next]_vars => IInv'
  <1>1. IInv /\ UNCHANGED vars => IInv'
    BY DEF IInv, TypeOK, Lifecycle, Busy, TimerDiscipline, vars
  <1>2. QED
    BY <1>1, ControlIInv, WorkerIInv, ClientsIInv DEF Next

(* The conjunction of type, life cycle, processing and timers is inductive *)
(* and therefore an invariant of messagequeue.go.                          *)
THEOREM Invariance == Spec => []IInv
  BY InitIInv, StepIInv, PTL DEF Spec

(* The type invariant: the buffers stay within their capacities, and the   *)
(* retries left within 0 .. NumRetries.                                    *)
THEOREM TypeCorrect == Spec => []TypeOK
  <1>1. IInv => TypeOK
    BY DEF IInv
  <1>2. QED
    BY <1>1, Invariance, PTL

(* Once Stop has returned the worker is gone, nothing is being processed   *)
(* and no timer is armed.                                                  *)
THEOREM StoppedIsQuiet == Spec => []QuietWhenStopped
  <1>1. IInv => QuietWhenStopped
    BY DEF IInv, TypeOK, Lifecycle, Busy, TimerDiscipline, QuietWhenStopped
  <1>2. QED
    BY <1>1, Invariance, PTL

(* Start never spawns a second worker.                                     *)
THEOREM OneWorker == Spec => []SingleWorker
  <1>1. IInv => SingleWorker
    BY DEF IInv, Lifecycle, SingleWorker
  <1>2. QED
    BY <1>1, Invariance, PTL

(* Exactly one timer is armed while the worker waits, none otherwise.      *)
THEOREM TimersAreStopped == Spec => []TimerDiscipline
  <1>1. IInv => TimerDiscipline
    BY DEF IInv
  <1>2. QED
    BY <1>1, Invariance, PTL

-----------------------------------------------------------------------------
(* Refinement.  Every step of the queue is a step of the abstract channel, *)
(* or leaves it alone: taking the quit branch while idle, arming a timer.  *)

(* Start and Stop open and close the channel.                              *)
LEMMA ControlRefines == IInv /\ Control => RC!Next
  <1> SUFFICES ASSUME IInv, Control PROVE RC!Next
    OBVIOUS
  <1> USE DEF RC!Next, RC!Move, Phase, Tries
  <1>1. CASE StartBegin
    <2>1. RC!Open
      BY <1>1 DEF StartBegin, RC!Open, IInv, TypeOK
    <2>2. QED
      BY <2>1
  <1>2. CASE FlushItem
    <2>1. RC!Forget
      BY <1>2 DEF FlushItem, RC!Forget, IInv, TypeOK, Lifecycle
    <2>2. QED
      BY <2>1
  <1>3. CASE FlushMessage
    <2>1. RC!Forget
      BY <1>3 DEF FlushMessage, RC!Forget, IInv, TypeOK, Lifecycle
    <2>2. QED
      BY <2>1
  <1>4. CASE StartEnd
    <2>1. RC!Opened
      BY <1>4 DEF StartEnd, RC!Opened, IInv, TypeOK, Lifecycle
    <2>2. QED
      BY <2>1
  <1>5. CASE StopBegin
    <2>1. RC!Close
      BY <1>5 DEF StopBegin, RC!Close, IInv, TypeOK, Lifecycle
    <2>2. QED
      BY <2>1
  <1>6. CASE StopEnd
    <2>1. RC!Closed
      BY <1>6 DEF StopEnd, RC!Closed, IInv, TypeOK, Lifecycle, Busy
    <2>2. QED
      BY <2>1
  <1>7. QED
    BY <1>1, <1>2, <1>3, <1>4, <1>5, <1>6 DEF Control

(* A worker's step begins, repeats or ends a request, drops a message, or  *)
(* does nothing the channel can see.                                       *)
LEMMA WorkerRefines == IInv /\ Worker => [RC!Next]_RC!chan
  <1> SUFFICES ASSUME IInv, Worker PROVE [RC!Next]_RC!chan
    OBVIOUS
  <1> USE DEF RC!Next, Phase, Tries
  <1>1. CASE RunQuit
    BY <1>1 DEF RunQuit, RC!chan, IInv, TypeOK
  <1>2. CASE RunIgnoreMessage
    <2>1. RC!Discard
      BY <1>2, BoundsAssumption, ItemAssumption
         DEF RunIgnoreMessage, RC!Discard, RC!Serving, IInv, TypeOK, Lifecycle, Busy
    <2>2. QED
      BY <2>1
  <1>3. CASE RunTakeItem
    <2>1. RC!Begin
      BY <1>3, BoundsAssumption, ItemAssumption
         DEF RunTakeItem, RC!Begin, RC!Serving, IInv, TypeOK, Lifecycle, Busy
    <2>2. QED
      BY <2>1
  <1>4. CASE RunItem
    BY <1>4 DEF RunItem, RC!chan, IInv, TypeOK
  <1>5. CASE RunItemOnly
    <2>1. RC!SentOnly
      BY <1>5, BoundsAssumption, ItemAssumption
         DEF RunItemOnly, RC!SentOnly, RC!Leave, RC!Serving, IInv, TypeOK, Lifecycle, Busy
    <2>2. QED
      BY <2>1
  <1>6. CASE ProcessQuit
    <2>1. RC!Abandoned
      BY <1>6, BoundsAssumption, ItemAssumption
         DEF ProcessQuit, RC!Abandoned, RC!Leave, RC!Serving, IInv, TypeOK, Lifecycle, Busy
    <2>2. QED
      BY <2>1
  <1>7. CASE ProcessGiveUp
    <2>1. RC!GivenUp
      BY <1>7, BoundsAssumption, ItemAssumption
         DEF ProcessGiveUp, RC!GivenUp, RC!Leave, RC!Serving, IInv, TypeOK, Lifecycle, Busy
    <2>2. QED
      BY <2>1
  <1>8. CASE ProcessRetry
    <2>1. RC!Repeat
      BY <1>8, BoundsAssumption, ItemAssumption
         DEF ProcessRetry, RC!Repeat, RC!Serving, IInv, TypeOK, Lifecycle, Busy
    <2>2. QED
      BY <2>1
  <1>9. CASE ProcessResponse
    <2>1. RC!Answered
      BY <1>9, BoundsAssumption, ItemAssumption
         DEF ProcessResponse, RC!Answered, RC!Leave, RC!Serving, IInv, TypeOK, Lifecycle, Busy
    <2>2. QED
      BY <2>1
  <1>10. CASE ProcessOther
    <2>1. RC!Discard
      BY <1>10, BoundsAssumption, ItemAssumption
         DEF ProcessOther, RC!Discard, RC!Serving, IInv, TypeOK, Lifecycle, Busy
    <2>2. QED
      BY <2>1
  <1>11. QED
    BY <1>1, <1>2, <1>3, <1>4, <1>5, <1>6, <1>7, <1>8, <1>9, <1>10 DEF Worker

(* Callers reach the channel at any moment.                                *)
LEMMA ClientsRefine == IInv /\ Clients => RC!Next
  <1> SUFFICES ASSUME IInv, Clients PROVE RC!Next
    OBVIOUS
  <1> USE DEF Phase, Tries
  <1>1. ASSUME NEW i \in Item, Enqueue(i) PROVE RC!Next
    <2>1. RC!Accept(i)
      BY <1>1 DEF Enqueue, RC!Accept
    <2>2. QED
      BY <2>1 DEF RC!Next
  <1>2. ASSUME NEW m \in Msg, HandleReceivedMessage(m) PROVE RC!Next
    <2>1. RC!Hear(m)
      BY <1>2 DEF HandleReceivedMessage, RC!Hear
    <2>2. QED
      BY <2>1 DEF RC!Next
  <1>3. QED
    BY <1>1, <1>2 DEF Clients

(* Every step of the queue is one of the channel or invisible to it.       *)
LEMMA StepRefines == IInv /\ [Next]_vars => [RC!Next]_RC!chan
  <1>1. UNCHANGED vars => UNCHANGED RC!chan
    BY DEF vars, RC!chan, Phase, Tries
  <1>2. QED
    BY <1>1, ControlRefines, WorkerRefines, ClientsRefine DEF Next

(* messagequeue.go implements the request channel: requests are served one *)
(* at a time and in order, sent at most NumRetries + 1 times, and end by   *)
(* their response, by exhaustion or by Stop, never otherwise.              *)
THEOREM Refinement == Spec => ImplementsChannel
  <1>1. Init => RC!Init
    BY DEF Init, RC!Init, Phase, Tries
  <1>2. QED
    BY <1>1, StepRefines, Invariance, PTL DEF Spec, RC!Spec, ImplementsChannel
=============================================================================
