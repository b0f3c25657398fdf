---------------------------- MODULE PanelProofs -----------------------------
(***************************************************************************)
(* Proofs about the panel driver, for every set of panels, every number of *)
(* buttons and relays, every queue, and any number of calls of the user.   *)
(***************************************************************************)
EXTENDS PanelProperties, LoopProofs, FiniteSetTheorems

-----------------------------------------------------------------------------
(* The shapes of requests, frames and messages.                            *)

(* A frame for a panel: the request itself, or the pair of bytes that the  *)
(* thunk of AssignPanelButton sends.                                       *)
PanelFrame ==
  {QueryItem(p, n) : p \in Panel, n \in Button}
    \cup {ModesItem(p, m) : p \in Panel, m \in Modes}
    \cup [op : {"assign"}, p : Panel, n : 0 .. 255, v : 0 .. 255]

(* The opcode tells the fields of a request.                               *)
LEMMA ItemFact ==
  ASSUME NEW i \in Item
  PROVE  /\ i.op \in {"query", "modes", "assign"}
         /\ i.p \in Panel
         /\ i.op = "query" => i.n \in Button /\ i = QueryItem(i.p, i.n)
         /\ i.op = "modes" => i.on \in Modes /\ i = ModesItem(i.p, i.on)
         /\ i.op = "assign" => i = AssignItem(i.p)
  BY PanelWiring DEF PanelItem, QueryItem, ModesItem, AssignItem

(* The driver's requests are items of its queue.                           *)
LEMMA RequestFact ==
  ASSUME NEW p \in Panel
  PROVE  /\ \A n \in Button : QueryItem(p, n) \in Item
         /\ \A m \in Modes : ModesItem(p, m) \in Item
         /\ AssignItem(p) \in Item
  BY PanelWiring DEF PanelItem

(* The opcode tells the fields of an answer.                               *)
LEMMA MsgFact ==
  ASSUME NEW m \in Msg
  PROVE  /\ m.op \in {"query", "modes", "assign"}
         /\ m.p \in Panel
         /\ m.op = "query" => m.n \in Button /\ m.v \in Value
         /\ m.op = "assign" => m.n \in Button
  BY PanelWiring DEF PanelMsg, QueryAnswer, ModesAnswer, AssignAnswer

(* A panel's answers are messages of the queue, its greetings are not.     *)
LEMMA AnswerFact ==
  ASSUME NEW p \in Panel
  PROVE  /\ \A n \in Button, v \in Value : QueryAnswer(p, n, v) \in Msg
         /\ \A n \in Button : AssignAnswer(p, n) \in Msg
         /\ ModesAnswer(p) \in Msg
         /\ Greeting(p) \in Unqueued
  BY PanelWiring DEF PanelMsg, PanelUnqueued

(* Greetings are the messages that are kept from the queue.                *)
LEMMA GreetingFact ==
  ASSUME NEW m \in Msg \cup Unqueued
  PROVE  /\ m.p \in Panel
         /\ m \in Unqueued <=> m.op = "greeting"
         /\ m \in Msg <=> m.op # "greeting"
  <1>1. \A u \in Unqueued : u.op = "greeting" /\ u.p \in Panel
    BY PanelWiring DEF PanelUnqueued, Greeting
  <1>2. QED
    BY <1>1, MsgFact

(* The opcode tells the fields of a frame.                                 *)
LEMMA FrameFact ==
  ASSUME NEW f \in PanelFrame
  PROVE  /\ f.op \in {"query", "modes", "assign"}
         /\ f.p \in Panel
         /\ f.op = "query" => f.n \in Button
         /\ f.op = "modes" => f.on \in Modes
  BY DEF PanelFrame, QueryItem, ModesItem

-----------------------------------------------------------------------------
(* Types and announcements.                                                *)

(* The device models, the panels and the histories have their types.       *)
DeviceTyped ==
  /\ received \in [Panel -> [Button -> BOOLEAN]]
  /\ assigned \in [Panel -> [Button -> Value \cup {0}]]
  /\ isNew \in [Panel -> BOOLEAN]
  /\ pendingB \in [Panel -> Button \cup {-1}]
  /\ pendingV \in [Panel -> Relay \cup {-1}]
  /\ shown \in [Panel -> [Button -> Value \cup {None}]]

EnvTyped ==
  /\ panelV \in [Panel -> [Button -> Value]]
  /\ panelOn \in [Panel -> Modes]
  /\ greetings \in [Panel -> 0 .. MaxGreetings]
  /\ calls \in 0 .. MaxUserCalls

SeenTyped == seen \subseteq (Button \cup {-1}) \X (Relay \cup {-1})
HistoryTyped == failed \subseteq Panel /\ dropped \subseteq PanelItem

(* The inductive invariant that holds whatever the timeout is.             *)
PanelIInv ==
  /\ LoopIInv(PanelFrame)
  /\ DeviceTyped /\ EnvTyped /\ SeenTyped /\ HistoryTyped
  /\ AnnouncedFirst

(* The byte pairs of an assignment are frames.                             *)
LEMMA AssignFramesFact ==
  ASSUME PanelIInv, NEW p \in Panel
  PROVE  AssignFrames(p) \subseteq PanelFrame
  <1>1. \A x \in seen \cup {<<pendingB[p], pendingV[p]>>} :
          x[1] \in Button \cup {-1} /\ x[2] \in Relay \cup {-1}
    BY DEF PanelIInv, DeviceTyped, SeenTyped
  <1>2. \A k \in Button \cup Relay \cup {-1} : k % 256 \in 0 .. 255
    BY PanelAssumption DEF Button, Relay
  <1>3. \A x \in seen \cup {<<pendingB[p], pendingV[p]>>} :
          x[1] % 256 \in 0 .. 255 /\ x[2] % 256 \in 0 .. 255
    BY <1>1, <1>2
  <1>4. QED
    BY <1>3 DEF AssignFrames, PanelFrame

(* What a thunk sends is a frame for a panel.                              *)
LEMMA CommandFact ==
  ASSUME PanelIInv, RunItem
  PROVE  Command \subseteq PanelFrame /\ cur \in Item
  <1>1. cur \in Item
    BY WorkerPlaces DEF PanelIInv, LoopIInv, RunItem, IInv, Busy
  <1>2. CASE cur.op = "assign"
    BY <1>1, <1>2, ItemFact, AssignFramesFact DEF Command
  <1>3. CASE cur.op # "assign"
    BY <1>1, <1>3, PanelWiring DEF Command, PanelFrame, PanelItem, AssignItem
  <1>4. QED
    BY <1>1, <1>2, <1>3

(* The modes that an assignment f calls for.                               *)
LEMMA ModesFact ==
  ASSUME NEW f
  PROVE  [k \in Button |-> f[k] \in Relay] \in Modes
  <1>1. \A k \in Button : (f[k] \in Relay) \in BOOLEAN
    OBVIOUS
  <1>2. QED
    BY <1>1, Zenon DEF Modes

(* The start of the driver.                                                *)
LEMMA PanelStarts == PanelInit => PanelIInv
  <1> SUFFICES ASSUME PanelInit PROVE PanelIInv
    OBVIOUS
  <1>1. LoopIInv(PanelFrame)
    BY LoopStarts DEF PanelInit
  <1>2. DeviceTyped
    BY DEF PanelInit, DeviceTyped
  <1>3. EnvTyped
    BY PanelAssumption DEF PanelInit, EnvTyped, Modes
  <1>4. SeenTyped /\ HistoryTyped
    BY DEF PanelInit, SeenTyped, HistoryTyped
  <1>5. AnnouncedFirst
    BY DEF PanelInit, AnnouncedFirst
  <1>6. QED
    BY <1>1, <1>2, <1>3, <1>4, <1>5 DEF PanelIInv

(* A step that leaves the device models, the panels and the user alone.    *)
LEMMA DeviceIdle ==
  ASSUME PanelIInv, LoopIInv(PanelFrame)', UNCHANGED <<device, panel, user>>,
         SeenTyped', HistoryTyped'
  PROVE  PanelIInv'
  BY DEF PanelIInv, DeviceTyped, EnvTyped, AnnouncedFirst, Known, device, panel, user

(* The worker does not touch the device models.                            *)
LEMMA ThunkPanelIInv == PanelIInv /\ PanelThunk => PanelIInv'
  <1> SUFFICES ASSUME PanelIInv, PanelThunk PROVE PanelIInv'
    OBVIOUS
  <1>1. PICK f \in Command : ToDevice(f)
    BY DEF PanelThunk, RunThunk
  <1>2. f \in PanelFrame
    BY <1>1, CommandFact DEF PanelThunk, RunThunk
  <1>3. LoopIInv(PanelFrame)'
    BY <1>1, <1>2, ThunkLoop DEF PanelIInv, PanelThunk, RunThunk
  <1>4. SeenTyped' /\ HistoryTyped'
    BY DEF PanelThunk, PanelIInv, SeenTyped, HistoryTyped, history
  <1>5. QED
    BY <1>3, <1>4, DeviceIdle DEF PanelThunk

(* The queue's worker: giving a request up is noted against its own panel. *)
LEMMA WorkerPanelIInv == PanelIInv /\ PanelWorker => PanelIInv'
  <1> SUFFICES ASSUME PanelIInv, PanelWorker PROVE PanelIInv'
    OBVIOUS
  <1>1. LoopIInv(PanelFrame)'
    BY WorkerLoop DEF PanelIInv, PanelWorker
  <1>2. HistoryTyped'
    <2>1. CASE WorkerGivesUp /\ failed' = failed \cup {cur.p}
      <3>1. cur \in Item
        BY <2>1, WorkerPlaces
           DEF PanelIInv, LoopIInv, WorkerGivesUp, ProcessGiveUp, IInv, Busy
      <3>2. QED
        BY <2>1, <3>1, ItemFact DEF PanelIInv, HistoryTyped, PanelWorker
    <2>2. CASE UNCHANGED failed
      BY <2>2 DEF PanelIInv, HistoryTyped, PanelWorker
    <2>3. QED
      BY <2>1, <2>2 DEF PanelWorker
  <1>3. SeenTyped'
    BY DEF PanelWorker, PanelIInv, SeenTyped
  <1>4. QED
    BY <1>1, <1>2, <1>3, DeviceIdle DEF PanelWorker

(* A message reaches the driver's goroutine and is passed to the queue.    *)
LEMMA ReceivesPanelIInv == PanelIInv /\ PanelReceives => PanelIInv'
  <1> SUFFICES ASSUME PanelIInv, PanelReceives PROVE PanelIInv'
    OBVIOUS
  <1>1. LoopIInv(PanelFrame)'
    BY OnAnythingLoop, NotifyLoop DEF PanelIInv, PanelReceives
  <1>2. SeenTyped' /\ HistoryTyped'
    BY DEF PanelReceives, PanelIInv, SeenTyped, HistoryTyped, history
  <1>3. QED
    BY <1>1, <1>2, DeviceIdle DEF PanelReceives

(* The bus loses a frame.                                                  *)
LEMMA LosesPanelIInv == PanelIInv /\ BusLoses => PanelIInv'
  <1> SUFFICES ASSUME PanelIInv, BusLoses PROVE PanelIInv'
    OBVIOUS
  <1>1. LoopIInv(PanelFrame)'
    BY LossLoop DEF PanelIInv, BusLoses
  <1>2. SeenTyped' /\ HistoryTyped'
    BY DEF BusLoses, PanelIInv, SeenTyped, HistoryTyped, history
  <1>3. QED
    BY <1>1, <1>2, DeviceIdle DEF BusLoses

(* The message a handler applies.                                          *)
LEMMA JobFact ==
  ASSUME PanelIInv, stage = "apply"
  PROVE  /\ job.p \in Panel
         /\ job.op # "greeting" => job \in Msg
         /\ job \in Msg \cup Unqueued
  <1>1. job \in Msg \cup Unqueued
    BY DEF PanelIInv, LoopIInv, HandlerTyped
  <1>2. QED
    BY <1>1, GreetingFact

(* A request queued or dropped on behalf of a panel.                       *)
LEMMA RequestPanel ==
  ASSUME PanelIInv, NEW CONSTANT i \in Item, Request(i)
  PROVE  IInv' /\ Running' /\ HistoryTyped' /\ [Next]_vars
  <1>1. HistoryTyped'
    BY PanelWiring DEF PanelIInv, HistoryTyped, Request
  <1>2. QED
    BY <1>1, RequestStep DEF Request, PanelIInv, LoopIInv

(* ... or none.                                                            *)
LEMMA NoRequestPanel ==
  ASSUME PanelIInv, NoRequest
  PROVE  IInv' /\ Running' /\ HistoryTyped' /\ [Next]_vars
  BY QueueIdle DEF NoRequest, history, PanelIInv, LoopIInv, HistoryTyped

(* The pending pair is overwritten with a pair of the same type.           *)
LEMMA SetPendingTyped ==
  ASSUME PanelIInv, NEW p \in Panel, NEW b \in Button \cup {-1},
         NEW v \in Relay \cup {-1}, SetPending(p, b, v)
  PROVE  /\ pendingB' \in [Panel -> Button \cup {-1}]
         /\ pendingV' \in [Panel -> Relay \cup {-1}]
         /\ SeenTyped'
  BY DEF PanelIInv, DeviceTyped, SeenTyped, SetPending

(* The first message of a panel makes the driver ask for its first button. *)
LEMMA GreetingPanelIInv == PanelIInv /\ OnGreeting => PanelIInv'
  <1> SUFFICES ASSUME PanelIInv, OnGreeting PROVE PanelIInv'
    OBVIOUS
  <1>1. job.p \in Panel
    BY JobFact DEF OnGreeting, Handler, HandlerReturns
  <1>2. IInv' /\ Running' /\ HistoryTyped'
    <2>1. QueryItem(job.p, 1) \in Item
      BY <1>1, RequestFact, PanelAssumption DEF Button
    <2>2. QED
      BY <2>1, RequestPanel, NoRequestPanel DEF OnGreeting
  <1>3. LoopIInv(PanelFrame)'
    BY <1>2, ReturnLoop DEF PanelIInv, OnGreeting, Handler
  <1>4. DeviceTyped' /\ EnvTyped' /\ SeenTyped' /\ AnnouncedFirst'
    BY <1>1 DEF PanelIInv, DeviceTyped, EnvTyped, SeenTyped, AnnouncedFirst, Known,
                OnGreeting, Handler, NotPending, panel, user
  <1>5. QED
    BY <1>2, <1>3, <1>4 DEF PanelIInv

(* An answer about a button announces its control, if it is the first.     *)
LEMMA QueryPanelIInv ==
  PanelIInv /\ OnQueryPanelButtonAssignmentResponse => PanelIInv'
  <1> SUFFICES ASSUME PanelIInv, OnQueryPanelButtonAssignmentResponse
               PROVE  PanelIInv'
    OBVIOUS
  <1> USE DEF OnQueryPanelButtonAssignmentResponse
  <1>1. job.p \in Panel /\ job.n \in Button /\ job.v \in Value
    BY JobFact, MsgFact DEF Handler, HandlerReturns
  <1>2. IInv' /\ Running' /\ HistoryTyped'
    <2>1. job.n < NumButtons => QueryItem(job.p, job.n + 1) \in Item
      BY <1>1, RequestFact, PanelAssumption DEF Button
    <2>2. QED
      BY <2>1, RequestPanel, NoRequestPanel
  <1>3. LoopIInv(PanelFrame)'
    BY <1>2, ReturnLoop DEF PanelIInv, Handler
  <1>4. DeviceTyped' /\ EnvTyped' /\ SeenTyped'
    BY <1>1 DEF PanelIInv, DeviceTyped, EnvTyped, SeenTyped,
                Handler, ButtonKnown, NotPending, panel, user
  <1>5. AnnouncedFirst'
    BY <1>1, NoValueAssumption
       DEF PanelIInv, DeviceTyped, AnnouncedFirst, Known, ButtonKnown, NotPending
  <1>6. QED
    BY <1>2, <1>3, <1>4, <1>5 DEF PanelIInv

(* After the modes are set the pending button is assigned.                 *)
LEMMA ModesPanelIInv == PanelIInv /\ OnSetPanelButtonModesResponse => PanelIInv'
  <1> SUFFICES ASSUME PanelIInv, OnSetPanelButtonModesResponse PROVE PanelIInv'
    OBVIOUS
  <1> USE DEF OnSetPanelButtonModesResponse
  <1>1. job.p \in Panel
    BY JobFact DEF Handler, HandlerReturns
  <1>2. IInv' /\ Running' /\ HistoryTyped'
    <2>1. AssignItem(job.p) \in Item
      BY <1>1, RequestFact
    <2>2. QED
      BY <2>1, RequestPanel, NoRequestPanel
  <1>3. LoopIInv(PanelFrame)'
    BY <1>2, ReturnLoop DEF PanelIInv, Handler
  <1>4. QED
    BY <1>2, <1>3, DeviceIdle DEF Handler, PanelIInv, SeenTyped

(* The confirmation of an assignment ends it and is shown by MQTT.         *)
LEMMA AssignPanelIInv == PanelIInv /\ OnAssignPanelButtonResponse => PanelIInv'
  <1> SUFFICES ASSUME PanelIInv, OnAssignPanelButtonResponse PROVE PanelIInv'
    OBVIOUS
  <1> USE DEF OnAssignPanelButtonResponse
  <1>1. job.p \in Panel /\ job.n \in Button
    BY JobFact, MsgFact DEF Handler, HandlerReturns
  <1>2. IInv' /\ Running' /\ HistoryTyped'
    BY NoRequestPanel
  <1>3. LoopIInv(PanelFrame)'
    BY <1>2, ReturnLoop DEF PanelIInv, Handler
  <1>4. EnvTyped'
    BY DEF PanelIInv, EnvTyped, Handler, panel, user
  <1>5. CASE job.n # pendingB[job.p]
    <2>1. UNCHANGED <<device, panel, user>> /\ SeenTyped'
      BY <1>5 DEF Handler, NotPending, device, PanelIInv, SeenTyped
    <2>2. QED
      BY <1>2, <1>3, <2>1, DeviceIdle
  <1>6. CASE job.n = pendingB[job.p]
    <2>1. /\ shown' = [shown EXCEPT ![job.p][job.n] = pendingV[job.p]]
          /\ SetPending(job.p, -1, -1)
      BY <1>6
    <2>2. DeviceTyped' /\ SeenTyped'
      <3>1. pendingV[job.p] \in Value
        BY <1>1 DEF PanelIInv, DeviceTyped, Value
      <3>2. QED
        BY <1>1, <2>1, <3>1, SetPendingTyped DEF PanelIInv, DeviceTyped
    <2>3. AnnouncedFirst'
      <3>1. received[job.p][job.n] /\ pendingV[job.p] # None
        BY <1>1, <1>6, NoValueAssumption
           DEF PanelIInv, DeviceTyped, AnnouncedFirst, Known, Value, Button
      <3>2. QED
        BY <1>1, <2>1, <3>1
           DEF PanelIInv, DeviceTyped, AnnouncedFirst, Known, SetPending
    <2>4. QED
      BY <1>2, <1>3, <1>4, <2>2, <2>3 DEF PanelIInv
  <1>7. QED
    BY <1>5, <1>6

(* The user assigns a button: only of a panel that is known altogether.    *)
LEMMA AcceptPanelIInv ==
  ASSUME PanelIInv, NEW CONSTANT p \in Panel, NEW CONSTANT b \in Button,
         NEW CONSTANT v \in Relay, AcceptOnValue(p, b, v)
  PROVE  PanelIInv'
  <1> USE DEF AcceptOnValue, Assign
  <1>1. DeviceTyped' /\ SeenTyped'
    BY SetPendingTyped DEF PanelIInv, DeviceTyped, Value
  <1>2. IInv' /\ Running' /\ HistoryTyped'
    <2>1. PICK m \in Modes : m = [k \in Button |-> assigned'[p][k] \in Relay]
      BY ModesFact
    <2>2. Request(ModesItem(p, m))
      BY <2>1
    <2>3. QED
      BY <2>2, RequestFact, RequestPanel
  <1>3. LoopIInv(PanelFrame)'
    BY <1>2, CallLoop DEF PanelIInv
  <1>4. EnvTyped'
    BY PanelAssumption DEF PanelIInv, EnvTyped, panel
  <1>5. AnnouncedFirst'
    BY DEF PanelIInv, DeviceTyped, AnnouncedFirst, Known, SetPending
  <1>6. QED
    BY <1>1, <1>2, <1>3, <1>4, <1>5 DEF PanelIInv

(* A panel sends a message of its own accord.                              *)
LEMMA GreetPanelIInv ==
  ASSUME PanelIInv, NEW p \in Panel, Greet(p)
  PROVE  PanelIInv'
  <1>1. IInv' /\ Running'
    BY QueueIdle DEF PanelIInv, LoopIInv, Greet
  <1>2. InboundTyped'
    BY InboundGrows, AnswerFact DEF PanelIInv, Greet
  <1>3. LoopIInv(PanelFrame)'
    BY <1>1, <1>2 DEF PanelIInv, LoopIInv, HandlerTyped, OutboundTyped, Greet
  <1>4. EnvTyped'
    BY PanelAssumption DEF PanelIInv, EnvTyped, Greet, panel
  <1>5. DeviceTyped' /\ SeenTyped' /\ HistoryTyped' /\ AnnouncedFirst'
    BY DEF PanelIInv, DeviceTyped, SeenTyped, HistoryTyped, AnnouncedFirst, Known,
           Greet, device, history
  <1>6. QED
    BY <1>3, <1>4, <1>5 DEF PanelIInv

(* A panel takes a command off the bus, obeys it and answers.              *)
LEMMA ObeysPanelIInv == PanelIInv /\ PanelObeys => PanelIInv'
  <1> SUFFICES ASSUME PanelIInv, PanelObeys PROVE PanelIInv'
    OBVIOUS
  <1>1. OutboundTyped(PanelFrame)' /\ Head(toDevice) \in PanelFrame
    BY OutboundShrinks DEF PanelIInv, PanelObeys
  <1>2. PICK f \in PanelFrame : f = Head(toDevice)
    BY <1>1
  <1>3. IInv' /\ Running'
    BY QueueIdle DEF PanelIInv, LoopIInv, PanelObeys
  <1>4. InboundTyped' /\ EnvTyped'
    <2>1. CASE f.op = "query"
      <3>1. QueryAnswer(f.p, f.n, panelV[f.p][f.n]) \in Msg
        BY <2>1, FrameFact, AnswerFact DEF PanelIInv, EnvTyped
      <3>2. ToDriver(QueryAnswer(f.p, f.n, panelV[f.p][f.n])) /\ UNCHANGED panel
        BY <1>2, <2>1 DEF PanelObeys
      <3>3. QED
        BY <3>1, <3>2, InboundGrows DEF PanelIInv, EnvTyped, PanelObeys, panel, user
    <2>2. CASE f.op = "modes"
      <3>1. ModesAnswer(f.p) \in Msg
        BY FrameFact, AnswerFact
      <3>2. /\ ToDriver(ModesAnswer(f.p)) /\ UNCHANGED panelV
            /\ panelOn' = [panelOn EXCEPT ![f.p] = f.on]
        BY <1>2, <2>2 DEF PanelObeys
      <3>3. EnvTyped'
        BY <2>2, <3>2, FrameFact DEF PanelIInv, EnvTyped, PanelObeys, user
      <3>4. QED
        BY <3>1, <3>2, <3>3, InboundGrows DEF PanelIInv
    <2>3. CASE f.op = "assign" /\ f.n \in Button
      <3>1. AssignAnswer(f.p, f.n) \in Msg
        BY <2>3, FrameFact, AnswerFact
      <3>2. /\ ToDriver(AssignAnswer(f.p, f.n)) /\ UNCHANGED panelOn
            /\ panelV' = [panelV EXCEPT
                            ![f.p][f.n] = IF f.v \in Relay THEN f.v ELSE -1]
        BY <1>2, <2>3 DEF PanelObeys
      <3>3. EnvTyped'
        BY <2>3, <3>2, FrameFact DEF PanelIInv, EnvTyped, PanelObeys, user, Value
      <3>4. QED
        BY <3>1, <3>2, <3>3, InboundGrows DEF PanelIInv
    <2>4. CASE f.op = "assign" /\ f.n \notin Button
      <3>1. UNCHANGED <<toDriver, panel>>
        BY <1>2, <2>4 DEF PanelObeys
      <3>2. QED
        BY <3>1 DEF PanelIInv, LoopIInv, InboundTyped, EnvTyped, PanelObeys, panel, user
    <2>5. QED
      BY <2>1, <2>2, <2>3, <2>4, FrameFact
  <1>5. LoopIInv(PanelFrame)'
    BY <1>1, <1>3, <1>4 DEF PanelIInv, LoopIInv, HandlerTyped, PanelObeys
  <1>6. DeviceTyped' /\ SeenTyped' /\ HistoryTyped' /\ AnnouncedFirst'
    BY DEF PanelIInv, DeviceTyped, SeenTyped, HistoryTyped, AnnouncedFirst, Known,
           PanelObeys, device, history
  <1>7. QED
    BY <1>4, <1>5, <1>6 DEF PanelIInv

(* Every step preserves the invariant.                                     *)
LEMMA StepPanelIInv == PanelIInv /\ [PanelNext]_pvars => PanelIInv'
  <1> SUFFICES ASSUME PanelIInv, [PanelNext]_pvars PROVE PanelIInv'
    OBVIOUS
  <1>1. CASE UNCHANGED pvars
    <2>1. IInv' /\ Running'
      BY <1>1, QueueIdle DEF PanelIInv, LoopIInv, pvars
    <2>2. LoopIInv(PanelFrame)'
      BY <1>1, <2>1, CallLoop DEF PanelIInv, pvars
    <2>3. QED
      BY <1>1, <2>2, DeviceIdle DEF pvars, PanelIInv, SeenTyped, HistoryTyped, history
  <1>2. CASE PanelNext
    BY <1>2, ThunkPanelIInv, WorkerPanelIInv, ReceivesPanelIInv, GreetingPanelIInv,
       QueryPanelIInv, ModesPanelIInv, AssignPanelIInv, AcceptPanelIInv,
       GreetPanelIInv, ObeysPanelIInv, LosesPanelIInv
       DEF PanelNext, Driver, User
  <1>3. QED
    BY <1>1, <1>2

(* Types and announcements are an invariant of the panel driver, whatever  *)
(* the timeout, the losses and the order of the steps.                     *)
THEOREM PanelInvariance == PanelSpec => []PanelIInv
  BY PanelStarts, StepPanelIInv, PTL DEF PanelSpec

(* The type invariant: no handler of DDPDeviceModel, whatever message it   *)
(* meets, leaves an index, a value or a queue out of its range.            *)
THEOREM PanelTypeCorrect == PanelSpec => []PanelTypeOK
  <1>1. PanelIInv => PanelTypeOK
    BY LoopTypes DEF PanelIInv, PanelTypeOK, DeviceTyped, EnvTyped, SeenTyped,
                     HistoryTyped
  <1>2. QED
    BY <1>1, PanelInvariance, PTL

(* Every control is announced by the first answer about its button, and no *)
(* assignment is pending for a panel whose controls were not all           *)
(* announced, even when answers are repeated, late or lost.                *)
THEOREM PanelAnnouncesFirst == PanelSpec => []AnnouncedFirst
  <1>1. PanelIInv => AnnouncedFirst
    BY DEF PanelIInv
  <1>2. QED
    BY <1>1, PanelInvariance, PTL

-----------------------------------------------------------------------------
(* The queue in use.                                                       *)

(* A handler's step is one of the queue, or none: it enqueues one request  *)
(* at most.                                                                *)
LEMMA HandlersQueue ==
  ASSUME PanelIInv,
         \/ OnGreeting \/ OnQueryPanelButtonAssignmentResponse
         \/ OnSetPanelButtonModesResponse \/ OnAssignPanelButtonResponse
  PROVE  [Next]_vars
  <1>1. job.p \in Panel /\ (job.op = "query" => job.n \in Button)
    BY JobFact, MsgFact
       DEF OnGreeting, OnQueryPanelButtonAssignmentResponse,
           OnSetPanelButtonModesResponse, OnAssignPanelButtonResponse, Handler,
           HandlerReturns
  <1>2. CASE OnGreeting
    <2>1. QueryItem(job.p, 1) \in Item
      BY <1>1, RequestFact, PanelAssumption DEF Button
    <2>2. QED
      BY <1>2, <2>1, RequestPanel, NoRequestPanel DEF OnGreeting
  <1>3. CASE OnQueryPanelButtonAssignmentResponse
    <2>1. job.n < NumButtons => QueryItem(job.p, job.n + 1) \in Item
      BY <1>1, <1>3, RequestFact, PanelAssumption
         DEF Button, OnQueryPanelButtonAssignmentResponse, Handler
    <2>2. QED
      BY <1>3, <2>1, RequestPanel, NoRequestPanel
         DEF OnQueryPanelButtonAssignmentResponse
  <1>4. CASE OnSetPanelButtonModesResponse
    <2>1. AssignItem(job.p) \in Item
      BY <1>1, RequestFact
    <2>2. QED
      BY <1>4, <2>1, RequestPanel, NoRequestPanel DEF OnSetPanelButtonModesResponse
  <1>5. CASE OnAssignPanelButtonResponse
    BY <1>5, NoRequestPanel DEF OnAssignPanelButtonResponse
  <1>6. QED
    BY <1>2, <1>3, <1>4, <1>5

(* So is a call of the user.                                               *)
LEMMA AcceptQueue ==
  ASSUME PanelIInv, NEW CONSTANT p \in Panel, NEW CONSTANT b \in Button,
         NEW CONSTANT v \in Relay, AcceptOnValue(p, b, v)
  PROVE  [Next]_vars
  <1>1. PICK m \in Modes : m = [k \in Button |-> assigned'[p][k] \in Relay]
    BY ModesFact
  <1>2. Request(ModesItem(p, m))
    BY <1>1 DEF AcceptOnValue, Assign
  <1>3. QED
    BY <1>2, RequestFact, RequestPanel

(* The panel driver uses its queue as the request channel allows: in the   *)
(* composition, too, the configuration of the panels proceeds one request  *)
(* at a time and in order, each request is sent at most NumRetries + 1     *)
(* times, and it ends by its own response or by exhaustion.                *)
THEOREM PanelKeepsChannel == PanelSpec => [][RC!Next]_RC!chan
  <1>1. PanelIInv /\ [PanelNext]_pvars => [Next]_vars
    <2> SUFFICES ASSUME PanelIInv, [PanelNext]_pvars PROVE [Next]_vars
      OBVIOUS
    <2>1. CASE PanelThunk \/ PanelWorker
      <3>1. IInv /\ Running
        BY DEF PanelIInv, LoopIInv
      <3>2. QED
        BY <2>1, <3>1, WorkerStep DEF PanelThunk, RunThunk, PanelWorker
    <2>2. CASE PanelReceives
      <3>1. IInv /\ Running /\ HandlerTyped
        BY DEF PanelIInv, LoopIInv
      <3>2. QED
        BY <2>2, <3>1, NotifyStep DEF PanelReceives, OnAnything
    <2>3. CASE (\E p \in Panel : Greet(p)) \/ PanelObeys \/ BusLoses \/ UNCHANGED pvars
      BY <2>3 DEF Greet, PanelObeys, BusLoses, LoseCommand, LoseAnswer, pvars
    <2>4. QED
      BY <2>1, <2>2, <2>3, HandlersQueue, AcceptQueue DEF PanelNext, Driver, User
  <1>2. PanelIInv => IInv
    BY DEF PanelIInv, LoopIInv
  <1>3. QED
    BY <1>1, <1>2, StepRefines, PanelInvariance, PTL DEF PanelSpec

-----------------------------------------------------------------------------
(* With a timeout that exceeds the round trip.  The argument: at most one  *)
(* frame of the request in flight travels, be it the command, the answer   *)
(* on the bus, the answer in the handler's hands or the one in the queue;  *)
(* and every panel has at most one token, the request that is the next     *)
(* step of its configuration: queued, in flight, or answered and about to  *)
(* be applied.                                                             *)

Answer(m) == m.op # "greeting"
InHandler == stage = "apply" /\ Answer(job)
Live == cur # None /\ messages = <<>>

(* Nothing of the request in flight travels.                               *)
Quiet ==
  /\ toDevice = <<>> /\ messages = <<>> /\ stage # "notify"
  /\ \A i \in DOMAIN toDriver : ~Answer(toDriver[i])

(* The request r, or the answer to it, is the next step of its panel's     *)
(* configuration.                                                          *)
Due(r) ==
  /\ ~isNew[r.p]
  /\ r.op = "query" => \A k \in Button : received[r.p][k] <=> k < r.n
  /\ r.op # "query" => pendingB[r.p] # -1

(* The answer m tells the panel's state.                                   *)
Truthful(m) ==
  /\ m.op = "query" => m.v = panelV[m.p][m.n]
  /\ m.op = "assign" => m.n = pendingB[m.p] /\ panelV[m.p][m.n] = pendingV[m.p]

(* The frame f is the command of the request in flight, ...                *)
Carries(f) ==
  /\ f.op = cur.op /\ f.p = cur.p
  /\ f.op # "assign" => f = cur
  /\ f.op = "assign" => f.n = pendingB[f.p] /\ f.v = pendingV[f.p]

(* ... and m its answer.                                                   *)
Answers(m) ==
  /\ m.op = cur.op /\ m.p = cur.p
  /\ m.op = "query" => m.n = cur.n
  /\ Truthful(m)

(* At most one frame travels, and only while the worker waits.             *)
OneFrame ==
  /\ worker # "wait" => Quiet
  /\ Len(toDevice) <= 1 /\ Len(messages) <= 1
  /\ \A i, j \in DOMAIN toDriver :
       Answer(toDriver[i]) /\ Answer(toDriver[j]) => i = j
  /\ toDevice # <<>> => \A i \in DOMAIN toDriver : ~Answer(toDriver[i])
  /\ messages # <<>> \/ stage = "notify" =>
       toDevice = <<>> /\ \A i \in DOMAIN toDriver : ~Answer(toDriver[i])
  /\ messages # <<>> => stage # "notify"

(* The frame that travels belongs to the request in flight.                *)
InTransit ==
  /\ toDevice # <<>> => Carries(toDevice[1])
  /\ \A i \in DOMAIN toDriver : Answer(toDriver[i]) => Answers(toDriver[i])
  /\ stage = "notify" => Answers(job)
  /\ messages # <<>> => messages[1].op = cur.op

(* Every token is due, ...                                                 *)
TokensDue ==
  /\ \A i \in DOMAIN items : Due(items[i])
  /\ Live => Due(cur)
  /\ InHandler => Due(job) /\ Truthful(job)

(* ... and no panel has two.                                               *)
TokensApart ==
  /\ \A i, j \in DOMAIN items : items[i].p = items[j].p => i = j
  /\ Live => \A i \in DOMAIN items : items[i].p # cur.p
  /\ InHandler => \A i \in DOMAIN items : items[i].p # job.p
  /\ InHandler /\ Live => cur.p # job.p

(* A panel that is half discovered or has an assignment pending has a      *)
(* token, or a request of its own has failed.                              *)
HasToken(p) ==
  \/ \E i \in DOMAIN items : items[i].p = p
  \/ Live /\ cur.p = p
  \/ InHandler /\ job.p = p

Attended ==
  \A p \in Panel : (~isNew[p] /\ ~Known(p)) \/ pendingB[p] # -1 =>
     p \in failed \/ Dropped(p) \/ HasToken(p)

(* Nothing is known of a panel before its first greeting.                  *)
Greeted ==
  /\ \A p \in Panel : isNew[p] => \A k \in Button : ~received[p][k]
  /\ \A p \in Panel : ~isNew[p] => greetings[p] > 0
  /\ \A i \in DOMAIN toDriver : ~Answer(toDriver[i]) => greetings[toDriver[i].p] > 0
  /\ stage = "apply" /\ ~Answer(job) => greetings[job.p] > 0

(* A pending assignment is the driver's view of the button already.        *)
Pending ==
  \A p \in Panel : pendingB[p] # -1 =>
     pendingV[p] \in Relay /\ assigned[p][pendingB[p]] = pendingV[p]

Travel == OneFrame /\ InTransit
Tokens == TokensDue /\ TokensApart /\ Attended
Truth == Pending /\ seen = {} /\ ShownIsTrue /\ AssignedIsTrue
Room == Greeted /\ RoomForAll

PromptIInv == Travel /\ Tokens /\ Truth /\ Room

(* Types the steps below use.                                              *)
LEMMA Shapes ==
  ASSUME PanelIInv
  PROVE  /\ worker \in {"loop", "send", "wait"}
         /\ worker = "loop" <=> cur = None
         /\ cur # None => cur \in Item
         /\ items \in Seq(Item) /\ Len(items) <= QueueSize
         /\ messages \in Seq(Msg)
         /\ toDevice \in Seq(PanelFrame)
         /\ toDriver \in Seq(Msg \cup Unqueued)
         /\ stage # "idle" => job \in Msg \cup Unqueued
  BY WorkerPlaces DEF PanelIInv, LoopIInv, IInv, TypeOK, HandlerTyped,
                      InboundTyped, OutboundTyped

(* A timer that fires finds nothing under way: whatever travels has the    *)
(* opcode of the request in flight.                                        *)
LEMMA OverdueIsQuiet ==
  ASSUME Prompt, PanelIInv, Travel, Overdue
  PROVE  Quiet
  <1> USE DEF Travel, OneFrame, InTransit
  <1>1. \A f \in UnderWay : f.op # cur.op
    BY DEF Overdue
  <1>2. toDevice = <<>>
    <2> SUFFICES ASSUME toDevice # <<>> PROVE FALSE
      OBVIOUS
    <2>1. toDevice[1] \in Range(toDevice)
      BY Shapes DEF Range
    <2>2. QED
      BY <1>1, <2>1 DEF UnderWay, Carries
  <1>3. messages = <<>>
    <2> SUFFICES ASSUME messages # <<>> PROVE FALSE
      OBVIOUS
    <2>1. messages[1] \in Range(messages)
      BY Shapes DEF Range
    <2>2. QED
      BY <1>1, <2>1 DEF UnderWay
  <1>4. stage # "notify"
    BY <1>1, LoopAssumption DEF UnderWay, Answers, PanelIInv, LoopIInv, HandlerTyped
  <1>5. ASSUME NEW i \in DOMAIN toDriver PROVE ~Answer(toDriver[i])
    <2>1. toDriver[i] \in UnderWay
      BY DEF Range, UnderWay
    <2>2. QED
      BY <1>1, <2>1 DEF Answers
  <1>6. QED
    BY <1>2, <1>3, <1>4, <1>5 DEF Quiet

(* The thunk sends the one frame of the request in flight.                 *)
LEMMA ThunkPrompt == PanelIInv /\ PromptIInv /\ PanelThunk => PromptIInv'
  <1> SUFFICES ASSUME PanelIInv, PromptIInv, PanelThunk PROVE PromptIInv'
    OBVIOUS
  <1> USE DEF PromptIInv
  <1>1. PICK f \in Command : ToDevice(f)
    BY DEF PanelThunk, RunThunk
  <1>2. /\ worker = "send" /\ worker' = "wait" /\ cur \in Item
        /\ UNCHANGED <<items, messages, cur, stage, job, toDriver>>
    BY CommandFact DEF PanelThunk, RunThunk, RunItem
  <1>3. Quiet
    BY <1>2 DEF Travel, OneFrame
  <1>4. toDevice' = <<f>>
    BY <1>1, <1>3 DEF ToDevice, Quiet
  <1>5. UNCHANGED <<device, panel, user, history>> /\ seen' = {}
    BY DEF PanelThunk
  <1>6. Carries(f)
    <2>1. Due(cur)
      BY <1>2, <1>3, ItemAssumption DEF Tokens, TokensDue, Live, Quiet
    <2>2. CASE cur.op = "assign"
      <3>1. /\ pendingB[cur.p] \in Button /\ pendingV[cur.p] \in Relay
            /\ cur.p \in Panel
        BY <1>2, <2>1, <2>2, ItemFact
           DEF Due, Truth, Pending, PanelIInv, DeviceTyped
      <3>2. f = [op |-> "assign", p |-> cur.p, n |-> pendingB[cur.p] % 256,
                 v |-> pendingV[cur.p] % 256]
        BY <1>1, <2>2 DEF Command, AssignFrames, Truth
      <3>3. pendingB[cur.p] % 256 = pendingB[cur.p] /\ pendingV[cur.p] % 256 = pendingV[cur.p]
        BY <3>1, PanelAssumption DEF Button, Relay
      <3>4. QED
        BY <2>2, <3>2, <3>3 DEF Carries
    <2>3. CASE cur.op # "assign"
      BY <1>1, <2>3 DEF Command, Carries
    <2>4. QED
      BY <2>2, <2>3
  <1>7. Travel'
    BY <1>2, <1>3, <1>4, <1>5, <1>6
       DEF Travel, OneFrame, InTransit, Quiet, Carries, device
  <1>8. Tokens'
    BY <1>2, <1>5 DEF Tokens, TokensDue, TokensApart, Attended, HasToken, Live,
                      InHandler, Due, Truthful, Known, Dropped, device, panel, history
  <1>9. Truth' /\ Room'
    BY <1>2, <1>5 DEF Truth, Pending, ShownIsTrue, AssignedIsTrue, Room, Greeted,
                      RoomForAll, device, panel, user, history
  <1>10. QED
    BY <1>7, <1>8, <1>9

(* What the worker's other steps leave alone.                              *)
LEMMA WorkerLeaves ==
  ASSUME PanelWorker
  PROVE  /\ UNCHANGED <<stage, job, toDevice, toDriver>>
         /\ UNCHANGED <<received, assigned, isNew, pendingB, pendingV, shown>>
         /\ UNCHANGED <<panelV, panelOn, greetings, calls, seen, dropped>>
  BY DEF PanelWorker, WorkerTakes, WorkerRetries, WorkerReads, WorkerGivesUp,
         loop, bus, device, panel, user

(* The queue's worker touches neither the device models nor the panels.    *)
LEMMA WorkerTruthRoom ==
  ASSUME Truth, Room, PanelWorker
  PROVE  Truth' /\ Room'
  BY WorkerLeaves
     DEF Truth, Pending, ShownIsTrue, AssignedIsTrue, Room, Greeted, RoomForAll

(* Taking the next item makes its token the one in flight.                 *)
LEMMA TakesPrompt ==
  ASSUME PanelIInv, PromptIInv, PanelWorker, WorkerTakes
  PROVE  PromptIInv'
  <1> USE DEF PromptIInv
  <1>1. /\ worker = "loop" /\ worker' = "send" /\ items # <<>>
        /\ cur' = Head(items) /\ items' = Tail(items) /\ UNCHANGED messages
    BY DEF WorkerTakes, RunTakeItem
  <1>2. cur = None /\ Quiet
    BY <1>1, Shapes DEF Travel, OneFrame
  <1>3. /\ cur' = items[1] /\ 1 \in DOMAIN items
        /\ \A k \in DOMAIN items' : k + 1 \in DOMAIN items /\ items'[k] = items[k + 1]
        /\ \A k \in DOMAIN items : k = 1 \/ (k - 1 \in DOMAIN items' /\ items'[k - 1] = items[k])
        /\ DOMAIN items \subseteq Nat /\ DOMAIN items' \subseteq Nat \ {0}
    BY <1>1, Shapes
  <1>4. Travel'
    BY <1>1, <1>2, WorkerLeaves DEF Travel, OneFrame, InTransit, Quiet
  <1>5. cur' # None /\ messages' = <<>>
    BY <1>1, <1>2, Shapes, ItemAssumption DEF Quiet
  <1>6. TokensDue'
    BY <1>3, <1>5, WorkerLeaves
       DEF Tokens, TokensDue, Live, InHandler, Due, Truthful
  <1>7. TokensApart'
    BY <1>2, <1>3, <1>5, WorkerLeaves DEF Tokens, TokensApart, Live, InHandler
  <1>8. Attended'
    <2>1. UNCHANGED <<failed, dropped>>
      BY <1>1, WorkerLeaves DEF PanelWorker, WorkerGivesUp, ProcessGiveUp
    <2>2. ASSUME NEW p \in Panel, HasToken(p) PROVE HasToken(p)'
      BY <1>2, <1>3, <1>5, <2>2, WorkerLeaves DEF HasToken, Live, InHandler
    <2>3. QED
      BY <2>1, <2>2, WorkerLeaves DEF Tokens, Attended, Known, Dropped
  <1>9. QED
    BY <1>4, <1>6, <1>7, <1>8, WorkerTruthRoom DEF Tokens

(* A retry finds nothing under way, and changes nothing else.              *)
LEMMA RetriesPrompt ==
  ASSUME Prompt, PanelIInv, PromptIInv, PanelWorker, WorkerRetries
  PROVE  PromptIInv'
  <1> USE DEF PromptIInv
  <1>1. Quiet
    BY OverdueIsQuiet DEF WorkerRetries
  <1>2. UNCHANGED <<items, messages, cur, failed>>
    BY DEF WorkerRetries, ProcessRetry, PanelWorker, WorkerGivesUp, ProcessGiveUp
  <1>3. Travel'
    BY <1>1, <1>2, WorkerLeaves DEF Travel, OneFrame, InTransit, Quiet
  <1>4. Tokens'
    BY <1>2, WorkerLeaves DEF Tokens, TokensDue, TokensApart, Attended, HasToken,
                              Live, InHandler, Due, Truthful, Known, Dropped
  <1>5. QED
    BY <1>3, <1>4, WorkerTruthRoom

(* Giving up takes the token of a panel that fails.                        *)
LEMMA GivesUpPrompt ==
  ASSUME Prompt, PanelIInv, PromptIInv, PanelWorker, WorkerGivesUp
  PROVE  PromptIInv'
  <1> USE DEF PromptIInv
  <1>1. Quiet
    BY OverdueIsQuiet DEF WorkerGivesUp
  <1>2. worker' = "loop" /\ cur' = None /\ UNCHANGED <<items, messages>>
    BY DEF WorkerGivesUp, ProcessGiveUp
  <1>3. failed' = failed \cup {cur.p}
    BY <1>2, Shapes DEF PanelWorker, WorkerTakes, RunTakeItem, WorkerRetries, ProcessRetry,
           WorkerReads, RunIgnoreMessage, ProcessResponse, ProcessOther,
           WorkerGivesUp, ProcessGiveUp
  <1>4. Travel'
    BY <1>1, <1>2, WorkerLeaves DEF Travel, OneFrame, InTransit, Quiet
  <1>5. Tokens'
    BY <1>2, <1>3, WorkerLeaves DEF Tokens, TokensDue, TokensApart, Attended,
          HasToken, Live, InHandler, Due, Truthful, Known, Dropped
  <1>6. QED
    BY <1>4, <1>5, WorkerTruthRoom

(* The worker reads only the answer to the request in flight, which has    *)
(* lost its token to the handler by then.                                  *)
LEMMA ReadsPrompt ==
  ASSUME PanelIInv, PromptIInv, PanelWorker, WorkerReads
  PROVE  PromptIInv'
  <1> USE DEF PromptIInv
  <1>1. messages # <<>> /\ worker \in {"loop", "wait"}
    BY DEF WorkerReads, RunIgnoreMessage, ProcessResponse, ProcessOther
  <1>2. /\ worker = "wait" /\ stage # "notify" /\ toDevice = <<>>
        /\ \A i \in DOMAIN toDriver : ~Answer(toDriver[i])
        /\ messages[1].op = cur.op /\ Len(messages) <= 1
    BY <1>1 DEF Travel, OneFrame, InTransit, Quiet
  <1>3. IsResponse(cur, Head(messages))
    <2>1. cur \in Item /\ Head(messages) = messages[1] /\ messages[1] \in Msg
      BY <1>1, <1>2, Shapes
    <2>2. QED
      BY <1>2, <2>1, PanelWiring DEF SameOpcode
  <1>4. ProcessResponse
    BY <1>2, <1>3 DEF WorkerReads, RunIgnoreMessage, ProcessOther
  <1>5. messages' = <<>> /\ cur' = None /\ worker' = "loop" /\ UNCHANGED items
    <2>1. messages' = Tail(messages)
      BY <1>4 DEF ProcessResponse
    <2>2. Tail(messages) = <<>>
      BY <1>1, <1>2, Shapes
    <2>3. QED
      BY <1>4, <2>1, <2>2 DEF ProcessResponse
  <1>6. UNCHANGED failed
    BY <1>1, <1>4 DEF PanelWorker, WorkerGivesUp, ProcessGiveUp, ProcessResponse
  <1>7. Travel'
    BY <1>2, <1>5, WorkerLeaves DEF Travel, OneFrame, InTransit, Quiet
  <1>8. Tokens'
    BY <1>1, <1>5, <1>6, WorkerLeaves DEF Tokens, TokensDue, TokensApart, Attended,
          HasToken, Live, InHandler, Due, Truthful, Known, Dropped
  <1>9. QED
    BY <1>7, <1>8, WorkerTruthRoom

(* What happens between the bus, the panels and the handler leaves the     *)
(* queue's items and the device models alone.                              *)
LEMMA TransportLeaves ==
  ASSUME \/ PanelReceives \/ BusLoses \/ PanelObeys
  PROVE  /\ UNCHANGED <<items, worker, cur>>
         /\ UNCHANGED <<received, assigned, isNew, pendingB, pendingV, shown>>
         /\ UNCHANGED <<greetings, calls, seen, failed, dropped>>
  BY DEF PanelReceives, OnAnything, Notify, HandleReceivedMessage, BusLoses,
         LoseCommand, LoseAnswer, PanelObeys, vars, device, user, history

(* The messages behind the first move up.                                  *)
LEMMA InboundTail ==
  ASSUME PanelIInv, toDriver # <<>>, toDriver' = Tail(toDriver)
  PROVE  /\ Head(toDriver) = toDriver[1] /\ 1 \in DOMAIN toDriver
         /\ toDriver[1] \in Msg \cup Unqueued
         /\ \A k \in DOMAIN toDriver' :
              k + 1 \in DOMAIN toDriver /\ toDriver'[k] = toDriver[k + 1] /\ k \in Nat \ {0}
         /\ DOMAIN toDriver \subseteq Nat \ {0}
  BY Shapes

(* The driver's goroutine takes the first message off the bus: a frame     *)
(* that travelled is now in the handler's hands.                           *)
LEMMA OnAnythingPrompt ==
  ASSUME PanelIInv, PromptIInv, PanelReceives, OnAnything
  PROVE  PromptIInv'
  <1> USE DEF PromptIInv
  <1>1. /\ stage = "idle" /\ toDriver # <<>> /\ toDriver' = Tail(toDriver)
        /\ job' = toDriver[1] /\ UNCHANGED <<messages, toDevice, panelV>>
    BY InboundTail DEF OnAnything, PanelReceives, vars, panel
  <1>2. stage' = IF Answer(job') THEN "notify" ELSE "apply"
    BY <1>1, InboundTail, GreetingFact DEF OnAnything, Answer
  <1>3. ~InHandler /\ ~InHandler'
    BY <1>1, <1>2 DEF InHandler
  <1>4. OneFrame'
    <2>1. CASE Answer(job')
      <3>1. \A k \in DOMAIN toDriver' : ~Answer(toDriver'[k])
        BY <1>1, <2>1, InboundTail DEF Travel, OneFrame
      <3>2. worker = "wait" /\ toDevice = <<>> /\ messages = <<>>
        BY <1>1, <2>1, InboundTail DEF Travel, OneFrame, Quiet
      <3>3. QED
        BY <1>1, <1>2, <3>1, <3>2, TransportLeaves DEF OneFrame, Travel
    <2>2. CASE ~Answer(job')
      <3>1. \A k \in DOMAIN toDriver' : Answer(toDriver'[k]) => Answer(toDriver[k + 1])
        BY <1>1, InboundTail
      <3>2. QED
        BY <1>1, <1>2, <2>2, InboundTail, TransportLeaves DEF OneFrame, Travel, Quiet
    <2>3. QED
      BY <2>1, <2>2
  <1>5. InTransit'
    <2>1. stage' = "notify" => Answers(job)'
      BY <1>1, <1>2, InboundTail, TransportLeaves DEF Travel, InTransit, Answers, Truthful
    <2>2. \A k \in DOMAIN toDriver' : Answer(toDriver'[k]) => Answers(toDriver[k + 1])
      BY <1>1, InboundTail DEF Travel, InTransit
    <2>3. \A k \in DOMAIN toDriver' : Answer(toDriver'[k]) => Answers(toDriver[k])'
      BY <1>1, <2>2, InboundTail, TransportLeaves DEF Answers, Truthful
    <2>4. QED
      BY <1>1, <2>1, <2>3, TransportLeaves DEF Travel, InTransit, Carries
  <1>6. Tokens'
    BY <1>1, <1>3, TransportLeaves DEF Tokens, TokensDue, TokensApart, Attended,
          HasToken, Live, Due, Known, Dropped
  <1>7. Room'
    BY <1>1, <1>2, InboundTail, TransportLeaves DEF Room, Greeted, RoomForAll
  <1>8. QED
    BY <1>1, <1>4, <1>5, <1>6, <1>7, TransportLeaves
       DEF Travel, Truth, Pending, ShownIsTrue, AssignedIsTrue

(* The queue is told of the answer: the token passes from the request to   *)
(* the handler.                                                            *)
LEMMA NotifyPrompt ==
  ASSUME PanelIInv, PromptIInv, PanelReceives, Notify
  PROVE  PromptIInv'
  <1> USE DEF PromptIInv
  <1>1. /\ stage = "notify" /\ stage' = "apply" /\ messages' = Append(messages, job)
        /\ UNCHANGED <<job, toDevice, toDriver, panelV>>
    BY DEF Notify, HandleReceivedMessage, PanelReceives, bus, panel
  <1>2. /\ worker = "wait" /\ messages = <<>> /\ toDevice = <<>>
        /\ \A i \in DOMAIN toDriver : ~Answer(toDriver[i])
        /\ Answers(job)
    BY <1>1 DEF Travel, OneFrame, InTransit, Quiet
  <1>3. messages' = <<job>> /\ messages'[1] = job /\ messages' # <<>> /\ Len(messages') = 1
    BY <1>1, <1>2
  <1>4. Travel'
    BY <1>1, <1>2, <1>3, TransportLeaves DEF Travel, OneFrame, InTransit, Answers
  <1>5. Live /\ ~Live' /\ ~InHandler /\ InHandler'
    BY <1>1, <1>2, <1>3, Shapes, MsgFact
       DEF Live, InHandler, Answer, PanelIInv, LoopIInv, HandlerTyped
  <1>6. Due(job) /\ Truthful(job)
    BY <1>2, <1>5 DEF Tokens, TokensDue, Due, Answers
  <1>7. Tokens'
    BY <1>1, <1>2, <1>5, <1>6, TransportLeaves DEF Tokens, TokensDue, TokensApart,
         Attended, HasToken, Due, Truthful, Answers, Known, Dropped
  <1>8. Room'
    BY <1>1, <1>5, TransportLeaves DEF Room, Greeted, RoomForAll, InHandler
  <1>9. QED
    BY <1>1, <1>4, <1>7, <1>8, TransportLeaves
       DEF Truth, Pending, ShownIsTrue, AssignedIsTrue

(* A loss takes what travels; the token stays with the request.            *)
LEMMA LosesPrompt ==
  ASSUME PanelIInv, PromptIInv, BusLoses
  PROVE  PromptIInv'
  <1> USE DEF PromptIInv
  <1>1. UNCHANGED <<stage, job, messages, panelV>>
    BY DEF BusLoses, LoseCommand, LoseAnswer, vars, panel
  <1>2. Tokens' /\ Truth'
    BY <1>1, TransportLeaves DEF Tokens, TokensDue, TokensApart, Attended, HasToken,
         InHandler, Live, Due, Truthful, Known, Dropped, Truth, Pending, ShownIsTrue,
         AssignedIsTrue
  <1>3. CASE LoseCommand
    <2>1. toDevice' = <<>> /\ UNCHANGED toDriver
      BY <1>3, Shapes DEF LoseCommand, Travel, OneFrame
    <2>2. Travel' /\ Room'
      BY <1>1, <2>1, TransportLeaves DEF Travel, OneFrame, InTransit, Quiet, Answers,
           Truthful, Room, Greeted, RoomForAll
    <2>3. QED
      BY <1>2, <2>2
  <1>4. CASE LoseAnswer
    <2>1. toDriver # <<>> /\ toDriver' = Tail(toDriver) /\ UNCHANGED toDevice
      BY <1>4 DEF LoseAnswer
    <2>2. OneFrame'
      <3>1. \A k \in DOMAIN toDriver' : Answer(toDriver'[k]) => Answer(toDriver[k + 1])
        BY <2>1, InboundTail
      <3>2. QED
        BY <1>1, <2>1, <3>1, InboundTail, TransportLeaves DEF OneFrame, Travel, Quiet
    <2>3. InTransit'
      <3>1. \A k \in DOMAIN toDriver' : Answer(toDriver'[k]) => Answers(toDriver[k + 1])
        BY <2>1, InboundTail DEF Travel, InTransit
      <3>2. \A k \in DOMAIN toDriver' : Answer(toDriver'[k]) => Answers(toDriver[k])'
        BY <1>1, <2>1, <3>1, InboundTail, TransportLeaves DEF Answers, Truthful
      <3>3. QED
        BY <1>1, <2>1, <3>2, TransportLeaves
           DEF Travel, InTransit, Carries, Answers, Truthful
    <2>4. Room'
      BY <1>1, <2>1, InboundTail, TransportLeaves DEF Room, Greeted, RoomForAll
    <2>5. QED
      BY <1>2, <2>2, <2>3, <2>4 DEF Travel
  <1>5. QED
    BY <1>3, <1>4 DEF BusLoses

(* A panel's greeting joins the messages for the driver.                   *)
LEMMA InboundAppend ==
  ASSUME PanelIInv, NEW f, toDriver' = Append(toDriver, f)
  PROVE  /\ \A k \in DOMAIN toDriver' :
              \/ k \in DOMAIN toDriver /\ toDriver'[k] = toDriver[k]
              \/ k = Len(toDriver) + 1 /\ toDriver'[k] = f
         /\ \A k \in DOMAIN toDriver : k # Len(toDriver) + 1
  BY Shapes

(* More panels that have come to life make no queue overflow.              *)
LEMMA RoomGrows ==
  ASSUME PanelIInv, RoomForAll, UNCHANGED dropped,
         \A q \in Panel : greetings[q] > 0 => greetings'[q] > 0
  PROVE  RoomForAll'
  <1> DEFINE G == {q \in Panel : greetings[q] > 0}
             H == {q \in Panel : greetings'[q] > 0}
  <1>1. IsFiniteSet(H) /\ G \in SUBSET H
    BY FS_Subset, PanelAssumption
  <1>2. Cardinality(G) <= Cardinality(H) /\ Cardinality(G) \in Nat /\ Cardinality(H) \in Nat
    BY <1>1, FS_Subset, FS_CardinalityType
  <1>3. Cardinality(H) <= QueueSize => Cardinality(G) <= QueueSize
    BY <1>2, BoundsAssumption
  <1>4. QED
    BY <1>3 DEF RoomForAll

(* A panel's own messages travel besides the request in flight; a first    *)
(* one makes a place of the queue the panel's.                             *)
LEMMA GreetPrompt ==
  ASSUME PanelIInv, PromptIInv, NEW p \in Panel, Greet(p)
  PROVE  PromptIInv'
  <1> USE DEF PromptIInv
  <1>1. toDriver' = Append(toDriver, Greeting(p))
    BY DEF Greet, ToDriver
  <1>2. /\ UNCHANGED <<items, messages, worker, cur, stage, job, toDevice>>
        /\ UNCHANGED <<received, assigned, isNew, pendingB, pendingV, shown>>
        /\ UNCHANGED <<panelV, seen, failed, dropped>>
        /\ greetings' = [greetings EXCEPT ![p] = greetings[p] + 1]
    BY DEF Greet, vars, device, panel, history
  <1>3. \A q \in Panel : greetings[q] \in Nat
    BY PanelAssumption DEF PanelIInv, EnvTyped
  <1>4. /\ \A q \in Panel : greetings[q] > 0 => greetings'[q] > 0
        /\ greetings'[p] > 0
    BY <1>2, <1>3 DEF PanelIInv, EnvTyped
  <1>5. \A k \in DOMAIN toDriver' : Answer(toDriver'[k]) =>
          k \in DOMAIN toDriver /\ toDriver'[k] = toDriver[k]
    BY <1>1, InboundAppend DEF Answer, Greeting
  <1>6. Travel'
    BY <1>2, <1>5 DEF Travel, OneFrame, Quiet, InTransit, Carries, Answers, Truthful
  <1>7. Tokens' /\ Truth'
    BY <1>2 DEF Tokens, TokensDue, TokensApart, Attended, HasToken, InHandler, Live,
         Due, Truthful, Known, Dropped, Truth, Pending, ShownIsTrue, AssignedIsTrue
  <1>8. Greeted'
    <2>1. \A k \in DOMAIN toDriver' : ~Answer(toDriver'[k]) => greetings'[toDriver'[k].p] > 0
      <3> SUFFICES ASSUME NEW k \in DOMAIN toDriver', ~Answer(toDriver'[k])
                   PROVE  greetings'[toDriver'[k].p] > 0
        OBVIOUS
      <3>1. CASE k \in DOMAIN toDriver /\ toDriver'[k] = toDriver[k]
        <4>1. toDriver[k].p \in Panel
          BY <3>1, Shapes, GreetingFact
        <4>2. QED
          BY <1>4, <3>1, <4>1 DEF Room, Greeted
      <3>2. CASE toDriver'[k] = Greeting(p)
        BY <1>4, <3>2 DEF Greeting
      <3>3. QED
        BY <1>1, <3>1, <3>2, InboundAppend
    <2>2. stage = "apply" => job.p \in Panel
      BY JobFact
    <2>3. QED
      BY <1>2, <1>4, <2>1, <2>2 DEF Room, Greeted
  <1>9. QED
    BY <1>2, <1>4, <1>6, <1>7, <1>8, RoomGrows DEF Room

(* The panel's answer to the command tells its state, and an assignment    *)
(* changes the pending button alone.                                       *)
LEMMA ObeysPrompt ==
  ASSUME PanelIInv, PromptIInv, PanelObeys
  PROVE  PromptIInv'
  <1> USE DEF PromptIInv
  <1>1. toDevice # <<>> /\ UNCHANGED <<messages, stage, job>>
    BY DEF PanelObeys, vars
  <1>2. /\ worker = "wait" /\ messages = <<>> /\ stage # "notify" /\ Len(toDevice) <= 1
        /\ \A i \in DOMAIN toDriver : ~Answer(toDriver[i])
    BY <1>1 DEF Travel, OneFrame, Quiet
  <1>3. PICK f \in PanelFrame : f = Head(toDevice)
    BY OutboundShrinks DEF PanelIInv, PanelObeys
  <1>4. toDevice' = <<>> /\ Carries(f)
    <2>1. Tail(toDevice) = <<>> /\ f = toDevice[1]
      BY <1>1, <1>2, <1>3, Shapes
    <2>2. QED
      BY <1>1, <2>1 DEF PanelObeys, Travel, InTransit
  <1>5. Live /\ cur \in Item
    BY <1>2, Shapes DEF Live
  <1>6. f.p \in Panel /\ Due(cur) /\ f.p = cur.p /\ f.op = cur.op
    BY <1>4, <1>5, FrameFact DEF Carries, Tokens, TokensDue
  <1>7. InHandler => job.p # f.p
    BY <1>5, <1>6 DEF Tokens, TokensApart
  <1>8. \/ /\ f.op = "query"
           /\ ToDriver(QueryAnswer(f.p, f.n, panelV[f.p][f.n]))
           /\ UNCHANGED panelV
        \/ f.op = "modes" /\ ToDriver(ModesAnswer(f.p)) /\ UNCHANGED panelV
        \/ /\ f.op = "assign" /\ f.n = pendingB[f.p] /\ f.n \in Button
           /\ ToDriver(AssignAnswer(f.p, f.n))
           /\ panelV' = [panelV EXCEPT ![f.p][f.n] = pendingV[f.p]]
    <2>1. CASE f.op = "query"
      BY <1>3, <2>1 DEF PanelObeys, panel
    <2>2. CASE f.op = "modes"
      BY <1>3, <2>2 DEF PanelObeys
    <2>3. CASE f.op = "assign"
      <3>1. f.n = pendingB[f.p] /\ f.v = pendingV[f.p] /\ pendingB[f.p] # -1
        BY <1>4, <1>6, <2>3 DEF Carries, Due
      <3>2. f.n \in Button /\ f.v \in Relay
        BY <1>6, <3>1 DEF PanelIInv, DeviceTyped, Truth, Pending
      <3>3. QED
        BY <1>3, <2>3, <3>1, <3>2 DEF PanelObeys
    <2>4. QED
      BY <2>1, <2>2, <2>3, FrameFact
  <1>9. PICK m : ToDriver(m) /\ Answer(m) /\ Answers(m)'
    <2>1. CASE f.op = "query"
      <3>1. PICK m : m = QueryAnswer(f.p, f.n, panelV[f.p][f.n])
        OBVIOUS
      <3>2. m.op = "query" /\ m.p = f.p /\ m.n = f.n /\ m.v = panelV[f.p][f.n]
        BY <3>1 DEF QueryAnswer
      <3>3. ToDriver(m) /\ UNCHANGED panelV
        BY <1>8, <2>1, <3>1
      <3>4. f = cur
        BY <1>4, <2>1 DEF Carries
      <3>5. Answers(m)'
        BY <1>6, <2>1, <3>2, <3>3, <3>4, TransportLeaves DEF Answers, Truthful
      <3>6. QED
        BY <3>2, <3>3, <3>5 DEF Answer
    <2>2. CASE f.op = "modes"
      <3>1. PICK m : m = ModesAnswer(f.p)
        OBVIOUS
      <3>2. m.op = "modes" /\ m.p = f.p
        BY <3>1 DEF ModesAnswer
      <3>3. ToDriver(m)
        BY <1>8, <2>2, <3>1
      <3>4. Answers(m)'
        BY <1>6, <2>2, <3>2, TransportLeaves DEF Answers, Truthful
      <3>5. QED
        BY <3>2, <3>3, <3>4 DEF Answer
    <2>3. CASE f.op = "assign"
      <3>1. PICK m : m = AssignAnswer(f.p, f.n)
        OBVIOUS
      <3>2. m.op = "assign" /\ m.p = f.p /\ m.n = f.n
        BY <3>1 DEF AssignAnswer
      <3>3. /\ ToDriver(m) /\ f.n = pendingB[f.p] /\ f.n \in Button
            /\ panelV' = [panelV EXCEPT ![f.p][f.n] = pendingV[f.p]]
        BY <1>8, <2>3, <3>1
      <3>4. panelV'[f.p][f.n] = pendingV[f.p]
        BY <1>6, <3>3 DEF PanelIInv, EnvTyped
      <3>5. Answers(m)'
        BY <1>6, <2>3, <3>2, <3>3, <3>4, TransportLeaves DEF Answers, Truthful
      <3>6. QED
        BY <3>2, <3>3, <3>5 DEF Answer
    <2>4. QED
      BY <2>1, <2>2, <2>3, FrameFact
  <1>10. toDriver' = Append(toDriver, m)
    BY <1>9 DEF ToDriver
  <1>11. \A k \in DOMAIN toDriver' : Answer(toDriver'[k]) =>
           k = Len(toDriver) + 1 /\ toDriver'[k] = m
    BY <1>2, <1>10, InboundAppend
  <1>12. Travel'
    <2>1. OneFrame'
      BY <1>1, <1>2, <1>4, <1>11, TransportLeaves DEF Travel, OneFrame
    <2>2. InTransit'
      BY <1>1, <1>2, <1>4, <1>9, <1>11, TransportLeaves
         DEF InTransit, Answers, Truthful
    <2>3. QED
      BY <2>1, <2>2 DEF Travel
  <1>13. /\ \A q \in Panel : q # f.p => panelV'[q] = panelV[q]
         /\ \A k \in Button : k # pendingB[f.p] => panelV'[f.p][k] = panelV[f.p][k]
    BY <1>6, <1>8 DEF PanelIInv, EnvTyped
  <1>14. Tokens'
    <2>1. InHandler => Truthful(job)'
      <3>1. InHandler => job.p \in Panel
        BY JobFact DEF InHandler
      <3>2. QED
        BY <1>1, <1>7, <1>13, <3>1, TransportLeaves DEF Tokens, TokensDue, Truthful
    <2>2. QED
      BY <1>1, <2>1, TransportLeaves DEF Tokens, TokensDue, TokensApart, Attended,
           HasToken, InHandler, Live, Due, Known, Dropped
  <1>15. Truth'
    <2>1. \A q \in Panel, k \in Button : panelV'[q][k] = panelV[q][k] \/ pendingB[q] = k
      BY <1>13
    <2>2. QED
      BY <2>1, TransportLeaves DEF Truth, Pending, ShownIsTrue, AssignedIsTrue
  <1>16. Room'
    <2>1. \A k \in DOMAIN toDriver' : ~Answer(toDriver'[k]) =>
            k \in DOMAIN toDriver /\ toDriver'[k] = toDriver[k]
      BY <1>9, <1>10, InboundAppend
    <2>2. QED
      BY <1>1, <2>1, TransportLeaves DEF Room, Greeted, RoomForAll
  <1>17. QED
    BY <1>12, <1>14, <1>15, <1>16

-----------------------------------------------------------------------------
(* The handlers and the user.  Each changes the model of one panel, whose  *)
(* token it holds or which has none.                                       *)

(* A request joins the queue, or the queue is full.                        *)
LEMMA RequestMade ==
  ASSUME PanelIInv, NEW CONSTANT i \in Item, Request(i)
  PROVE  /\ UNCHANGED <<messages, worker, cur, failed>>
         /\ \/ /\ UNCHANGED dropped
               /\ \A k \in DOMAIN items : k \in DOMAIN items' /\ items'[k] = items[k]
               /\ \A k \in DOMAIN items' : k \in DOMAIN items \/ k = Len(items) + 1
               /\ Len(items) + 1 \in DOMAIN items' /\ items'[Len(items) + 1] = i
            \/ /\ UNCHANGED items
               /\ Len(items) = QueueSize /\ dropped' = dropped \cup {i}
  <1>1. UNCHANGED <<messages, worker, cur, failed>>
    BY DEF Request, EnqueueRequest
  <1>2. CASE Len(items) < QueueSize
    <2>1. items' = Append(items, i) /\ UNCHANGED dropped
      BY <1>2, Shapes, BoundsAssumption DEF Request, EnqueueRequest
    <2>2. QED
      BY <1>1, <2>1, Shapes
  <1>3. CASE ~(Len(items) < QueueSize)
    <2>1. Len(items) = QueueSize
      BY <1>3, Shapes, BoundsAssumption
    <2>2. QED
      BY <1>1, <1>3, <2>1 DEF Request, EnqueueRequest
  <1>4. QED
    BY <1>2, <1>3

(* The model of p alone changes.                                           *)
OnlyOf(p) ==
  \A q \in Panel \ {p} :
    /\ isNew'[q] = isNew[q] /\ received'[q] = received[q]
    /\ pendingB'[q] = pendingB[q] /\ pendingV'[q] = pendingV[q]

(* No request of p is queued or in flight.                                 *)
NoneOf(p) ==
  /\ \A k \in DOMAIN items : items[k].p # p
  /\ Live => cur.p # p

(* A panel without a token gets one, unless the queue is full.             *)
LEMMA NewToken ==
  ASSUME PanelIInv, Tokens, NEW CONSTANT i \in Item, Request(i), stage' = "idle",
         OnlyOf(i.p), NoneOf(i.p), InHandler => job.p = i.p, Due(i)'
  PROVE  Tokens'
  <1>1. /\ \A k \in DOMAIN items : items[k].p \in Panel \ {i.p} /\ Due(items[k])
        /\ Live => cur.p \in Panel \ {i.p} /\ Due(cur)
        /\ ~InHandler' /\ (Live' <=> Live) /\ cur' = cur
    BY Shapes, ItemFact, RequestMade DEF NoneOf, Tokens, TokensDue, Live, InHandler
  <1>2. \A k \in DOMAIN items' : Due(items[k])'
    <2> SUFFICES ASSUME NEW k \in DOMAIN items' PROVE Due(items[k])'
      OBVIOUS
    <2>1. CASE k \in DOMAIN items
      <3>1. items'[k] = items[k]
        BY <2>1, RequestMade
      <3>2. Due(items'[k])
        BY <1>1, <2>1, <3>1
      <3>3. QED
        BY <1>1, <2>1, <3>1, <3>2 DEF Due, OnlyOf
    <2>2. CASE k \notin DOMAIN items
      <3>1. items'[k] = i
        BY <2>2, RequestMade
      <3>2. QED
        BY <3>1 DEF Due
    <2>3. QED
      BY <2>1, <2>2
  <1>3. Live' => Due(cur)'
    BY <1>1 DEF Due, OnlyOf
  <1>4. TokensDue'
    BY <1>1, <1>2, <1>3 DEF TokensDue
  <1>5. TokensApart'
    BY <1>1, RequestMade DEF Tokens, TokensApart
  <1>6. Attended'
    <2> SUFFICES ASSUME NEW p \in Panel,
                        (~isNew[p] /\ ~Known(p))' \/ (pendingB[p] # -1)'
                 PROVE  (p \in failed \/ Dropped(p) \/ HasToken(p))'
      BY DEF Attended
    <2>1. CASE p = i.p
      BY <2>1, RequestMade DEF HasToken, Dropped
    <2>2. CASE p # i.p
      <3>1. (~isNew[p] /\ ~Known(p)) \/ pendingB[p] # -1
        BY <2>2 DEF OnlyOf, Known
      <3>2. p \in failed \/ Dropped(p) \/ HasToken(p)
        BY <3>1 DEF Tokens, Attended
      <3>3. QED
        BY <1>1, <2>2, <3>2, RequestMade DEF HasToken, Dropped
    <2>3. QED
      BY <2>1, <2>2
  <1>7. QED
    BY <1>4, <1>5, <1>6 DEF Tokens

(* A panel uses its token up: nothing is left to do for it.                *)
LEMMA TokenUsed ==
  ASSUME PanelIInv, Tokens, UNCHANGED <<items, messages, cur, failed, dropped>>,
         stage' = "idle", NEW CONSTANT p \in Panel, OnlyOf(p), NoneOf(p),
         InHandler => job.p = p, Known(p)', (pendingB[p] = -1)'
  PROVE  Tokens'
  <1>1. /\ \A k \in DOMAIN items : items[k].p \in Panel \ {p} /\ Due(items[k])
        /\ Live => cur.p \in Panel \ {p} /\ Due(cur)
        /\ ~InHandler' /\ (Live' <=> Live)
    BY Shapes, ItemFact DEF NoneOf, Tokens, TokensDue, Live, InHandler
  <1>2. TokensDue'
    BY <1>1 DEF TokensDue, Due, OnlyOf
  <1>3. TokensApart'
    BY <1>1 DEF Tokens, TokensApart
  <1>4. Attended'
    <2> SUFFICES ASSUME NEW q \in Panel,
                        (~isNew[q] /\ ~Known(q))' \/ (pendingB[q] # -1)'
                 PROVE  (q \in failed \/ Dropped(q) \/ HasToken(q))'
      BY DEF Attended
    <2>1. q # p
      OBVIOUS
    <2>2. (~isNew[q] /\ ~Known(q)) \/ pendingB[q] # -1
      BY <2>1 DEF OnlyOf, Known
    <2>3. q \in failed \/ Dropped(q) \/ HasToken(q)
      BY <2>2 DEF Tokens, Attended
    <2>4. QED
      BY <1>1, <2>1, <2>3 DEF HasToken, Dropped
  <1>5. QED
    BY <1>2, <1>3, <1>4 DEF Tokens

(* What travels belongs to another panel, and is left alone.               *)
LEMMA TravelKept ==
  ASSUME PanelIInv, Travel, NEW CONSTANT p \in Panel, OnlyOf(p),
         (Live => cur.p # p) \/ UNCHANGED <<pendingB, pendingV>>,
         UNCHANGED <<messages, cur, worker, toDevice, toDriver, panelV>>,
         stage # "notify", stage' = "idle"
  PROVE  Travel'
  <1>1. OneFrame'
    BY DEF Travel, OneFrame, Quiet
  <1>2. ASSUME ~Quiet, messages = <<>>
        PROVE  /\ pendingB'[cur.p] = pendingB[cur.p]
               /\ pendingV'[cur.p] = pendingV[cur.p]
    <2>1. worker = "wait"
      BY <1>2 DEF Travel, OneFrame
    <2>2. Live /\ cur.p \in Panel
      BY <1>2, <2>1, Shapes, ItemFact DEF Live
    <2>3. QED
      BY <2>2 DEF OnlyOf
  <1>3. toDevice # <<>> => Carries(toDevice[1])'
    BY <1>2 DEF Travel, OneFrame, InTransit, Quiet, Carries
  <1>4. \A k \in DOMAIN toDriver : Answer(toDriver[k]) => Answers(toDriver[k])'
    BY <1>2 DEF Travel, OneFrame, InTransit, Quiet, Answers, Truthful
  <1>5. InTransit'
    BY <1>3, <1>4 DEF Travel, InTransit
  <1>6. QED
    BY <1>1, <1>5 DEF Travel

(* The panels of the queued requests and one more are all alive: a full    *)
(* queue has fewer places than there are panels.                           *)
LEMMA FullQueue ==
  ASSUME PanelIInv, Tokens, Greeted, NEW CONSTANT p \in Panel, greetings[p] > 0,
         \A k \in DOMAIN items : items[k].p # p, Len(items) = QueueSize
  PROVE  ~(Cardinality({q \in Panel : greetings[q] > 0}) <= QueueSize)
  <1> DEFINE G == {q \in Panel : greetings[q] > 0}
             f == [k \in 1 .. QueueSize |-> items[k].p]
  <1>1. IsFiniteSet(G) /\ p \in G
    BY FS_Subset, PanelAssumption
  <1>2. /\ IsFiniteSet(G \ {p}) /\ Cardinality(G \ {p}) = Cardinality(G) - 1
        /\ Cardinality(G) \in Nat
    BY <1>1, FS_RemoveElement, FS_CardinalityType
  <1>3. DOMAIN items = 1 .. QueueSize
    BY Shapes
  <1>4. \A k \in 1 .. QueueSize : items[k].p \in G \ {p}
    <2> SUFFICES ASSUME NEW k \in 1 .. QueueSize PROVE items[k].p \in G \ {p}
      OBVIOUS
    <2>1. items[k] \in Item /\ Due(items[k])
      BY <1>3, Shapes DEF Tokens, TokensDue
    <2>2. items[k].p \in Panel /\ ~isNew[items[k].p]
      BY <2>1, ItemFact DEF Due
    <2>3. greetings[items[k].p] > 0
      BY <2>2 DEF Greeted
    <2>4. QED
      BY <1>3, <2>2, <2>3
  <1>5. \A j, k \in 1 .. QueueSize : f[j] = f[k] => j = k
    BY <1>3 DEF Tokens, TokensApart
  <1>6. f \in Injection(1 .. QueueSize, G \ {p})
    <2> HIDE DEF G
    <2>1. f \in [1 .. QueueSize -> G \ {p}]
      BY <1>4
    <2>2. DOMAIN f = 1 .. QueueSize
      OBVIOUS
    <2> HIDE DEF f
    <2>3. QED
      BY <1>5, <2>1, <2>2 DEF Injection, IsInjective
  <1>7. Cardinality(1 .. QueueSize) = QueueSize
    BY FS_Interval, BoundsAssumption
  <1>8. QueueSize <= Cardinality(G \ {p})
    <2> HIDE DEF G, f
    <2>1. QED
      BY <1>2, <1>6, <1>7, FS_Injection
  <1>9. ~(Cardinality(G) <= QueueSize)
    <2> HIDE DEF G
    <2>1. QED
      BY <1>2, <1>8, BoundsAssumption
  <1>10. QED
    BY <1>9

(* A request is dropped only when there are more panels than places.       *)
LEMMA RoomKept ==
  ASSUME PanelIInv, Tokens, Room, NEW CONSTANT i \in Item, Request(i),
         UNCHANGED greetings, greetings[i.p] > 0, NoneOf(i.p)
  PROVE  RoomForAll'
  <1>1. CASE UNCHANGED dropped
    BY <1>1 DEF Room, RoomForAll
  <1>2. CASE Len(items) = QueueSize
    <2>1. PICK p \in Panel : p = i.p
      BY ItemFact
    <2>2. ~(Cardinality({q \in Panel : greetings[q] > 0}) <= QueueSize)
      BY <1>2, <2>1, FullQueue DEF Room, NoneOf
    <2>3. QED
      BY <2>2 DEF RoomForAll
  <1>3. QED
    BY <1>1, <1>2, RequestMade

(* What every handler leaves alone.                                        *)
LEMMA HandlerLeaves ==
  ASSUME NEW CONSTANT op, Handler(op)
  PROVE  /\ stage = "apply" /\ stage' = "idle" /\ job.op = op
         /\ UNCHANGED <<toDevice, toDriver, panelV, greetings>>
  BY DEF Handler, HandlerReturns, bus, panel, user

(* A greeting starts the discovery of a panel that was not known.          *)
LEMMA GreetingPrompt ==
  ASSUME PanelIInv, PromptIInv, OnGreeting
  PROVE  PromptIInv'
  <1> USE DEF PromptIInv
  <1>1. /\ stage = "apply" /\ stage' = "idle" /\ job.op = "greeting"
        /\ UNCHANGED <<toDevice, toDriver, panelV, greetings>>
    BY HandlerLeaves DEF OnGreeting
  <1>2. PICK p \in Panel : p = job.p
    BY <1>1, JobFact
  <1>3. /\ isNew' = [isNew EXCEPT ![p] = FALSE]
        /\ UNCHANGED <<received, assigned, shown, pendingB, pendingV, seen>>
    BY <1>2 DEF OnGreeting, NotPending
  <1>4. OnlyOf(p) /\ ~isNew'[p]
    BY <1>3 DEF OnlyOf, PanelIInv, DeviceTyped
  <1>5. greetings[p] > 0 /\ ~InHandler
    BY <1>1, <1>2 DEF Room, Greeted, Answer, InHandler
  <1>6. Truth'
    BY <1>1, <1>3 DEF Truth, Pending, ShownIsTrue, AssignedIsTrue
  <1>7. Greeted'
    BY <1>1, <1>3, <1>4, <1>5 DEF Room, Greeted, OnlyOf
  <1>8. CASE isNew[p]
    <2>1. PICK i \in Item : i = QueryItem(p, 1)
      BY RequestFact, PanelAssumption DEF Button
    <2>2. Request(i) /\ i.p = p /\ i.op = "query" /\ i.n = 1
      BY <1>2, <1>8, <2>1 DEF OnGreeting, QueryItem
    <2>3. NoneOf(p)
      BY <1>8 DEF NoneOf, Tokens, TokensDue, Due
    <2>4. Due(i)'
      <3>1. \A k \in Button : ~received[p][k] /\ ~(k < 1)
        BY <1>8, PanelAssumption DEF Room, Greeted, Button
      <3>2. QED
        BY <1>3, <1>4, <2>2, <3>1 DEF Due
    <2>5. Tokens'
      BY <1>1, <1>4, <1>5, <2>2, <2>3, <2>4, NewToken
    <2>6. UNCHANGED <<messages, cur, worker>>
      BY <2>2, RequestMade
    <2>7. Travel'
      BY <1>1, <1>3, <1>4, <2>6, TravelKept
    <2>8. RoomForAll'
      BY <1>1, <1>5, <2>2, <2>3, RoomKept
    <2>9. QED
      BY <1>6, <1>7, <2>5, <2>7, <2>8 DEF Room
  <1>9. CASE ~isNew[p]
    <2>1. UNCHANGED <<items, messages, cur, worker, failed, dropped>>
      BY <1>2, <1>9 DEF OnGreeting, NoRequest, vars, history
    <2>2. Travel'
      BY <1>1, <1>3, <1>4, <2>1, TravelKept
    <2>3. UNCHANGED isNew
      BY <1>3, <1>9 DEF PanelIInv, DeviceTyped
    <2>4. ~InHandler'
      BY <1>1 DEF InHandler
    <2>5. Tokens'
      BY <1>3, <1>5, <2>1, <2>3, <2>4 DEF Tokens, TokensDue, TokensApart, Attended,
           HasToken, Live, Due, Known, Dropped
    <2>6. RoomForAll'
      BY <1>1, <2>1 DEF Room, RoomForAll
    <2>7. QED
      BY <1>6, <1>7, <2>2, <2>5, <2>6 DEF Room
  <1>10. QED
    BY <1>8, <1>9

(* The handler of an answer holds the token of its panel.                  *)
LEMMA HandlerHolds ==
  ASSUME PanelIInv, Tokens, InHandler
  PROVE  /\ job \in Msg /\ Due(job) /\ Truthful(job) /\ NoneOf(job.p)
  BY JobFact DEF InHandler, Answer, Tokens, TokensDue, TokensApart, NoneOf

(* The answer about a button makes it known and asks for the next.         *)
LEMMA QueryPrompt ==
  ASSUME PanelIInv, PromptIInv, OnQueryPanelButtonAssignmentResponse
  PROVE  PromptIInv'
  <1> USE DEF PromptIInv
  <1>1. /\ stage = "apply" /\ stage' = "idle" /\ job.op = "query"
        /\ UNCHANGED <<toDevice, toDriver, panelV, greetings>>
    BY HandlerLeaves DEF OnQueryPanelButtonAssignmentResponse
  <1>2. InHandler
    BY <1>1 DEF InHandler, Answer
  <1>3. PICK p \in Panel, n \in Button, v \in Value : p = job.p /\ n = job.n /\ v = job.v
    BY <1>1, <1>2, HandlerHolds, MsgFact
  <1>4. /\ NoneOf(p) /\ ~isNew[p] /\ v = panelV[p][n] /\ n \in Nat
        /\ \A k \in Button : received[p][k] <=> k < n
    BY <1>1, <1>2, <1>3, HandlerHolds DEF Due, Truthful, Button
  <1>5. /\ assigned' = [assigned EXCEPT ![p][n] = v]
        /\ shown' = [shown EXCEPT ![p][n] = v]
        /\ received' = [received EXCEPT ![p][n] = TRUE]
        /\ UNCHANGED <<pendingB, pendingV, seen, isNew>>
    BY <1>3 DEF OnQueryPanelButtonAssignmentResponse, ButtonKnown, NotPending
  <1>6. OnlyOf(p)
    BY <1>5 DEF OnlyOf, PanelIInv, DeviceTyped
  <1>7. \A k \in Button : received'[p][k] <=> k < n + 1
    <2>1. \A k \in Button : k < n + 1 <=> k < n \/ k = n
      BY <1>4 DEF Button
    <2>2. received'[p][n] = TRUE /\ \A k \in Button : k # n => received'[p][k] = received[p][k]
      BY <1>5 DEF PanelIInv, DeviceTyped
    <2>3. QED
      BY <1>4, <2>1, <2>2
  <1>8. pendingB[p] = -1
    BY <1>4 DEF PanelIInv, AnnouncedFirst, Known
  <1>9. Truth'
    <2>1. Pending'
      <3>1. \A q \in Panel : pendingB[q] # -1 => q # p
        BY <1>8
      <3>2. \A q \in Panel : q # p => assigned'[q] = assigned[q]
        BY <1>5 DEF PanelIInv, DeviceTyped
      <3>3. QED
        BY <1>5, <3>1, <3>2 DEF Truth, Pending
    <2>2. ShownIsTrue' /\ AssignedIsTrue'
      BY <1>1, <1>4, <1>5 DEF Truth, ShownIsTrue, AssignedIsTrue, PanelIInv, DeviceTyped
    <2>3. QED
      BY <1>5, <2>1, <2>2 DEF Truth
  <1>10. Greeted'
    BY <1>1, <1>4, <1>5, <1>6 DEF Room, Greeted, OnlyOf
  <1>11. greetings[p] > 0
    BY <1>4 DEF Room, Greeted
  <1>12. CASE n < NumButtons
    <2>1. PICK i \in Item : i = QueryItem(p, n + 1)
      BY <1>12, RequestFact, PanelAssumption DEF Button
    <2>2. Request(i) /\ i.p = p /\ i.op = "query" /\ i.n = n + 1
      BY <1>3, <1>12, <2>1 DEF OnQueryPanelButtonAssignmentResponse, QueryItem
    <2>3. Due(i)'
      BY <1>4, <1>5, <1>7, <2>2 DEF Due
    <2>4. Tokens'
      BY <1>1, <1>3, <1>4, <1>6, <2>2, <2>3, NewToken
    <2>5. UNCHANGED <<messages, cur, worker>>
      BY <2>2, RequestMade
    <2>6. Travel'
      BY <1>1, <1>5, <1>6, <2>5, TravelKept
    <2>7. RoomForAll'
      BY <1>1, <1>4, <1>11, <2>2, RoomKept
    <2>8. QED
      BY <1>9, <1>10, <2>4, <2>6, <2>7 DEF Room
  <1>13. CASE ~(n < NumButtons)
    <2>1. UNCHANGED <<items, messages, cur, worker, failed, dropped>>
      BY <1>3, <1>13 DEF OnQueryPanelButtonAssignmentResponse, NoRequest, vars, history
    <2>2. Travel'
      BY <1>1, <1>5, <1>6, <2>1, TravelKept
    <2>3. Known(p)' /\ (pendingB[p] = -1)'
      BY <1>5, <1>7, <1>8, <1>13, PanelAssumption DEF Known, Button
    <2>4. Tokens'
      BY <1>1, <1>3, <1>4, <1>6, <2>1, <2>3, TokenUsed
    <2>5. RoomForAll'
      BY <1>1, <2>1 DEF Room, RoomForAll
    <2>6. QED
      BY <1>9, <1>10, <2>2, <2>4, <2>5 DEF Room
  <1>14. QED
    BY <1>12, <1>13

(* The pending pair of p is overwritten while no thunk reads it.           *)
LEMMA SetPendingUnseen ==
  ASSUME PanelIInv, Travel, Truth, NEW p \in Panel, NEW b, NEW v,
         SetPending(p, b, v), NoneOf(p)
  PROVE  seen' = {}
  <1>1. ~(worker = "send" /\ cur.p = p)
    BY Shapes DEF Travel, OneFrame, Quiet, Live, NoneOf
  <1>2. QED
    BY <1>1 DEF SetPending, Truth

(* The answer to the modes asks for the pending assignment.                *)
LEMMA ModesPrompt ==
  ASSUME PanelIInv, PromptIInv, OnSetPanelButtonModesResponse
  PROVE  PromptIInv'
  <1> USE DEF PromptIInv
  <1>1. /\ stage = "apply" /\ stage' = "idle" /\ job.op = "modes"
        /\ UNCHANGED <<toDevice, toDriver, panelV, greetings>>
    BY HandlerLeaves DEF OnSetPanelButtonModesResponse
  <1>2. InHandler
    BY <1>1 DEF InHandler, Answer
  <1>3. PICK p \in Panel : p = job.p
    BY <1>1, JobFact
  <1>4. NoneOf(p) /\ ~isNew[p] /\ pendingB[p] # -1
    BY <1>1, <1>2, <1>3, HandlerHolds DEF Due
  <1>5. UNCHANGED <<received, assigned, isNew, pendingB, pendingV, shown, seen>>
    BY DEF OnSetPanelButtonModesResponse, device
  <1>6. OnlyOf(p)
    BY <1>5 DEF OnlyOf
  <1>7. pendingB[p] > 0
    BY <1>4 DEF PanelIInv, DeviceTyped, Button
  <1>8. PICK i \in Item : i = AssignItem(p)
    BY RequestFact
  <1>9. Request(i) /\ i.p = p /\ i.op = "assign"
    BY <1>3, <1>7, <1>8 DEF OnSetPanelButtonModesResponse, AssignItem
  <1>10. Due(i)'
    BY <1>4, <1>5, <1>9 DEF Due
  <1>11. Tokens'
    BY <1>1, <1>3, <1>4, <1>6, <1>9, <1>10, NewToken
  <1>12. UNCHANGED <<messages, cur, worker>>
    BY <1>9, RequestMade
  <1>13. Travel'
    BY <1>1, <1>5, <1>6, <1>12, TravelKept
  <1>14. Truth'
    BY <1>1, <1>5 DEF Truth, Pending, ShownIsTrue, AssignedIsTrue
  <1>15. Greeted'
    BY <1>1, <1>5 DEF Room, Greeted
  <1>16. RoomForAll'
    <2>1. greetings[i.p] > 0
      BY <1>4, <1>9 DEF Room, Greeted
    <2>2. QED
      BY <1>1, <1>4, <1>9, <2>1, RoomKept
  <1>17. QED
    BY <1>11, <1>13, <1>14, <1>15, <1>16 DEF Room

(* The answer to the assignment confirms what the panel has done.          *)
LEMMA AssignPrompt ==
  ASSUME PanelIInv, PromptIInv, OnAssignPanelButtonResponse
  PROVE  PromptIInv'
  <1> USE DEF PromptIInv
  <1>1. /\ stage = "apply" /\ stage' = "idle" /\ job.op = "assign"
        /\ UNCHANGED <<toDevice, toDriver, panelV, greetings>>
    BY HandlerLeaves DEF OnAssignPanelButtonResponse
  <1>2. InHandler
    BY <1>1 DEF InHandler, Answer
  <1>3. PICK p \in Panel, n \in Button : p = job.p /\ n = job.n
    BY <1>1, <1>2, HandlerHolds, MsgFact
  <1>4. /\ NoneOf(p) /\ ~isNew[p] /\ pendingB[p] = n /\ n # -1
        /\ panelV[p][n] = pendingV[p]
    BY <1>1, <1>2, <1>3, HandlerHolds DEF Due, Truthful
  <1>5. /\ shown' = [shown EXCEPT ![p][n] = pendingV[p]]
        /\ SetPending(p, -1, -1)
        /\ UNCHANGED <<received, assigned, isNew>>
    BY <1>3, <1>4 DEF OnAssignPanelButtonResponse
  <1>6. /\ OnlyOf(p) /\ pendingB'[p] = -1
        /\ \A q \in Panel : q # p => pendingB'[q] = pendingB[q] /\ pendingV'[q] = pendingV[q]
    BY <1>5 DEF OnlyOf, SetPending, PanelIInv, DeviceTyped
  <1>7. UNCHANGED <<items, messages, cur, worker, failed, dropped>>
    BY DEF OnAssignPanelButtonResponse, NoRequest, vars, history
  <1>8. Travel'
    BY <1>1, <1>4, <1>6, <1>7, TravelKept DEF NoneOf
  <1>9. Known(p)
    BY <1>4 DEF PanelIInv, AnnouncedFirst
  <1>10. Tokens'
    <2>1. Known(p)'
      BY <1>5, <1>9 DEF Known
    <2>2. QED
      BY <1>1, <1>3, <1>4, <1>6, <1>7, <2>1, TokenUsed
  <1>11. Truth'
    <2>1. seen' = {}
      BY <1>4, <1>5, SetPendingUnseen
    <2>2. Pending'
      BY <1>5, <1>6 DEF Truth, Pending
    <2>3. assigned[p][n] = panelV[p][n]
      BY <1>4 DEF Truth, Pending
    <2>4. AssignedIsTrue'
      BY <1>1, <1>4, <1>5, <1>6, <2>3 DEF Truth, AssignedIsTrue
    <2>5. ShownIsTrue'
      BY <1>1, <1>4, <1>5, <1>6 DEF Truth, ShownIsTrue, PanelIInv, DeviceTyped
    <2>6. QED
      BY <2>1, <2>2, <2>4, <2>5 DEF Truth
  <1>12. Room'
    BY <1>1, <1>5, <1>7 DEF Room, Greeted, RoomForAll
  <1>13. QED
    BY <1>8, <1>10, <1>11, <1>12

(* The user's value is accepted only for a panel without a token.          *)
LEMMA AcceptPrompt ==
  ASSUME PanelIInv, PromptIInv, NEW CONSTANT p \in Panel, NEW CONSTANT b \in Button,
         NEW CONSTANT v \in Relay, AcceptOnValue(p, b, v)
  PROVE  PromptIInv'
  <1> USE DEF PromptIInv
  <1>1. /\ stage = "idle" /\ stage' = "idle" /\ pendingB[p] <= 0 /\ Known(p)
        /\ UNCHANGED <<toDevice, toDriver, panelV, greetings, received, isNew, shown, job>>
        /\ assigned' = [assigned EXCEPT ![p][b] = v]
        /\ SetPending(p, b, v)
    BY DEF AcceptOnValue, Assign, Known, loop, bus, panel
  <1>2. pendingB[p] = -1 /\ b # -1
    BY <1>1 DEF PanelIInv, DeviceTyped, Button
  <1>3. PICK m \in Modes : m = [k \in Button |-> assigned'[p][k] \in Relay]
    BY ModesFact
  <1>4. PICK i \in Item : i = ModesItem(p, m)
    BY RequestFact
  <1>5. Request(i) /\ i.p = p /\ i.op = "modes"
    BY <1>3, <1>4 DEF AcceptOnValue, Assign, ModesItem
  <1>6. ASSUME NEW r \in Item, Due(r) PROVE r.p # p
    BY <1>1, <1>2, <1>6, ItemFact DEF Due, Known, Button
  <1>7. NoneOf(p)
    BY <1>6, Shapes DEF NoneOf, Tokens, TokensDue, Live
  <1>8. ~isNew[p]
    <2>1. 1 \in Button
      BY PanelAssumption DEF Button
    <2>2. QED
      BY <1>1, <2>1 DEF Known, Room, Greeted
  <1>9. /\ OnlyOf(p) /\ pendingB'[p] = b /\ pendingV'[p] = v
        /\ \A q \in Panel : q # p => pendingB'[q] = pendingB[q] /\ pendingV'[q] = pendingV[q]
    BY <1>1 DEF OnlyOf, SetPending, PanelIInv, DeviceTyped
  <1>10. Tokens'
    <2>1. Due(i)'
      BY <1>1, <1>2, <1>5, <1>8, <1>9 DEF Due
    <2>2. ~InHandler
      BY <1>1 DEF InHandler
    <2>3. QED
      BY <1>1, <1>5, <1>7, <1>9, <2>1, <2>2, NewToken
  <1>11. Travel'
    <2>1. UNCHANGED <<messages, cur, worker>>
      BY <1>5, RequestMade
    <2>2. QED
      BY <1>1, <1>7, <1>9, <2>1, TravelKept DEF NoneOf
  <1>12. Truth'
    <2>1. seen' = {}
      BY <1>1, <1>7, SetPendingUnseen
    <2>2. /\ assigned'[p][b] = v
          /\ \A k \in Button : k # b => assigned'[p][k] = assigned[p][k]
          /\ \A q \in Panel : q # p => assigned'[q] = assigned[q]
      BY <1>1 DEF PanelIInv, DeviceTyped
    <2>3. Pending'
      BY <1>9, <2>2 DEF Truth, Pending
    <2>4. AssignedIsTrue'
      BY <1>1, <1>2, <1>9, <2>2 DEF Truth, AssignedIsTrue, Button
    <2>5. ShownIsTrue'
      BY <1>1, <1>2, <1>9 DEF Truth, ShownIsTrue, Button
    <2>6. QED
      BY <2>1, <2>3, <2>4, <2>5 DEF Truth
  <1>13. Greeted'
    BY <1>1 DEF Room, Greeted
  <1>14. RoomForAll'
    <2>1. greetings[i.p] > 0
      BY <1>5, <1>8 DEF Room, Greeted
    <2>2. QED
      BY <1>1, <1>5, <1>7, <2>1, RoomKept
  <1>15. QED
    BY <1>10, <1>11, <1>12, <1>13, <1>14 DEF Room

(* At the start nothing travels, and no panel has a token or needs one.    *)
LEMMA PromptStarts == PanelInit => PromptIInv
  <1> SUFFICES ASSUME PanelInit PROVE PromptIInv
    OBVIOUS
  <1> USE DEF PanelInit, LoopInit
  <1>1. Travel
    BY DEF Travel, OneFrame, InTransit, Quiet
  <1>2. Tokens
    BY DEF Tokens, TokensDue, TokensApart, Attended, Live, InHandler
  <1>3. Truth
    BY DEF Truth, Pending, ShownIsTrue, AssignedIsTrue
  <1>4. Room
    BY DEF Room, Greeted, RoomForAll
  <1>5. QED
    BY <1>1, <1>2, <1>3, <1>4 DEF PromptIInv

(* Every step preserves the invariant when the timeout is long enough.     *)
LEMMA StepPrompt ==
  ASSUME Prompt, PanelIInv, PromptIInv, [PanelNext]_pvars
  PROVE  PromptIInv'
  <1>1. CASE UNCHANGED pvars
    BY <1>1 DEF pvars, vars, loop, bus, device, panel, user, history, PromptIInv,
         Travel, OneFrame, InTransit, Quiet, Carries, Answers, Tokens, TokensDue,
         TokensApart, Attended, HasToken, Live, InHandler, Due, Truthful, Known, Dropped,
         Truth, Pending, ShownIsTrue, AssignedIsTrue, Room, Greeted, RoomForAll
  <1>2. CASE PanelWorker
    BY <1>2, TakesPrompt, RetriesPrompt, ReadsPrompt, GivesUpPrompt DEF PanelWorker
  <1>3. CASE PanelReceives
    BY <1>3, OnAnythingPrompt, NotifyPrompt DEF PanelReceives
  <1>4. CASE PanelThunk \/ BusLoses \/ PanelObeys
    BY <1>4, ThunkPrompt, LosesPrompt, ObeysPrompt
  <1>5. CASE \/ OnGreeting \/ OnQueryPanelButtonAssignmentResponse
             \/ OnSetPanelButtonModesResponse \/ OnAssignPanelButtonResponse
    BY <1>5, GreetingPrompt, QueryPrompt, ModesPrompt, AssignPrompt
  <1>6. CASE User \/ \E p \in Panel : Greet(p)
    BY <1>6, AcceptPrompt, GreetPrompt DEF User
  <1>7. QED
    BY <1>1, <1>2, <1>3, <1>4, <1>5, <1>6 DEF PanelNext, Driver

(* When the timeout exceeds the round trip, one frame at most travels for  *)
(* the request in flight and no panel has two requests under way.          *)
THEOREM PromptInvariance ==
  ASSUME Prompt
  PROVE  PanelSpec => []PromptIInv
  <1>1. PanelIInv /\ PromptIInv /\ [PanelNext]_pvars => PromptIInv'
    BY StepPrompt
  <1>2. QED
    BY PromptStarts, <1>1, PanelInvariance, PTL DEF PanelSpec

(* When the timeout exceeds the round trip, the value that MQTT shows of a *)
(* button is the panel's own unless an assignment of it is pending,        *)
(* whatever is lost, retried or given up.                                  *)
THEOREM PanelShowsTruth ==
  ASSUME Prompt
  PROVE  PanelSpec => []ShownIsTrue
  <1>1. PromptIInv => ShownIsTrue
    BY DEF PromptIInv, Truth
  <1>2. QED
    BY <1>1, PromptInvariance, PTL

(* Under the same condition the assignment that SetPanelButtonModes is     *)
(* computed from is the panel's own, but for the pending button.           *)
THEOREM PanelAssignsTruth ==
  ASSUME Prompt
  PROVE  PanelSpec => []AssignedIsTrue
  <1>1. PromptIInv => AssignedIsTrue
    BY DEF PromptIInv, Truth
  <1>2. QED
    BY <1>1, PromptInvariance, PTL

(* Under the same condition a panel stays half discovered, or an           *)
(* assignment pending, only when a request of that panel was given up      *)
(* after its retries or dropped by a full queue.                           *)
THEOREM PanelStuckOnlyByFailure ==
  ASSUME Prompt
  PROVE  PanelSpec => []StuckOnlyByFailure
  <1>1. PromptIInv => StuckOnlyByFailure
    <2> SUFFICES ASSUME PromptIInv, Settled, NEW p \in Panel,
                        (~isNew[p] /\ ~Known(p)) \/ pendingB[p] # -1
                 PROVE  p \in failed \/ Dropped(p)
      BY DEF StuckOnlyByFailure
    <2>1. p \in failed \/ Dropped(p) \/ HasToken(p)
      BY DEF PromptIInv, Tokens, Attended
    <2>2. ~HasToken(p)
      BY DEF Settled, HasToken, Live, InHandler
    <2>3. QED
      BY <2>1, <2>2
  <1>2. QED
    BY <1>1, PromptInvariance, PTL

(* Under the same condition a queue with a place for each panel that has   *)
(* come to life drops no request: each panel has one under way at most.    *)
THEOREM PanelHasRoom ==
  ASSUME Prompt
  PROVE  PanelSpec => []RoomForAll
  <1>1. PromptIInv => RoomForAll
    BY DEF PromptIInv, Room
  <1>2. QED
    BY <1>1, PromptInvariance, PTL
=============================================================================
