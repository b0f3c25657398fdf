---------------------------- MODULE PanelDriver -----------------------------
(***************************************************************************)
(* DDP wall panels and the driver: DDPDeviceModel of smartbus_model.go on  *)
(* top of the driver's loop, with the panels as the environment.           *)
(*                                                                         *)
(* The driver's goroutine and the thunks on the queue's worker both touch  *)
(* a device model, and all panels share one request queue and one bus.     *)
(***************************************************************************)
EXTENDS DriverLoop, FiniteSets

CONSTANTS
  Panel,         \* the panels, each at an address of its own
  NumButtons,    \* PANEL_BUTTON_COUNT
  NumRelays,     \* NUM_VIRTUAL_RELAYS
  MaxGreetings,  \* how often a panel announces itself
  MaxUserCalls   \* how many values the user sets

ASSUME PanelAssumption ==
  /\ NumButtons \in 1 .. 254 /\ NumRelays \in 1 .. 254
  /\ MaxGreetings \in Nat /\ MaxUserCalls \in Nat
  /\ IsFiniteSet(Panel)

Button == 1 .. NumButtons
Relay == 1 .. NumRelays
Value == Relay \cup {-1}   \* -1: the button commands something else

ASSUME NoValueAssumption == None \notin Value

(* The requests: queryButton(n), SetPanelButtonModes, AssignPanelButton.   *)
Modes == [Button -> BOOLEAN]   \* TRUE for SingleOnOff, FALSE for Invalid
QueryItem(p, n) == [op |-> "query", p |-> p, n |-> n]
ModesItem(p, m) == [op |-> "modes", p |-> p, on |-> m]
AssignItem(p) == [op |-> "assign", p |-> p]
PanelItem ==
  {QueryItem(p, n) : p \in Panel, n \in Button}
    \cup {ModesItem(p, m) : p \in Panel, m \in Modes}
    \cup {AssignItem(p) : p \in Panel}

(* A panel's messages: its announcements and its answers.                  *)
Greeting(p) == [op |-> "greeting", p |-> p]   \* ReadMACAddressResponse, QueryModules
QueryAnswer(p, n, v) == [op |-> "query", p |-> p, n |-> n, v |-> v]
ModesAnswer(p) == [op |-> "modes", p |-> p]
AssignAnswer(p, n) == [op |-> "assign", p |-> p, n |-> n]
PanelMsg ==
  {QueryAnswer(p, n, v) : p \in Panel, n \in Button, v \in Value}
    \cup {AssignAnswer(p, n) : p \in Panel, n \in Button}
    \cup {ModesAnswer(p) : p \in Panel}

PanelUnqueued == {Greeting(p) : p \in Panel}

(* Request.IsResponse compares opcodes, nothing else.                      *)
SameOpcode(i, m) == i.op = m.op

(* The queue and the loop serve the panels.                                *)
ASSUME PanelWiring ==
  /\ Item = PanelItem /\ Msg = PanelMsg /\ Unqueued = PanelUnqueued
  /\ \A i \in PanelItem, m \in PanelMsg : IsResponse(i, m) <=> SameOpcode(i, m)

(* The device models and the panels, by panel.                             *)
VARIABLES
  received,   \* buttonAssignmentReceived
  assigned,   \* buttonAssignment
  isNew,      \* isNew
  pendingB,   \* pendingAssignmentButtonNo
  pendingV,   \* pendingAssignment
  shown,      \* what MQTT shows of each button; None before OnNewControl
  panelV,     \* the panel's button assignments
  panelOn,    \* the panel's button modes
  greetings,  \* announcements made
  calls,      \* values set by the user
  seen,       \* values of the pending pair overwritten while its thunk runs
  failed,     \* history: the panels that a request was given up for
  dropped     \* history: the requests that a full queue dropped

device == <<received, assigned, isNew, pendingB, pendingV, shown>>
panel == <<panelV, panelOn>>
user == <<greetings, calls>>
history == <<failed, dropped>>
pvars == <<vars, loop, device, panel, user, seen, history>>

PanelTypeOK ==
  /\ LoopTypeOK
  /\ received \in [Panel -> [Button -> BOOLEAN]]
  /\ assigned \in [Panel -> [Button -> Value \cup {0}]]
  /\ isNew \in [Panel -> BOOLEAN]
  /\ pendingB \in [Panel -> Button \cup {-1}]
  /\ pendingV \in [Panel -> Relay \cup {-1}]
  /\ shown \in [Panel -> [Button -> Value \cup {None}]]
  /\ panelV \in [Panel -> [Button -> Value]]
  /\ panelOn \in [Panel -> Modes]
  /\ greetings \in [Panel -> 0 .. MaxGreetings]
  /\ calls \in 0 .. MaxUserCalls
  /\ seen \subseteq (Button \cup {-1}) \X (Relay \cup {-1})
  /\ failed \subseteq Panel /\ dropped \subseteq PanelItem

(* Device models just made; panels that have some configuration already.   *)
PanelInit ==
  /\ LoopInit
  /\ received = [p \in Panel |-> [b \in Button |-> FALSE]]
  /\ assigned = [p \in Panel |-> [b \in Button |-> 0]]
  /\ isNew = [p \in Panel |-> TRUE]
  /\ pendingB = [p \in Panel |-> -1] /\ pendingV = [p \in Panel |-> -1]
  /\ shown = [p \in Panel |-> [b \in Button |-> None]]
  /\ panelV \in [Panel -> [Button -> Value]]
  /\ panelOn = [p \in Panel |-> [b \in Button |-> panelV[p][b] \in Relay]]
  /\ greetings = [p \in Panel |-> 0] /\ calls = 0
  /\ seen = {}
  /\ failed = {} /\ dropped = {}

-----------------------------------------------------------------------------
(* The queue's worker.  Most thunks send what the request says.  That of   *)
(* AssignPanelButton reads the pending pair without a lock while the       *)
(* driver's goroutine may write it: it gets each half from any of the      *)
(* values the half had while the thunk ran.                                *)

AssignFrames(p) ==
  LET held == seen \cup {<<pendingB[p], pendingV[p]>>}
  IN  {[op |-> "assign", p |-> p, n |-> x[1] % 256, v |-> y[2] % 256] :
         x \in held, y \in held}

Command == IF cur.op = "assign" THEN AssignFrames(cur.p) ELSE {cur}

(* The device models are not touched by the worker.                        *)
PanelThunk ==
  RunThunk(Command) /\ seen' = {} /\ UNCHANGED <<device, panel, user, history>>

PanelWorker ==
  /\ \/ (WorkerTakes \/ WorkerRetries \/ WorkerReads) /\ UNCHANGED failed
     \/ WorkerGivesUp /\ failed' = failed \cup {cur.p}
  /\ UNCHANGED <<device, panel, user, seen, dropped>>

-----------------------------------------------------------------------------
(* The driver's goroutine.                                                 *)

(* enqueueRequest, with the history of the requests that it drops.         *)
Request(i) ==
  /\ EnqueueRequest(i)
  /\ dropped' = IF Len(items) = QueueSize THEN dropped \cup {i} ELSE dropped
  /\ UNCHANGED failed

NoRequest == UNCHANGED <<vars, history>>

SetPending(p, b, v) ==
  /\ pendingB' = [pendingB EXCEPT ![p] = b]
  /\ pendingV' = [pendingV EXCEPT ![p] = v]
  /\ seen' = IF worker = "send" /\ cur.p = p
                THEN seen \cup {<<pendingB[p], pendingV[p]>>} ELSE seen

NotPending == UNCHANGED <<pendingB, pendingV, seen>>

(* A message is taken from the connection and given to the queue.          *)
PanelReceives ==
  (OnAnything \/ Notify) /\ UNCHANGED <<device, panel, user, seen, history>>

Handler(op) ==
  /\ HandlerReturns
  /\ job.op = op
  /\ UNCHANGED <<bus, panel, user>>

(* Faulty: every greeting starts a discovery.                              *)
GreetingAlwaysQueries ==
  /\ Handler("greeting")
  /\ isNew' = [isNew EXCEPT ![job.p] = FALSE]
  /\ Request(QueryItem(job.p, 1))
  /\ NotPending
  /\ UNCHANGED <<received, assigned, shown>>

(* OnReadMACAddressResponse, OnQueryModules: queryButtons.                 *)
OnGreeting ==
  /\ Handler("greeting")
  /\ isNew' = [isNew EXCEPT ![job.p] = FALSE]
  /\ IF isNew[job.p] THEN Request(QueryItem(job.p, 1)) ELSE NoRequest
  /\ NotPending
  /\ UNCHANGED <<received, assigned, shown>>

(* The panel names its own buttons and function 1, as it was asked to; the *)
(* handler drops every other answer after it has told the queue.           *)
ButtonKnown(p, n, v) ==
  /\ assigned' = [assigned EXCEPT ![p][n] = v]
  /\ shown' = [shown EXCEPT ![p][n] = v]
  /\ received' = [received EXCEPT ![p][n] = TRUE]
  /\ NotPending
  /\ UNCHANGED isNew

(* Faulty: asks for one button too many ...                                *)
QueryPastLastButton ==
  /\ Handler("query")
  /\ ButtonKnown(job.p, job.n, job.v)
  /\ IF job.n <= NumButtons THEN Request(QueryItem(job.p, job.n + 1))
                           ELSE NoRequest

(* ... or for one too few.                                                 *)
QueryStopsShort ==
  /\ Handler("query")
  /\ ButtonKnown(job.p, job.n, job.v)
  /\ IF job.n + 1 < NumButtons THEN Request(QueryItem(job.p, job.n + 1))
                               ELSE NoRequest

OnQueryPanelButtonAssignmentResponse ==
  /\ Handler("query")
  /\ ButtonKnown(job.p, job.n, job.v)
  /\ IF job.n < NumButtons THEN Request(QueryItem(job.p, job.n + 1))
                           ELSE NoRequest

OnSetPanelButtonModesResponse ==
  /\ Handler("modes")
  /\ IF pendingB[job.p] > 0 THEN Request(AssignItem(job.p)) ELSE NoRequest
  /\ UNCHANGED <<device, seen>>


OnAssignPanelButtonResponse ==
  /\ Handler("assign")
  /\ \/ /\ job.n = pendingB[job.p]
        /\ shown' = [shown EXCEPT ![job.p][job.n] = pendingV[job.p]]
        /\ SetPending(job.p, -1, -1)
     \/ /\ job.n # pendingB[job.p]
        /\ NotPending
        /\ UNCHANGED shown
  /\ NoRequest
  /\ UNCHANGED <<received, assigned, isNew>>

(* The pending pair is set after the request is queued.                    *)
Assign(p, b, v) ==
  /\ stage = "idle"
  /\ calls < MaxUserCalls
  /\ assigned' = [assigned EXCEPT ![p][b] = v]
  /\ Request(ModesItem(p, [k \in Button |-> assigned'[p][k] \in Relay]))
  /\ SetPending(p, b, v)
  /\ calls' = calls + 1
  /\ UNCHANGED <<received, isNew, shown, loop, panel, greetings>>

(* Faulty: accepts a value while an assignment is pending ...              *)
AcceptWhilePending(p, b, v) ==
  (\A k \in Button : received[p][k]) /\ Assign(p, b, v)

(* ... or before all buttons are known.                                    *)
AcceptBeforeKnown(p, b, v) == pendingB[p] <= 0 /\ Assign(p, b, v)

(* The user sets a button; refused while an assignment is pending or the   *)
(* panel is not known completely.                                          *)
AcceptOnValue(p, b, v) ==
  /\ pendingB[p] <= 0
  /\ \A k \in Button : received[p][k]
  /\ Assign(p, b, v)

-----------------------------------------------------------------------------
(* The environment: the panels and the bus.                                *)

Greet(p) ==
  /\ greetings[p] < MaxGreetings
  /\ ToDriver(Greeting(p))
  /\ greetings' = [greetings EXCEPT ![p] = greetings[p] + 1]
  /\ UNCHANGED <<vars, device, seen, history, stage, job, toDevice, panel, calls>>

(* A panel obeys a command and answers it; it ignores one that names no    *)
(* button of its own.                                                      *)
PanelObeys ==
  /\ toDevice # <<>>
  /\ toDevice' = Tail(toDevice)
  /\ LET f == Head(toDevice) IN
       \/ /\ f.op = "query"
          /\ ToDriver(QueryAnswer(f.p, f.n, panelV[f.p][f.n]))
          /\ UNCHANGED panel
       \/ /\ f.op = "modes"
          /\ ToDriver(ModesAnswer(f.p))
          /\ panelOn' = [panelOn EXCEPT ![f.p] = f.on]
          /\ UNCHANGED panelV
       \/ /\ f.op = "assign" /\ f.n \in Button
          /\ ToDriver(AssignAnswer(f.p, f.n))
          /\ panelV' = [panelV EXCEPT
                          ![f.p][f.n] = IF f.v \in Relay THEN f.v ELSE -1]
          /\ UNCHANGED panelOn
       \/ /\ f.op = "assign" /\ f.n \notin Button
          /\ UNCHANGED <<toDriver, panel>>
  /\ UNCHANGED <<vars, device, seen, history, stage, job, user>>

BusLoses ==
  (LoseCommand \/ LoseAnswer) /\ UNCHANGED <<device, panel, user, seen, history>>

-----------------------------------------------------------------------------
Driver ==
  \/ PanelReceives
  \/ OnGreeting \/ OnQueryPanelButtonAssignmentResponse
  \/ OnSetPanelButtonModesResponse \/ OnAssignPanelButtonResponse

User == \E p \in Panel, b \in Button, v \in Relay : AcceptOnValue(p, b, v)

PanelNext ==
  \/ PanelThunk \/ PanelWorker \/ Driver \/ User
  \/ \E p \in Panel : Greet(p)
  \/ PanelObeys \/ BusLoses

PanelSpec == PanelInit /\ [][PanelNext]_pvars

(* The goroutines and the panels go on, timers fire, select is fair; every *)
(* panel is powered up at some time.                                       *)
PanelFairness ==
  /\ WF_pvars(PanelThunk)
  /\ WF_pvars(PanelWorker /\ WorkerTakes)
  /\ WF_pvars(PanelWorker /\ (WorkerRetries \/ WorkerGivesUp))
  /\ SF_pvars(PanelWorker /\ WorkerReads)
  /\ WF_pvars(Driver) /\ WF_pvars(PanelObeys)
  /\ \A p \in Panel : WF_pvars(Greet(p))

PanelFairSpec == PanelSpec /\ PanelFairness
=============================================================================
