-------------------------- MODULE QueueProperties ---------------------------
(***************************************************************************)
(* What the message queue is checked and proved to satisfy.                *)
(***************************************************************************)
EXTENDS MessageQueue

(* After Stop has returned nothing of the worker is left: it neither sends *)
(* nor waits, and no timer is armed.  SmartbusModel.Stop closes the        *)
(* writer's channel right after it; a command sent later would be a send   *)
(* on a closed channel.                                                    *)
QuietWhenStopped ==
  ~active /\ mutex = "free" => worker = "none" /\ cur = None /\ timers = 0

(* Start finds no worker of an earlier Start, so that two workers never    *)
(* share the queue, and so never send commands side by side.               *)
SingleWorker == mutex = "start" => worker = "none"

(* A timer is armed exactly while the worker waits for a response: every   *)
(* way out of processItem stops or consumes the timer, and a retry arms    *)
(* one.                                                                    *)
TimerDiscipline == timers = IF worker = "wait" THEN 1 ELSE 0

(* How the three flags of the queue and its worker go together.            *)
Lifecycle ==
  /\ mutex = "start" => active /\ worker = "none"
  /\ mutex = "stop" => ~active /\ worker # "none"
  /\ mutex = "free" => IF active THEN worker \in {"loop", "send", "wait"}
                                 ELSE worker = "none"
  /\ quit = "open" <=> active

(* An item is being processed exactly while the worker sends it or waits.  *)
Busy ==
  /\ cur # None <=> worker \in {"send", "wait"}
  /\ worker = "wait" => hasTimer

(* The inductive invariant: the conjuncts above carry each other.          *)
IInv == TypeOK /\ Lifecycle /\ Busy /\ TimerDiscipline

(***************************************************************************)
(* The queue implements the abstract request channel.  The phase is read   *)
(* off active and the mutex; the transmissions are the retries used up.    *)
(***************************************************************************)
Phase ==
  IF active THEN IF mutex = "start" THEN "opening" ELSE "open"
            ELSE IF mutex = "stop" THEN "closing" ELSE "closed"

Tries == IF cur = None THEN 0 ELSE NumRetries - left + 1

RC == INSTANCE RequestChannel WITH
        timed <- hasTimer, phase <- Phase, line <- items, inbox <- messages,
        current <- cur, tries <- Tries

(* Requests are served one at a time, in order, sent at most NumRetries + 1 *)
(* times, and end by their response, by exhaustion or by Stop only.         *)
ImplementsChannel == RC!Spec

(* Stop returns: the worker notices the closed quit channel whatever it is *)
(* doing and however many items and messages are still queued.             *)
StopReturns == mutex = "stop" ~> mutex = "free"

(* A request in flight does not stay in flight: the retries are bounded.   *)
InFlightSettles == cur # None ~> cur = None

(* A caller blocked in HandleReceivedMessage gets through while the queue  *)
(* runs, for the worker reads messages when idle as well as when waiting.  *)
InboundDrains ==
  Len(messages) = InboundSize /\ active
    ~> Len(messages) < InboundSize \/ ~active

(* A request accepted after Start has returned is served unless the queue  *)
(* is stopped first: no request starves behind the others.  (One accepted  *)
(* while Start still flushes may be flushed.)                              *)
AcceptedIsServed ==
  \A i \in Item :
    active /\ mutex = "free" /\ (\E k \in DOMAIN items : items[k] = i)
      ~> cur = i \/ ~active
=============================================================================
