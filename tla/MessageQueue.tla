---------------------------- MODULE MessageQueue ----------------------------
(***************************************************************************)
(* The request queue of the driver (smartbus/messagequeue.go).             *)
(*                                                                         *)
(* One worker goroutine runs the queued items one at a time.  It runs an   *)
(* item (that sends a command on the bus), arms a timer, and waits for the *)
(* first of three events: a message that is the item's response, the       *)
(* timeout, or the quit signal.  A timeout runs the item again until the   *)
(* retries are used up.  Start and Stop hold the queue's mutex; Enqueue    *)
(* and HandleReceivedMessage take no lock and may be called by any         *)
(* goroutine at any moment.                                                *)
(*                                                                         *)
(* Every select of the code is a choice between the actions whose case is  *)
(* ready, which is how Go resolves it.                                     *)
(***************************************************************************)
EXTENDS Naturals, Sequences

CONSTANTS
  Item,              \* the values that implement QueueItem
  Msg,               \* the messages that arrive from the bus
  IsResponse(_, _),  \* QueueItem.IsResponse, as a relation Item x Msg
  NumRetries,        \* numRetries
  QueueSize,         \* the capacity of the channel items
  InboundSize,       \* MESSAGE_QUEUE_INBOUND_QUEUE_SIZE
  None               \* no item

ASSUME BoundsAssumption ==
  /\ NumRetries \in Nat
  /\ QueueSize \in Nat \ {0}
  /\ InboundSize \in Nat \ {0}

ASSUME ItemAssumption == None \notin Item

ASSUME ResponseAssumption ==
  \A i \in Item, m \in Msg : IsResponse(i, m) \in BOOLEAN

VARIABLES
  hasTimer,  \* timerFunc # nil
  active,    \* queue.active
  mutex,     \* the call that holds the embedded sync.Mutex, or "free"
  quit,      \* the channel quit: "nil", "open" or "closed"
  items,     \* the buffer of the channel items
  messages,  \* the buffer of the channel messages
  worker,    \* where the goroutine run() is; "none" when there is none
  cur,       \* the item processItem is busy with
  left,      \* processItem's n, the retries left
  timers     \* timers armed: created, neither fired nor stopped

vars == <<hasTimer, active, mutex, quit, items, messages, worker, cur, left, timers>>

(***************************************************************************)
(* "loop"  at the select of run()           "send" inside item.Run()       *)
(* "wait"  at the select of processItem()   "done" at queue.done <- ...    *)
(***************************************************************************)
WorkerState == {"none", "loop", "send", "wait", "done"}

TypeOK ==
  /\ hasTimer \in BOOLEAN
  /\ active \in BOOLEAN
  /\ mutex \in {"free", "start", "stop"}
  /\ quit \in {"nil", "open", "closed"}
  /\ items \in Seq(Item) /\ Len(items) <= QueueSize
  /\ messages \in Seq(Msg) /\ Len(messages) <= InboundSize
  /\ worker \in WorkerState
  /\ cur \in Item \cup {None}
  /\ left \in 0 .. NumRetries
  /\ timers \in Nat

Init ==
  /\ hasTimer \in BOOLEAN
  /\ active = FALSE
  /\ mutex = "free"
  /\ quit = "nil"
  /\ items = <<>>
  /\ messages = <<>>
  /\ worker = "none"
  /\ cur = None
  /\ left = 0
  /\ timers = 0

-----------------------------------------------------------------------------
(* Start: lock, make a new quit channel, flush both channels, spawn run(). *)
(* The flush is a loop: an Enqueue that runs beside it is flushed too.     *)
(* When the queue is active already, Start returns at once (a stutter).    *)

StartBegin ==
  /\ mutex = "free"
  /\ ~active
  /\ mutex' = "start"
  /\ quit' = "open"
  /\ active' = TRUE
  /\ UNCHANGED <<hasTimer, items, messages, worker, cur, left, timers>>

FlushItem ==
  /\ mutex = "start"
  /\ items # <<>>
  /\ items' = Tail(items)
  /\ UNCHANGED <<hasTimer, active, mutex, quit, messages, worker, cur, left, timers>>

FlushMessage ==
  /\ mutex = "start"
  /\ messages # <<>>
  /\ messages' = Tail(messages)
  /\ UNCHANGED <<hasTimer, active, mutex, quit, items, worker, cur, left, timers>>

StartEnd ==
  /\ mutex = "start"
  /\ items = <<>>
  /\ messages = <<>>
  /\ worker' = "loop"
  /\ mutex' = "free"
  /\ UNCHANGED <<hasTimer, active, quit, items, messages, cur, left, timers>>

-----------------------------------------------------------------------------
(* Stop: lock, close quit, wait on done.  The worker's send on done is the *)
(* other half of StopEnd.  Stop of an inactive queue is a stutter.         *)

StopBegin ==
  /\ mutex = "free"
  /\ active
  /\ mutex' = "stop"
  /\ active' = FALSE
  /\ quit' = "closed"
  /\ UNCHANGED <<hasTimer, items, messages, worker, cur, left, timers>>

(* Faulty: Stop does not wait on done.                                     *)
StopEndEarly ==
  /\ mutex = "stop"
  /\ mutex' = "free"
  /\ UNCHANGED <<hasTimer, active, quit, items, messages, worker, cur, left, timers>>

StopEnd ==
  /\ mutex = "stop"
  /\ worker = "done"
  /\ worker' = "none"
  /\ mutex' = "free"
  /\ UNCHANGED <<hasTimer, active, quit, items, messages, cur, left, timers>>

-----------------------------------------------------------------------------
(* run(): the select of the idle worker.                                   *)

(* Faulty: the idle worker does not look at quit.                          *)
RunQuitMissing == FALSE /\ UNCHANGED vars

RunQuit ==
  /\ worker = "loop"
  /\ quit = "closed"
  /\ worker' = "done"
  /\ UNCHANGED <<hasTimer, active, mutex, quit, items, messages, cur, left, timers>>

(* Faulty: the idle worker does not read messages.                         *)
RunIgnoreNothing == FALSE /\ UNCHANGED vars

RunIgnoreMessage ==
  /\ worker = "loop"
  /\ messages # <<>>
  /\ messages' = Tail(messages)
  /\ UNCHANGED <<hasTimer, active, mutex, quit, items, worker, cur, left, timers>>

(* Faulty: the newest item is taken first.                                 *)
RunTakeNewest ==
  /\ worker = "loop"
  /\ items # <<>>
  /\ cur' = items[Len(items)]
  /\ items' = SubSeq(items, 1, Len(items) - 1)
  /\ left' = NumRetries
  /\ worker' = "send"
  /\ UNCHANGED <<hasTimer, active, mutex, quit, messages, timers>>

RunTakeItem ==
  /\ worker = "loop"
  /\ items # <<>>
  /\ cur' = Head(items)
  /\ items' = Tail(items)
  /\ left' = NumRetries
  /\ worker' = "send"
  /\ UNCHANGED <<hasTimer, active, mutex, quit, messages, timers>>

-----------------------------------------------------------------------------
(* processItem(): item.Run() blocks until the command is handed to the     *)
(* writer, so it is a step of its own; then the timer, then the select.    *)

RunItem ==
  /\ worker = "send"
  /\ hasTimer
  /\ worker' = "wait"
  /\ timers' = timers + 1
  /\ UNCHANGED <<hasTimer, active, mutex, quit, items, messages, cur, left>>

(* Without a timer function the item counts as processed once it ran.      *)
RunItemOnly ==
  /\ worker = "send"
  /\ ~hasTimer
  /\ worker' = "loop"
  /\ cur' = None
  /\ UNCHANGED <<hasTimer, active, mutex, quit, items, messages, left, timers>>

ProcessQuit ==
  /\ worker = "wait"
  /\ quit = "closed"
  /\ timers' = timers - 1
  /\ worker' = "done"
  /\ cur' = None
  /\ UNCHANGED <<hasTimer, active, mutex, quit, items, messages, left>>

(* Faulty: a command that failed ends the worker.                          *)
ProcessGiveUpQuits ==
  /\ worker = "wait"
  /\ left = 0
  /\ timers' = timers - 1
  /\ worker' = "done"
  /\ cur' = None
  /\ UNCHANGED <<hasTimer, active, mutex, quit, items, messages, left>>

ProcessGiveUp ==
  /\ worker = "wait"
  /\ left = 0
  /\ timers' = timers - 1
  /\ worker' = "loop"
  /\ cur' = None
  /\ UNCHANGED <<hasTimer, active, mutex, quit, items, messages, left>>

(* Faulty: the retries are counted down past zero ...                      *)
ProcessRetryBelowZero ==
  /\ worker = "wait"
  /\ timers' = timers - 1
  /\ left' = left - 1
  /\ worker' = "send"
  /\ UNCHANGED <<hasTimer, active, mutex, quit, items, messages, cur>>

(* ... or not at all.                                                      *)
ProcessRetryForever ==
  /\ worker = "wait"
  /\ left # 0
  /\ timers' = timers - 1
  /\ worker' = "send"
  /\ UNCHANGED <<hasTimer, active, mutex, quit, items, messages, cur, left>>

ProcessRetry ==
  /\ worker = "wait"
  /\ left # 0
  /\ timers' = timers - 1
  /\ left' = left - 1
  /\ worker' = "send"
  /\ UNCHANGED <<hasTimer, active, mutex, quit, items, messages, cur>>

(* Faulty: the timer is not stopped ...                                    *)
ProcessResponseKeepsTimer ==
  /\ worker = "wait"
  /\ messages # <<>>
  /\ IsResponse(cur, Head(messages))
  /\ messages' = Tail(messages)
  /\ worker' = "loop"
  /\ cur' = None
  /\ UNCHANGED <<hasTimer, active, mutex, quit, items, left, timers>>

(* ... or any message counts as the response.                              *)
ProcessResponseAny ==
  /\ worker = "wait"
  /\ messages # <<>>
  /\ messages' = Tail(messages)
  /\ timers' = timers - 1
  /\ worker' = "loop"
  /\ cur' = None
  /\ UNCHANGED <<hasTimer, active, mutex, quit, items, left>>

ProcessResponse ==
  /\ worker = "wait"
  /\ messages # <<>>
  /\ IsResponse(cur, Head(messages))
  /\ messages' = Tail(messages)
  /\ timers' = timers - 1
  /\ worker' = "loop"
  /\ cur' = None
  /\ UNCHANGED <<hasTimer, active, mutex, quit, items, left>>

ProcessOther ==
  /\ worker = "wait"
  /\ messages # <<>>
  /\ ~IsResponse(cur, Head(messages))
  /\ messages' = Tail(messages)
  /\ UNCHANGED <<hasTimer, active, mutex, quit, items, worker, cur, left, timers>>

-----------------------------------------------------------------------------
(* The callers.  Enqueue on a full channel returns an error and changes    *)
(* nothing; HandleReceivedMessage on a full channel blocks its caller.     *)

Enqueue(i) ==
  /\ Len(items) < QueueSize
  /\ items' = Append(items, i)
  /\ UNCHANGED <<hasTimer, active, mutex, quit, messages, worker, cur, left, timers>>

HandleReceivedMessage(m) ==
  /\ Len(messages) < InboundSize
  /\ messages' = Append(messages, m)
  /\ UNCHANGED <<hasTimer, active, mutex, quit, items, worker, cur, left, timers>>

-----------------------------------------------------------------------------
Control == StartBegin \/ FlushItem \/ FlushMessage \/ StartEnd
             \/ StopBegin \/ StopEnd

Worker ==
  \/ RunQuit \/ RunIgnoreMessage \/ RunTakeItem
  \/ RunItem \/ RunItemOnly
  \/ ProcessQuit \/ ProcessGiveUp \/ ProcessRetry
  \/ ProcessResponse \/ ProcessOther

Clients ==
  \/ \E i \in Item : Enqueue(i)
  \/ \E m \in Msg : HandleReceivedMessage(m)

Next == Control \/ Worker \/ Clients

Spec == Init /\ [][Next]_vars

(***************************************************************************)
(* Fairness.  The worker and the calls in progress are never abandoned by  *)
(* the scheduler (weak fairness), an armed timer fires, and a select picks *)
(* among its ready cases at random, so a case that is ready again and      *)
(* again is picked: strong fairness for the quit and the messages cases.   *)
(* Nothing is assumed of the callers.                                      *)
(***************************************************************************)
Fairness ==
  /\ WF_vars(FlushItem) /\ WF_vars(FlushMessage) /\ WF_vars(StartEnd)
  /\ WF_vars(StopEnd)
  /\ WF_vars(RunTakeItem)
  /\ WF_vars(RunItem \/ RunItemOnly)
  /\ WF_vars(ProcessGiveUp \/ ProcessRetry)
  /\ SF_vars(RunQuit \/ ProcessQuit)
  /\ SF_vars(RunIgnoreMessage \/ ProcessResponse \/ ProcessOther)

FairSpec == Spec /\ Fairness
=============================================================================
