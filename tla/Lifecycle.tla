----------------------------- MODULE Lifecycle ------------------------------
(***************************************************************************)
(* The life of the driver: SmartbusModel.Start, the running driver and     *)
(* SmartbusModel.Stop (smartbus_model.go), over the stream of StreamIO, the *)
(* request channel that the message queue implements, and the goroutine of *)
(* the UDP gateway that writes to the stream (facade.go).                  *)
(*                                                                         *)
(* The driver's goroutine runs Start, then handlers, MQTT values and polls *)
(* one at a time, then Stop.  StreamIO assumes that nobody sends once its  *)
(* Stop has begun; here the callers are the real ones, and a send on the   *)
(* closed writeCh ends the program.                                        *)
(***************************************************************************)
EXTENDS StreamIO, Sequences

CONSTANTS
  NumRetries, QueueSize, InboundSize,  \* of the message queue
  None

(* The four goroutines that send are distinct.                             *)
ASSUME LifeAssumption ==
  /\ {"queue", "loop", "udp"} \subseteq Senders \ {Handler}
  /\ NumRetries \in Nat /\ QueueSize \in Nat /\ InboundSize \in Nat
  /\ None # "request"

VARIABLES
  main,      \* where the driver's goroutine is
  panicked,  \* the senders that met the closed writeCh
  timed, phase, line, inbox, current, tries   \* the request channel

queue == <<timed, phase, line, inbox, current, tries>>
lvars == <<vars, main, panicked, queue>>

(* One kind of request and one kind of message, which is its response.     *)
Request == {"request"}
Answer == {"answer"}
Matches(i, m) == TRUE

Q == INSTANCE RequestChannel WITH
       Item <- Request, Msg <- Answer, IsResponse <- Matches

(***************************************************************************)
(* Start: "observe" "queue" "flush" "discover"                             *)
(* running: "idle" at the loop; "notify" "act" "reply" in the handler of a *)
(*         message; "send" in a poll or the discovery broadcast            *)
(* Stop: "stopping" in queue.Stop(); "close" in conn.Close(); "stopped"    *)
(***************************************************************************)
Starting == {"observe", "queue", "flush", "discover"}
Running == {"idle", "notify", "act", "reply", "send"}
Stopping == {"stopping", "close", "stopped"}

LifeTypeOK ==
  /\ TypeOK
  /\ main \in Starting \cup Running \cup Stopping
  /\ panicked \subseteq Senders
  /\ phase \in {"closed", "opening", "open", "closing"}
  /\ line \in Seq(Request) /\ Len(line) <= QueueSize
  /\ inbox \in Seq(Answer) /\ Len(inbox) <= InboundSize
  /\ current \in Request \cup {None}
  /\ tries \in 0 .. NumRetries + 1

(* NewSmartbusConnection has started the reader, the writer and the        *)
(* connection's goroutine; the model does not observe yet.                 *)
LifeInit ==
  /\ Init
  /\ main = "observe"
  /\ panicked = {}
  /\ Q!Init /\ timed

-----------------------------------------------------------------------------
(* A goroutine calls Send: it waits for the writer, or it panics.          *)
CallSend(s) ==
  \/ Send(s) /\ UNCHANGED panicked
  \/ /\ stop # "running"
     /\ panicked' = panicked \cup {s}
     /\ UNCHANGED vars

Move(from, to) == main = from /\ main' = to

-----------------------------------------------------------------------------
(* SmartbusModel.Start, after the connector.                               *)

StartObserve ==
  /\ Move("observe", "queue")
  /\ UNCHANGED <<vars, panicked, queue>>

StartQueue ==
  /\ Move("queue", "flush")
  /\ Q!Open
  /\ UNCHANGED <<vars, panicked>>

StartQueueEnd ==
  /\ Move("flush", "discover")
  /\ Q!Opened
  /\ UNCHANGED <<vars, panicked>>

(* broadcastDev.ReadMACAddress()                                           *)
Discover ==
  /\ Move("discover", "send")
  /\ CallSend("loop")
  /\ UNCHANGED queue

(* A message that is not for the driver, or that comes before the model    *)
(* observes, is done with on the connection's goroutine.                   *)
NotForUs ==
  /\ main \notin {"notify", "act", "reply"}
  /\ Handled
  /\ UNCHANGED <<main, panicked, queue>>

-----------------------------------------------------------------------------
(* The running driver.                                                     *)

(* A poll goes to the writer past the queue.                               *)
Poll ==
  /\ Move("idle", "send")
  /\ CallSend("loop")
  /\ UNCHANGED queue

SendTaken ==
  /\ Move("send", "idle")
  /\ "loop" \notin sending
  /\ UNCHANGED <<vars, panicked, queue>>

(* enqueueRequest: a full queue drops the request.                         *)
EnqueueRequest ==
  \/ Q!Accept("request")
  \/ Len(line) = QueueSize /\ UNCHANGED queue

AcceptOnValue ==
  /\ main = "idle"
  /\ EnqueueRequest
  /\ UNCHANGED <<vars, main, panicked>>

(* OnAnything: CallSync waits until the driver's goroutine is free.  Most  *)
(* handlers notify the queue first.                                        *)
HandleBegin ==
  /\ main = "idle" /\ main' \in {"notify", "act"}
  /\ consumer = "busy"
  /\ UNCHANGED <<vars, panicked, queue>>

(* HandleReceivedMessage waits for room in the queue's channel.            *)
HandleNotify ==
  /\ Move("notify", "act")
  /\ Q!Hear("answer")
  /\ UNCHANGED <<vars, panicked>>

HandleReply ==
  /\ Move("act", "reply")
  /\ CallSend(Handler)
  /\ UNCHANGED queue

HandleEnd ==
  /\ main \in {"act", "reply"} /\ main' = "idle"
  /\ Handled
  /\ \/ main = "act" /\ EnqueueRequest
     \/ UNCHANGED queue
  /\ UNCHANGED panicked

-----------------------------------------------------------------------------
(* The queue's worker.  It is inside item.Run() while its Send waits.      *)

WorkerSends ==
  /\ "queue" \notin sending
  /\ Q!Begin \/ Q!Repeat
  /\ CallSend("queue")
  /\ UNCHANGED main

(* Faulty: no message is read while no request is in flight.               *)
WorkerSettlesBusy ==
  /\ "queue" \notin sending
  /\ current # None
  /\ Q!Answered \/ Q!GivenUp \/ Q!Abandoned \/ Q!Discard
  /\ UNCHANGED <<vars, main, panicked>>

WorkerSettles ==
  /\ "queue" \notin sending
  /\ Q!Answered \/ Q!GivenUp \/ Q!Abandoned \/ Q!Discard
  /\ UNCHANGED <<vars, main, panicked>>

(* The goroutine of the gateway that forwards datagrams to the stream.     *)
ForwardUdp ==
  /\ hasRaw
  /\ CallSend("udp")
  /\ UNCHANGED <<main, queue>>

-----------------------------------------------------------------------------
(* SmartbusModel.Stop: queue.Stop(), then conn.Close().                    *)

(* Faulty: the connection is closed before the queue is stopped.           *)
CloseFirst ==
  /\ Move("idle", "close")
  /\ Q!Close
  /\ UNCHANGED <<vars, panicked>>

StopQueue ==
  /\ Move("idle", "stopping")
  /\ Q!Close
  /\ UNCHANGED <<vars, panicked>>

StopQueueEnd ==
  /\ Move("stopping", "close")
  /\ "queue" \notin sending
  /\ Q!Closed
  /\ UNCHANGED <<vars, panicked>>

(* close(writeCh): a goroutine blocked in Send panics.                     *)
CloseStream ==
  /\ main = "close" /\ stop = "running"
  /\ \/ StopBegin /\ UNCHANGED panicked
     \/ sending # {} /\ panicked' = sending /\ UNCHANGED vars
  /\ UNCHANGED <<main, queue>>

StopModelEnd ==
  /\ Move("close", "stopped")
  /\ StopEnd
  /\ UNCHANGED <<panicked, queue>>

-----------------------------------------------------------------------------
Start == StartObserve \/ StartQueue \/ StartQueueEnd \/ Discover

Loop ==
  \/ Poll \/ SendTaken \/ AcceptOnValue
  \/ HandleBegin \/ HandleNotify \/ HandleReply \/ HandleEnd

StopModel == StopQueue \/ StopQueueEnd \/ CloseStream \/ StopModelEnd

Goroutines ==
  Reader \/ Writer \/ ConsumerExit \/ GatewaySent \/ PeerCloses \/ StopStream

(* A panic in any goroutine ends the program.                              *)
Alive(A) == panicked = {} /\ A

Transport(A) == Alive(A /\ UNCHANGED <<main, panicked, queue>>)

LifeNext ==
  \/ Alive(Start) \/ Alive(Loop) \/ Alive(StopModel) \/ Alive(NotForUs)
  \/ Alive(WorkerSends) \/ Alive(WorkerSettles) \/ Alive(ForwardUdp)
  \/ Transport(Goroutines)

LifeSpec == LifeInit /\ [][LifeNext]_lvars

(***************************************************************************)
(* Fairness.  Each goroutine runs when it can, under the assumptions that  *)
(* StreamIO states for the peer, the mutex and the channels, as far as     *)
(* they are needed here.  Handlers no longer return by assumption: the     *)
(* driver's goroutine runs them.  The queue's worker runs: its timer fires *)
(* unless the response comes first.  Nothing makes the driver poll, handle *)
(* a message or stop, or frames, datagrams or MQTT values come.            *)
(***************************************************************************)
ReaderRuns ==
  \/ ReaderLock \/ ReadSync1 \/ Sync1Timeout \/ ReadLength \/ ReadBody
  \/ FrameTimeout \/ ReadError \/ ForwardRaw \/ Parse \/ Deliver \/ Drain
  \/ CloseReadCh

DriverRuns ==
  \/ Start \/ SendTaken \/ HandleNotify \/ HandleReply \/ HandleEnd
  \/ StopQueueEnd \/ CloseStream \/ Transport(StopStream) \/ StopModelEnd

LifeFairness ==
  /\ WF_lvars(Transport(ReaderRuns))
  /\ SF_lvars(Transport(WriterLock)) /\ WF_lvars(Transport(WriterWrite \/ WriterExit))
  /\ SF_lvars(Transport(WriterTake("loop") \/ WriterTake(Handler)))
  /\ SF_lvars(Transport(WriterTake("queue")))
  /\ WF_lvars(Transport(GatewaySent))
  /\ WF_lvars(Alive(DriverRuns))
  /\ WF_lvars(Alive(WorkerSends \/ WorkerSettles))

LifeFairSpec == LifeSpec /\ LifeFairness

-----------------------------------------------------------------------------
(* Stopping the driver never makes one of its own goroutines send on the   *)
(* closed writeCh, whatever the queue, a handler or a poll was doing when  *)
(* Stop was called.  The gateway's goroutine is the one exception: nobody  *)
(* stops it.                                                               *)
OnlyGatewayPanics == panicked \subseteq {"udp"}

(* The driver's goroutine comes back from whatever it does: from Start,    *)
(* from a handler, though that waits for room in the queue's channel and   *)
(* for the writer, from a poll, and from Stop, though that waits for the   *)
(* queue's worker and then for the reader, which may be in the middle of a *)
(* message.  (Without timeouts: see CloseKillsReader.)                     *)
DriverReturns ==
  ~hasTimeout =>
    (main \notin {"idle", "stopped"}
       ~> (main \in {"idle", "stopped"} \/ panicked # {}))
=============================================================================
