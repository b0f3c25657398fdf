-------------------------- MODULE LifecycleProofs ---------------------------
(***************************************************************************)
(* Proofs about the life of the driver: for every capacity of the queue's  *)
(* channels, every number of retries, with and without timeouts and the    *)
(* gateway.  The stream comes first: its own invariant is proved for any   *)
(* set of senders (Spec) and then reused inside the driver.                *)
(***************************************************************************)
EXTENDS Lifecycle, SequenceTheorems, TLAPS

-----------------------------------------------------------------------------
(* The stream.                                                             *)

(* Who is inside a frame holds the mutex.  The converse holds of the       *)
(* writer always and of the reader only where no read can time out.        *)
Holders ==
  /\ rd \in InFrame => mutex = "reader"
  /\ wr = "write" <=> mutex = "writer"
  /\ mutex = "reader" => rd \in InFrame \/ hasTimeout

(* The inductive invariant.                                                *)
IInv == TypeOK /\ Holders

(* The stream as Start leaves it satisfies the invariant.                  *)
LEMMA InitIInv == Init => IInv
  BY DEF Init, IInv, TypeOK, Holders, ReaderState, InFrame

(* The reader's steps preserve the invariant.                              *)
LEMMA ReaderIInv == IInv /\ Reader => IInv'
  <1> SUFFICES ASSUME IInv, Reader PROVE IInv'
    OBVIOUS
  <1> USE DEF IInv, TypeOK, Holders, ReaderState, InFrame, mode, ReaderRest, Unlock
  <1>1. CASE ReadSync0
    BY <1>1 DEF ReadSync0
  <1>2. CASE ReaderLock
    BY <1>2 DEF ReaderLock
  <1>3. CASE ReadSync1
    BY <1>3 DEF ReadSync1
  <1>4. CASE Sync1Timeout
    BY <1>4 DEF Sync1Timeout
  <1>5. CASE ReadLength
    BY <1>5 DEF ReadLength
  <1>6. CASE ReadBody
    BY <1>6 DEF ReadBody
  <1>7. CASE FrameTimeout
    BY <1>7 DEF FrameTimeout
  <1>8. CASE ReadError
    BY <1>8 DEF ReadError
  <1>9. CASE ForwardRaw
    BY <1>9 DEF ForwardRaw
  <1>10. CASE Parse
    BY <1>10 DEF Parse
  <1>11. CASE Deliver
    BY <1>11 DEF Deliver
  <1>12. CASE Drain
    BY <1>12 DEF Drain
  <1>13. CASE CloseReadCh
    BY <1>13 DEF CloseReadCh
  <1>14. QED
    BY <1>1, <1>2, <1>3, <1>4, <1>5, <1>6, <1>7, <1>8, <1>9, <1>10, <1>11,
       <1>12, <1>13 DEF Reader

(* The writer's steps preserve the invariant.                              *)
LEMMA WriterIInv == IInv /\ Writer => IInv'
  <1> SUFFICES ASSUME IInv, Writer PROVE IInv'
    OBVIOUS
  <1> USE DEF IInv, TypeOK, Holders, ReaderState, InFrame, mode, Unlock
  <1>1. ASSUME NEW s \in Senders, WriterTake(s) PROVE IInv'
    BY <1>1 DEF WriterTake
  <1>2. CASE WriterLock
    BY <1>2 DEF WriterLock
  <1>3. CASE WriterWrite
    BY <1>3 DEF WriterWrite
  <1>4. CASE WriterExit
    BY <1>4 DEF WriterExit
  <1>5. QED
    BY <1>1, <1>2, <1>3, <1>4 DEF Writer

(* Senders, handlers, the peer and Stop do not touch the mutex.            *)
LEMMA OthersIInv == IInv /\ (Users \/ Stop) => IInv'
  <1> SUFFICES ASSUME IInv, Users \/ Stop PROVE IInv'
    OBVIOUS
  <1> USE DEF IInv, TypeOK, Holders, ReaderState, InFrame, mode
  <1>1. ASSUME NEW s \in Senders, Send(s) PROVE IInv'
    BY <1>1 DEF Send
  <1>2. CASE Handled \/ ConsumerExit \/ GatewaySent \/ PeerCloses
    BY <1>2 DEF Handled, ConsumerExit, GatewaySent, PeerCloses
  <1>3. CASE Stop
    BY <1>3 DEF Stop, StopBegin, StopStream, StopEnd
  <1>4. QED
    BY <1>1, <1>2, <1>3 DEF Users

(* Type and lock discipline are invariants of frame.go.                    *)
THEOREM Invariance == Spec => []IInv
  <1>1. IInv /\ UNCHANGED vars => IInv'
    BY DEF IInv, TypeOK, Holders, vars, mode
  <1>2. IInv /\ [Next]_vars => IInv'
    BY <1>1, ReaderIInv, WriterIInv, OthersIInv DEF Next
  <1>3. QED
    BY InitIInv, <1>2, PTL DEF Spec

(* The type invariant; in particular no mutex is unlocked that is free.    *)
THEOREM TypeCorrect == Spec => []TypeOK
  <1>1. IInv => TypeOK
    BY DEF IInv
  <1>2. QED
    BY <1>1, Invariance, PTL

(* The driver never writes into a frame that it is reading.                *)
THEOREM HalfDuplexHolds == Spec => []HalfDuplex
  <1>1. IInv => HalfDuplex
    BY DEF IInv, Holders, HalfDuplex
  <1>2. QED
    BY <1>1, Invariance, PTL

(* On a stream without timeouts the reader holds the mutex exactly inside  *)
(* a frame, so that it never keeps the writer out between frames.          *)
THEOREM ReleasesWithoutTimeouts == Spec => []ReaderReleases
  <1>1. IInv => ReaderReleases
    BY DEF IInv, Holders, ReaderReleases
  <1>2. QED
    BY <1>1, Invariance, PTL

-----------------------------------------------------------------------------
(* The driver's life around the stream.                                    *)

(* Who is blocked in Send, and where that leaves the driver's goroutine    *)
(* and the queue's worker: each waits for its own send and does nothing    *)
(* else meanwhile.                                                         *)
Seats ==
  /\ sending \subseteq {"queue", "loop", Handler, "udp"}
  /\ "loop" \in sending => main = "send"
  /\ Handler \in sending => main = "reply"
  /\ "queue" \in sending => current # None

(* The queue serves exactly while the driver's goroutine is between the    *)
(* end of queue.Start() and the end of queue.Stop(), and only then has it  *)
(* a request in flight.                                                    *)
Served ==
  /\ current # None => phase \in {"open", "closing"}
  /\ phase \in {"open", "closing"} <=> main \in Running \cup {"discover", "stopping"}
  /\ phase = "opening" <=> main = "flush"

(* The stream is closed after the queue has stopped.                       *)
ClosedLast == stop # "running" => main \in {"close", "stopped"}

(* The types of the request channel.                                       *)
ChannelTyped ==
  /\ phase \in {"closed", "opening", "open", "closing"}
  /\ line \in Seq(Request) /\ Len(line) <= QueueSize
  /\ inbox \in Seq(Answer) /\ Len(inbox) <= InboundSize
  /\ current \in Request \cup {None}
  /\ tries \in 0 .. NumRetries + 1

(* The inductive invariant: that of the stream, and the above.             *)
LifeIInv ==
  /\ IInv /\ ChannelTyped
  /\ main \in Starting \cup Running \cup Stopping
  /\ panicked \subseteq Senders
  /\ Seats /\ Served /\ ClosedLast /\ OnlyGatewayPanics

-----------------------------------------------------------------------------
(* What the request channel and the stream keep, whoever moves them.       *)

(* What the driver's goroutine does to the queue: opening and closing it,  *)
(* a request (enqueueRequest) and a message (HandleReceivedMessage) keep   *)
(* its types and leave the request in flight alone.                        *)
LEMMA CallerTyped ==
  ASSUME ChannelTyped,
         \/ Q!Open \/ Q!Opened \/ Q!Close \/ Q!Closed
         \/ EnqueueRequest \/ Q!Hear("answer")
  PROVE  ChannelTyped' /\ current' = current
  <1> USE LifeAssumption DEF ChannelTyped, Request, Answer
  <1>1. CASE Q!Open \/ Q!Opened \/ Q!Close \/ Q!Closed
    BY <1>1 DEF Q!Open, Q!Opened, Q!Close, Q!Closed, Q!Move
  <1>2. CASE EnqueueRequest
    <2>1. CASE Q!Accept("request")
      <3>1. line' \in Seq(Request) /\ Len(line') <= QueueSize
        BY <2>1, "request" \in Request, AppendProperties, LenProperties DEF Q!Accept
      <3>2. QED
        BY <2>1, <3>1 DEF Q!Accept
    <2>2. CASE UNCHANGED queue
      BY <2>2 DEF queue
    <2>3. QED
      BY <1>2, <2>1, <2>2 DEF EnqueueRequest
  <1>3. CASE Q!Hear("answer")
    <2>1. inbox' \in Seq(Answer) /\ Len(inbox') <= InboundSize
      BY <1>3, "answer" \in Answer, AppendProperties, LenProperties DEF Q!Hear
    <2>2. QED
      BY <1>3, <2>1 DEF Q!Hear
  <1>4. QED
    BY <1>1, <1>2, <1>3

(* The queue's worker begins or repeats a request ...                      *)
LEMMA SendsTyped ==
  ASSUME ChannelTyped, Q!Begin \/ Q!Repeat
  PROVE  /\ ChannelTyped' /\ phase' = phase
         /\ Q!Serving /\ current' # None
  <1> USE LifeAssumption DEF ChannelTyped, Request, Answer
  <1>1. CASE Q!Begin
    BY <1>1 DEF Q!Begin
  <1>2. CASE Q!Repeat
    BY <1>2 DEF Q!Repeat
  <1>3. QED
    BY <1>1, <1>2

(* ... and ends it or drops a message.                                     *)
LEMMA SettlesTyped ==
  ASSUME ChannelTyped, Q!Answered \/ Q!GivenUp \/ Q!Abandoned \/ Q!Discard
  PROVE  /\ ChannelTyped' /\ phase' = phase
         /\ current' = None \/ current' = current
  <1> USE LifeAssumption DEF ChannelTyped, Request, Answer
  <1>1. CASE Q!Answered
    BY <1>1 DEF Q!Answered, Q!Leave
  <1>2. CASE Q!GivenUp \/ Q!Abandoned
    BY <1>2 DEF Q!GivenUp, Q!Abandoned, Q!Leave
  <1>3. CASE Q!Discard
    BY <1>3 DEF Q!Discard
  <1>4. QED
    BY <1>1, <1>2, <1>3

(* A call of Send on the open stream blocks its caller; on the closed one  *)
(* it is a panic of that caller.                                           *)
LEMMA CallSendFact ==
  ASSUME IInv, NEW s \in Senders, CallSend(s)
  PROVE  /\ IInv' /\ stop' = stop
         /\ \/ sending' = sending \cup {s} /\ panicked' = panicked
            \/ stop # "running" /\ sending' = sending /\ panicked' = panicked \cup {s}
  <1>1. CASE Send(s) /\ UNCHANGED panicked
    <2>1. Users
      BY <1>1 DEF Users
    <2>2. QED
      BY <1>1, <2>1, OthersIInv DEF Send
  <1>2. CASE stop # "running" /\ panicked' = panicked \cup {s} /\ UNCHANGED vars
    BY <1>2 DEF IInv, TypeOK, Holders, vars, mode
  <1>3. QED
    BY <1>1, <1>2 DEF CallSend

(* The goroutines of the transport never add a sender, and the only step   *)
(* of Stop among them follows another one.                                 *)
LEMMA GoroutinesFact ==
  ASSUME IInv, Goroutines
  PROVE  /\ IInv' /\ sending' \subseteq sending
         /\ stop' = stop \/ stop # "running"
  <1>1. CASE Reader
    <2>1. IInv'
      BY <1>1, ReaderIInv
    <2>2. sending' = sending /\ stop' = stop
      BY <1>1 DEF Reader, ReaderRest, ReadSync0, ReaderLock, ReadSync1, Sync1Timeout,
           ReadLength, ReadBody, FrameTimeout, ReadError, ForwardRaw, Parse,
           Deliver, Drain, CloseReadCh
    <2>3. QED
      BY <2>1, <2>2
  <1>2. CASE Writer
    <2>1. IInv'
      BY <1>2, WriterIInv
    <2>2. sending' \subseteq sending /\ stop' = stop
      BY <1>2 DEF Writer, WriterTake, WriterLock, WriterWrite, WriterExit
    <2>3. QED
      BY <2>1, <2>2
  <1>3. CASE ConsumerExit \/ GatewaySent \/ PeerCloses
    <2>1. IInv'
      BY <1>3, OthersIInv DEF Users
    <2>2. sending' = sending /\ stop' = stop
      BY <1>3 DEF ConsumerExit, GatewaySent, PeerCloses
    <2>3. QED
      BY <2>1, <2>2
  <1>4. CASE StopStream
    <2>1. IInv'
      BY <1>4, OthersIInv DEF Stop
    <2>2. QED
      BY <1>4, <2>1 DEF StopStream
  <1>5. QED
    BY <1>1, <1>2, <1>3, <1>4 DEF Goroutines

-----------------------------------------------------------------------------
(* SmartbusModel before Start satisfies the invariant.                     *)
LEMMA LifeInitIInv == LifeInit => LifeIInv
  <1> SUFFICES ASSUME LifeInit PROVE LifeIInv
    OBVIOUS
  <1>1. IInv
    BY InitIInv DEF LifeInit
  <1>2. ChannelTyped
    BY LifeAssumption, EmptySeq DEF LifeInit, Q!Init, ChannelTyped
  <1>3. QED
    BY <1>1, <1>2, LifeAssumption
       DEF LifeInit, LifeIInv, Init, Q!Init, Seats, Served, ClosedLast, OnlyGatewayPanics,
           Starting, Running, Stopping

(* Start, up to the discovery broadcast, preserves the invariant.          *)
LEMMA StartIInv == LifeIInv /\ Start => LifeIInv'
  <1> SUFFICES ASSUME LifeIInv, Start PROVE LifeIInv'
    OBVIOUS
  <1> USE DEF LifeIInv, Move, Seats, Served, ClosedLast, OnlyGatewayPanics,
                    Starting, Running, Stopping
  <1>1. CASE StartObserve
    BY <1>1 DEF StartObserve, vars, mode, queue, IInv, TypeOK, Holders, ChannelTyped
  <1>2. CASE StartQueue
    <2>1. IInv' /\ stop' = stop /\ sending' = sending /\ panicked' = panicked
      BY <1>2 DEF StartQueue, vars, mode, IInv, TypeOK, Holders
    <2>2. ChannelTyped' /\ current' = current
      BY <1>2, CallerTyped DEF StartQueue
    <2>3. QED
      BY <1>2, <2>1, <2>2 DEF StartQueue, Q!Open, Q!Move
  <1>3. CASE StartQueueEnd
    <2>1. IInv' /\ stop' = stop /\ sending' = sending /\ panicked' = panicked
      BY <1>3 DEF StartQueueEnd, vars, mode, IInv, TypeOK, Holders
    <2>2. ChannelTyped' /\ current' = current
      BY <1>3, CallerTyped DEF StartQueueEnd
    <2>3. QED
      BY <1>3, <2>1, <2>2 DEF StartQueueEnd, Q!Opened, Q!Move
  <1>4. CASE Discover
    <2>1. /\ IInv' /\ stop' = stop /\ panicked' = panicked
          /\ sending' = sending \cup {"loop"}
      BY <1>4, LifeAssumption, CallSendFact DEF Discover
    <2>2. QED
      BY <1>4, <2>1, LifeAssumption DEF Discover, queue, ChannelTyped
  <1>5. QED
    BY <1>1, <1>2, <1>3, <1>4 DEF Start

(* The running driver preserves the invariant: polls, values and handlers. *)
LEMMA LoopIInv == LifeIInv /\ (Loop \/ NotForUs) => LifeIInv'
  <1> SUFFICES ASSUME LifeIInv, Loop \/ NotForUs PROVE LifeIInv'
    OBVIOUS
  <1> USE DEF LifeIInv, Move, Seats, Served, ClosedLast, OnlyGatewayPanics,
                    Starting, Running, Stopping
  <1>1. CASE Poll
    <2>1. /\ IInv' /\ stop' = stop /\ panicked' = panicked
          /\ sending' = sending \cup {"loop"}
      BY <1>1, LifeAssumption, CallSendFact DEF Poll
    <2>2. QED
      BY <1>1, <2>1, LifeAssumption DEF Poll, queue, ChannelTyped
  <1>2. CASE SendTaken
    BY <1>2 DEF SendTaken, vars, mode, queue, IInv, TypeOK, Holders, ChannelTyped
  <1>3. CASE AcceptOnValue
    <2>1. IInv' /\ stop' = stop /\ sending' = sending /\ panicked' = panicked
      BY <1>3 DEF AcceptOnValue, vars, mode, IInv, TypeOK, Holders
    <2>2. ChannelTyped' /\ current' = current
      BY <1>3, CallerTyped DEF AcceptOnValue
    <2>3. phase' = phase /\ main' = main
      BY <1>3 DEF AcceptOnValue, EnqueueRequest, Q!Accept, queue
    <2>4. QED
      BY <2>1, <2>2, <2>3
  <1>4. CASE HandleBegin
    BY <1>4 DEF HandleBegin, vars, mode, queue, IInv, TypeOK, Holders, ChannelTyped
  <1>5. CASE HandleNotify
    <2>1. IInv' /\ stop' = stop /\ sending' = sending /\ panicked' = panicked
      BY <1>5 DEF HandleNotify, vars, mode, IInv, TypeOK, Holders
    <2>2. ChannelTyped' /\ current' = current
      BY <1>5, CallerTyped DEF HandleNotify
    <2>3. QED
      BY <1>5, <2>1, <2>2 DEF HandleNotify, Q!Hear
  <1>6. CASE HandleReply
    <2>1. /\ IInv' /\ stop' = stop /\ panicked' = panicked
          /\ sending' = sending \cup {Handler}
      BY <1>6, StreamAssumption, CallSendFact DEF HandleReply
    <2>2. QED
      BY <1>6, <2>1, LifeAssumption DEF HandleReply, queue, ChannelTyped
  <1>7. ASSUME Handled PROVE IInv' /\ stop' = stop /\ sending' = sending
    BY <1>7, OthersIInv DEF Users, Handled
  <1>8. CASE HandleEnd
    <2>1. IInv' /\ stop' = stop /\ sending' = sending /\ Handler \notin sending
      BY <1>7, <1>8 DEF HandleEnd, Handled
    <2>2. ChannelTyped' /\ current' = current /\ phase' = phase
      <3>1. CASE EnqueueRequest
        BY <3>1, CallerTyped DEF EnqueueRequest, Q!Accept, queue
      <3>2. CASE UNCHANGED queue
        BY <3>2 DEF queue, ChannelTyped
      <3>3. QED
        BY <1>8, <3>1, <3>2 DEF HandleEnd
    <2>3. QED
      BY <1>8, <2>1, <2>2 DEF HandleEnd
  <1>9. CASE NotForUs
    BY <1>7, <1>9 DEF NotForUs, queue, ChannelTyped
  <1>10. QED
    BY <1>1, <1>2, <1>3, <1>4, <1>5, <1>6, <1>8, <1>9 DEF Loop

(* The queue's worker sends only while the queue serves, that is, while    *)
(* the stream is open, and the gateway's goroutine is the one that may be  *)
(* caught by the closed channel.                                           *)
LEMMA SendersIInv ==
  LifeIInv /\ (WorkerSends \/ WorkerSettles \/ ForwardUdp) => LifeIInv'
  <1> SUFFICES ASSUME LifeIInv, WorkerSends \/ WorkerSettles \/ ForwardUdp
               PROVE  LifeIInv'
    OBVIOUS
  <1> USE DEF LifeIInv, Seats, Served, ClosedLast, OnlyGatewayPanics,
                    Starting, Running, Stopping
  <1>1. CASE WorkerSends
    <2>1. ChannelTyped' /\ phase' = phase /\ Q!Serving /\ current' # None
      BY <1>1, SendsTyped DEF WorkerSends
    <2>2. stop = "running"
      BY <2>1 DEF Q!Serving
    <2>3. /\ IInv' /\ stop' = stop /\ panicked' = panicked
          /\ sending' = sending \cup {"queue"}
      BY <1>1, <2>2, LifeAssumption, CallSendFact DEF WorkerSends
    <2>4. QED
      BY <1>1, <2>1, <2>3, LifeAssumption DEF WorkerSends, Q!Serving
  <1>2. CASE WorkerSettles
    <2>1. IInv' /\ stop' = stop /\ sending' = sending /\ panicked' = panicked
      BY <1>2 DEF WorkerSettles, vars, mode, IInv, TypeOK, Holders
    <2>2. ChannelTyped' /\ phase' = phase /\ (current' = None \/ current' = current)
      BY <1>2, SettlesTyped DEF WorkerSettles
    <2>3. QED
      BY <1>2, <2>1, <2>2 DEF WorkerSettles
  <1>3. CASE ForwardUdp
    <2>1. /\ IInv' /\ stop' = stop
          /\ sending' \subseteq sending \cup {"udp"}
          /\ panicked' \subseteq panicked \cup {"udp"}
      BY <1>3, LifeAssumption, CallSendFact DEF ForwardUdp
    <2>2. QED
      BY <1>3, <2>1, LifeAssumption DEF ForwardUdp, queue, ChannelTyped
  <1>4. QED
    BY <1>1, <1>2, <1>3

(* Stop: when conn.Close() closes the stream, nobody but the gateway's     *)
(* goroutine can be blocked in Send.                                       *)
LEMMA StopIInv == LifeIInv /\ StopModel => LifeIInv'
  <1> SUFFICES ASSUME LifeIInv, StopModel PROVE LifeIInv'
    OBVIOUS
  <1> USE DEF LifeIInv, Move, Seats, Served, ClosedLast, OnlyGatewayPanics,
                    Starting, Running, Stopping
  <1>1. CASE StopQueue
    <2>1. IInv' /\ stop' = stop /\ sending' = sending /\ panicked' = panicked
      BY <1>1 DEF StopQueue, vars, mode, IInv, TypeOK, Holders
    <2>2. ChannelTyped' /\ current' = current
      BY <1>1, CallerTyped DEF StopQueue
    <2>3. QED
      BY <1>1, <2>1, <2>2 DEF StopQueue, Q!Close, Q!Move
  <1>2. CASE StopQueueEnd
    <2>1. IInv' /\ stop' = stop /\ sending' = sending /\ panicked' = panicked
      BY <1>2 DEF StopQueueEnd, vars, mode, IInv, TypeOK, Holders
    <2>2. ChannelTyped' /\ current' = current
      BY <1>2, CallerTyped DEF StopQueueEnd
    <2>3. QED
      BY <1>2, <2>1, <2>2 DEF StopQueueEnd, Q!Closed, Q!Move
  <1>3. CASE CloseStream
    <2>1. main = "close" /\ main' = main
      BY <1>3 DEF CloseStream
    <2>2. sending \subseteq {"udp"}
      BY <2>1
    <2>3. ChannelTyped' /\ phase' = phase /\ current' = current
      BY <1>3 DEF CloseStream, queue, ChannelTyped
    <2>4. CASE StopBegin /\ UNCHANGED panicked
      <3>1. IInv' /\ sending' = sending
        BY <2>4, OthersIInv DEF Stop, StopBegin
      <3>2. QED
        BY <2>1, <2>3, <2>4, <3>1
    <2>5. CASE panicked' = sending /\ UNCHANGED vars
      <3>1. IInv' /\ sending' = sending /\ stop' = stop
        BY <2>5 DEF vars, mode, IInv, TypeOK, Holders
      <3>2. QED
        BY <2>1, <2>2, <2>3, <2>5, <3>1, LifeAssumption
    <2>6. QED
      BY <1>3, <2>4, <2>5 DEF CloseStream
  <1>4. CASE StopModelEnd
    <2>1. IInv' /\ sending' = sending
      BY <1>4, OthersIInv DEF StopModelEnd, Stop, StopEnd
    <2>2. QED
      BY <1>4, <2>1 DEF StopModelEnd, queue, ChannelTyped
  <1>5. QED
    BY <1>1, <1>2, <1>3, <1>4 DEF StopModel

(* The goroutines of the transport preserve the invariant.                 *)
LEMMA TransportIInv == LifeIInv /\ Transport(Goroutines) => LifeIInv'
  <1> SUFFICES ASSUME LifeIInv, Transport(Goroutines) PROVE LifeIInv'
    OBVIOUS
  <1>1. /\ IInv' /\ sending' \subseteq sending
        /\ stop' = stop \/ stop # "running"
    BY GoroutinesFact DEF LifeIInv, Transport, Alive
  <1>2. UNCHANGED <<main, panicked, queue>>
    BY DEF Transport, Alive
  <1>3. QED
    BY <1>1, <1>2
       DEF LifeIInv, queue, ChannelTyped, Seats, Served, ClosedLast, OnlyGatewayPanics

(* The driver's life keeps all of the invariant.                           *)
THEOREM LifeInvariance == LifeSpec => []LifeIInv
  <1>1. LifeIInv /\ UNCHANGED lvars => LifeIInv'
    BY DEF lvars, vars, mode, queue, LifeIInv, IInv, TypeOK, Holders, ChannelTyped,
           Seats, Served, ClosedLast, OnlyGatewayPanics
  <1>2. LifeIInv /\ [LifeNext]_lvars => LifeIInv'
    BY <1>1, StartIInv, LoopIInv, SendersIInv, StopIInv, TransportIInv
       DEF LifeNext, Alive
  <1>3. QED
    BY LifeInitIInv, <1>2, PTL DEF LifeSpec

(* The type invariant of the composed driver: the queue's buffers stay     *)
(* within their capacities and no mutex is unlocked that is free, with the *)
(* real callers of the stream.                                             *)
THEOREM LifeTypeCorrect == LifeSpec => []LifeTypeOK
  <1>1. LifeIInv => LifeTypeOK
    BY DEF LifeIInv, IInv, ChannelTyped, LifeTypeOK
  <1>2. QED
    BY <1>1, LifeInvariance, PTL

(* SmartbusModel.Stop never makes the driver's own goroutines send on the  *)
(* closed writeCh: not the queue's worker in the middle of a request, not  *)
(* a handler that answers, not a poll.                                     *)
THEOREM OnlyGatewayCanPanic == LifeSpec => []OnlyGatewayPanics
  <1>1. LifeIInv => OnlyGatewayPanics
    BY DEF LifeIInv
  <1>2. QED
    BY <1>1, LifeInvariance, PTL

(* With the real callers, too, the driver never writes into a frame that   *)
(* it is reading ...                                                       *)
THEOREM LifeHalfDuplex == LifeSpec => []HalfDuplex
  <1>1. LifeIInv => HalfDuplex
    BY DEF LifeIInv, IInv, Holders, HalfDuplex
  <1>2. QED
    BY <1>1, LifeInvariance, PTL

(* ... and, where reads do not time out, the reader holds the mutex        *)
(* exactly inside a frame.                                                 *)
THEOREM LifeReaderReleases == LifeSpec => []ReaderReleases
  <1>1. LifeIInv => ReaderReleases
    BY DEF LifeIInv, IInv, Holders, ReaderReleases
  <1>2. QED
    BY <1>1, LifeInvariance, PTL

-----------------------------------------------------------------------------
(* The composed driver uses its parts as their own modules describe them.  *)

(* Every step of the driver is a step of the stream or leaves it alone:    *)
(* what StreamIO says of a stream with arbitrary callers holds of the      *)
(* stream whose callers are the queue, the handlers, the polls, the        *)
(* gateway and Stop.                                                       *)
THEOREM LifeUsesStream == LifeSpec => Spec
  <1>1. LifeInit => Init
    BY DEF LifeInit
  <1>2. ASSUME NEW s \in Senders, CallSend(s) PROVE [Next]_vars
    BY <1>2 DEF CallSend, Next, Users
  <1>3. LifeNext => [Next]_vars
    <2> SUFFICES ASSUME LifeNext PROVE [Next]_vars
      OBVIOUS
    <2>1. CASE Start
      BY <1>2, <2>1, LifeAssumption
         DEF Start, StartObserve, StartQueue, StartQueueEnd, Discover
    <2>2. CASE Loop \/ NotForUs
      BY <1>2, <2>2, LifeAssumption, StreamAssumption
         DEF Loop, Poll, SendTaken, AcceptOnValue, HandleBegin, HandleNotify,
             HandleReply, HandleEnd, NotForUs, Next, Users
    <2>3. CASE WorkerSends \/ WorkerSettles \/ ForwardUdp
      BY <1>2, <2>3, LifeAssumption DEF WorkerSends, WorkerSettles, ForwardUdp
    <2>4. CASE StopModel
      BY <2>4 DEF StopModel, StopQueue, StopQueueEnd, CloseStream, StopModelEnd,
                  Next, Stop
    <2>5. CASE Transport(Goroutines)
      BY <2>5 DEF Transport, Alive, Goroutines, Next, Users, Stop
    <2>6. QED
      BY <2>1, <2>2, <2>3, <2>4, <2>5 DEF LifeNext, Alive
  <1>4. UNCHANGED lvars => UNCHANGED vars
    BY DEF lvars
  <1>5. QED
    BY <1>1, <1>3, <1>4, PTL DEF LifeSpec, Spec

(* Every step of the driver is a step of the request channel that the      *)
(* message queue implements, or leaves it alone.                           *)
THEOREM LifeUsesChannel == LifeSpec => Q!Spec
  <1>1. LifeInit => Q!Init
    BY DEF LifeInit
  <1> USE DEF queue, Q!chan
  <1>2. EnqueueRequest => [Q!Next]_Q!chan
    BY DEF EnqueueRequest, Request, Q!Next
  <1>3. LifeNext => [Q!Next]_Q!chan
    <2> SUFFICES ASSUME LifeNext PROVE [Q!Next]_Q!chan
      OBVIOUS
    <2>1. CASE Start
      BY <2>1 DEF Start, StartObserve, StartQueue, StartQueueEnd, Discover, Q!Next
    <2>2. CASE Loop \/ NotForUs
      BY <1>2, <2>2
         DEF Loop, Poll, SendTaken, AcceptOnValue, HandleBegin, HandleNotify,
             HandleReply, HandleEnd, NotForUs, Answer, Q!Next
    <2>3. CASE WorkerSends \/ WorkerSettles \/ ForwardUdp
      BY <2>3 DEF WorkerSends, WorkerSettles, ForwardUdp, Q!Next
    <2>4. CASE StopModel
      BY <2>4 DEF StopModel, StopQueue, StopQueueEnd, CloseStream, StopModelEnd, Q!Next
    <2>5. CASE Transport(Goroutines)
      BY <2>5 DEF Transport, Alive
    <2>6. QED
      BY <2>1, <2>2, <2>3, <2>4, <2>5 DEF LifeNext, Alive
  <1>4. UNCHANGED lvars => UNCHANGED Q!chan
    BY DEF lvars, queue, Q!chan
  <1>5. QED
    BY <1>1, <1>3, <1>4, PTL DEF LifeSpec, Q!Spec
=============================================================================
