------------------------------ MODULE StreamIO ------------------------------
(***************************************************************************)
(* Smartbus over a byte stream (smartbus/frame.go): a serial port or a TCP *)
(* connection to a converter.  Two goroutines share the stream and one     *)
(* mutex.  ReadSmartbus takes the mutex after the first sync byte of a     *)
(* frame and gives it back after the frame; WriteSmartbus takes it for a   *)
(* whole frame, so that the driver never talks into a frame it hears.      *)
(*                                                                         *)
(* Bytes are abstracted to what the reader tells apart.  Noise before the  *)
(* first sync byte, and timeouts there, leave the reader where it is.      *)
(***************************************************************************)
EXTENDS Naturals

CONSTANTS
  Senders,     \* goroutines that call Send or SendRaw
  Handler      \* the sender that runs inside a message's handler

ASSUME StreamAssumption == Handler \in Senders

VARIABLES
  hasTimeout, \* the stream is a TimeoutChecker (serialWrapper is, TCP is not)
  hasRaw,    \* rawReadCh # nil, the UDP gateway mode
  rd,        \* where ReadSmartbus is
  wr,        \* where WriteSmartbus is
  mutex,     \* who holds streamIO.mutex: "free", "reader" or "writer"
  sending,   \* the senders blocked in writeCh <- msg
  consumer,  \* the goroutine of SmartbusConnection.run and its handlers
  gateway,   \* the goroutine that forwards rawReadCh to UDP
  stream,    \* "open", "eof" (ended by the peer) or "closed" (by Stop)
  stop       \* how far Stop is

mode == <<hasTimeout, hasRaw>>
vars == <<mode, rd, wr, mutex, sending, consumer, gateway, stream, stop>>

(***************************************************************************)
(* Reader: "sync0"  at the read of the first sync byte                     *)
(*         "lock"   at mutex.Lock() after it                               *)
(*         "sync1", "len", "body"  at the reads inside a frame             *)
(*         "failed" ReadSync or ReadSmartbusFrame gave up                  *)
(*         "raw", "parse", "deliver"  in the frame handler                 *)
(*         "closed" readCh is closed and the goroutine is gone             *)
(***************************************************************************)
InFrame == {"sync1", "len", "body"}
ReaderState ==
  {"sync0", "lock", "failed", "raw", "parse", "deliver", "closed"} \cup InFrame

(* Besides the types, TypeOK says that nobody unlocks a mutex that is free. *)
TypeOK ==
  /\ hasTimeout \in BOOLEAN /\ hasRaw \in BOOLEAN
  /\ rd \in ReaderState
  /\ wr \in {"recv", "lock", "write", "exited"}
  /\ mutex \in {"free", "reader", "writer"}
  /\ sending \subseteq Senders
  /\ consumer \in {"ready", "busy", "replying", "gone"}
  /\ gateway \in {"ready", "busy"}
  /\ stream \in {"open", "eof", "closed"}
  /\ stop \in {"running", "closing", "draining", "stopped"}

Init ==
  /\ hasTimeout \in BOOLEAN /\ hasRaw \in BOOLEAN
  /\ rd = "sync0"
  /\ wr = "recv"
  /\ mutex = "free"
  /\ sending = {}
  /\ consumer = "ready"
  /\ gateway = "ready"
  /\ stream = "open"
  /\ stop = "running"

-----------------------------------------------------------------------------
(* The reader.                                                             *)

(* sync.Mutex: to unlock a mutex that is not locked ends the program.      *)
Unlock == mutex' = IF mutex = "free" THEN "fatal" ELSE "free"

ReaderRest == UNCHANGED <<mode, wr, sending, consumer, gateway, stream, stop>>

ReadSync0 ==
  /\ rd = "sync0"
  /\ stream = "open"
  /\ rd' = "lock"
  /\ UNCHANGED mutex
  /\ ReaderRest

(* Faulty: the reader goes on into the frame without the mutex.            *)
ReaderLockMissing ==
  /\ rd = "lock"
  /\ rd' = "sync1"
  /\ UNCHANGED mutex
  /\ ReaderRest

ReaderLock ==
  /\ rd = "lock"
  /\ mutex = "free"
  /\ mutex' = "reader"
  /\ rd' = "sync1"
  /\ ReaderRest

ReadSync1 ==
  /\ rd = "sync1"
  /\ stream = "open"
  /\ \/ rd' = "len" /\ UNCHANGED mutex      \* a second 0xaa
     \/ rd' = "sync0" /\ Unlock             \* another byte
  /\ ReaderRest

(* The timeout of the second sync byte continues the loop as it stands,    *)
(* with the mutex locked.                                                  *)
Sync1Timeout ==
  /\ rd = "sync1"
  /\ hasTimeout
  /\ stream = "open"
  /\ rd' = "sync0"
  /\ UNCHANGED mutex
  /\ ReaderRest

(* Faulty: a length that is too short is dropped without unlocking.        *)
ReadLengthKeepsLock ==
  /\ rd = "len"
  /\ stream = "open"
  /\ rd' \in {"body", "sync0"}
  /\ UNCHANGED mutex
  /\ ReaderRest

(* A length below MIN_FRAME_SIZE drops the frame.                          *)
ReadLength ==
  /\ rd = "len"
  /\ stream = "open"
  /\ \/ rd' = "body" /\ UNCHANGED mutex
     \/ rd' = "sync0" /\ Unlock
  /\ ReaderRest

(* A bad CRC drops the frame; a good frame is handled without the mutex.   *)
ReadBody ==
  /\ rd = "body"
  /\ stream = "open"
  /\ Unlock
  /\ \/ rd' = IF hasRaw THEN "raw" ELSE "parse"
     \/ rd' = "sync0"
  /\ ReaderRest

FrameTimeout ==
  /\ rd \in {"len", "body"}
  /\ hasTimeout
  /\ stream = "open"
  /\ rd' = "sync0"
  /\ Unlock
  /\ ReaderRest

(* Faulty: every read error unlocks, the first sync byte's too.            *)
ReadErrorUnlocks ==
  /\ rd \in {"sync0"} \cup InFrame
  /\ stream # "open"
  /\ rd' = "failed"
  /\ Unlock
  /\ ReaderRest

(* A read error ends the loop.  Inside a frame the mutex is unlocked on    *)
(* the way out; at the first sync byte it is left as it is.                *)
ReadError ==
  /\ rd \in {"sync0"} \cup InFrame
  /\ stream # "open"
  /\ rd' = "failed"
  /\ \/ rd = "sync0" /\ UNCHANGED mutex
     \/ rd # "sync0" /\ Unlock
  /\ ReaderRest

(* rawReadCh is unbuffered: the gateway's goroutine has to take the frame. *)
ForwardRaw ==
  /\ rd = "raw"
  /\ gateway = "ready"
  /\ gateway' = "busy"
  /\ rd' = "parse"
  /\ UNCHANGED <<mode, wr, mutex, sending, consumer, stream, stop>>

(* ParseFrame refuses unknown opcodes and malformed messages.              *)
Parse ==
  /\ rd = "parse"
  /\ rd' \in {"deliver", "sync0"}
  /\ UNCHANGED mutex
  /\ ReaderRest

(* readCh is unbuffered: the connection takes the message ...              *)
Deliver ==
  /\ rd = "deliver"
  /\ consumer = "ready"
  /\ consumer' = "busy"
  /\ rd' = "sync0"
  /\ UNCHANGED <<mode, wr, mutex, sending, gateway, stream, stop>>

(* Faulty: Stop does not drain readCh.                                     *)
DrainMissing == FALSE /\ UNCHANGED vars

(* ... or the loop of Stop that drains it does.                            *)
Drain ==
  /\ rd = "deliver"
  /\ stop = "draining"
  /\ rd' = "sync0"
  /\ UNCHANGED mutex
  /\ ReaderRest

CloseReadCh ==
  /\ rd = "failed"
  /\ rd' = "closed"
  /\ UNCHANGED mutex
  /\ ReaderRest

-----------------------------------------------------------------------------
(* The writer; writeCh is unbuffered, so taking a message frees its sender. *)

WriterTake(s) ==
  /\ wr = "recv"
  /\ s \in sending
  /\ sending' = sending \ {s}
  /\ wr' = "lock"
  /\ UNCHANGED <<mode, rd, mutex, consumer, gateway, stream, stop>>

WriterLock ==
  /\ wr = "lock"
  /\ mutex = "free"
  /\ mutex' = "writer"
  /\ wr' = "write"
  /\ UNCHANGED <<mode, rd, sending, consumer, gateway, stream, stop>>

(* Faulty: the mutex is not given back after a frame is written.           *)
WriterWriteKeepsLock ==
  /\ wr = "write"
  /\ wr' = "recv"
  /\ UNCHANGED <<mode, rd, mutex, sending, consumer, gateway, stream, stop>>

(* The result of Write is ignored, so a dead stream makes no difference.   *)
WriterWrite ==
  /\ wr = "write"
  /\ Unlock
  /\ wr' = "recv"
  /\ UNCHANGED <<mode, rd, sending, consumer, gateway, stream, stop>>

WriterExit ==
  /\ wr = "recv"
  /\ stop # "running"
  /\ wr' = "exited"
  /\ UNCHANGED <<mode, rd, mutex, sending, consumer, gateway, stream, stop>>

-----------------------------------------------------------------------------
(* The users of the stream.  The handler of a message may send one answer  *)
(* (OnSingleChannelControlCommand does) and the connection waits for it.   *)

Send(s) ==
  /\ stop = "running"
  /\ s \notin sending
  /\ \/ s # Handler /\ UNCHANGED consumer
     \/ s = Handler /\ consumer = "busy" /\ consumer' = "replying"
  /\ sending' = sending \cup {s}
  /\ UNCHANGED <<mode, rd, wr, mutex, gateway, stream, stop>>

Handled ==
  /\ consumer \in {"busy", "replying"}
  /\ Handler \notin sending
  /\ consumer' = "ready"
  /\ UNCHANGED <<mode, rd, wr, mutex, sending, gateway, stream, stop>>

ConsumerExit ==
  /\ consumer = "ready"
  /\ rd = "closed"
  /\ consumer' = "gone"
  /\ UNCHANGED <<mode, rd, wr, mutex, sending, gateway, stream, stop>>

GatewaySent ==
  /\ gateway = "busy"
  /\ gateway' = "ready"
  /\ UNCHANGED <<mode, rd, wr, mutex, sending, consumer, stream, stop>>

PeerCloses ==
  /\ stream = "open"
  /\ stream' = "eof"
  /\ UNCHANGED <<mode, rd, wr, mutex, sending, consumer, gateway, stop>>

-----------------------------------------------------------------------------
(* Stop.  Its caller has seen to it that nobody sends any more             *)
(* (SmartbusModel.Stop stops the request queue first).                     *)

StopBegin ==
  /\ stop = "running"
  /\ sending = {}
  /\ stop' = "closing"
  /\ UNCHANGED <<mode, rd, wr, mutex, sending, consumer, gateway, stream>>

StopStream ==
  /\ stop = "closing"
  /\ stop' = "draining"
  /\ stream' = "closed"
  /\ UNCHANGED <<mode, rd, wr, mutex, sending, consumer, gateway>>

StopEnd ==
  /\ stop = "draining"
  /\ rd = "closed"
  /\ stop' = "stopped"
  /\ UNCHANGED <<mode, rd, wr, mutex, sending, consumer, gateway, stream>>

-----------------------------------------------------------------------------
Reader ==
  \/ ReadSync0 \/ ReaderLock \/ ReadSync1 \/ Sync1Timeout
  \/ ReadLength \/ ReadBody \/ FrameTimeout \/ ReadError
  \/ ForwardRaw \/ Parse \/ Deliver \/ Drain \/ CloseReadCh

Writer ==
  \/ \E s \in Senders : WriterTake(s)
  \/ WriterLock \/ WriterWrite \/ WriterExit

Users ==
  \/ \E s \in Senders : Send(s)
  \/ Handled \/ ConsumerExit \/ GatewaySent \/ PeerCloses

Stop == StopBegin \/ StopStream \/ StopEnd

Next == Reader \/ Writer \/ Users \/ Stop

Spec == Init /\ [][Next]_vars

(***************************************************************************)
(* Fairness.  Goroutines that can run do.  Inside a frame a read returns:  *)
(* by its timeout where the stream has one, and otherwise because the peer *)
(* that began a frame finishes it or the connection ends; that last part   *)
(* is an assumption on the peer.  Nothing makes a peer begin a frame.  A   *)
(* sync.Mutex goroutine that waits gets the mutex in the end (it has a     *)
(* starvation mode), as does a sender that waits on a channel (FIFO).      *)
(* Handlers run on the driver's goroutine (CallSync) and return, but once  *)
(* Stop has begun that goroutine may be gone and nothing is assumed.       *)
(***************************************************************************)
Fairness ==
  /\ WF_vars(ReadSync1 \/ Sync1Timeout \/ ReadLength \/ ReadBody \/ FrameTimeout)
  /\ WF_vars(ReadError) /\ WF_vars(CloseReadCh)
  /\ WF_vars(ForwardRaw \/ Parse \/ Deliver \/ Drain)
  /\ SF_vars(ReaderLock) /\ SF_vars(WriterLock)
  /\ WF_vars(WriterWrite) /\ WF_vars(WriterExit)
  /\ \A s \in Senders : SF_vars(WriterTake(s))
  /\ WF_vars(stop = "running" /\ Handled)
  /\ WF_vars(GatewaySent)
  /\ WF_vars(StopStream) /\ WF_vars(StopEnd)

FairSpec == Spec /\ Fairness

-----------------------------------------------------------------------------
(* The driver never writes to the bus while it is reading a frame from it, *)
(* whatever times out (the purpose of streamIO.mutex).                     *)
HalfDuplex == ~(wr = "write" /\ rd \in InFrame)

(* The reader holds the mutex exactly inside a frame: its five ways out of *)
(* a frame all give it back, so that the writer is never locked out and    *)
(* the reader never locks twice.  (Without timeouts.)                      *)
ReaderReleases == ~hasTimeout => (mutex = "reader" <=> rd \in InFrame)

(* The comment in Stop: closing the stream "kills ReadSmartbus goroutine   *)
(* by causing read error".                                                 *)
CloseKillsReader == stop = "draining" ~> rd = "closed"
=============================================================================
