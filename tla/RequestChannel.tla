--------------------------- MODULE RequestChannel ---------------------------
(***************************************************************************)
(* What the message queue promises to the device models, without its       *)
(* goroutine, its locks, its timers and its quit and done channels.        *)
(*                                                                         *)
(* Requests are served one at a time and in the order of acceptance.  A    *)
(* request in flight leaves in one of three ways only: by taking the       *)
(* oldest unread message, which has to be its response; after              *)
(* NumRetries + 1 transmissions; or because the channel is closing.  While *)
(* the channel is closed or opening nothing is in flight, and what was     *)
(* accepted or heard before an opening is forgotten by it.                 *)
(***************************************************************************)
EXTENDS Naturals, Sequences

CONSTANTS Item, Msg, IsResponse(_, _), NumRetries, QueueSize, InboundSize,
          None

VARIABLES
  timed,    \* requests wait for their responses
  phase,    \* "closed", "opening", "open" or "closing"
  line,     \* accepted requests that wait, oldest first
  inbox,    \* messages nobody has read, oldest first
  current,  \* the request in flight
  tries     \* transmissions of the request in flight, the one begun included

chan == <<timed, phase, line, inbox, current, tries>>

Init ==
  /\ timed \in BOOLEAN
  /\ phase = "closed"
  /\ line = <<>>
  /\ inbox = <<>>
  /\ current = None
  /\ tries = 0

Move(from, to) == phase = from /\ phase' = to

Open == Move("closed", "opening") /\ UNCHANGED <<timed, line, inbox, current, tries>>

Forget ==
  /\ phase = "opening"
  /\ \/ line # <<>> /\ line' = Tail(line) /\ UNCHANGED inbox
     \/ inbox # <<>> /\ inbox' = Tail(inbox) /\ UNCHANGED line
  /\ UNCHANGED <<timed, phase, current, tries>>

(* The channel opens for business with nothing left from before.           *)
Opened ==
  /\ Move("opening", "open")
  /\ line = <<>>
  /\ inbox = <<>>
  /\ UNCHANGED <<timed, line, inbox, current, tries>>

Close == Move("open", "closing") /\ UNCHANGED <<timed, line, inbox, current, tries>>

Closed ==
  /\ Move("closing", "closed")
  /\ current = None
  /\ UNCHANGED <<timed, line, inbox, current, tries>>

Accept(i) ==
  /\ Len(line) < QueueSize
  /\ line' = Append(line, i)
  /\ UNCHANGED <<timed, phase, inbox, current, tries>>

Hear(m) ==
  /\ Len(inbox) < InboundSize
  /\ inbox' = Append(inbox, m)
  /\ UNCHANGED <<timed, phase, line, current, tries>>

Serving == phase \in {"open", "closing"}

Begin ==
  /\ Serving
  /\ current = None
  /\ line # <<>>
  /\ current' = Head(line)
  /\ line' = Tail(line)
  /\ tries' = 1
  /\ UNCHANGED <<timed, phase, inbox>>

Repeat ==
  /\ Serving
  /\ timed
  /\ current # None
  /\ tries <= NumRetries
  /\ tries' = tries + 1
  /\ UNCHANGED <<timed, phase, line, inbox, current>>

(* The request leaves.                                                     *)
Leave == Serving /\ current # None /\ current' = None /\ tries' = 0

Answered ==
  /\ Leave
  /\ timed
  /\ inbox # <<>>
  /\ IsResponse(current, Head(inbox))
  /\ inbox' = Tail(inbox)
  /\ UNCHANGED <<timed, phase, line>>

GivenUp ==
  /\ Leave
  /\ timed
  /\ tries = NumRetries + 1
  /\ UNCHANGED <<timed, phase, line, inbox>>

Abandoned ==
  /\ Leave
  /\ timed
  /\ phase = "closing"
  /\ UNCHANGED <<timed, phase, line, inbox>>

(* Without timers a request is sent once and not waited for.               *)
SentOnly ==
  /\ Leave
  /\ ~timed
  /\ UNCHANGED <<timed, phase, line, inbox>>

(* A message is dropped unless it answers the request in flight.           *)
Discard ==
  /\ Serving
  /\ inbox # <<>>
  /\ current = None \/ ~IsResponse(current, Head(inbox))
  /\ inbox' = Tail(inbox)
  /\ UNCHANGED <<timed, phase, line, current, tries>>

Next ==
  \/ Open \/ Forget \/ Opened \/ Close \/ Closed
  \/ \E i \in Item : Accept(i)
  \/ \E m \in Msg : Hear(m)
  \/ Begin \/ Repeat
  \/ Answered \/ GivenUp \/ Abandoned \/ SentOnly \/ Discard

Spec == Init /\ [][Next]_chan
=============================================================================
