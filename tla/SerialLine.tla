----------------------------- MODULE SerialLine ------------------------------
(***************************************************************************)
(* Line input (core/dev/serial-line.c).  The UART's receive interrupt      *)
(* calls serial_line_input_byte, which puts the byte into a ring buffer    *)
(* and polls serial_line_process; that process collects a line in buf,     *)
(* posts an event with a pointer to buf to all processes and, before it    *)
(* uses buf again, waits for an event it posts to itself behind.           *)
(*                                                                         *)
(* The ring is a FIFO of BUFSIZE - 1 bytes (RingBuffer implements it) and  *)
(* the event queue one of NUMEVENTS events (EventQueue).  A byte is        *)
(* represented by its place in the input: its line and its position there. *)
(***************************************************************************)
EXTENDS Integers, Sequences

CONSTANTS
  BUFSIZE,     \* SERIAL_LINE_CONF_BUFSIZE.
  NUMEVENTS,   \* PROCESS_CONF_NUMEVENTS.
  Lines,       \* Bound: lines are numbered modulo this.
  Longest,     \* Bound: the length of the longest line that is sent.
  MaxOthers    \* How many events other processes may have in the queue.

ASSUME LineAssumption ==
  /\ BUFSIZE \in Nat \ {0, 1}
  /\ NUMEVENTS \in Nat \ {0}
  /\ Lines \in Nat \ {0} /\ Longest \in Nat /\ MaxOthers \in Nat

END == [line |-> -1, pos |-> 0]
NUL == [line |-> -1, pos |-> 1]
Char == [line : 0 .. Lines - 1, pos : 1 .. Longest]

(* A received line, as its receivers read it: up to the terminator.        *)
Text(b) ==
  LET n == CHOOSE n \in 0 .. BUFSIZE : /\ n = BUFSIZE \/ b[n] = NUL
                                       /\ \A i \in 0 .. n - 1 : b[i] # NUL
  IN  [i \in 1 .. n |-> b[i - 1]]

VARIABLES
  sent,        \* The sender: the line it is in and how much of it is sent.
  rxbuf,       \* The ring buffer.
  overflow,
  needspoll,   \* serial_line_process has been asked for a poll.
  events,      \* The event queue: the kind of each event and, as history,
               \* the text of the line it announces.
  buf, ptr,    \* The line being collected.
  at           \* Where serial_line_process stands.

vars == <<sent, rxbuf, overflow, needspoll, events, buf, ptr, at>>

Kinds == {"line", "continue", "other"}
Event(kind, text) == [kind |-> kind, text |-> text]

TypeOK ==
  /\ sent \in [line : 0 .. Lines - 1, pos : 0 .. Longest]
  /\ rxbuf \in Seq(Char \union {END}) /\ Len(rxbuf) <= BUFSIZE - 1
  /\ overflow \in BOOLEAN /\ needspoll \in BOOLEAN
  /\ events \in Seq([kind : Kinds, text : Seq(Char)])
  /\ Len(events) <= NUMEVENTS
  /\ buf \in [0 .. BUFSIZE - 1 -> Char \union {NUL}]
  /\ ptr \in 0 .. BUFSIZE
  /\ at \in {"running", "yield", "wait"}

------------------------------------------------------------------------------
(* serial_line_input_byte, called by the interrupt handler; a carriage     *)
(* return is ignored and not sent here.                                    *)
Wakes_AtEnd(b) == b = END          \* Fault: only a whole line is announced.
Wakes(b) == TRUE

OverflowAfterEnd_Cleared(room) == FALSE   \* Fault: even if END got lost.
OverflowAfterEnd(room) == ~room

InputByte(b) ==
  LET room == Len(rxbuf) < BUFSIZE - 1
      put == room /\ (~overflow \/ b = END)
  IN  /\ rxbuf' = IF put THEN Append(rxbuf, b) ELSE rxbuf
      /\ overflow' = IF b = END THEN OverflowAfterEnd(room)
                                ELSE overflow \/ ~room
      /\ needspoll' = (needspoll \/ Wakes(b))
      /\ UNCHANGED <<events, buf, ptr, at>>

ReceiveChar ==
  /\ sent.pos < Longest
  /\ sent' = [sent EXCEPT !.pos = @ + 1]
  /\ InputByte(sent')

ReceiveEnd ==
  /\ sent' = [line |-> (sent.line + 1) % Lines, pos |-> 0]
  /\ InputByte(END)

------------------------------------------------------------------------------
(* serial_line_process: the ring is empty, and it waits for a poll; *)
Drained ==
  /\ at = "running" /\ rxbuf = <<>>
  /\ at' = "yield"
  /\ UNCHANGED <<sent, rxbuf, overflow, needspoll, events, buf, ptr>>

(* it stores a byte of the line, if there is room for the terminator; *)
Fits_Exactly == ptr < BUFSIZE      \* Fault: no room for the terminator.
Fits == ptr < BUFSIZE - 1

TakeChar ==
  /\ at = "running" /\ rxbuf # <<>> /\ Head(rxbuf) # END
  /\ rxbuf' = Tail(rxbuf)
  /\ \/ /\ Fits
        /\ buf' = [buf EXCEPT ![ptr] = Head(rxbuf)]
        /\ ptr' = ptr + 1
     \/ ~Fits /\ UNCHANGED <<buf, ptr>>
  /\ UNCHANGED <<sent, overflow, needspoll, events, at>>

(* or it terminates the line and posts the two events, as far as the queue *)
(* has room for them; it waits if both are in the queue.                   *)
Waits_Always(posted) == TRUE       \* Fault: the result is not looked at.
Waits_Never(posted) == FALSE       \* Fault: it goes on at once.
Waits(posted) == posted

Posted(queue, event) ==
  IF Len(queue) < NUMEVENTS THEN Append(queue, event) ELSE queue

TakeEnd ==
  /\ at = "running" /\ rxbuf # <<>> /\ Head(rxbuf) = END
  /\ rxbuf' = Tail(rxbuf)
  /\ buf' = [buf EXCEPT ![ptr] = NUL]
  /\ LET broadcast == Posted(events, Event("line", Text(buf')))
     IN  /\ events' = Posted(broadcast, Event("continue", <<>>))
         /\ \/ /\ Waits(events' # broadcast)
               /\ at' = "wait"
               /\ ptr' = ptr + 1
            \/ /\ ~Waits(events' # broadcast)
               /\ at' = "running"
               /\ ptr' = 0
  /\ UNCHANGED <<sent, overflow, needspoll>>

------------------------------------------------------------------------------
(* The main loop polls the process or delivers an event.  PROCESS_YIELD    *)
(* returns on any event the process receives, PROCESS_WAIT_EVENT_UNTIL     *)
(* only on PROCESS_EVENT_CONTINUE.  The receivers of the line read buf     *)
(* before the process is called: they are started later, so the list has   *)
(* them first.                                                             *)
Polled ==
  /\ at # "running" /\ needspoll
  /\ needspoll' = FALSE
  /\ at' = IF at = "yield" THEN "running" ELSE at
  /\ UNCHANGED <<sent, rxbuf, overflow, events, buf, ptr>>

Deliver ==
  /\ at # "running" /\ events # <<>>
  /\ events' = Tail(events)
  /\ \/ /\ at = "wait" /\ Head(events).kind = "continue"
        /\ at' = "running" /\ ptr' = 0
     \/ /\ at = "yield" /\ Head(events).kind # "other"
        /\ at' = "running" /\ UNCHANGED ptr
     \/ /\ \/ Head(events).kind = "other"
           \/ at = "wait" /\ Head(events).kind = "line"
        /\ UNCHANGED <<at, ptr>>
  /\ UNCHANGED <<sent, rxbuf, overflow, needspoll, buf>>

OtherPost ==
  /\ at # "running" /\ Len(events) < NUMEVENTS
  /\ Len(SelectSeq(events, LAMBDA e : e.kind = "other")) < MaxOthers
  /\ events' = Append(events, Event("other", <<>>))
  /\ UNCHANGED <<sent, rxbuf, overflow, needspoll, buf, ptr, at>>

(* serial_line_init starts the process, which runs.  buf is zeroed memory. *)
Init ==
  /\ sent = [line |-> 0, pos |-> 0]
  /\ rxbuf = <<>> /\ overflow = FALSE
  /\ needspoll = FALSE
  /\ events = <<>>
  /\ buf = [i \in 0 .. BUFSIZE - 1 |-> NUL] /\ ptr = 0
  /\ at = "running"

Collect == Drained \/ TakeChar \/ TakeEnd

Next == Collect \/ Polled \/ Deliver \/ OtherPost \/ ReceiveChar \/ ReceiveEnd

Spec == Init /\ [][Next]_vars

(* The process runs on when it is called, and the main loop delivers the   *)
(* events (QueueDrains of ProcessKernel).                                  *)
FairSpec == Spec /\ WF_vars(Collect) /\ SF_vars(Deliver)

------------------------------------------------------------------------------
(* The properties. *)

(* The line that was posted is the line that the receivers find in buf, if *)
(* the event to wait for was posted, too: serial_line_process does not use *)
(* buf again before they have run, whatever arrives or is posted meanwhile.*)
AnnouncedIntact ==
  [][(/\ Len(events) > 1 /\ events' = Tail(events)
      /\ events[1].kind = "line" /\ events[2].kind = "continue")
         => Text(buf) = events[1].text]_vars

(* After an overflow the rest of the line is ignored: what is posted as a  *)
(* line is always the beginning of one line that was sent, never the       *)
(* pieces of two, whichever of its bytes found the ring full.              *)
NoLinesMixed ==
  \A i \in DOMAIN events : \A j \in DOMAIN events[i].text :
    events[i].text[j] = [line |-> events[i].text[1].line, pos |-> j]

(* Buffers stay within their limits, and hold pieces of one line each.     *)
LinesSound == TypeOK /\ NoLinesMixed

(* No byte is left lying in the ring: while the process waits for a poll   *)
(* one is coming, if the interrupt came just before the process yielded.   *)
NoByteStranded == at = "yield" /\ rxbuf # <<>> => needspoll

(* The wait for the receivers ends, even if the queue is full.             *)
WaitEnds == at = "wait" ~> at # "wait"
==============================================================================
