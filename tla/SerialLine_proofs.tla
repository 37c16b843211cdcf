-------------------------- MODULE SerialLine_proofs ---------------------------
(***************************************************************************)
(* For any length of the buffers, of the event queue and of the lines: the *)
(* buffers keep their limits, a line that is posted is a piece of one line *)
(* that was sent, its receivers find it in buf, and no byte is stranded.   *)
(*                                                                         *)
(* What arrives is cut at the ends of lines that the ring had room for.    *)
(* The invariant follows the line across the three places where it is: the *)
(* ring continues buf, and unless bytes are being ignored the next byte    *)
(* that is sent continues the ring.                                        *)
(***************************************************************************)
EXTENDS SerialLine, SequenceTheorems, TLAPS

Byte == Char \union {END}

(* b may come after a in the ring. *)
Follows(a, b) ==
  \/ b = END
  \/ a = END /\ b.pos = 1
  \/ a # END /\ b.line = a.line /\ b.pos = a.pos + 1

(* How much of a line is in buf; while the process waits for the receivers *)
(* of the last one, nothing.                                               *)
Taken == IF at = "wait" THEN 0 ELSE ptr

(* b may be the next byte that the process takes when it has n bytes of a  *)
(* line: the rest of a line that is too long is left out.                  *)
Continues(n, line, b) ==
  \/ b = END
  \/ n = 0 /\ b.pos = 1
  \/ n = BUFSIZE - 1
  \/ n > 0 /\ b.line = line /\ b.pos = n + 1

(* The byte that the sender sends next, if the line goes on. *)
Upcoming == [line |-> sent.line, pos |-> sent.pos + 1]

BufferOK ==
  /\ Taken < BUFSIZE
  /\ \A i \in 0 .. Taken - 1 :
       buf[i] \in Char /\ buf[i].line = buf[0].line /\ buf[i].pos = i + 1

RingOK ==
  /\ \A i \in 1 .. Len(rxbuf) - 1 : Follows(rxbuf[i], rxbuf[i + 1])
  /\ rxbuf # <<>> => Continues(Taken, buf[0].line, rxbuf[1])
  /\ ~overflow => IF rxbuf = <<>> THEN Continues(Taken, buf[0].line, Upcoming)
                                  ELSE Follows(rxbuf[Len(rxbuf)], Upcoming)

(* The process waits exactly while its event to itself is in the queue,    *)
(* and what that event comes right behind is the line in buf.              *)
QueueOK ==
  /\ at # "wait" => \A i \in DOMAIN events : events[i].kind # "continue"
  /\ \A i, j \in DOMAIN events :
       events[i].kind = "continue" /\ events[j].kind = "continue" => i = j
  /\ \A i \in 1 .. Len(events) - 1 :
       events[i].kind = "line" /\ events[i + 1].kind = "continue"
         => Text(buf) = events[i].text

IInv ==
  TypeOK /\ NoLinesMixed /\ NoByteStranded /\ BufferOK /\ RingOK /\ QueueOK

------------------------------------------------------------------------------
(* Bytes, sequences and the text of a line. *)

LEMMA Marks ==
  /\ END \notin Char /\ NUL \notin Char /\ END # NUL
  /\ \A c \in Char : c.line \in Nat /\ c.pos \in Nat /\ c # END /\ c # NUL
<1>1. \A c \in Char : c.line \in 0 .. Lines - 1 /\ c.pos \in 1 .. Longest
  BY DEF Char
<1>2. END.line = -1 /\ NUL.line = -1 /\ END.pos = 0 /\ NUL.pos = 1
  BY DEF END, NUL
<1>3. Lines \in Nat /\ Longest \in Nat
  BY LineAssumption
<1> QED
  BY <1>1, <1>2, <1>3

LEMMA RestProperties ==
  ASSUME NEW S, NEW s \in Seq(S), s # <<>>
  PROVE  /\ Head(s) \in S /\ Head(s) = s[1] /\ Len(s) \in Nat /\ Len(s) > 0
         /\ Tail(s) \in Seq(S)
         /\ Len(Tail(s)) = Len(s) - 1
         /\ \A i \in 1 .. Len(s) - 1 : Tail(s)[i] = s[i + 1]
BY HeadTailProperties

(* A line ends at the first terminator. *)
LEMMA TextIs ==
  ASSUME NEW b, NEW n \in 0 .. BUFSIZE - 1,
         b[n] = NUL, \A i \in 0 .. n - 1 : b[i] # NUL
  PROVE  Text(b) = [i \in 1 .. n |-> b[i - 1]]
<1> DEFINE P(m) == /\ m = BUFSIZE \/ b[m] = NUL
                   /\ \A i \in 0 .. m - 1 : b[i] # NUL
<1>0. BUFSIZE \in Nat /\ n \in Nat /\ n < BUFSIZE
  BY LineAssumption
<1>1. n \in 0 .. BUFSIZE /\ P(n)
  BY <1>0
<1>2. ASSUME NEW m \in 0 .. BUFSIZE, P(m) PROVE m = n
  <2>1. CASE m < n
    BY <1>0, <1>2, <2>1
  <2>2. CASE m > n
    <3>1. n \in 0 .. m - 1
      BY <1>0, <2>2
    <3> QED
      BY <1>2, <3>1
  <2> QED
    BY <1>0, <2>1, <2>2
<1>3. (CHOOSE m \in 0 .. BUFSIZE : P(m)) = n
  BY <1>1, <1>2
<1> QED
  BY <1>3 DEF Text

------------------------------------------------------------------------------
LEMMA InitIInv == Init => IInv
<1> SUFFICES ASSUME Init PROVE IInv
  OBVIOUS
<1>1. /\ <<>> \in Seq(Char \union {END}) /\ <<>> \in Seq([kind : Kinds, text : Seq(Char)])
      /\ Len(<<>>) = 0
  OBVIOUS
<1>2. TypeOK
  <2>1. sent \in [line : 0 .. Lines - 1, pos : 0 .. Longest]
    BY LineAssumption DEF Init
  <2>2. /\ rxbuf \in Seq(Char \union {END}) /\ Len(rxbuf) <= BUFSIZE - 1
        /\ events \in Seq([kind : Kinds, text : Seq(Char)]) /\ Len(events) <= NUMEVENTS
    BY <1>1, LineAssumption DEF Init
  <2>3. buf \in [0 .. BUFSIZE - 1 -> Char \union {NUL}]
    BY DEF Init
  <2>4. /\ overflow \in BOOLEAN /\ needspoll \in BOOLEAN
        /\ ptr \in 0 .. BUFSIZE /\ at \in {"running", "yield", "wait"}
    BY LineAssumption DEF Init
  <2> QED
    BY <2>1, <2>2, <2>3, <2>4 DEF TypeOK
<1>3. BufferOK /\ RingOK
  BY <1>1, LineAssumption DEF Init, BufferOK, RingOK, Continues, Taken, Upcoming
<1> QED
  BY <1>1, <1>2, <1>3 DEF Init, IInv, NoLinesMixed, NoByteStranded, QueueOK

(* The interrupt, with a byte of the line or its end. *)
LEMMA InputOK ==
  ASSUME IInv, NEW b \in Byte, InputByte(b),
         sent' \in [line : 0 .. Lines - 1, pos : 0 .. Longest],
         \/ b = END /\ sent'.pos = 0
         \/ b \in Char /\ b = Upcoming /\ sent' = b
  PROVE  IInv'
<1>0. TypeOK
  BY DEF IInv
<1>1. UNCHANGED <<events, buf, ptr, at>>
  BY DEF InputByte
<1>2. /\ rxbuf \in Seq(Byte) /\ Len(rxbuf) \in Nat
      /\ Append(rxbuf, b) \in Seq(Byte) /\ Len(Append(rxbuf, b)) = Len(rxbuf) + 1
      /\ \A i \in 1 .. Len(rxbuf) : Append(rxbuf, b)[i] = rxbuf[i]
      /\ Append(rxbuf, b)[Len(rxbuf) + 1] = b
      /\ rxbuf = <<>> <=> Len(rxbuf) = 0
  BY <1>0, AppendProperties, EmptySeq DEF TypeOK, Byte
<1>3. BUFSIZE \in Nat
  BY LineAssumption
<1> DEFINE room == Len(rxbuf) < BUFSIZE - 1
           put == room /\ (~overflow \/ b = END)
<1>4. /\ rxbuf' = IF put THEN Append(rxbuf, b) ELSE rxbuf
      /\ overflow' = IF b = END THEN ~room ELSE overflow \/ ~room
      /\ needspoll' = TRUE
  BY <1>0 DEF InputByte, OverflowAfterEnd, Wakes, TypeOK
<1>5. TypeOK'
  <2>1. rxbuf' \in Seq(Byte) /\ Len(rxbuf') <= BUFSIZE - 1
    BY <1>0, <1>2, <1>3, <1>4 DEF TypeOK
  <2>2. overflow' \in BOOLEAN /\ needspoll' \in BOOLEAN
    BY <1>0, <1>4 DEF TypeOK
  <2> QED
    BY <1>0, <1>1, <2>1, <2>2 DEF TypeOK, Byte
<1>6. ~overflow' => put
  BY <1>0, <1>4 DEF TypeOK
<1>7. Taken' = Taken /\ buf' = buf
  BY <1>1 DEF Taken
<1>8. b = END \/ ~overflow => IF rxbuf = <<>> THEN Continues(Taken, buf[0].line, b)
                                              ELSE Follows(rxbuf[Len(rxbuf)], b)
  BY DEF IInv, RingOK, Continues, Follows
<1>9. CASE put
  <2>1. /\ rxbuf' = Append(rxbuf, b) /\ rxbuf' # <<>> /\ Len(rxbuf') = Len(rxbuf) + 1
    BY <1>2, <1>4, <1>9
  <2>2. ASSUME NEW i \in 1 .. Len(rxbuf') - 1 PROVE Follows(rxbuf'[i], rxbuf'[i + 1])
    <3>1. CASE i = Len(rxbuf)
      BY <1>2, <1>8, <1>9, <2>1, <3>1
    <3>2. CASE i # Len(rxbuf)
      <4>1. i \in 1 .. Len(rxbuf) - 1 /\ i + 1 \in 1 .. Len(rxbuf)
        BY <1>2, <2>1, <3>2
      <4> QED
        BY <1>2, <2>1, <4>1 DEF IInv, RingOK
    <3> QED
      BY <3>1, <3>2
  <2>3. Continues(Taken, buf[0].line, rxbuf'[1])
    <3>1. CASE rxbuf = <<>>
      BY <1>2, <1>8, <1>9, <2>1, <3>1
    <3>2. CASE rxbuf # <<>>
      BY <1>2, <2>1, <3>2 DEF IInv, RingOK
    <3> QED
      BY <3>1, <3>2
  <2>4. Follows(rxbuf'[Len(rxbuf')], Upcoming')
    BY <1>2, <2>1, Marks DEF Follows, Upcoming
  <2> QED
    BY <1>1, <1>4, <1>5, <1>7, <2>1, <2>2, <2>3, <2>4
       DEF IInv, NoLinesMixed, NoByteStranded, BufferOK, RingOK, QueueOK
<1>10. CASE ~put
  BY <1>1, <1>4, <1>5, <1>6, <1>7, <1>10
     DEF IInv, NoLinesMixed, NoByteStranded, BufferOK, RingOK, QueueOK
<1> QED
  BY <1>9, <1>10

(* serial_line_process stores a byte, or leaves it out. *)
LEMMA TakeCharOK == IInv /\ TakeChar => IInv'
<1> SUFFICES ASSUME IInv, TakeChar PROVE IInv'
  OBVIOUS
<1>0. TypeOK /\ BUFSIZE \in Nat /\ BUFSIZE > 1
  BY LineAssumption DEF IInv
<1>1. /\ at = "running" /\ rxbuf # <<>> /\ rxbuf' = Tail(rxbuf) /\ Head(rxbuf) # END
      /\ UNCHANGED <<sent, overflow, needspoll, events, at>>
  BY DEF TakeChar
<1>2. /\ rxbuf[1] \in Char /\ rxbuf[1] # END /\ Head(rxbuf) = rxbuf[1]
      /\ Len(rxbuf) \in Nat /\ Len(rxbuf) > 0
      /\ rxbuf' \in Seq(Byte) /\ Len(rxbuf') = Len(rxbuf) - 1
      /\ \A i \in 1 .. Len(rxbuf) - 1 : rxbuf'[i] = rxbuf[i + 1]
      /\ rxbuf' = <<>> <=> Len(rxbuf) = 1
  <2>1. rxbuf \in Seq(Byte)
    BY <1>0 DEF TypeOK, Byte
  <2>2. /\ Head(rxbuf) \in Byte /\ Head(rxbuf) = rxbuf[1]
        /\ Len(rxbuf) \in Nat /\ Len(rxbuf) > 0
        /\ rxbuf' \in Seq(Byte) /\ Len(rxbuf') = Len(rxbuf) - 1
        /\ \A i \in 1 .. Len(rxbuf) - 1 : rxbuf'[i] = rxbuf[i + 1]
    BY <1>1, <2>1, RestProperties
  <2>3. rxbuf[1] \in Char
    BY <1>1, <2>2 DEF Byte
  <2>4. rxbuf' = <<>> <=> Len(rxbuf') = 0
    BY <2>2, EmptySeq
  <2> QED
    BY <1>1, <2>2, <2>3, <2>4
<1>3. Taken = ptr /\ Taken' = ptr' /\ ptr \in 0 .. BUFSIZE - 1
      /\ Continues(ptr, buf[0].line, rxbuf[1])
  BY <1>0, <1>1 DEF IInv, TypeOK, BufferOK, RingOK, Taken
<1>4. buf' \in [0 .. BUFSIZE - 1 -> Char \union {NUL}] /\ ptr' \in 0 .. BUFSIZE - 1
  BY SMTT(60), <1>0, <1>2, <1>3 DEF TakeChar, TypeOK, Fits
<1>5. TypeOK'
  BY <1>0, <1>1, <1>2, <1>4 DEF TypeOK, Byte
<1>6. ptr' > 0 /\ \A i \in 0 .. ptr' - 1 :
        buf'[i] \in Char /\ buf'[i].line = buf'[0].line /\ buf'[i].pos = i + 1
  <2>1. \A i \in 0 .. ptr - 1 :
          buf[i] \in Char /\ buf[i].line = buf[0].line /\ buf[i].pos = i + 1
    BY <1>3 DEF IInv, BufferOK
  <2>2. CASE ~Fits
    BY <1>0, <1>3, <2>1, <2>2 DEF TakeChar, Fits
  <2>3. CASE Fits /\ ptr = 0
    <3>1. ptr' = 1 /\ buf'[0] = rxbuf[1] /\ rxbuf[1].pos = 1
      BY <1>0, <1>1, <1>2, <1>3, <2>3 DEF TakeChar, Continues, TypeOK, Fits
    <3> QED
      BY <1>2, <3>1
  <2>4. CASE Fits /\ ptr > 0
    <3>1. rxbuf[1].line = buf[0].line /\ rxbuf[1].pos = ptr + 1
      BY <1>0, <1>1, <1>2, <1>3, <2>4 DEF Continues, Fits
    <3>2. /\ ptr' = ptr + 1 /\ buf'[ptr] = rxbuf[1]
          /\ \A i \in 0 .. ptr - 1 : buf'[i] = buf[i]
      BY <1>0, <1>2, <1>3, <2>4 DEF TakeChar, TypeOK
    <3>3. ASSUME NEW i \in 0 .. ptr' - 1
          PROVE  buf'[i] \in Char /\ buf'[i].line = buf'[0].line /\ buf'[i].pos = i + 1
      <4>1. buf'[0] = buf[0]
        BY <1>3, <2>4, <3>2
      <4>2. i = ptr \/ i \in 0 .. ptr - 1
        BY <1>3, <3>2
      <4> QED
        BY <1>2, <2>1, <3>1, <3>2, <4>1, <4>2
    <3> QED
      BY <1>3, <3>2, <3>3
  <2> QED
    BY <1>3, <2>2, <2>3, <2>4
<1>7. ASSUME NEW b, Follows(rxbuf[1], b)
      PROVE  Continues(ptr', buf'[0].line, b)
  <2>1. CASE b = END
    BY <2>1 DEF Continues
  <2>2. CASE b.line = rxbuf[1].line /\ b.pos = rxbuf[1].pos + 1
    <3>1. CASE ~Fits
      BY <1>0, <1>3, <3>1 DEF TakeChar, Fits, Continues
    <3>2. CASE Fits
      <4>1. ptr' = ptr + 1 /\ buf'[ptr] = rxbuf[1]
        BY <1>0, <1>2, <1>3, <3>2 DEF TakeChar, TypeOK
      <4>2. rxbuf[1].line = buf'[0].line /\ rxbuf[1].pos = ptr'
        BY <1>3, <1>6, <4>1
      <4> QED
        BY <1>6, <2>2, <4>2 DEF Continues
    <3> QED
      BY <3>1, <3>2
  <2> QED
    BY <1>2, <1>7, <2>1, <2>2 DEF Follows
<1>8. RingOK'
  <2>1. ASSUME NEW i \in 1 .. Len(rxbuf') - 1 PROVE Follows(rxbuf'[i], rxbuf'[i + 1])
    <3>1. i + 1 \in 1 .. Len(rxbuf) - 1 /\ rxbuf'[i] = rxbuf[i + 1]
          /\ rxbuf'[i + 1] = rxbuf[(i + 1) + 1]
      BY <1>2
    <3> QED
      BY <3>1 DEF IInv, RingOK
  <2>2. rxbuf' # <<>> => Continues(ptr', buf'[0].line, rxbuf'[1])
    <3>1. rxbuf' # <<>> => 1 \in 1 .. Len(rxbuf) - 1 /\ rxbuf'[1] = rxbuf[1 + 1]
      BY <1>2
    <3>2. rxbuf' # <<>> => Follows(rxbuf[1], rxbuf[1 + 1])
      BY <3>1 DEF IInv, RingOK
    <3> QED
      BY <1>7, <3>1, <3>2
  <2>3. ~overflow' => IF rxbuf' = <<>> THEN Continues(ptr', buf'[0].line, Upcoming')
                                      ELSE Follows(rxbuf'[Len(rxbuf')], Upcoming')
    <3>1. ~overflow' => Follows(rxbuf[Len(rxbuf)], Upcoming) /\ Upcoming' = Upcoming
      BY <1>1 DEF IInv, RingOK, Upcoming
    <3>2. rxbuf' # <<>> => rxbuf'[Len(rxbuf')] = rxbuf[Len(rxbuf)]
      BY <1>2
    <3> QED
      BY <1>2, <1>7, <3>1, <3>2
  <2> QED
    BY <1>3, <2>1, <2>2, <2>3 DEF RingOK
<1>9. BufferOK'
  <2>1. Taken' < BUFSIZE /\ Taken' - 1 = ptr' - 1
    BY <1>0, <1>3, <1>4
  <2> QED
    BY <1>6, <2>1 DEF BufferOK
<1>10. QueueOK'
  <2>1. \A i \in 1 .. Len(events) : events[i].kind # "continue"
    BY <1>0, <1>1, LenProperties DEF IInv, QueueOK, TypeOK
  <2>2. Len(events) \in Nat
    BY <1>0, LenProperties DEF TypeOK
  <2> QED
    BY <1>1, <2>1, <2>2 DEF IInv, QueueOK
<1> QED
  BY <1>1, <1>5, <1>8, <1>9, <1>10 DEF IInv, NoLinesMixed, NoByteStranded

Announcement == [kind : Kinds, text : Seq(Char)]

LEMMA PostedOK ==
  ASSUME NEW q \in Seq(Announcement), Len(q) <= NUMEVENTS, NEW e \in Announcement
  PROVE  /\ Posted(q, e) \in Seq(Announcement) /\ Len(Posted(q, e)) <= NUMEVENTS
         /\ Len(q) \in Nat
         /\ \/ Len(q) = NUMEVENTS /\ Posted(q, e) = q
            \/ /\ Len(q) < NUMEVENTS /\ Posted(q, e) # q
               /\ Len(Posted(q, e)) = Len(q) + 1
               /\ Posted(q, e)[Len(q) + 1] = e
               /\ \A i \in 1 .. Len(q) : Posted(q, e)[i] = q[i]
<1>1. NUMEVENTS \in Nat /\ Len(q) \in Nat
  BY LineAssumption, LenProperties
<1>2. CASE Len(q) < NUMEVENTS
  <2>1. Posted(q, e) = Append(q, e)
    BY <1>2 DEF Posted
  <2>2. /\ Append(q, e) \in Seq(Announcement) /\ Len(Append(q, e)) = Len(q) + 1
        /\ Append(q, e)[Len(q) + 1] = e
        /\ \A i \in 1 .. Len(q) : Append(q, e)[i] = q[i]
    BY AppendProperties
  <2>3. Append(q, e) # q
    BY <1>1, <2>2
  <2> QED
    BY <1>1, <1>2, <2>1, <2>2, <2>3
<1>3. CASE ~(Len(q) < NUMEVENTS)
  <2>1. Posted(q, e) = q /\ Len(q) = NUMEVENTS
    BY <1>1, <1>3 DEF Posted
  <2> QED
    BY <1>1, <2>1
<1> QED
  BY <1>2, <1>3

(* It terminates the line and announces it. *)
LEMMA TakeEndOK == IInv /\ TakeEnd => IInv'
<1> SUFFICES ASSUME IInv, TakeEnd PROVE IInv'
  OBVIOUS
<1> DEFINE text == Text(buf')
           line == Event("line", text)
           continue == Event("continue", <<>>)
           broadcast == Posted(events, line)
<1>0. TypeOK /\ BUFSIZE \in Nat /\ BUFSIZE > 1
  BY LineAssumption DEF IInv
<1>1. /\ at = "running" /\ rxbuf # <<>> /\ rxbuf' = Tail(rxbuf) /\ Head(rxbuf) = END
      /\ buf' = [buf EXCEPT ![ptr] = NUL]
      /\ events' = Posted(broadcast, continue)
      /\ UNCHANGED <<sent, overflow, needspoll>>
  BY DEF TakeEnd
<1>2. /\ rxbuf[1] = END /\ Len(rxbuf) \in Nat /\ Len(rxbuf) > 0
      /\ rxbuf' \in Seq(Byte) /\ Len(rxbuf') = Len(rxbuf) - 1
      /\ \A i \in 1 .. Len(rxbuf) - 1 : rxbuf'[i] = rxbuf[i + 1]
      /\ rxbuf' = <<>> <=> Len(rxbuf) = 1
  <2>1. rxbuf \in Seq(Byte)
    BY <1>0 DEF TypeOK, Byte
  <2>2. /\ Head(rxbuf) = rxbuf[1] /\ Len(rxbuf) \in Nat /\ Len(rxbuf) > 0
        /\ rxbuf' \in Seq(Byte) /\ Len(rxbuf') = Len(rxbuf) - 1
        /\ \A i \in 1 .. Len(rxbuf) - 1 : rxbuf'[i] = rxbuf[i + 1]
    BY <1>1, <2>1, RestProperties
  <2>3. rxbuf' = <<>> <=> Len(rxbuf') = 0
    BY <2>2, EmptySeq
  <2> QED
    BY <1>1, <2>2, <2>3
<1>3. Taken = ptr /\ ptr \in 0 .. BUFSIZE - 1
      /\ \A i \in 0 .. ptr - 1 :
           buf[i] \in Char /\ buf[i].line = buf[0].line /\ buf[i].pos = i + 1
  BY <1>0, <1>1 DEF IInv, TypeOK, BufferOK, Taken
<1>4. /\ \/ events' # broadcast /\ at' = "wait" /\ ptr' = ptr + 1
         \/ events' = broadcast /\ at' = "running" /\ ptr' = 0
      /\ Taken' = 0 /\ ptr' \in 0 .. BUFSIZE
  <2>1. \/ events' # broadcast /\ at' = "wait" /\ ptr' = ptr + 1
        \/ events' = broadcast /\ at' = "running" /\ ptr' = 0
    BY DEF TakeEnd, Waits
  <2> QED
    BY <1>0, <1>3, <2>1 DEF Taken
<1>5. buf' \in [0 .. BUFSIZE - 1 -> Char \union {NUL}]
      /\ buf'[ptr] = NUL /\ \A i \in 0 .. ptr - 1 : buf'[i] = buf[i]
  BY <1>0, <1>1, <1>3 DEF TypeOK
<1>6. text = [i \in 1 .. ptr |-> buf[i - 1]]
  <2>1. text = [i \in 1 .. ptr |-> buf'[i - 1]]
    BY <1>3, <1>5, TextIs, Marks
  <2> QED
    BY <1>3, <1>5, <2>1
<1>7. text \in Seq(Char) /\ DOMAIN text = 1 .. ptr
      /\ \A j \in 1 .. ptr : text[j] = [line |-> text[1].line, pos |-> j]
  <2>1. \A j \in 1 .. ptr : text[j] = buf[j - 1] /\ text[j] \in Char
    BY <1>3, <1>6
  <2>2. text \in Seq(Char) /\ DOMAIN text = 1 .. ptr
    BY <1>3, <1>6, <2>1
  <2>3. ASSUME NEW j \in 1 .. ptr PROVE text[j] = [line |-> text[1].line, pos |-> j]
    <3>1. text[1] = buf[0] /\ text[j].line = buf[0].line /\ text[j].pos = j
      BY <1>3, <2>1
    <3> QED
      BY <2>1, <3>1 DEF Char
  <2> QED
    BY <2>2, <2>3
<1> HIDE DEF text
<1>8. line \in Announcement /\ continue \in Announcement
  BY <1>7 DEF Event, Announcement, Kinds
<1>9. events \in Seq(Announcement) /\ Len(events) <= NUMEVENTS
      /\ Len(events) \in Nat /\ DOMAIN events = 1 .. Len(events)
  BY <1>0, LenProperties DEF TypeOK, Announcement
<1> HIDE DEF line, continue
<1>10. /\ broadcast \in Seq(Announcement) /\ Len(broadcast) <= NUMEVENTS
       /\ \/ Len(events) = NUMEVENTS /\ broadcast = events
          \/ /\ Len(broadcast) = Len(events) + 1 /\ broadcast[Len(events) + 1] = line
             /\ \A i \in 1 .. Len(events) : broadcast[i] = events[i]
  BY <1>8, <1>9, PostedOK
<1> HIDE DEF broadcast
<1>11. /\ events' \in Seq(Announcement) /\ Len(events') <= NUMEVENTS
       /\ Len(events') \in Nat /\ Len(broadcast) \in Nat
       /\ \/ Len(broadcast) = NUMEVENTS /\ events' = broadcast
          \/ /\ Len(broadcast) < NUMEVENTS /\ events' # broadcast
             /\ Len(events') = Len(broadcast) + 1
             /\ events'[Len(broadcast) + 1] = continue
             /\ \A i \in 1 .. Len(broadcast) : events'[i] = broadcast[i]
  BY <1>1, <1>8, <1>10, PostedOK, LenProperties
<1>12. DOMAIN events' = 1 .. Len(events')
  BY <1>11, LenProperties
<1>13. \A i \in DOMAIN events' :
         \/ i \in DOMAIN events /\ events'[i] = events[i]
         \/ i = Len(events) + 1 /\ events'[i] = line
         \/ i = Len(events) + 2 /\ events'[i] = continue /\ events'[i - 1] = line
              /\ at' = "wait"
  <2> SUFFICES ASSUME NEW i \in 1 .. Len(events')
               PROVE  \/ i \in DOMAIN events /\ events'[i] = events[i]
                      \/ i = Len(events) + 1 /\ events'[i] = line
                      \/ i = Len(events) + 2 /\ events'[i] = continue
                           /\ events'[i - 1] = line /\ at' = "wait"
    BY <1>12
  <2>0. Len(events) \in Nat /\ DOMAIN events = 1 .. Len(events) /\ Len(events) <= NUMEVENTS
        /\ NUMEVENTS \in Nat /\ Len(broadcast) \in Nat /\ Len(events') \in Nat
    BY <1>9, <1>11, LineAssumption
  <2>1. ASSUME NEW k \in 1 .. Len(broadcast)
        PROVE  \/ k \in DOMAIN events /\ broadcast[k] = events[k]
               \/ k = Len(events) + 1 /\ broadcast[k] = line
    <3>1. CASE broadcast = events
      BY <2>0, <3>1
    <3>2. CASE /\ Len(broadcast) = Len(events) + 1 /\ broadcast[Len(events) + 1] = line
               /\ \A j \in 1 .. Len(events) : broadcast[j] = events[j]
      BY <2>0, <3>2
    <3> QED
      BY <1>10, <3>1, <3>2
  <2>2. CASE events' = broadcast
    BY <2>1, <2>2
  <2>3. CASE events' # broadcast
    <3>1. /\ Len(broadcast) < NUMEVENTS /\ Len(events') = Len(broadcast) + 1
          /\ events'[Len(broadcast) + 1] = continue
          /\ \A k \in 1 .. Len(broadcast) : events'[k] = broadcast[k]
      BY <1>11, <2>3
    <3>2. Len(broadcast) = Len(events) + 1 /\ broadcast[Len(events) + 1] = line
      <4>1. ~(Len(events) = NUMEVENTS /\ broadcast = events)
        <5>1. broadcast = events => Len(broadcast) = Len(events)
          OBVIOUS
        <5>2. Len(broadcast) # NUMEVENTS
          BY <2>0, <3>1
        <5> QED
          BY <5>1, <5>2
      <4> QED
        BY <1>10, <4>1
    <3>3. at' = "wait"
      BY <1>4, <2>3
    <3>4. CASE i = Len(events) + 2
      <4>1. i - 1 = Len(events) + 1 /\ i - 1 \in 1 .. Len(broadcast)
        BY <2>0, <3>2, <3>4
      <4> QED
        BY <2>0, <3>1, <3>2, <3>3, <3>4, <4>1
    <3>5. CASE i # Len(events) + 2
      <4>1. i \in 1 .. Len(broadcast)
        BY <2>0, <3>1, <3>2, <3>5
      <4> QED
        BY <2>1, <3>1, <4>1
    <3> QED
      BY <3>4, <3>5
  <2> QED
    BY <2>2, <2>3
<1>14. /\ line.kind = "line" /\ line.text = text
       /\ continue.kind = "continue" /\ continue.text = <<>>
  BY DEF Event, line, continue
<1>15. QueueOK'
  <2>1. \A i \in DOMAIN events : events[i].kind # "continue"
    BY <1>1 DEF IInv, QueueOK
  <2>2. ASSUME NEW i \in DOMAIN events', events'[i].kind = "continue"
        PROVE  i = Len(events) + 2 /\ events'[i - 1] = line /\ at' = "wait"
    BY <1>13, <1>14, <2>1, <2>2
  <2>3. ASSUME NEW i \in 1 .. Len(events') - 1, events'[i + 1].kind = "continue"
        PROVE  Text(buf') = events'[i].text
    <3>1. Len(events') \in Nat
      BY <1>11
    <3>2. i + 1 \in DOMAIN events' /\ (i + 1) - 1 = i
      BY <1>12, <3>1
    <3> QED
      BY <1>14, <2>2, <2>3, <3>2 DEF text
  <2> QED
    BY <2>2, <2>3 DEF QueueOK
<1>16. NoLinesMixed'
  <2>1. ASSUME NEW i \in DOMAIN events', NEW j \in DOMAIN events'[i].text
        PROVE  events'[i].text[j] = [line |-> events'[i].text[1].line, pos |-> j]
    <3>1. CASE i \in DOMAIN events /\ events'[i] = events[i]
      BY <2>1, <3>1 DEF IInv, NoLinesMixed
    <3>2. CASE events'[i] = line
      BY <1>7, <1>14, <2>1, <3>2
    <3>3. CASE events'[i] = continue
      BY <1>14, <2>1, <3>3
    <3> QED
      BY <1>13, <3>1, <3>2, <3>3
  <2> QED
    BY <2>1 DEF NoLinesMixed
<1>17. RingOK'
  <2>1. ASSUME NEW i \in 1 .. Len(rxbuf') - 1 PROVE Follows(rxbuf'[i], rxbuf'[i + 1])
    <3>1. i + 1 \in 1 .. Len(rxbuf) - 1 /\ rxbuf'[i] = rxbuf[i + 1]
          /\ rxbuf'[i + 1] = rxbuf[(i + 1) + 1]
      BY <1>2
    <3> QED
      BY <3>1 DEF IInv, RingOK
  <2>2. ASSUME NEW b, Follows(rxbuf[1], b) PROVE Continues(Taken', buf'[0].line, b)
    BY <1>2, <1>4, <2>2 DEF Follows, Continues
  <2>3. rxbuf' # <<>> => Continues(Taken', buf'[0].line, rxbuf'[1])
    <3>1. rxbuf' # <<>> => 1 \in 1 .. Len(rxbuf) - 1 /\ rxbuf'[1] = rxbuf[1 + 1]
      BY <1>2
    <3>2. rxbuf' # <<>> => Follows(rxbuf[1], rxbuf[1 + 1])
      BY <3>1 DEF IInv, RingOK
    <3> QED
      BY <2>2, <3>1, <3>2
  <2>4. ~overflow' => IF rxbuf' = <<>> THEN Continues(Taken', buf'[0].line, Upcoming')
                                      ELSE Follows(rxbuf'[Len(rxbuf')], Upcoming')
    <3>1. ~overflow' => Follows(rxbuf[Len(rxbuf)], Upcoming) /\ Upcoming' = Upcoming
      BY <1>1 DEF IInv, RingOK, Upcoming
    <3>2. rxbuf' # <<>> => rxbuf'[Len(rxbuf')] = rxbuf[Len(rxbuf)]
      BY <1>2
    <3> QED
      BY <1>2, <2>2, <3>1, <3>2
  <2> QED
    BY <2>1, <2>3, <2>4 DEF RingOK
<1>18. BufferOK'
  BY <1>0, <1>4 DEF BufferOK
<1>19. TypeOK'
  <2>1. rxbuf' \in Seq(Char \union {END}) /\ Len(rxbuf') <= BUFSIZE - 1
    BY <1>0, <1>2 DEF Byte, TypeOK
  <2>2. events' \in Seq([kind : Kinds, text : Seq(Char)]) /\ Len(events') <= NUMEVENTS
    BY <1>11 DEF Announcement
  <2> QED
    BY <1>0, <1>1, <1>4, <1>5, <2>1, <2>2 DEF TypeOK
<1> QED
  BY <1>4, <1>15, <1>16, <1>17, <1>18, <1>19 DEF IInv, NoByteStranded

(* The main loop takes an event from the queue. *)
LEMMA DeliverOK == IInv /\ Deliver => IInv'
<1> SUFFICES ASSUME IInv, Deliver PROVE IInv'
  OBVIOUS
<1>0. TypeOK /\ BUFSIZE \in Nat
  BY LineAssumption DEF IInv
<1>1. /\ at # "running" /\ events # <<>> /\ events' = Tail(events)
      /\ UNCHANGED <<sent, rxbuf, overflow, needspoll, buf>>
  BY DEF Deliver
<1>2. /\ events[1] = Head(events) /\ Len(events) \in Nat /\ Len(events) > 0
      /\ events' \in Seq([kind : Kinds, text : Seq(Char)])
      /\ Len(events') = Len(events) - 1
      /\ DOMAIN events = 1 .. Len(events) /\ DOMAIN events' = 1 .. Len(events) - 1
      /\ \A i \in 1 .. Len(events) - 1 : events'[i] = events[i + 1]
  BY <1>0, <1>1, RestProperties, LenProperties DEF TypeOK
<1>3. /\ at' \in {"running", "yield", "wait"} /\ ptr' \in 0 .. BUFSIZE
      /\ Taken' = Taken /\ (at' # "wait" => at' = "running" \/ at = at')
  <2>1. \/ at = "wait" /\ at' = "running" /\ ptr' = 0
        \/ at = "yield" /\ at' = "running" /\ ptr' = ptr
        \/ at' = at /\ ptr' = ptr
    BY DEF Deliver
  <2>2. at \in {"running", "yield", "wait"} /\ ptr \in 0 .. BUFSIZE
    BY <1>0 DEF TypeOK
  <2>3. ptr' \in 0 .. BUFSIZE
    BY <1>0, <2>1, <2>2
  <2>4. Taken' = Taken
    BY <2>1 DEF Taken
  <2> QED
    BY <2>1, <2>2, <2>3, <2>4
<1>4. TypeOK'
  <2>1. Len(events') <= NUMEVENTS
    BY <1>0, <1>2, LineAssumption DEF TypeOK
  <2> QED
    BY <1>0, <1>1, <1>2, <1>3, <2>1 DEF TypeOK
<1>5. \A i \in DOMAIN events' : i + 1 \in DOMAIN events /\ events'[i] = events[i + 1]
  BY <1>2
<1>6. NoLinesMixed'
  BY <1>5 DEF IInv, NoLinesMixed
<1>7. QueueOK'
  <2>1. at' # "wait" => at # "wait" \/ events[1].kind = "continue"
    BY <1>2 DEF Deliver
  <2>2. at' # "wait" => \A i \in DOMAIN events' : events'[i].kind # "continue"
    <3> SUFFICES ASSUME at' # "wait", NEW i \in DOMAIN events', events'[i].kind = "continue"
                 PROVE  FALSE
      OBVIOUS
    <3>1. i + 1 \in DOMAIN events /\ 1 \in DOMAIN events /\ i + 1 # 1
          /\ events[i + 1].kind = "continue"
      BY <1>2, <1>5
    <3> QED
      BY <2>1, <3>1 DEF IInv, QueueOK
  <2>3. ASSUME NEW i \in DOMAIN events', NEW j \in DOMAIN events',
               events'[i].kind = "continue", events'[j].kind = "continue"
        PROVE  i = j
    <3>1. i + 1 = j + 1
      BY <1>5, <2>3 DEF IInv, QueueOK
    <3> QED
      BY <1>2, <3>1
  <2>4. ASSUME NEW i \in 1 .. Len(events') - 1,
               events'[i].kind = "line", events'[i + 1].kind = "continue"
        PROVE  Text(buf') = events'[i].text
    <3>1. i + 1 \in 1 .. Len(events) - 1 /\ events'[i] = events[i + 1]
          /\ events'[i + 1] = events[(i + 1) + 1]
      BY <1>2
    <3> QED
      BY <1>1, <2>4, <3>1 DEF IInv, QueueOK
  <2> QED
    BY <2>2, <2>3, <2>4 DEF QueueOK
<1>8. BufferOK' /\ RingOK' /\ NoByteStranded'
  <2>1. Upcoming' = Upcoming
    BY <1>1 DEF Upcoming
  <2>2. at' = "yield" => at = "yield"
    BY DEF Deliver
  <2> QED
    BY <1>1, <1>3, <2>1, <2>2 DEF IInv, BufferOK, RingOK, NoByteStranded
<1> QED
  BY <1>4, <1>6, <1>7, <1>8 DEF IInv

LEMMA OtherPostOK == IInv /\ OtherPost => IInv'
<1> SUFFICES ASSUME IInv, OtherPost PROVE IInv'
  OBVIOUS
<1> DEFINE e == Event("other", <<>>)
<1>0. TypeOK
  BY DEF IInv
<1>1. /\ events' = Append(events, e) /\ Len(events) < NUMEVENTS
      /\ UNCHANGED <<sent, rxbuf, overflow, needspoll, buf, ptr, at>>
  BY DEF OtherPost
<1>2. e \in [kind : Kinds, text : Seq(Char)] /\ e.kind = "other" /\ e.text = <<>>
  BY DEF Event, Kinds
<1> HIDE DEF e
<1>3. /\ Len(events) \in Nat /\ events' \in Seq([kind : Kinds, text : Seq(Char)])
      /\ Len(events') = Len(events) + 1
      /\ DOMAIN events = 1 .. Len(events) /\ DOMAIN events' = 1 .. Len(events) + 1
      /\ \A i \in 1 .. Len(events) : events'[i] = events[i]
      /\ events'[Len(events) + 1] = e
  BY <1>0, <1>1, <1>2, AppendProperties, LenProperties DEF TypeOK
<1>4. TypeOK'
  BY <1>0, <1>1, <1>3, LineAssumption DEF TypeOK
<1>5. \A i \in DOMAIN events' :
        \/ i \in DOMAIN events /\ events'[i] = events[i]
        \/ i = Len(events) + 1 /\ events'[i] = e
  BY <1>3
<1>6. NoLinesMixed'
  BY <1>2, <1>5 DEF IInv, NoLinesMixed
<1>7. QueueOK'
  <2>1. ASSUME NEW i \in 1 .. Len(events') - 1,
               events'[i].kind = "line", events'[i + 1].kind = "continue"
        PROVE  Text(buf') = events'[i].text
    <3>1. i + 1 \in DOMAIN events
      BY <1>2, <1>3, <1>5, <2>1
    <3> QED
      BY <1>1, <1>3, <2>1, <3>1 DEF IInv, QueueOK
  <2>2. \A i \in DOMAIN events' : events'[i].kind = "continue" =>
          i \in DOMAIN events /\ events[i].kind = "continue"
    BY <1>2, <1>5
  <2> QED
    BY <1>1, <2>1, <2>2 DEF IInv, QueueOK
<1>8. BufferOK' /\ RingOK' /\ NoByteStranded'
  BY <1>1 DEF IInv, BufferOK, RingOK, NoByteStranded, Taken, Upcoming
<1> QED
  BY <1>4, <1>6, <1>7, <1>8 DEF IInv

LEMMA StepIInv == IInv /\ [Next]_vars => IInv'
<1> SUFFICES ASSUME IInv, [Next]_vars PROVE IInv'
  OBVIOUS
<1>0. TypeOK
  BY DEF IInv
<1>1. CASE Drained
  BY <1>0, <1>1 DEF Drained, IInv, TypeOK, NoLinesMixed, NoByteStranded, BufferOK,
                    RingOK, QueueOK, Taken, Upcoming
<1>2. CASE TakeChar
  BY <1>2, TakeCharOK
<1>3. CASE TakeEnd
  BY <1>3, TakeEndOK
<1>4. CASE Polled
  BY <1>0, <1>4 DEF Polled, IInv, TypeOK, NoLinesMixed, NoByteStranded, BufferOK,
                    RingOK, QueueOK, Taken, Upcoming
<1>5. CASE Deliver
  BY <1>5, DeliverOK
<1>6. CASE OtherPost
  BY <1>6, OtherPostOK
<1>7. CASE ReceiveChar
  <2>1. Longest \in Nat /\ sent.line \in 0 .. Lines - 1 /\ sent.pos \in 0 .. Longest
    BY <1>0, LineAssumption DEF TypeOK
  <2>2. sent' = Upcoming /\ sent.pos < Longest
    BY <1>0, <1>7 DEF ReceiveChar, Upcoming, TypeOK
  <2>3. sent' \in Char /\ sent' \in [line : 0 .. Lines - 1, pos : 0 .. Longest]
    BY <2>1, <2>2 DEF Upcoming, Char
  <2> QED
    BY <1>7, <2>2, <2>3, InputOK DEF ReceiveChar, Byte
<1>8. CASE ReceiveEnd
  <2>1. Lines \in Nat \ {0} /\ Longest \in Nat /\ sent.line \in 0 .. Lines - 1
    BY <1>0, LineAssumption DEF TypeOK
  <2>2. (sent.line + 1) % Lines \in 0 .. Lines - 1
    BY <2>1
  <2>3. sent' \in [line : 0 .. Lines - 1, pos : 0 .. Longest] /\ sent'.pos = 0
    BY <1>8, <2>1, <2>2 DEF ReceiveEnd
  <2> QED
    BY <1>8, <2>3, InputOK DEF ReceiveEnd, Byte
<1>9. CASE UNCHANGED vars
  BY <1>0, <1>9 DEF vars, IInv, TypeOK, NoLinesMixed, NoByteStranded, BufferOK,
                    RingOK, QueueOK, Taken, Upcoming
<1> QED
  BY <1>1, <1>2, <1>3, <1>4, <1>5, <1>6, <1>7, <1>8, <1>9 DEF Next, Collect

LEMMA Invariance == Spec => []IInv
BY InitIInv, StepIInv, PTL DEF Spec

------------------------------------------------------------------------------
(* The buffers keep their limits for every size, and no posted line is put *)
(* together from two, wherever the ring was full.                          *)
THEOREM LinesCorrect == Spec => []LinesSound
<1>1. IInv => LinesSound
  BY DEF IInv, LinesSound
<1> QED
  BY <1>1, Invariance, PTL

(* A process that yields with bytes in the ring has a poll coming.         *)
THEOREM NothingStranded == Spec => []NoByteStranded
<1>1. IInv => NoByteStranded
  BY DEF IInv
<1> QED
  BY <1>1, Invariance, PTL

(* The receivers of a line find it in buf, for any number of lines and     *)
(* other events in the queue.                                              *)
THEOREM ReceiversReadLine == Spec => AnnouncedIntact
<1>1. IInv /\ [Next]_vars =>
        [(/\ Len(events) > 1 /\ events' = Tail(events)
          /\ events[1].kind = "line" /\ events[2].kind = "continue")
            => Text(buf) = events[1].text]_vars
  <2> SUFFICES ASSUME IInv, Len(events) > 1,
                      events[1].kind = "line", events[2].kind = "continue"
               PROVE  Text(buf) = events[1].text
    OBVIOUS
  <2>1. Len(events) \in Nat
    BY LenProperties DEF IInv, TypeOK
  <2>2. 1 \in 1 .. Len(events) - 1 /\ 1 + 1 = 2
    BY <2>1
  <2> QED
    BY <2>2 DEF IInv, QueueOK
<1> QED
  BY <1>1, Invariance, PTL DEF Spec, AnnouncedIntact
==============================================================================
