-------------------------------- MODULE CSMA ---------------------------------
(***************************************************************************)
(* Medium access (core/net/mac/csma.c) over a radio duty cycling layer     *)
(* that sends a list of packets in a burst (send_list of nullrdc.c): a     *)
(* queue of packets for each neighbor, backoff and retransmission, and     *)
(* the report that the sender of a packet gets.                            *)
(*                                                                         *)
(* Backoff times are not represented: a transmit timer that runs may       *)
(* expire at any time.  A sender may send again in the callback that       *)
(* reports a packet, in the middle of a burst.                             *)
(***************************************************************************)
EXTENDS Naturals, Sequences, FiniteSets, SequencesExt

CONSTANTS
  Addr, NULL,
  MAX_NEIGHBOR_QUEUES,      \* CSMA_MAX_NEIGHBOR_QUEUES.
  MAX_PACKET_PER_NEIGHBOR,  \* CSMA_MAX_PACKET_PER_NEIGHBOR.
  MAX_QUEUED_PACKETS,       \* MAX_QUEUED_PACKETS.
  MAX_BACKOFF,              \* CSMA_MAX_BACKOFF.
  MAX_TRANSMISSIONS,        \* max_transmissions of a packet.
  NUM_SENDS                 \* Bound: how many packets are sent.

(* The outcomes that the sender of a packet is told.                       *)
Status == {"OK", "NOACK", "COLLISION", "ERR"}

ASSUME CSMAAssumption ==
  /\ MAX_NEIGHBOR_QUEUES \in Nat \ {0} /\ MAX_PACKET_PER_NEIGHBOR \in Nat \ {0}
  /\ MAX_QUEUED_PACKETS \in Nat \ {0} /\ MAX_BACKOFF \in Nat
  /\ MAX_TRANSMISSIONS \in Nat \ {0} /\ NUM_SENDS \in Nat
  /\ NULL \notin Addr \union Status

(* Packets are told apart by their sequence numbers, which skip 0.         *)
Packet == 1 .. NUM_SENDS

VARIABLES
  neighbors,     \* neighbor_list.
  queue,         \* The queued_packet_list of a neighbor,
  transmissions, collisions,  \* and its counters.
  timer,         \* The neighbors whose transmit_timer runs.
  burst,         \* The neighbor and the packet send_list goes on with.
  sent,          \* How many packets have been sent,
  dest,          \* to whom,
  tries,         \* how often the radio got each (counted up to the limit),
  report         \* and what its sender has been told.

qvars == <<neighbors, queue, transmissions, collisions, timer>>
vars == <<qvars, burst, sent, dest, tries, report>>

NoBurst == [to |-> NULL, next |-> 0]

Queued == UNION {ToSet(queue[n]) : n \in Addr}

Reported(p, status) == report' = [report EXCEPT ![p] = status]

------------------------------------------------------------------------------
(* send_packet.  The buffers of queuebuf.c have other users, so that none  *)
(* may be left although there is a packet to be had.                       *)
Drop == UNCHANGED qvars /\ Reported(sent', "ERR")

Enqueue(n) ==
  /\ neighbors' = neighbors \union {n}
  /\ queue' = [queue EXCEPT ![n] = Append(@, sent')]
  /\ timer' = IF queue[n] = <<>> THEN timer \union {n} ELSE timer
  /\ LET reset(f) == IF n \in neighbors THEN f ELSE [f EXCEPT ![n] = 0]
     IN  transmissions' = reset(transmissions) /\ collisions' = reset(collisions)
  /\ UNCHANGED report

Room_OneMore(n) == Len(queue[n]) <= MAX_PACKET_PER_NEIGHBOR     \* Fault.
Room(n) == Len(queue[n]) < MAX_PACKET_PER_NEIGHBOR

Send(n) ==
  /\ sent < NUM_SENDS
  /\ sent' = sent + 1
  /\ dest' = [dest EXCEPT ![sent'] = n]
  /\ UNCHANGED <<burst, tries>>
  /\ \/ /\ n \in neighbors \/ Cardinality(neighbors) < MAX_NEIGHBOR_QUEUES
        /\ Room(n) /\ Cardinality(Queued) < MAX_QUEUED_PACKETS
        /\ Enqueue(n)
     \/ Drop

------------------------------------------------------------------------------
(* free_packet: the counters and the timer are for the next packet now, or *)
(* else the neighbor goes.                                                 *)
Counters_Kept(n) == UNCHANGED <<transmissions, collisions>>      \* Fault.
Counters(n) == /\ transmissions' = [transmissions EXCEPT ![n] = 0]
               /\ collisions' = [collisions EXCEPT ![n] = 0]

Schedule_NotNext(n, rest) == IF rest = <<>> THEN timer \ {n} ELSE timer  \* Fault.
Schedule(n, rest) == IF rest = <<>> THEN timer \ {n} ELSE timer \union {n}

Left(n, rest) == IF rest = <<>> THEN neighbors \ {n} ELSE neighbors

Rest_NotOnError(n, p, status) ==         \* Fault: kept after a fatal error.
  IF status = "ERR" THEN queue[n] ELSE RemoveFirst(queue[n], p)
Rest(n, p, status) == RemoveFirst(queue[n], p)

Done(n, p, status) ==
  LET rest == Rest(n, p, status)
  IN  /\ queue' = [queue EXCEPT ![n] = rest]
      /\ Counters(n)
      /\ timer' = Schedule(n, rest)
      /\ neighbors' = Left(n, rest)
      /\ Reported(p, status)

(* noack and collision: the packet is sent again, or has been sent often   *)
(* enough.                                                                 *)
Requeued_Last(n, p) ==                  \* Fault: the others come first.
  queue' = [queue EXCEPT ![n] = Append(RemoveFirst(@, p), p)]
Requeued(n, p) == UNCHANGED queue

Again(n, p, status, attempts, backoffs) ==
  IF attempts >= MAX_TRANSMISSIONS THEN Done(n, p, status)
  ELSE /\ transmissions' = [transmissions EXCEPT ![n] = attempts]
       /\ collisions' = [collisions EXCEPT ![n] = backoffs]
       /\ timer' = timer \union {n}
       /\ Requeued(n, p)
       /\ UNCHANGED <<neighbors, report>>

Attempts_Same(n) == transmissions[n]    \* Fault: attempts are not counted.
Attempts(n) == transmissions[n] + 1

NoAck(n, p) == Again(n, p, "NOACK", Attempts(n), 0)

Collision(n, p) ==
  IF collisions[n] + 1 > MAX_BACKOFF
  THEN Again(n, p, "COLLISION", Attempts(n), 0)
  ELSE Again(n, p, "COLLISION", transmissions[n], collisions[n] + 1)

------------------------------------------------------------------------------
(* transmit_packet_list, when the timer of the neighbor expires.           *)
TimerFires(n) ==
  /\ burst = NoBurst /\ n \in timer
  /\ timer' = timer \ {n}
  /\ burst' = [to |-> n, next |-> Head(queue[n])]
  /\ UNCHANGED <<neighbors, queue, transmissions, collisions,
                 sent, dest, tries, report>>

(* send_list goes on with the packet that was next before the callback, if *)
(* this one was acknowledged.                                              *)
GoesOn_Always(status) == TRUE               \* Fault: after a failure, too.
GoesOn(status) == status = "OK"

Following(n, p) ==
  LET i == SelectInSeq(queue[n], LAMBDA q : q = p) + 1
  IN  IF i > Len(queue[n]) THEN NoBurst ELSE [to |-> n, next |-> queue[n][i]]

Transmit(status) ==
  /\ burst # NoBurst
  /\ LET n == burst.to
         p == burst.next
     IN  /\ tries' = [tries EXCEPT ![p] = IF @ < MAX_TRANSMISSIONS THEN @ + 1 ELSE @]
         /\ burst' = IF GoesOn(status) THEN Following(n, p) ELSE NoBurst
         /\ \/ status \in {"OK", "ERR"} /\ Done(n, p, status)
            \/ status = "NOACK" /\ NoAck(n, p)
            \/ status = "COLLISION" /\ Collision(n, p)
  /\ UNCHANGED <<sent, dest>>

------------------------------------------------------------------------------
Init ==
  /\ neighbors = {} /\ queue = [n \in Addr |-> <<>>] /\ timer = {}
  /\ transmissions = [n \in Addr |-> 0] /\ collisions = [n \in Addr |-> 0]
  /\ burst = NoBurst /\ sent = 0 /\ dest = [p \in Packet |-> NULL]
  /\ tries = [p \in Packet |-> 0] /\ report = [p \in Packet |-> NULL]

Next ==
  \/ \E n \in Addr : Send(n) \/ TimerFires(n)
  \/ \E status \in Status : Transmit(status)

Spec == Init /\ [][Next]_vars

(* Timers expire, and the radio comes back with an outcome.                *)
Fairness ==
  /\ \A n \in Addr : SF_vars(TimerFires(n))
  /\ WF_vars(\E status \in Status : Transmit(status))

FairSpec == Spec /\ Fairness

------------------------------------------------------------------------------
(* The properties. *)

(* The types, and the limits of the pools.                                 *)
TypeOK ==
  /\ neighbors \subseteq Addr /\ Cardinality(neighbors) <= MAX_NEIGHBOR_QUEUES
  /\ \A n \in Addr : /\ queue[n] \in Seq(1 .. sent)
                     /\ Len(queue[n]) <= MAX_PACKET_PER_NEIGHBOR
                     /\ transmissions[n] < MAX_TRANSMISSIONS
                     /\ collisions[n] <= MAX_BACKOFF
  /\ Cardinality(Queued) <= MAX_QUEUED_PACKETS
  /\ report \in [Packet -> Status \union {NULL}]

(* No neighbor and no packet is forgotten: a neighbor is on the list       *)
(* exactly as long as it has packets, and then its timer runs or a burst   *)
(* is under way to it.                                                     *)
NoPacketStranded ==
  \A n \in Addr :
    /\ n \in neighbors <=> queue[n] # <<>>
    /\ n \in timer => n \in neighbors
    /\ n \in neighbors => n \in timer \/ burst.to = n

(* What send_list kept of the queue while it called back is still there,   *)
(* and is what comes first.                                                *)
BurstInQueue ==
  burst # NoBurst =>
    /\ queue[burst.to] # <<>> /\ burst.next = Head(queue[burst.to])

(* The pools keep their limits, no packet is left in them for ever, and a  *)
(* burst does not use one that has been given back.                        *)
QueuesSound == TypeOK /\ NoPacketStranded /\ BurstInQueue

(* The packets for a neighbor reach the radio in the order they were sent: *)
(* none is overtaken while it waits for its retransmission.                *)
InOrder ==
  \A p, q \in Packet :
    (p < q /\ dest[p] = dest[q] /\ tries[q] > 0) => report[p] # NULL

(* A packet is given up only after transmissions of its own: what was      *)
(* counted for the one before it does not count for it.                    *)
FullRetries ==
  \A p \in Packet :
    report[p] \in {"NOACK", "COLLISION"} => tries[p] >= MAX_TRANSMISSIONS

(* A sender is told of its packet once, when it is in no queue any more.   *)
ReportedOnce ==
  [][\A p \in Packet : report[p] # NULL =>
       report'[p] = report[p] /\ p \notin Queued']_vars

(* The sender of every packet is told what became of it.                   *)
AllReported == \A p \in Packet : dest[p] # NULL ~> report[p] # NULL
==============================================================================
