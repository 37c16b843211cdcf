----------------------------- MODULE CSMA_proofs ------------------------------
(***************************************************************************)
(* For any number of neighbors and packets and any limits: the pools keep  *)
(* their limits, no packet is stranded, packets reach the radio in order,  *)
(* each is tried its own number of times and reported once.                *)
(*                                                                         *)
(* The invariant says where a packet is: as long as nothing is reported    *)
(* for it, in the queue of the neighbor it is for, in which numbers grow;  *)
(* and a burst stands at the head of its queue.                            *)
(***************************************************************************)
EXTENDS CSMA, SequenceTheorems, FiniteSetTheorems, TLAPS

Typed ==
  /\ neighbors \subseteq Addr /\ IsFiniteSet(neighbors) /\ timer \subseteq Addr
  /\ queue \in [Addr -> Seq(Packet)]
  /\ transmissions \in [Addr -> 0 .. MAX_TRANSMISSIONS - 1]
  /\ collisions \in [Addr -> 0 .. MAX_BACKOFF]
  /\ burst \in {NoBurst} \union [to : Addr, next : Packet]
  /\ sent \in 0 .. NUM_SENDS
  /\ dest \in [Packet -> Addr \union {NULL}]
  /\ tries \in [Packet -> 0 .. MAX_TRANSMISSIONS]
  /\ report \in [Packet -> Status \union {NULL}]

Limits ==
  /\ Cardinality(neighbors) <= MAX_NEIGHBOR_QUEUES
  /\ \A n \in Addr : Len(queue[n]) <= MAX_PACKET_PER_NEIGHBOR
  /\ Cardinality(Queued) <= MAX_QUEUED_PACKETS

(* Packets that are not sent, are waiting or have been reported. *)
Unsent == \A p \in Packet :
  p > sent => dest[p] = NULL /\ tries[p] = 0 /\ report[p] = NULL

WaitsInQueue == \A p \in Packet :
  p <= sent => /\ dest[p] \in Addr
               /\ report[p] = NULL =>
                    \E i \in 1 .. Len(queue[dest[p]]) : queue[dest[p]][i] = p

OnlyWaiting == \A n \in Addr : \A i \in 1 .. Len(queue[n]) :
  queue[n][i] <= sent /\ dest[queue[n][i]] = n /\ report[queue[n][i]] = NULL

Ascending == \A n \in Addr : \A i, j \in 1 .. Len(queue[n]) :
  i < j => queue[n][i] < queue[n][j]

(* What is counted for a neighbor is what its first packet has had.        *)
OwnTries == \A n \in Addr :
  queue[n] # <<>> => transmissions[n] <= tries[queue[n][1]]

IInv ==
  /\ Typed /\ Limits /\ NoPacketStranded /\ BurstInQueue
  /\ Unsent /\ WaitsInQueue /\ OnlyWaiting /\ Ascending /\ OwnTries
  /\ InOrder /\ FullRetries

------------------------------------------------------------------------------
(* Constants, sequences and the packets that are queued. *)

LEMMA Constants ==
  /\ MAX_NEIGHBOR_QUEUES \in Nat \ {0} /\ MAX_PACKET_PER_NEIGHBOR \in Nat \ {0}
  /\ MAX_QUEUED_PACKETS \in Nat \ {0} /\ MAX_BACKOFF \in Nat
  /\ MAX_TRANSMISSIONS \in Nat \ {0} /\ NUM_SENDS \in Nat
  /\ NULL \notin Addr /\ NULL \notin Status
BY CSMAAssumption

(* Where p is found. *)
Place(s, p) == SelectInSeq(s, LAMBDA q : q = p)

LEMMA HeadRemoved ==
  ASSUME NEW s \in Seq(Packet), s # <<>>
  PROVE  /\ Len(s) \in Nat /\ Len(s) > 0 /\ s[1] \in Packet /\ Head(s) = s[1]
         /\ RemoveFirst(s, s[1]) \in Seq(Packet)
         /\ Len(RemoveFirst(s, s[1])) = Len(s) - 1
         /\ \A i \in 1 .. Len(s) - 1 : RemoveFirst(s, s[1])[i] = s[i + 1]
         /\ Place(s, s[1]) = 1
<1> DEFINE I == {i \in 1 .. Len(s) : s[i] = s[1]}
<1>1. Len(s) \in Nat /\ Len(s) > 0 /\ Head(s) = s[1] /\ s[1] \in Packet
  BY HeadTailProperties
<1>2. 1 \in I /\ \A i \in I : 1 <= i
  BY <1>1
<1>3. Min(I) = 1
  BY <1>1, <1>2 DEF Min
<1>4. Place(s, s[1]) = 1
  BY <1>2, <1>3 DEF Place, SelectInSeq
<1>5. RemoveFirst(s, s[1]) = SubSeq(s, 1, 0) \o SubSeq(s, 2, Len(s))
  <2>1. RemoveFirst(s, s[1]) = RemoveAt(s, 1)
    BY <1>2, <1>3 DEF RemoveFirst, SelectInSeq
  <2> QED
    BY <2>1 DEF RemoveAt
<1>6. SubSeq(s, 1, 0) = <<>> /\ SubSeq(s, 2, Len(s)) = Tail(s)
  BY SubSeqEmpty, TailIsSubSeq
<1>7. RemoveFirst(s, s[1]) = Tail(s)
  BY <1>5, <1>6, ConcatEmptySeq, HeadTailProperties
<1> HIDE DEF I
<1> QED
  BY <1>1, <1>4, <1>7, HeadTailProperties

(* The packets in the queues. *)
Held(queues) == UNION {ToSet(queues[n]) : n \in Addr}

LEMMA HeldIs ==
  ASSUME NEW queues \in [Addr -> Seq(Packet)]
  PROVE  /\ IsFiniteSet(Held(queues)) /\ Held(queues) \subseteq Packet
         /\ \A p : p \in Held(queues) <=>
              \E n \in Addr : \E i \in 1 .. Len(queues[n]) : queues[n][i] = p
<1>1. \A n \in Addr : /\ DOMAIN queues[n] = 1 .. Len(queues[n])
                     /\ \A i \in 1 .. Len(queues[n]) : queues[n][i] \in Packet
  BY LenProperties, ElementOfSeq
<1>2. \A p : p \in Held(queues) <=>
        \E n \in Addr : \E i \in 1 .. Len(queues[n]) : queues[n][i] = p
  BY <1>1 DEF Held, ToSet
<1>3. Held(queues) \subseteq Packet
  BY <1>1, <1>2
<1>4. IsFiniteSet(Packet)
  BY FS_Interval, Constants DEF Packet
<1> QED
  BY <1>2, <1>3, <1>4, FS_Subset

------------------------------------------------------------------------------
LEMMA InitIInv == Init => IInv
<1> SUFFICES ASSUME Init PROVE IInv
  OBVIOUS
<1>1. \A n \in Addr : queue[n] = <<>> /\ Len(queue[n]) = 0
  BY DEF Init
<1>2. Typed
  BY Constants, FS_EmptySet DEF Init, Typed
<1>3. Limits
  <2>1. Queued = {}
    <3>1. \A p : p \in Held(queue) <=>
            \E n \in Addr : \E i \in 1 .. Len(queue[n]) : queue[n][i] = p
      BY <1>2, HeldIs DEF Typed
    <3>2. \A n \in Addr : 1 .. Len(queue[n]) = {}
      BY <1>1
    <3>3. Held(queue) = {}
      BY <3>1, <3>2
    <3> QED
      BY <3>3 DEF Queued, Held
  <2> QED
    BY <1>1, <2>1, Constants, FS_EmptySet DEF Init, Limits
<1>4. NoPacketStranded /\ BurstInQueue /\ OnlyWaiting /\ Ascending /\ OwnTries
  BY <1>1 DEF Init, NoPacketStranded, BurstInQueue, OnlyWaiting, Ascending, OwnTries
<1>5. Unsent /\ WaitsInQueue
  BY Constants DEF Init, Unsent, WaitsInQueue, Packet
<1>6. InOrder /\ FullRetries
  BY Constants DEF Init, InOrder, FullRetries, Packet, Status
<1> QED
  BY <1>2, <1>3, <1>4, <1>5, <1>6 DEF IInv

(* send_packet: what holds for the older packets, and for the new one.     *)
LEMMA EnqueueOK ==
  ASSUME IInv, NEW n \in Addr, sent < NUM_SENDS, sent' = sent + 1,
         dest' = [dest EXCEPT ![sent'] = n], UNCHANGED <<burst, tries>>,
         n \in neighbors \/ Cardinality(neighbors) < MAX_NEIGHBOR_QUEUES,
         Room(n), Cardinality(Queued) < MAX_QUEUED_PACKETS, Enqueue(n)
  PROVE  IInv'
<1> DEFINE new == sent + 1
<1>1. /\ sent \in Nat /\ new \in Packet /\ new > sent
      /\ dest[new] = NULL /\ tries[new] = 0 /\ report[new] = NULL
  BY Constants DEF IInv, Typed, Unsent, Packet
<1>2. /\ sent' = new /\ dest' = [dest EXCEPT ![new] = n]
      /\ burst' = burst /\ tries' = tries /\ report' = report
      /\ neighbors' = neighbors \union {n}
      /\ queue' = [queue EXCEPT ![n] = Append(@, new)]
      /\ timer' = IF queue[n] = <<>> THEN timer \union {n} ELSE timer
      /\ transmissions' = IF n \in neighbors THEN transmissions
                          ELSE [transmissions EXCEPT ![n] = 0]
      /\ collisions' = IF n \in neighbors THEN collisions
                       ELSE [collisions EXCEPT ![n] = 0]
  BY DEF Enqueue
<1> HIDE DEF new
<1>3. /\ queue \in [Addr -> Seq(Packet)] /\ queue[n] \in Seq(Packet)
      /\ \A k \in Addr : Len(queue[k]) \in Nat /\ (queue[k] # <<>> <=> Len(queue[k]) > 0)
  <2>1. \A k \in Addr : queue[k] \in Seq(Packet)
    BY DEF IInv, Typed
  <2> QED
    BY <2>1, EmptySeq, LenProperties DEF IInv, Typed
<1>4. /\ queue'[n] \in Seq(Packet) /\ queue'[n] # <<>>
      /\ Len(queue'[n]) = Len(queue[n]) + 1
      /\ \A i \in 1 .. Len(queue[n]) : queue'[n][i] = queue[n][i]
      /\ queue'[n][Len(queue[n]) + 1] = new
      /\ queue' \in [Addr -> Seq(Packet)]
      /\ \A k \in Addr \ {n} : queue'[k] = queue[k]
  <2>1. queue'[n] = Append(queue[n], new)
    BY <1>2, <1>3
  <2>2. queue'[n] \in Seq(Packet) /\ queue' \in [Addr -> Seq(Packet)]
    BY <1>1, <1>2, <1>3, <2>1, AppendProperties
  <2> QED
    BY <1>1, <1>2, <1>3, <2>1, <2>2, AppendProperties
<1>5. Typed'
  <2>1. /\ transmissions' \in [Addr -> 0 .. MAX_TRANSMISSIONS - 1]
        /\ collisions' \in [Addr -> 0 .. MAX_BACKOFF]
    BY <1>2, Constants DEF IInv, Typed
  <2>2. /\ neighbors' \subseteq Addr /\ IsFiniteSet(neighbors') /\ timer' \subseteq Addr
    BY <1>2, FS_AddElement DEF IInv, Typed
  <2>3. sent' \in 0 .. NUM_SENDS /\ dest' \in [Packet -> Addr \union {NULL}]
    BY <1>1, <1>2 DEF IInv, Typed, Packet
  <2> QED
    BY <1>2, <1>4, <2>1, <2>2, <2>3 DEF IInv, Typed
<1>6. Limits'
  <2>1. Cardinality(neighbors') <= MAX_NEIGHBOR_QUEUES
    <3>1. IsFiniteSet(neighbors) /\ Cardinality(neighbors) \in Nat
      BY FS_CardinalityType DEF IInv, Typed
    <3>2. Cardinality(neighbors') =
            IF n \in neighbors THEN Cardinality(neighbors) ELSE Cardinality(neighbors) + 1
      BY <1>2, <3>1, FS_AddElement
    <3> QED
      BY <3>1, <3>2, Constants DEF IInv, Limits
  <2>2. \A k \in Addr : Len(queue'[k]) <= MAX_PACKET_PER_NEIGHBOR
    <3>1. Len(queue[n]) < MAX_PACKET_PER_NEIGHBOR
      BY DEF Room
    <3>2. \A k \in Addr : Len(queue[k]) <= MAX_PACKET_PER_NEIGHBOR
      BY DEF IInv, Limits
    <3>3. Len(queue'[n]) <= MAX_PACKET_PER_NEIGHBOR
      BY <1>3, <1>4, <3>1, Constants
    <3> QED
      BY <1>4, <3>2, <3>3
  <2>3. Cardinality(Queued') <= MAX_QUEUED_PACKETS
    <3>1. IsFiniteSet(Queued) /\ Queued = Held(queue) /\ Queued' = Held(queue')
      BY <1>3, HeldIs DEF Queued, Held
    <3>2. IsFiniteSet(Queued') /\ Queued' \subseteq Queued \union {new}
      <4>1. \A p : p \in Held(queue) <=>
              \E k \in Addr : \E i \in 1 .. Len(queue[k]) : queue[k][i] = p
        BY <1>3, HeldIs
      <4>2. /\ IsFiniteSet(Held(queue'))
            /\ \A p : p \in Held(queue') <=>
              \E k \in Addr : \E i \in 1 .. Len(queue'[k]) : queue'[k][i] = p
        BY <1>4, HeldIs
      <4>3. ASSUME NEW k \in Addr, NEW i \in 1 .. Len(queue'[k])
            PROVE  queue'[k][i] \in Held(queue) \union {new}
        <5>1. CASE k # n
          BY <1>4, <4>1, <4>3, <5>1
        <5>2. CASE k = n /\ i \in 1 .. Len(queue[n])
          BY <1>4, <4>1, <5>2
        <5>3. CASE k = n /\ i \notin 1 .. Len(queue[n])
          BY <1>3, <1>4, <4>3, <5>3
        <5> QED
          BY <5>1, <5>2, <5>3
      <4> QED
        BY <3>1, <4>2, <4>3
    <3>3. Cardinality(Queued') <= Cardinality(Queued \union {new})
      BY <3>1, <3>2, FS_Subset, FS_AddElement
    <3>4. Cardinality(Queued) \in Nat /\ IsFiniteSet(Queued \union {new})
      BY <3>1, FS_AddElement, FS_CardinalityType
    <3>5. Cardinality(Queued \union {new}) <= Cardinality(Queued) + 1
      BY <3>1, <3>4, FS_AddElement
    <3>6. /\ Cardinality(Queued') \in Nat
          /\ Cardinality(Queued \union {new}) \in Nat
      BY <3>2, <3>4, FS_CardinalityType
    <3> QED
      BY <3>3, <3>4, <3>5, <3>6, Constants
  <2> QED
    BY <2>1, <2>2, <2>3 DEF Limits
<1>7. NoPacketStranded'
  BY <1>2, <1>3, <1>4 DEF IInv, NoPacketStranded
<1>8. BurstInQueue'
  <2>1. SUFFICES ASSUME burst # NoBurst
                 PROVE  queue'[burst.to] # <<>> /\ burst.next = Head(queue'[burst.to])
    BY <1>2 DEF BurstInQueue
  <2>2. burst.to \in Addr /\ queue[burst.to] # <<>> /\ burst.next = Head(queue[burst.to])
    BY <2>1 DEF IInv, Typed, BurstInQueue
  <2>3. \A s \in Seq(Packet) : s # <<>> => Head(s) = s[1]
    BY HeadTailProperties
  <2>4. CASE burst.to = n
    BY <1>3, <1>4, <2>2, <2>3, <2>4
  <2> QED
    BY <1>4, <2>2, <2>4
<1>9. Unsent' /\ WaitsInQueue'
  <2>1. Unsent'
    BY <1>1, <1>2 DEF IInv, Unsent, Typed, Packet
  <2>2. ASSUME NEW p \in Packet, p <= new
        PROVE  /\ dest'[p] \in Addr
               /\ report[p] = NULL =>
                    \E i \in 1 .. Len(queue'[dest'[p]]) : queue'[dest'[p]][i] = p
    <3>1. CASE p = new
      BY <1>1, <1>2, <1>3, <1>4, <3>1 DEF IInv, Typed
    <3>2. CASE p # new
      <4>1. p <= sent /\ dest'[p] = dest[p] /\ dest[p] \in Addr
        BY <1>1, <1>2, <2>2, <3>2 DEF IInv, Typed, WaitsInQueue, Packet, new
      <4>2. report[p] = NULL => \E i \in 1 .. Len(queue[dest[p]]) : queue[dest[p]][i] = p
        BY <4>1 DEF IInv, WaitsInQueue
      <4>3. \A k \in Addr : \A i \in 1 .. Len(queue[k]) :
              i \in 1 .. Len(queue'[k]) /\ queue'[k][i] = queue[k][i]
        <5>1. \A i \in 1 .. Len(queue[n]) :
                i \in 1 .. Len(queue'[n]) /\ queue'[n][i] = queue[n][i]
          BY <1>3, <1>4
        <5>2. \A k \in Addr \ {n} : queue'[k] = queue[k]
          BY <1>4
        <5> QED
          BY <5>1, <5>2
      <4> QED
        BY <4>1, <4>2, <4>3
    <3> QED
      BY <3>1, <3>2
  <2> QED
    BY <1>2, <2>1, <2>2 DEF WaitsInQueue
<1>10. OnlyWaiting' /\ Ascending'
  <2>1. \A k \in Addr : \A i \in 1 .. Len(queue[k]) :
          /\ queue[k][i] \in Packet /\ queue[k][i] < new
          /\ dest'[queue[k][i]] = k /\ report[queue[k][i]] = NULL
    <3>1. \A k \in Addr : \A i \in 1 .. Len(queue[k]) :
            queue[k][i] \in Packet /\ queue[k][i] <= sent
      BY <1>3, ElementOfSeq DEF IInv, OnlyWaiting
    <3>2. \A k \in Addr : \A i \in 1 .. Len(queue[k]) : queue[k][i] < new
      BY <1>1, <3>1 DEF Packet
    <3> QED
      BY <1>1, <1>2, <3>1, <3>2 DEF IInv, Typed, OnlyWaiting
  <2>2. /\ dest'[new] = n /\ new \in Nat
    BY <1>1, <1>2 DEF IInv, Typed, Packet
  <2>3. ASSUME NEW k \in Addr, NEW i \in 1 .. Len(queue'[k])
        PROVE  queue'[k][i] <= new /\ dest'[queue'[k][i]] = k /\ report[queue'[k][i]] = NULL
    BY <1>1, <1>3, <1>4, <2>1, <2>2 DEF Packet
  <2>4. ASSUME NEW k \in Addr, NEW i \in 1 .. Len(queue'[k]),
               NEW j \in 1 .. Len(queue'[k]), i < j
        PROVE  queue'[k][i] < queue'[k][j]
    <3>1. CASE k # n
      BY <1>4, <2>4, <3>1 DEF IInv, Ascending
    <3>2. CASE k = n
      <4>1. i \in 1 .. Len(queue[n])
        BY <1>3, <1>4, <2>4, <3>2
      <4>2. CASE j = Len(queue[n]) + 1
        BY <1>4, <2>1, <3>2, <4>1, <4>2
      <4>3. CASE j # Len(queue[n]) + 1
        <5>1. j \in 1 .. Len(queue[n])
          BY <1>3, <1>4, <3>2, <4>3
        <5> QED
          BY <1>4, <2>4, <3>2, <4>1, <5>1 DEF IInv, Ascending
      <4> QED
        BY <4>2, <4>3
    <3> QED
      BY <3>1, <3>2
  <2> QED
    BY <1>2, <2>3, <2>4 DEF OnlyWaiting, Ascending
<1>11. OwnTries'
  <2>1. tries \in [Packet -> 0 .. MAX_TRANSMISSIONS]
    BY DEF IInv, Typed
  <2>2. ASSUME NEW k \in Addr, queue'[k] # <<>>
        PROVE  transmissions'[k] <= tries[queue'[k][1]]
    <3>1. CASE queue[k] # <<>>
      <4>1. k \in neighbors /\ transmissions'[k] = transmissions[k] /\ 1 \in 1 .. Len(queue[k])
        BY <1>2, <1>3, <3>1 DEF IInv, NoPacketStranded, Typed
      <4>2. queue'[k][1] = queue[k][1]
        BY <1>4, <4>1
      <4> QED
        BY <3>1, <4>1, <4>2 DEF IInv, OwnTries
    <3>2. CASE queue[k] = <<>>
      <4>1. k = n /\ n \notin neighbors
        BY <1>4, <2>2, <3>2 DEF IInv, NoPacketStranded
      <4>2. transmissions'[k] = 0 /\ queue'[k][1] = new
        BY <1>2, <1>3, <1>4, <3>2, <4>1 DEF IInv, Typed
      <4> QED
        BY <1>1, <4>2
    <3> QED
      BY <3>1, <3>2
  <2> QED
    BY <1>2, <2>2 DEF OwnTries
<1>12. InOrder' /\ FullRetries'
  <2>1. ASSUME NEW p \in Packet, NEW q \in Packet,
               p < q, dest'[p] = dest'[q], tries[q] > 0
        PROVE  report[p] # NULL
    <3>1. tries \in [Packet -> 0 .. MAX_TRANSMISSIONS]
      BY DEF IInv, Typed
    <3>2. q <= sent
      BY <2>1 DEF IInv, Unsent, Typed, Packet
    <3>3. dest'[p] = dest[p] /\ dest'[q] = dest[q]
      BY <1>1, <1>2, <2>1, <3>2 DEF IInv, Typed, Packet
    <3> QED
      BY <2>1, <3>3 DEF IInv, InOrder
  <2> QED
    BY <1>2, <2>1 DEF IInv, InOrder, FullRetries
<1> QED
  BY <1>5, <1>6, <1>7, <1>8, <1>9, <1>10, <1>11, <1>12 DEF IInv

(* A packet for which there is no room is reported at once.                *)
LEMMA DropOK ==
  ASSUME IInv, NEW n \in Addr, sent < NUM_SENDS, sent' = sent + 1,
         dest' = [dest EXCEPT ![sent'] = n], UNCHANGED <<burst, tries>>, Drop
  PROVE  IInv'
<1> DEFINE new == sent + 1
<1>1. /\ sent \in Nat /\ new \in Packet /\ new > sent
      /\ dest[new] = NULL /\ tries[new] = 0 /\ report[new] = NULL
  BY Constants DEF IInv, Typed, Unsent, Packet
<1>2. /\ sent' = new /\ dest' = [dest EXCEPT ![new] = n]
      /\ burst' = burst /\ tries' = tries /\ neighbors' = neighbors /\ queue' = queue
      /\ timer' = timer /\ transmissions' = transmissions /\ collisions' = collisions
      /\ report' = [report EXCEPT ![new] = "ERR"]
  BY DEF Drop, qvars, Reported
<1>3. \A p \in Packet : p > new => p > sent
  BY <1>1 DEF Packet, new
<1>4. \A p \in Packet : p <= new => p = new \/ p <= sent
  BY <1>1 DEF Packet, new
<1> HIDE DEF new
<1>5. Typed'
  BY <1>1, <1>2 DEF IInv, Typed, Packet, Status
<1>6. Limits' /\ NoPacketStranded' /\ BurstInQueue' /\ Ascending' /\ OwnTries'
  BY <1>2 DEF IInv, Limits, NoPacketStranded, BurstInQueue, Ascending, OwnTries, Queued
<1>7. Unsent'
  BY <1>1, <1>2, <1>3 DEF IInv, Typed, Unsent, Packet
<1>8. WaitsInQueue'
  <2>1. ASSUME NEW p \in Packet, p <= new
        PROVE  /\ dest'[p] \in Addr
               /\ report'[p] = NULL =>
                    \E i \in 1 .. Len(queue[dest'[p]]) : queue[dest'[p]][i] = p
    <3>1. CASE p = new
      BY <1>1, <1>2, <3>1, Constants DEF IInv, Typed, Status
    <3>2. CASE p # new
      <4>1. p <= sent /\ dest'[p] = dest[p] /\ report'[p] = report[p]
        BY <1>2, <1>4, <2>1, <3>2 DEF IInv, Typed
      <4> QED
        BY <4>1 DEF IInv, WaitsInQueue
    <3> QED
      BY <3>1, <3>2
  <2> QED
    BY <1>2, <2>1 DEF WaitsInQueue
<1>9. OnlyWaiting'
  <2>1. ASSUME NEW k \in Addr, NEW i \in 1 .. Len(queue[k])
        PROVE  /\ queue[k][i] <= new
               /\ dest'[queue[k][i]] = k /\ report'[queue[k][i]] = NULL
    <3>1. /\ queue[k][i] <= sent /\ dest[queue[k][i]] = k
          /\ report[queue[k][i]] = NULL
      BY DEF IInv, OnlyWaiting
    <3>2. queue[k] \in Seq(Packet)
      BY DEF IInv, Typed
    <3>3. queue[k][i] \in Packet
      BY <3>2, ElementOfSeq
    <3>4. queue[k][i] # new /\ queue[k][i] <= new
      BY <1>1, <3>1, <3>3 DEF Packet, new
    <3> QED
      BY <1>2, <3>1, <3>3, <3>4 DEF IInv, Typed
  <2> QED
    BY <1>2, <2>1 DEF OnlyWaiting
<1>10. InOrder'
  <2>1. ASSUME NEW p \in Packet, NEW q \in Packet,
               p < q, dest'[p] = dest'[q], tries[q] > 0
        PROVE  report'[p] # NULL
    <3>1. q <= sent /\ q # new /\ p # new
      BY <1>1, <2>1 DEF IInv, Typed, Unsent, Packet
    <3>2. dest'[p] = dest[p] /\ dest'[q] = dest[q] /\ report'[p] = report[p]
      BY <1>2, <3>1 DEF IInv, Typed
    <3> QED
      BY <2>1, <3>2 DEF IInv, InOrder
  <2> QED
    BY <1>2, <2>1 DEF InOrder
<1>11. FullRetries'
  BY <1>1, <1>2 DEF IInv, Typed, FullRetries
<1> QED
  BY <1>5, <1>6, <1>7, <1>8, <1>9, <1>10, <1>11 DEF IInv

LEMMA SendOK == ASSUME IInv, NEW n \in Addr, Send(n) PROVE IInv'
BY EnqueueOK, DropOK DEF Send

------------------------------------------------------------------------------
(* transmit_packet_list: the burst begins at the head of the queue. *)
LEMMA TimerFiresOK == ASSUME IInv, NEW n \in Addr, TimerFires(n) PROVE IInv'
<1>1. /\ burst = NoBurst /\ n \in timer /\ timer' = timer \ {n}
      /\ burst' = [to |-> n, next |-> Head(queue[n])]
      /\ neighbors' = neighbors /\ queue' = queue /\ transmissions' = transmissions
      /\ collisions' = collisions /\ sent' = sent /\ dest' = dest
      /\ tries' = tries /\ report' = report
  BY DEF TimerFires
<1>2. queue[n] # <<>> /\ queue[n] \in Seq(Packet)
  BY <1>1 DEF IInv, NoPacketStranded, Typed
<1>3. Head(queue[n]) \in Packet
  BY <1>2, HeadTailProperties
<1>4. Typed'
  BY <1>1, <1>3 DEF IInv, Typed
<1>5. NoPacketStranded'
  BY <1>1, Constants DEF IInv, NoPacketStranded, NoBurst
<1>6. BurstInQueue'
  BY <1>1, <1>2 DEF BurstInQueue
<1>7. Limits' /\ Unsent' /\ WaitsInQueue' /\ OnlyWaiting' /\ Ascending' /\ OwnTries'
  BY <1>1 DEF IInv, Limits, Unsent, WaitsInQueue, OnlyWaiting, Ascending, OwnTries, Queued
<1>8. InOrder' /\ FullRetries'
  BY <1>1 DEF IInv, InOrder, FullRetries
<1> QED
  BY <1>4, <1>5, <1>6, <1>7, <1>8 DEF IInv

------------------------------------------------------------------------------
(* The packet of a burst: the oldest that waits for its neighbor.          *)
Removed(n, p) == RemoveFirst(queue[n], p)

LEMMA BurstFacts ==
  ASSUME IInv, burst # NoBurst, NEW n, NEW p, n = burst.to, p = burst.next
  PROVE  /\ n \in Addr /\ p \in Packet /\ queue[n] \in Seq(Packet) /\ n \in neighbors
         /\ Len(queue[n]) \in Nat /\ Len(queue[n]) > 0 /\ queue[n][1] = p
         /\ p <= sent /\ dest[p] = n /\ report[p] = NULL
         /\ transmissions[n] <= tries[p]
         /\ Removed(n, p) \in Seq(Packet) /\ Len(Removed(n, p)) = Len(queue[n]) - 1
         /\ \A i \in 1 .. Len(queue[n]) - 1 : Removed(n, p)[i] = queue[n][i + 1]
         /\ Following(n, p) = IF Len(queue[n]) = 1 THEN NoBurst
                              ELSE [to |-> n, next |-> queue[n][2]]
         /\ \A q \in Packet : q < p /\ dest[q] = n => report[q] # NULL
<1>1. n \in Addr /\ p \in Packet /\ queue[n] \in Seq(Packet)
  BY DEF IInv, Typed
<1>2. queue[n] # <<>> /\ p = Head(queue[n]) /\ n \in neighbors
  BY <1>1 DEF IInv, BurstInQueue, NoPacketStranded
<1>3. /\ Len(queue[n]) \in Nat /\ Len(queue[n]) > 0 /\ queue[n][1] = p
      /\ Removed(n, p) \in Seq(Packet) /\ Len(Removed(n, p)) = Len(queue[n]) - 1
      /\ \A i \in 1 .. Len(queue[n]) - 1 : Removed(n, p)[i] = queue[n][i + 1]
      /\ Place(queue[n], p) = 1
  <2> DEFINE s == queue[n]
             r == RemoveFirst(s, s[1])
  <2>1. /\ Len(s) \in Nat /\ Len(s) > 0 /\ Head(s) = s[1]
        /\ r \in Seq(Packet) /\ Len(r) = Len(s) - 1
        /\ \A i \in 1 .. Len(s) - 1 : r[i] = s[i + 1]
        /\ Place(s, s[1]) = 1
    BY <1>1, <1>2, HeadRemoved
  <2>2. p = s[1]
    BY <1>2, <2>1
  <2>3. Removed(n, p) = r
    BY <2>2 DEF Removed
  <2> HIDE DEF r
  <2> QED
    BY <2>1, <2>2, <2>3
<1>4. p <= sent /\ dest[p] = n /\ report[p] = NULL /\ transmissions[n] <= tries[p]
  BY <1>1, <1>2, <1>3 DEF IInv, OnlyWaiting, OwnTries
<1>5. Following(n, p) = IF Len(queue[n]) = 1 THEN NoBurst
                       ELSE [to |-> n, next |-> queue[n][2]]
  <2> DEFINE i == Place(queue[n], p) + 1
  <2>1. Following(n, p) = IF i > Len(queue[n]) THEN NoBurst
                         ELSE [to |-> n, next |-> queue[n][i]]
    BY DEF Following, Place
  <2>2. i = 2
    BY <1>3
  <2>3. 2 > Len(queue[n]) <=> Len(queue[n]) = 1
    <3>1. Len(queue[n]) \in Nat /\ Len(queue[n]) > 0
      BY <1>3
    <3>2. \A m \in Nat : m > 0 => (2 > m <=> m = 1)
      OBVIOUS
    <3> QED
      BY <3>1, <3>2
  <2> HIDE DEF i
  <2> QED
    BY <2>1, <2>2, <2>3
<1>6. ASSUME NEW q \in Packet, q < p, dest[q] = n PROVE report[q] # NULL
  <2>1. SUFFICES ASSUME report[q] = NULL PROVE FALSE
    OBVIOUS
  <2>2. q <= sent
    BY <1>1, <1>4, <1>6 DEF IInv, Typed, Packet
  <2>3. PICK i \in 1 .. Len(queue[n]) : queue[n][i] = q
    BY <1>6, <2>1, <2>2 DEF IInv, WaitsInQueue
  <2>4. i # 1 => p < q
    <3>1. i # 1 => 1 < i /\ 1 \in 1 .. Len(queue[n])
      BY <1>3
    <3> QED
      BY <1>1, <1>3, <2>3, <3>1 DEF IInv, Ascending
  <2> QED
    BY <1>1, <1>3, <1>6, <2>3, <2>4 DEF Packet
<1> QED
  BY <1>1, <1>2, <1>3, <1>4, <1>5, <1>6

(* free_packet: the packet leaves its queue when its sender is told. *)
LEMMA DoneOK ==
  ASSUME IInv, burst # NoBurst, NEW n, NEW p, n = burst.to, p = burst.next,
         NEW status \in Status, Done(n, p, status),
         tries' = [tries EXCEPT ![p] = IF @ < MAX_TRANSMISSIONS THEN @ + 1 ELSE @],
         burst' = IF GoesOn(status) THEN Following(n, p) ELSE NoBurst,
         UNCHANGED <<sent, dest>>,
         status \in {"NOACK", "COLLISION"} => tries'[p] >= MAX_TRANSMISSIONS
  PROVE  IInv'
<1> DEFINE rest == Removed(n, p)
           len == Len(queue[n])
<1>1. /\ queue' = [queue EXCEPT ![n] = rest]
      /\ transmissions' = [transmissions EXCEPT ![n] = 0]
      /\ collisions' = [collisions EXCEPT ![n] = 0]
      /\ timer' = IF rest = <<>> THEN timer \ {n} ELSE timer \union {n}
      /\ neighbors' = IF rest = <<>> THEN neighbors \ {n} ELSE neighbors
      /\ report' = [report EXCEPT ![p] = status]
      /\ sent' = sent /\ dest' = dest
  BY DEF Done, Rest, Removed, Counters, Schedule, Left, Reported
<1>2. /\ n \in Addr /\ p \in Packet /\ queue[n] \in Seq(Packet) /\ n \in neighbors
      /\ len \in Nat /\ len > 0 /\ queue[n][1] = p
      /\ p <= sent /\ dest[p] = n /\ report[p] = NULL
      /\ rest \in Seq(Packet) /\ Len(rest) = len - 1
      /\ \A i \in 1 .. len - 1 : rest[i] = queue[n][i + 1]
      /\ Following(n, p) = IF len = 1 THEN NoBurst
                           ELSE [to |-> n, next |-> queue[n][2]]
  BY BurstFacts
<1> HIDE DEF rest, len
<1>3. /\ queue \in [Addr -> Seq(Packet)] /\ queue' \in [Addr -> Seq(Packet)]
      /\ queue'[n] = rest /\ \A k \in Addr \ {n} : queue'[k] = queue[k]
  BY <1>1, <1>2 DEF IInv, Typed
<1>4. (rest = <<>> <=> len = 1) /\ (rest # <<>> <=> len > 1)
  BY <1>2, EmptySeq
<1>5. /\ tries \in [Packet -> 0 .. MAX_TRANSMISSIONS]
      /\ tries' \in [Packet -> 0 .. MAX_TRANSMISSIONS]
      /\ \A q \in Packet \ {p} : tries'[q] = tries[q]
  <2> DEFINE more == IF tries[p] < MAX_TRANSMISSIONS THEN tries[p] + 1 ELSE tries[p]
  <2>1. tries \in [Packet -> 0 .. MAX_TRANSMISSIONS] /\ tries[p] \in 0 .. MAX_TRANSMISSIONS
    BY <1>2 DEF IInv, Typed
  <2>2. more \in 0 .. MAX_TRANSMISSIONS
    BY <2>1, Constants
  <2>3. tries' = [tries EXCEPT ![p] = more]
    OBVIOUS
  <2> HIDE DEF more
  <2> QED
    BY <1>2, <2>1, <2>2, <2>3
<1>6. status # NULL
  BY Constants
(* What is in a queue afterwards was one place further back, or elsewhere. *)
<1>7. ASSUME NEW k \in Addr, NEW i \in 1 .. Len(queue'[k])
      PROVE  LET j == IF k = n THEN i + 1 ELSE i
             IN  /\ j \in 1 .. Len(queue[k]) /\ queue'[k][i] = queue[k][j]
                 /\ queue[k][j] \in Packet /\ queue[k][j] # p
  <2>1. CASE k = n
    <3>1. i \in 1 .. len - 1 /\ i + 1 \in 1 .. len
      BY <1>2, <1>3, <1>7, <2>1
    <3>2. queue[n][1] < queue[n][i + 1]
      <4>1. 1 \in 1 .. len /\ 1 < i + 1
        BY <1>2, <3>1
      <4> QED
        BY <1>2, <3>1, <4>1 DEF IInv, Ascending, len
    <3>3. queue[n][i + 1] \in Packet
      BY <1>2, <3>1, ElementOfSeq DEF len
    <3> QED
      BY <1>2, <1>3, <2>1, <3>1, <3>2, <3>3 DEF len, Packet
  <2>2. CASE k # n
    <3>1. i \in 1 .. Len(queue[k]) /\ queue'[k] = queue[k] /\ queue[k] \in Seq(Packet)
      BY <1>3, <1>7, <2>2
    <3>2. queue[k][i] \in Packet /\ dest[queue[k][i]] = k
      BY <3>1, ElementOfSeq DEF IInv, OnlyWaiting
    <3> QED
      BY <1>2, <2>2, <3>1, <3>2
  <2> QED
    BY <2>1, <2>2
<1>8. Typed'
  <2>1. burst' \in {NoBurst} \union [to : Addr, next : Packet]
    <3>1. len # 1 => queue[n][2] \in Packet
      <4>1. len # 1 => 2 \in 1 .. len
        BY <1>2
      <4> QED
        BY <1>2, <4>1, ElementOfSeq DEF len
    <3> QED
      BY <1>2, <3>1
  <2>2. IsFiniteSet(neighbors') /\ neighbors' \subseteq Addr /\ timer' \subseteq Addr
    BY <1>1, <1>2, FS_RemoveElement DEF IInv, Typed
  <2>3. /\ transmissions' \in [Addr -> 0 .. MAX_TRANSMISSIONS - 1]
        /\ collisions' \in [Addr -> 0 .. MAX_BACKOFF]
        /\ report' \in [Packet -> Status \union {NULL}]
    <3>1. 0 \in 0 .. MAX_TRANSMISSIONS - 1 /\ 0 \in 0 .. MAX_BACKOFF
      BY Constants
    <3> QED
      BY <1>1, <1>2, <3>1 DEF IInv, Typed
  <2>4. sent' \in 0 .. NUM_SENDS /\ dest' \in [Packet -> Addr \union {NULL}]
    BY <1>1 DEF IInv, Typed
  <2> QED
    BY <1>3, <1>5, <2>1, <2>2, <2>3, <2>4 DEF Typed
<1>9. Limits'
  <2>1. Cardinality(neighbors') <= MAX_NEIGHBOR_QUEUES
    <3>1. neighbors' \subseteq neighbors /\ IsFiniteSet(neighbors)
      BY <1>1 DEF IInv, Typed
    <3>2. Cardinality(neighbors') <= Cardinality(neighbors)
      BY <3>1, FS_Subset
    <3>3. Cardinality(neighbors') \in Nat /\ Cardinality(neighbors) \in Nat
      BY <3>1, FS_Subset, FS_CardinalityType
    <3> QED
      BY <3>2, <3>3, Constants DEF IInv, Limits
  <2>2. \A k \in Addr : Len(queue'[k]) <= MAX_PACKET_PER_NEIGHBOR
    <3>1. Len(rest) <= MAX_PACKET_PER_NEIGHBOR
      <4>1. len <= MAX_PACKET_PER_NEIGHBOR
        BY <1>2 DEF IInv, Limits, len
      <4> QED
        BY <1>2, <4>1, Constants
    <3> QED
      BY <1>3, <3>1 DEF IInv, Limits
  <2>3. Cardinality(Queued') <= MAX_QUEUED_PACKETS
    <3>1. IsFiniteSet(Queued) /\ Queued = Held(queue) /\ Queued' = Held(queue')
      BY <1>3, HeldIs DEF Queued, Held
    <3>2. Queued' \subseteq Queued
      <4>1. \A q : q \in Held(queue) <=>
              \E k \in Addr : \E i \in 1 .. Len(queue[k]) : queue[k][i] = q
        BY <1>3, HeldIs
      <4>2. \A q : q \in Held(queue') <=>
              \E k \in Addr : \E i \in 1 .. Len(queue'[k]) : queue'[k][i] = q
        BY <1>3, HeldIs
      <4> QED
        BY <1>7, <3>1, <4>1, <4>2
    <3>3. Cardinality(Queued') <= Cardinality(Queued)
      BY <3>1, <3>2, FS_Subset
    <3>4. Cardinality(Queued') \in Nat /\ Cardinality(Queued) \in Nat
      BY <3>1, <3>2, FS_Subset, FS_CardinalityType
    <3> QED
      BY <3>3, <3>4, Constants DEF IInv, Limits
  <2> QED
    BY <2>1, <2>2, <2>3 DEF Limits
<1>10. NoPacketStranded'
  <2>1. ASSUME NEW k \in Addr
        PROVE  /\ k \in neighbors' <=> queue'[k] # <<>>
               /\ k \in timer' => k \in neighbors'
               /\ k \in neighbors' => k \in timer'
    <3>1. CASE k = n
      BY <1>1, <1>2, <1>3, <3>1
    <3>2. CASE k # n
      <4>1. /\ k \in neighbors <=> queue[k] # <<>>
            /\ k \in timer => k \in neighbors
            /\ k \in neighbors => k \in timer
        BY <3>2 DEF IInv, NoPacketStranded
      <4> QED
        BY <1>1, <1>3, <3>2, <4>1
    <3> QED
      BY <3>1, <3>2
  <2> QED
    BY <2>1 DEF NoPacketStranded
<1>11. BurstInQueue'
  <2>1. SUFFICES ASSUME burst' # NoBurst
                 PROVE  queue'[burst'.to] # <<>> /\ burst'.next = Head(queue'[burst'.to])
    BY DEF BurstInQueue
  <2>2. burst' = [to |-> n, next |-> queue[n][2]] /\ len > 1
    BY <1>2, <2>1
  <2>3. rest # <<>> /\ rest[1] = queue[n][2]
    BY <1>2, <1>4, <2>2
  <2>4. Head(rest) = rest[1]
    BY <1>2, <2>3, HeadTailProperties
  <2> QED
    BY <1>3, <2>2, <2>3, <2>4
<1>12. Unsent' /\ WaitsInQueue'
  <2>1. Unsent'
    BY <1>1, <1>2, <1>5 DEF IInv, Unsent, Typed, Packet
  <2>2. ASSUME NEW q \in Packet, q <= sent
        PROVE  /\ dest[q] \in Addr
               /\ report'[q] = NULL =>
                    \E i \in 1 .. Len(queue'[dest[q]]) : queue'[dest[q]][i] = q
    <3>1. dest[q] \in Addr
      BY <2>2 DEF IInv, WaitsInQueue
    <3>2. ASSUME report'[q] = NULL
          PROVE  \E i \in 1 .. Len(queue'[dest[q]]) : queue'[dest[q]][i] = q
      <4>1. q # p /\ report[q] = NULL
        BY <1>1, <1>2, <1>6, <3>2 DEF IInv, Typed
      <4>2. PICK j \in 1 .. Len(queue[dest[q]]) : queue[dest[q]][j] = q
        BY <2>2, <4>1 DEF IInv, WaitsInQueue
      <4>3. CASE dest[q] = n
        <5>1. j - 1 \in 1 .. len - 1 /\ (j - 1) + 1 = j
          BY <1>2, <4>1, <4>2, <4>3 DEF len
        <5>2. rest[j - 1] = q /\ j - 1 \in 1 .. Len(rest)
          BY <1>2, <4>2, <4>3, <5>1
        <5> QED
          BY <1>3, <4>3, <5>2
      <4>4. CASE dest[q] # n
        BY <1>3, <3>1, <4>2, <4>4
      <4> QED
        BY <4>3, <4>4
    <3> QED
      BY <3>1, <3>2
  <2> QED
    BY <1>1, <2>1, <2>2 DEF WaitsInQueue
<1>13. OnlyWaiting' /\ Ascending'
  <2>1. ASSUME NEW k \in Addr, NEW i \in 1 .. Len(queue'[k])
        PROVE  /\ queue'[k][i] <= sent /\ dest[queue'[k][i]] = k
               /\ report'[queue'[k][i]] = NULL
    <3>1. PICK j \in 1 .. Len(queue[k]) :
            /\ queue'[k][i] = queue[k][j] /\ queue[k][j] \in Packet /\ queue[k][j] # p
      BY <1>7
    <3>2. queue[k][j] <= sent /\ dest[queue[k][j]] = k /\ report[queue[k][j]] = NULL
      BY DEF IInv, OnlyWaiting
    <3> QED
      BY <1>1, <3>1, <3>2 DEF IInv, Typed
  <2>2. ASSUME NEW k \in Addr, NEW i \in 1 .. Len(queue'[k]),
               NEW j \in 1 .. Len(queue'[k]), i < j
        PROVE  queue'[k][i] < queue'[k][j]
    <3>1. CASE k = n
      <4>1. /\ i + 1 \in 1 .. len /\ queue'[k][i] = queue[n][i + 1]
            /\ j + 1 \in 1 .. len /\ queue'[k][j] = queue[n][j + 1]
        BY <1>7, <3>1 DEF len
      <4>2. i + 1 < j + 1
        BY <1>2, <1>3, <2>2, <3>1
      <4> QED
        BY <1>2, <4>1, <4>2 DEF IInv, Ascending, len
    <3>2. CASE k # n
      BY <1>3, <2>2, <3>2 DEF IInv, Ascending
    <3> QED
      BY <3>1, <3>2
  <2> QED
    BY <1>1, <2>1, <2>2 DEF OnlyWaiting, Ascending
<1>14. OwnTries'
  <2>1. ASSUME NEW k \in Addr, queue'[k] # <<>>
        PROVE  transmissions'[k] <= tries'[queue'[k][1]]
    <3>1. Len(queue'[k]) \in Nat /\ Len(queue'[k]) > 0
      BY <1>3, <2>1, EmptySeq, LenProperties
    <3>2. 1 \in 1 .. Len(queue'[k])
      BY <3>1
    <3>3. CASE k = n
      BY <1>1, <1>2, <1>5, <1>7, <3>2, <3>3 DEF IInv, Typed
    <3>4. CASE k # n
      <4>1. queue'[k] = queue[k] /\ transmissions'[k] = transmissions[k]
        BY <1>1, <1>3, <3>4 DEF IInv, Typed
      <4>2. queue[k][1] \in Packet \ {p}
        BY <1>7, <3>2, <3>4, <4>1
      <4> QED
        BY <1>5, <2>1, <4>1, <4>2 DEF IInv, OwnTries
    <3> QED
      BY <3>3, <3>4
  <2> QED
    BY <2>1 DEF OwnTries
<1>15. InOrder'
  <2>1. ASSUME NEW q \in Packet, NEW r \in Packet,
               q < r, dest[q] = dest[r], tries'[r] > 0
        PROVE  report'[q] # NULL
    <3>1. report[q] # NULL
      <4>1. CASE r = p
        BY <1>2, <2>1, <4>1, BurstFacts
      <4>2. CASE r # p
        BY <1>5, <2>1, <4>2 DEF IInv, InOrder
      <4> QED
        BY <4>1, <4>2
    <3> QED
      BY <1>1, <1>6, <3>1 DEF IInv, Typed
  <2> QED
    BY <1>1, <2>1 DEF InOrder
<1>16. FullRetries'
  <2>1. ASSUME NEW q \in Packet, report'[q] \in {"NOACK", "COLLISION"}
        PROVE  tries'[q] >= MAX_TRANSMISSIONS
    <3>1. CASE q = p
      BY <1>1, <1>2, <2>1, <3>1 DEF IInv, Typed
    <3>2. CASE q # p
      BY <1>1, <1>5, <2>1, <3>2 DEF IInv, Typed, FullRetries
    <3> QED
      BY <3>1, <3>2
  <2> QED
    BY <2>1 DEF FullRetries
<1> QED
  BY <1>8, <1>9, <1>10, <1>11, <1>12, <1>13, <1>14, <1>15, <1>16 DEF IInv

(* noack and collision: what is counted for the neighbor stays within the  *)
(* transmissions that this packet has had.                                 *)
LEMMA AgainOK ==
  ASSUME IInv, burst # NoBurst, NEW n, NEW p, n = burst.to, p = burst.next,
         NEW status \in {"NOACK", "COLLISION"},
         NEW attempts \in Nat, NEW backoffs \in 0 .. MAX_BACKOFF,
         attempts <= transmissions[n] + 1,
         Again(n, p, status, attempts, backoffs),
         tries' = [tries EXCEPT ![p] = IF @ < MAX_TRANSMISSIONS THEN @ + 1 ELSE @],
         burst' = NoBurst, UNCHANGED <<sent, dest>>
  PROVE  IInv'
<1> DEFINE more == IF tries[p] < MAX_TRANSMISSIONS THEN tries[p] + 1 ELSE tries[p]
<1>1. /\ n \in Addr /\ p \in Packet /\ n \in neighbors /\ queue[n][1] = p
      /\ Len(queue[n]) \in Nat /\ Len(queue[n]) > 0
      /\ p <= sent /\ dest[p] = n /\ transmissions[n] <= tries[p]
      /\ \A q \in Packet : q < p /\ dest[q] = n => report[q] # NULL
  BY BurstFacts
<1>2. /\ tries \in [Packet -> 0 .. MAX_TRANSMISSIONS]
      /\ tries[p] \in 0 .. MAX_TRANSMISSIONS
      /\ transmissions[n] \in 0 .. MAX_TRANSMISSIONS - 1
  BY <1>1 DEF IInv, Typed
<1>3. /\ more \in 0 .. MAX_TRANSMISSIONS /\ tries[p] <= more
      /\ tries' = [tries EXCEPT ![p] = more]
  BY <1>2, Constants
<1>4. attempts >= MAX_TRANSMISSIONS => more >= MAX_TRANSMISSIONS
  BY <1>1, <1>2, Constants
<1>5. attempts < MAX_TRANSMISSIONS => attempts <= more
  BY <1>1, <1>2, Constants
<1> HIDE DEF more
<1>6. tries'[p] = more /\ \A q \in Packet \ {p} : tries'[q] = tries[q]
  BY <1>1, <1>2, <1>3
<1>7. CASE attempts >= MAX_TRANSMISSIONS
  <2>1. Done(n, p, status) /\ status \in Status /\ ~GoesOn(status)
    BY <1>7 DEF Again, Status, GoesOn
  <2>2. tries'[p] >= MAX_TRANSMISSIONS
    BY <1>4, <1>6, <1>7
  <2>3. burst' = IF GoesOn(status) THEN Following(n, p) ELSE NoBurst
    BY <2>1
  <2> QED
    BY <2>1, <2>2, <2>3, DoneOK
<1>8. CASE ~(attempts >= MAX_TRANSMISSIONS)
  <2>1. /\ transmissions' = [transmissions EXCEPT ![n] = attempts]
        /\ collisions' = [collisions EXCEPT ![n] = backoffs]
        /\ timer' = timer \union {n} /\ queue' = queue
        /\ neighbors' = neighbors /\ report' = report
        /\ sent' = sent /\ dest' = dest
    BY <1>8 DEF Again, Requeued
  <2>2. attempts \in 0 .. MAX_TRANSMISSIONS - 1
    BY <1>8, Constants
  <2>3. Typed'
    <3>1. tries' \in [Packet -> 0 .. MAX_TRANSMISSIONS]
      BY <1>1, <1>2, <1>3
    <3> QED
      BY <1>1, <2>1, <2>2, <3>1 DEF IInv, Typed
  <2>4. NoPacketStranded' /\ BurstInQueue'
    BY <1>1, <2>1 DEF IInv, NoPacketStranded, BurstInQueue
  <2>5. Limits' /\ WaitsInQueue' /\ OnlyWaiting' /\ Ascending'
    BY <2>1 DEF IInv, Limits, WaitsInQueue, OnlyWaiting, Ascending, Queued
  <2>6. Unsent'
    BY <1>1, <1>6, <2>1 DEF IInv, Typed, Unsent, Packet
  <2>7. OwnTries'
    <3>1. ASSUME NEW k \in Addr, queue[k] # <<>>
          PROVE  transmissions'[k] <= tries'[queue[k][1]]
      <4>1. CASE k = n
        BY <1>1, <1>5, <1>6, <1>8, <2>1, <2>2, <4>1, Constants DEF IInv, Typed
      <4>2. CASE k # n
        <5>1. transmissions'[k] = transmissions[k] /\ transmissions[k] <= tries[queue[k][1]]
          BY <2>1, <3>1, <4>2 DEF IInv, Typed, OwnTries
        <5>2. queue[k][1] \in Packet /\ dest[queue[k][1]] = k
          <6>1. queue[k] \in Seq(Packet) /\ 1 \in 1 .. Len(queue[k])
            BY <3>1, EmptySeq, LenProperties DEF IInv, Typed
          <6> QED
            BY <6>1, ElementOfSeq DEF IInv, OnlyWaiting
        <5> QED
          BY <1>1, <1>6, <4>2, <5>1, <5>2
      <4> QED
        BY <4>1, <4>2
    <3> QED
      BY <2>1, <3>1 DEF OwnTries
  <2>8. InOrder'
    <3>1. ASSUME NEW q \in Packet, NEW r \in Packet,
                 q < r, dest[q] = dest[r], tries'[r] > 0
          PROVE  report[q] # NULL
      <4>1. CASE r = p
        BY <1>1, <3>1, <4>1
      <4>2. CASE r # p
        BY <1>6, <3>1, <4>2 DEF IInv, InOrder
      <4> QED
        BY <4>1, <4>2
    <3> QED
      BY <2>1, <3>1 DEF InOrder
  <2>9. FullRetries'
    <3>1. ASSUME NEW q \in Packet, tries[q] >= MAX_TRANSMISSIONS
          PROVE  tries'[q] >= MAX_TRANSMISSIONS
      <4>1. CASE q = p
        BY <1>2, <1>3, <1>6, <3>1, <4>1, Constants
      <4>2. CASE q # p
        BY <1>6, <3>1, <4>2
      <4> QED
        BY <4>1, <4>2
    <3> QED
      BY <2>1, <3>1 DEF IInv, FullRetries
  <2> QED
    BY <2>3, <2>4, <2>5, <2>6, <2>7, <2>8, <2>9 DEF IInv
<1> QED
  BY <1>7, <1>8

LEMMA TransmitOK == ASSUME IInv, NEW status \in Status, Transmit(status) PROVE IInv'
<1> DEFINE n == burst.to
           p == burst.next
<1>1. /\ burst # NoBurst /\ UNCHANGED <<sent, dest>>
      /\ tries' = [tries EXCEPT ![p] = IF @ < MAX_TRANSMISSIONS THEN @ + 1 ELSE @]
      /\ burst' = IF GoesOn(status) THEN Following(n, p) ELSE NoBurst
      /\ \/ status \in {"OK", "ERR"} /\ Done(n, p, status)
         \/ status = "NOACK" /\ NoAck(n, p)
         \/ status = "COLLISION" /\ Collision(n, p)
  BY DEF Transmit
<1>2. /\ n \in Addr /\ p \in Packet
  BY <1>1, BurstFacts
<1>3. /\ transmissions[n] \in Nat /\ collisions[n] \in 0 .. MAX_BACKOFF
      /\ 0 \in 0 .. MAX_BACKOFF /\ Attempts(n) \in Nat
      /\ Attempts(n) <= transmissions[n] + 1 /\ transmissions[n] <= transmissions[n] + 1
  BY <1>2, Constants DEF IInv, Typed, Attempts
<1>4. status \in {"NOACK", "COLLISION"} => burst' = NoBurst
  BY <1>1 DEF GoesOn
<1> HIDE DEF n, p
<1>5. CASE status \in {"OK", "ERR"} /\ Done(n, p, status)
  <2>1. status \notin {"NOACK", "COLLISION"}
    BY <1>5
  <2> QED
    BY <1>1, <1>5, <2>1, DoneOK DEF n, p
<1>6. CASE status = "NOACK" /\ NoAck(n, p)
  <2>1. Again(n, p, status, Attempts(n), 0) /\ status \in {"NOACK", "COLLISION"}
    BY <1>6 DEF NoAck
  <2> QED
    BY <1>1, <1>3, <1>4, <2>1, AgainOK DEF n, p
<1>7. CASE status = "COLLISION" /\ Collision(n, p)
  <2>1. status \in {"NOACK", "COLLISION"}
    BY <1>7
  <2>2. CASE collisions[n] + 1 > MAX_BACKOFF
    <3>1. Again(n, p, status, Attempts(n), 0)
      BY <1>7, <2>2 DEF Collision
    <3> QED
      BY <1>1, <1>3, <1>4, <2>1, <3>1, AgainOK DEF n, p
  <2>3. CASE ~(collisions[n] + 1 > MAX_BACKOFF)
    <3>1. Again(n, p, status, transmissions[n], collisions[n] + 1)
      BY <1>7, <2>3 DEF Collision
    <3>2. collisions[n] + 1 \in 0 .. MAX_BACKOFF
      BY <1>3, <2>3, Constants
    <3> QED
      BY <1>1, <1>3, <1>4, <2>1, <3>1, <3>2, AgainOK DEF n, p
  <2> QED
    BY <2>2, <2>3
<1> QED
  BY <1>1, <1>5, <1>6, <1>7

------------------------------------------------------------------------------
LEMMA StutterOK == ASSUME IInv, UNCHANGED vars PROVE IInv'
<1>1. /\ neighbors' = neighbors /\ queue' = queue /\ transmissions' = transmissions
      /\ collisions' = collisions /\ timer' = timer /\ burst' = burst
      /\ sent' = sent /\ dest' = dest /\ tries' = tries /\ report' = report
  BY DEF vars, qvars
<1>2. Typed' /\ Limits' /\ NoPacketStranded' /\ BurstInQueue'
  BY <1>1 DEF IInv, Typed, Limits, NoPacketStranded, BurstInQueue, Queued
<1>3. Unsent' /\ WaitsInQueue' /\ OnlyWaiting' /\ Ascending'
  BY <1>1 DEF IInv, Unsent, WaitsInQueue, OnlyWaiting, Ascending
<1>4. OwnTries' /\ InOrder' /\ FullRetries'
  BY <1>1 DEF IInv, OwnTries, InOrder, FullRetries
<1> QED
  BY <1>2, <1>3, <1>4 DEF IInv

LEMMA NextIInv == IInv /\ [Next]_vars => IInv'
BY SendOK, TimerFiresOK, TransmitOK, StutterOK DEF Next

LEMMA Invariance == Spec => []IInv
BY InitIInv, NextIInv, PTL DEF Spec

LEMMA IInvSound == IInv => QueuesSound
<1> SUFFICES ASSUME IInv PROVE QueuesSound
  OBVIOUS
<1>1. ASSUME NEW n \in Addr PROVE queue[n] \in Seq(1 .. sent)
  <2>1. queue[n] \in Seq(Packet) /\ Len(queue[n]) \in Nat
    BY LenProperties DEF IInv, Typed
  <2>2. \A i \in 1 .. Len(queue[n]) : queue[n][i] \in 1 .. sent
    BY SMTT(60), <2>1, ElementOfSeq, Constants DEF IInv, Typed, OnlyWaiting, Packet
  <2>3. SubSeq(queue[n], 1, Len(queue[n])) \in Seq(1 .. sent)
    BY <2>1, <2>2, SubSeqProperties
  <2> QED
    BY <2>1, <2>3, SubSeqFull
<1>2. \A n \in Addr : transmissions[n] < MAX_TRANSMISSIONS /\ collisions[n] <= MAX_BACKOFF
  BY Constants DEF IInv, Typed
<1>3. TypeOK
  BY <1>1, <1>2 DEF IInv, Typed, Limits, TypeOK
<1> QED
  BY <1>3 DEF IInv, QueuesSound

(* The pools keep their limits, every packet that is queued is of a        *)
(* neighbor whose timer or burst will come, and a burst goes on with the   *)
(* packet at the head of its queue, whatever the callbacks send (csma.c).  *)
THEOREM PoolsCorrect == Spec => []QueuesSound
BY Invariance, IInvSound, PTL

(* Packets for a neighbor reach the radio in the order they were sent.     *)
THEOREM SentInOrder == Spec => []InOrder
<1>1. IInv => InOrder
  BY DEF IInv
<1> QED
  BY <1>1, Invariance, PTL

(* A packet is given up only after as many transmissions of its own as it  *)
(* may have, whatever was counted for the packets before it.               *)
THEOREM TriedFully == Spec => []FullRetries
<1>1. IInv => FullRetries
  BY DEF IInv
<1> QED
  BY <1>1, Invariance, PTL

------------------------------------------------------------------------------
(* What a sender has been told is not changed by any step.                 *)
LEMMA ReportKept ==
  ASSUME IInv, [Next]_vars, NEW p \in Packet, report[p] # NULL
  PROVE  report'[p] = report[p]
<1>0. report \in [Packet -> Status \union {NULL}]
  BY DEF IInv, Typed
<1>1. ASSUME NEW n \in Addr, Send(n) PROVE report'[p] = report[p]
  <2>1. p # sent + 1
    BY <1>1, Constants DEF Send, IInv, Typed, Unsent, Packet
  <2> QED
    BY <1>0, <1>1, <2>1 DEF Send, Enqueue, Drop, Reported
<1>2. ASSUME NEW n \in Addr, TimerFires(n) PROVE report'[p] = report[p]
  BY <1>2 DEF TimerFires
<1>3. ASSUME NEW status \in Status, Transmit(status) PROVE report'[p] = report[p]
  <2>1. burst # NoBurst /\ report[burst.next] = NULL
    BY <1>3, BurstFacts DEF Transmit
  <2>2. \/ report' = report
        \/ report' = [report EXCEPT ![burst.next] = status]
    BY <1>3 DEF Transmit, NoAck, Collision, Again, Done, Reported
  <2> QED
    BY <1>0, <2>1, <2>2
<1> QED
  BY <1>1, <1>2, <1>3 DEF Next, vars

LEMMA QueuedIsOpen ==
  ASSUME IInv', NEW p, p \in Queued' PROVE report'[p] = NULL
<1>1. p \in Held(queue')
  BY DEF Queued, Held
<1>2. queue' \in [Addr -> Seq(Packet)]
  BY DEF IInv, Typed
<1>3. \E n \in Addr : \E i \in 1 .. Len(queue'[n]) : queue'[n][i] = p
  BY <1>1, <1>2, HeldIs
<1> QED
  BY <1>3 DEF IInv, OnlyWaiting

(* A sender is told once what became of its packet, when it is in no queue *)
(* any more.                                                               *)
THEOREM ToldOnce == Spec => ReportedOnce
<1>1. IInv /\ IInv' /\ [Next]_vars =>
        [\A p \in Packet : report[p] # NULL =>
           report'[p] = report[p] /\ p \notin Queued']_vars
  <2>1. SUFFICES ASSUME IInv, IInv', [Next]_vars, NEW p \in Packet, report[p] # NULL
                 PROVE  report'[p] = report[p] /\ p \notin Queued'
    OBVIOUS
  <2>2. report'[p] = report[p]
    BY <2>1, ReportKept
  <2>3. p \in Queued' => report'[p] = NULL
    BY <2>1, QueuedIsOpen
  <2> QED
    BY <2>1, <2>2, <2>3
<1> QED
  BY <1>1, Invariance, PTL DEF Spec, ReportedOnce
==============================================================================
