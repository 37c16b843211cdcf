----------------------------- MODULE MQTT_proofs ------------------------------
(***************************************************************************)
(* For an event queue of any length, any number of lost connections and    *)
(* any timing of acknowledgements and timers: the buffer and the           *)
(* connection are in order in every state, the loss of an established      *)
(* connection does not end the process, and, with a long keep-alive        *)
(* interval, the application believes in a connection only while there is  *)
(* one.                                                                    *)
(*                                                                         *)
(* The invariant says which events can be in the queue in which state of   *)
(* the connection.  An event that has gone stale is what could go wrong: a *)
(* connect event of a connection that has been lost would be taken for one *)
(* of the next connection, if it could be behind that one's tcp event.     *)
(***************************************************************************)
EXTENDS MQTT, SequenceTheorems, TLAPS

Event == {"abort", "tcp", "connect", "disconnect", "ping", "subscribe",
          "publish", "continue"}

Node ==
  [state : {"disconnecting", "not_connected", "tcp_connecting", "tcp_connected",
            "connecting", "connected", "sending_disconnect", "abort_immediate"},
   sent : BOOLEAN, full : BOOLEAN, acked : BOOLEAN, received : BOOLEAN,
   waiting : BOOLEAN, keep_alive : KEEP_ALIVE,
   keepalive : {"none", "stopped", "set"},
   socket : {"none", "connecting", "open"}, flight : Thread \union {NULL},
   answers : SUBSET Thread, subscribed : BOOLEAN, queue : Seq(Event),
   running : BOOLEAN, thread : Thread \union {NULL}, late : BOOLEAN,
   app : {"registered", "connecting", "connected", "publishing", "disconnected"},
   ends : Nat]

Up == {"connected", "sending_disconnect"}
Believing == {"connected", "publishing"}

Has(q, e) == \E i \in DOMAIN q : q[i] = e
Lone(q, e) == \A i, j \in DOMAIN q : q[i] = e /\ q[j] = e => i = j

(* The events tcp and connect occur once, and connect not behind tcp.      *)
Fresh(q) ==
  /\ Lone(q, "tcp") /\ Lone(q, "connect")
  /\ \A i, j \in DOMAIN q : q[i] = "tcp" /\ q[j] = "connect" => j < i

(* The socket, the buffer and the state of the connection.                 *)
Wired(n) ==
  /\ n.sent => n.flight = NULL
  /\ n.flight # NULL \/ n.answers # {} \/ n.subscribed => n.socket = "open"
  /\ n.socket = "connecting" => n.state = "tcp_connecting" /\ ~n.sent /\ n.thread = NULL
  /\ n.socket = "open" => n.state \in {"tcp_connected", "connecting"} \union Up
  /\ n.state \in Up => n.socket = "open" /\ n.app \in Believing
  /\ n.app \in Believing => n.state \in Up \union {"disconnecting"}
  /\ n.flight \in Thread \ {"connect"} => n.state \in Up
  /\ n.flight = "connect" \/ "connect" \in n.answers => n.state = "connecting"
  /\ n.flight = "connect" => "connect" \notin n.answers
  /\ n.full => n.app = "publishing"
  /\ ~n.running => n.thread = NULL

(* The events that can be in the queue q.                                  *)
Queued(n, q) ==
  /\ Fresh(q)
  /\ Has(q, "tcp") => /\ n.socket = "none" /\ n.app = "connecting"
                      /\ n.thread # "disconnect" /\ ~Has(q, "abort")
  /\ Has(q, "abort") => n.socket = "none" /\ n.app \in {"disconnected", "registered"}
  /\ Has(q, "connect") => /\ n.thread = NULL /\ n.app \notin Believing
                          /\ n.socket # "connecting" /\ n.state # "connecting"

(* While disconnect_pt waits for a connection that is gone, nothing can be *)
(* posted or the node does not connect.                                    *)
Stuck(n, q) ==
  n.thread = "disconnect" =>
    \/ n.state = "sending_disconnect"
    \/ n.state = "disconnecting" /\ n.app \in Believing
    \/ Has(q, "abort") \/ Len(q) = NUMEVENTS

(* An event is in the queue, before the one that tells of a loss.          *)
Awake(n, q) ==
  n.thread \in {"ping", "subscribe", "publish"} => q # <<>> /\ Head(q) # "abort"

Fine(n) ==
  /\ n \in Node /\ Len(n.queue) <= NUMEVENTS
  /\ Wired(n) /\ Queued(n, n.queue)

Waits(n) == Fine(n) /\ Stuck(n, n.queue) /\ Awake(n, n.queue)

MInv == Waits(node)

(* With a long keep-alive interval, nobody waits for a PINGRESP when it    *)
(* has elapsed: only pingreq_pt does, or the connection has been lost.     *)
Held(n) ==
  n.keep_alive = "long" =>
    /\ n.state # "disconnecting"
    /\ n.waiting => \/ n.thread = "ping" /\ n.state = "connected"
                    \/ n.keepalive # "set" /\ n.socket = "none"

------------------------------------------------------------------------------
(* Queues. *)

LEMMA Appended ==
  ASSUME NEW q \in Seq(Event), NEW x \in Event
  PROVE  /\ Append(q, x) \in Seq(Event) /\ Len(Append(q, x)) = Len(q) + 1
         /\ Len(q) \in Nat /\ Append(q, x) # <<>>
         /\ \A e : Has(Append(q, x), e) <=> (Has(q, e) \/ x = e)
         /\ q # <<>> => Head(Append(q, x)) = Head(q)
<1>1. Append(q, x) \in Seq(Event) /\ Len(Append(q, x)) = Len(q) + 1
      /\ Len(q) \in Nat /\ Append(q, x) # <<>>
  OBVIOUS
<1>2. ASSUME NEW e PROVE Has(Append(q, x), e) <=> (Has(q, e) \/ x = e)
  <2>1. /\ DOMAIN Append(q, x) = 1 .. Len(q) + 1 /\ DOMAIN q = 1 .. Len(q)
        /\ \A i \in 1 .. Len(q) : Append(q, x)[i] = q[i]
        /\ Append(q, x)[Len(q) + 1] = x
    OBVIOUS
  <2>2. 1 .. Len(q) + 1 = 1 .. Len(q) \union {Len(q) + 1}
    BY <1>1
  <2> QED BY <2>1, <2>2 DEF Has
<1>3. q # <<>> => Head(Append(q, x)) = Head(q)
  OBVIOUS
<1> QED BY <1>1, <1>2, <1>3

LEMMA AppendedFresh ==
  ASSUME NEW q \in Seq(Event), NEW x \in Event, Fresh(q),
         x = "tcp" => ~Has(q, "tcp"),
         x = "connect" => ~Has(q, "tcp") /\ ~Has(q, "connect")
  PROVE  Fresh(Append(q, x))
<1>1. /\ DOMAIN Append(q, x) = 1 .. Len(q) + 1 /\ DOMAIN q = 1 .. Len(q)
      /\ \A i \in 1 .. Len(q) : Append(q, x)[i] = q[i]
      /\ Append(q, x)[Len(q) + 1] = x /\ Len(q) \in Nat
  OBVIOUS
<1>2. \A i \in 1 .. Len(q) + 1 : i \in 1 .. Len(q) \/ i = Len(q) + 1
  BY <1>1
<1>3. Lone(Append(q, x), "tcp")
  BY <1>1, <1>2 DEF Lone, Fresh, Has
<1>4. Lone(Append(q, x), "connect")
  BY <1>1, <1>2 DEF Lone, Fresh, Has
<1>5. ASSUME NEW i \in DOMAIN Append(q, x), NEW j \in DOMAIN Append(q, x),
             Append(q, x)[i] = "tcp", Append(q, x)[j] = "connect"
      PROVE  j < i
  <2>1. CASE i \in 1 .. Len(q) /\ j \in 1 .. Len(q)
    BY <1>1, <1>5, <2>1 DEF Fresh
  <2>2. CASE j = Len(q) + 1
    <3>1. x = "connect" BY <1>1, <1>5, <2>2
    <3>2. i \in 1 .. Len(q) BY <1>1, <1>2, <1>5, <3>1
    <3> QED BY <1>1, <1>5, <3>1, <3>2 DEF Has
  <2>3. CASE i = Len(q) + 1 /\ j \in 1 .. Len(q)
    BY <1>1, <2>3
  <2> QED BY <1>1, <1>2, <2>1, <2>2, <2>3
<1> QED BY <1>3, <1>4, <1>5 DEF Fresh

LEMMA Popped ==
  ASSUME NEW q \in Seq(Event), q # <<>>, Fresh(q)
  PROVE  /\ Head(q) \in Event /\ Tail(q) \in Seq(Event)
         /\ Len(Tail(q)) = Len(q) - 1 /\ Len(q) \in Nat /\ Fresh(Tail(q))
         /\ Has(q, Head(q)) /\ \A e : Has(Tail(q), e) => Has(q, e)
         /\ \A e : Has(q, e) => Has(Tail(q), e) \/ e = Head(q)
         /\ Head(q) = "tcp" => ~Has(Tail(q), "tcp") /\ ~Has(Tail(q), "connect")
         /\ Head(q) = "connect" => ~Has(Tail(q), "connect")
<1>1. /\ DOMAIN q = 1 .. Len(q) /\ Len(q) \in Nat \ {0} /\ Head(q) = q[1]
      /\ DOMAIN Tail(q) = 1 .. Len(q) - 1
      /\ \A i \in 1 .. Len(q) - 1 : Tail(q)[i] = q[i + 1]
  OBVIOUS
<1>2. /\ Head(q) \in Event /\ Tail(q) \in Seq(Event) /\ Len(Tail(q)) = Len(q) - 1
  OBVIOUS
<1>3. /\ 1 \in DOMAIN q /\ \A i \in 1 .. Len(q) - 1 : i + 1 \in DOMAIN q /\ i + 1 # 1
      /\ \A i \in DOMAIN q : i # 1 => i - 1 \in 1 .. Len(q) - 1 /\ i = (i - 1) + 1
  BY <1>1
<1>4. \A i, j \in 1 .. Len(q) - 1 : (i + 1 = j + 1 => i = j) /\ (i + 1 < j + 1 => i < j)
  BY <1>1
<1>5. Lone(Tail(q), "tcp") /\ Lone(Tail(q), "connect")
  BY <1>1, <1>3, <1>4 DEF Fresh, Lone
<1>6. \A i, j \in DOMAIN Tail(q) :
        Tail(q)[i] = "tcp" /\ Tail(q)[j] = "connect" => j < i
  BY <1>1, <1>3, <1>4 DEF Fresh
<1>7. Has(q, Head(q)) /\ \A e : Has(Tail(q), e) => Has(q, e)
  BY <1>1, <1>3 DEF Has
<1>8. \A e : Has(q, e) => Has(Tail(q), e) \/ e = Head(q)
  <2> SUFFICES ASSUME NEW e, NEW i \in DOMAIN q, q[i] = e, i # 1
               PROVE  Has(Tail(q), e)
    BY <1>1 DEF Has
  <2>1. i - 1 \in DOMAIN Tail(q) /\ Tail(q)[i - 1] = q[i]
    BY <1>1, <1>3
  <2> QED BY <2>1 DEF Has
<1>9. Head(q) = "tcp" => ~Has(Tail(q), "tcp") /\ ~Has(Tail(q), "connect")
  <2> SUFFICES ASSUME Head(q) = "tcp", NEW i \in DOMAIN Tail(q),
                      Tail(q)[i] \in {"tcp", "connect"}
               PROVE  FALSE
    BY DEF Has
  <2>1. i + 1 \in DOMAIN q /\ q[i + 1] \in {"tcp", "connect"} /\ i + 1 > 1
    BY <1>1, <1>3
  <2>2. q[1] = "tcp" /\ 1 \in DOMAIN q BY <1>1, <1>3
  <2> QED BY <2>1, <2>2 DEF Fresh, Lone
<1>10. Head(q) = "connect" => ~Has(Tail(q), "connect")
  BY <1>1, <1>3 DEF Fresh, Lone, Has
<1> QED BY <1>1, <1>2, <1>5, <1>6, <1>7, <1>8, <1>9, <1>10 DEF Fresh

(* The events about which Queued says nothing.                             *)
Neutral == {"disconnect", "ping", "subscribe", "publish", "continue"}

------------------------------------------------------------------------------
(* What the client does to its record. *)

(* m differs from n in its queue only.                                     *)
Apart(m, n) ==
  /\ m.state = n.state /\ m.sent = n.sent /\ m.full = n.full
  /\ m.acked = n.acked /\ m.received = n.received /\ m.waiting = n.waiting
  /\ m.keepalive = n.keepalive /\ m.keep_alive = n.keep_alive /\ m.socket = n.socket /\ m.flight = n.flight
  /\ m.answers = n.answers /\ m.subscribed = n.subscribed
  /\ m.running = n.running /\ m.thread = n.thread /\ m.late = n.late
  /\ m.app = n.app /\ m.ends = n.ends

LEMMA Posted ==
  ASSUME NEW n \in Node, NEW ev \in Event, Len(n.queue) <= NUMEVENTS
  PROVE  /\ Post(n, ev) \in Node /\ Apart(Post(n, ev), n)
         /\ Len(Post(n, ev).queue) <= NUMEVENTS /\ n.queue \in Seq(Event)
         /\ \/ Len(n.queue) < NUMEVENTS /\ Post(n, ev).queue = Append(n.queue, ev)
            \/ Len(n.queue) = NUMEVENTS /\ Post(n, ev).queue = n.queue
<1>1. n.queue \in Seq(Event) /\ NUMEVENTS \in Nat /\ Len(n.queue) \in Nat
  BY MQTTAssumption DEF Node
<1>2. CASE Len(n.queue) < NUMEVENTS
  <2>1. Post(n, ev) = [n EXCEPT !.queue = Append(@, ev)] BY <1>2 DEF Post
  <2>2. Append(n.queue, ev) \in Seq(Event) /\ Len(Append(n.queue, ev)) = Len(n.queue) + 1
    BY <1>1, Appended
  <2>3. Post(n, ev) \in Node BY <2>1, <2>2 DEF Node
  <2>4. Apart(Post(n, ev), n) BY <2>1 DEF Node, Apart
  <2>5. Post(n, ev).queue = Append(n.queue, ev) BY <2>1 DEF Node
  <2> QED BY <1>1, <1>2, <2>2, <2>3, <2>4, <2>5
<1>3. CASE ~(Len(n.queue) < NUMEVENTS)
  <2>1. Post(n, ev) = n BY <1>3 DEF Post
  <2> QED BY <1>1, <1>3, <2>1 DEF Apart
<1> QED BY <1>2, <1>3

(* Another event in the queue changes nothing that the invariant is about. *)
LEMMA NeutralPosted ==
  ASSUME NEW n, Fine(n), NEW ev \in Neutral
  PROVE  /\ Fine(Post(n, ev)) /\ Apart(Post(n, ev), n)
         /\ Post(n, ev).queue # <<>>
         /\ n.queue # <<>> => Head(Post(n, ev).queue) = Head(n.queue)
         /\ \A e \in {"tcp", "connect", "abort"} :
              Has(Post(n, ev).queue, e) <=> Has(n.queue, e)
         /\ \/ Len(n.queue) < NUMEVENTS /\ Post(n, ev).queue = Append(n.queue, ev)
            \/ Len(n.queue) = NUMEVENTS /\ Post(n, ev).queue = n.queue
<1> DEFINE m == Post(n, ev)
<1>1. n \in Node /\ ev \in Event /\ Len(n.queue) <= NUMEVENTS /\ Fresh(n.queue)
  BY DEF Fine, Neutral, Event, Queued
<1>2. /\ m \in Node /\ Apart(m, n) /\ Len(m.queue) <= NUMEVENTS
      /\ n.queue \in Seq(Event)
      /\ \/ Len(n.queue) < NUMEVENTS /\ m.queue = Append(n.queue, ev)
         \/ Len(n.queue) = NUMEVENTS /\ m.queue = n.queue
  BY <1>1, Posted
<1>3. \A e \in {"tcp", "connect", "abort"} : Has(m.queue, e) <=> Has(n.queue, e)
  <2>1. \A e \in {"tcp", "connect", "abort"} : e # ev BY DEF Neutral
  <2>2. \A e : Has(Append(n.queue, ev), e) <=> (Has(n.queue, e) \/ ev = e)
    BY <1>1, <1>2, Appended
  <2>3. CASE m.queue = n.queue BY <2>3
  <2>4. CASE m.queue = Append(n.queue, ev) BY <2>1, <2>2, <2>4
  <2> QED BY <1>2, <2>3, <2>4
<1>4. Fresh(m.queue)
  <2>1. ev # "tcp" /\ ev # "connect" BY DEF Neutral
  <2>2. Fresh(Append(n.queue, ev)) BY <1>1, <1>2, <2>1, AppendedFresh
  <2> QED BY <1>1, <1>2, <2>2
<1>5. m.queue # <<>> /\ (n.queue # <<>> => Head(m.queue) = Head(n.queue))
  <2>1. Append(n.queue, ev) # <<>>
        /\ (n.queue # <<>> => Head(Append(n.queue, ev)) = Head(n.queue))
    BY <1>1, <1>2, Appended
  <2>2. Len(n.queue) = NUMEVENTS => n.queue # <<>>
    BY <1>2, MQTTAssumption
  <2> QED BY <1>2, <2>1, <2>2
<1> HIDE DEF m
<1>6. Wired(m)
  BY <1>1, <1>2 DEF Fine, Wired, Apart
<1>7. Queued(m, m.queue)
  <2>1. Queued(n, n.queue) BY DEF Fine
  <2> QED BY <2>1, <1>2, <1>3, <1>4 DEF Queued, Apart
<1>8. Fine(m) BY <1>2, <1>6, <1>7 DEF Fine
<1> QED BY <1>2, <1>3, <1>5, <1>8 DEF m

(* The connection is given up: its events that the queue still holds fit.  *)
LEMMA GivenUp ==
  ASSUME NEW n \in Node
  PROVE  /\ AbortConnection(n) \in Node
         /\ AbortConnection(n).queue = n.queue /\ AbortConnection(n).sent = n.sent
         /\ AbortConnection(n).socket = "none" /\ AbortConnection(n).flight = NULL
         /\ AbortConnection(n).answers = {} /\ AbortConnection(n).subscribed = FALSE
         /\ AbortConnection(n).full = FALSE
         /\ AbortConnection(n).state = "not_connected"
         /\ AbortConnection(n).running = n.running
         /\ AbortConnection(n).thread = n.thread /\ AbortConnection(n).app = n.app
BY DEF AbortConnection, Closed, Node

(* mqtt_disconnect.                                                        *)
LEMMA Disconnects ==
  ASSUME NEW n, Fine(n)
  PROVE  Fine(Disconnect(n)) /\ Disconnect(n).running = n.running
<1>1. CASE n.state # "connected"
  BY <1>1 DEF Disconnect
<1>2. CASE n.state = "connected"
  <2> DEFINE m == [n EXCEPT !.state = "sending_disconnect"]
  <2>1. m \in Node /\ m.queue = n.queue BY DEF m, Node, Fine
  <2>2. Wired(m) BY <1>2 DEF m, Wired, Fine, Node, Up, Believing
  <2>3. Queued(m, m.queue) BY <1>2, <2>1 DEF m, Queued, Fine, Node
  <2>4. Fine(m) BY <2>1, <2>2, <2>3 DEF Fine
  <2>5. m.running = n.running BY DEF m, Node, Fine
  <2>6. Disconnect(n) = Post(m, "disconnect") BY <1>2 DEF Disconnect, m
  <2> HIDE DEF m
  <2>7. Fine(Post(m, "disconnect")) /\ Apart(Post(m, "disconnect"), m)
    BY <2>4, NeutralPosted DEF Neutral
  <2> QED BY <2>5, <2>6, <2>7 DEF Apart
<1> QED BY <1>1, <1>2

(* A thread that has ended: its record, and that of disconnect_pt, which   *)
(* takes the connection with it.                                           *)
LEMMA Leaves ==
  ASSUME NEW n, Fine(n)
  PROVE  Fine(Left(n)) /\ Left(n).thread = NULL /\ Left(n).running = n.running
<1> DEFINE m == [n EXCEPT !.thread = NULL, !.late = FALSE]
<1>1. /\ m \in Node /\ m.queue = n.queue /\ m.thread = NULL /\ Wired(m)
      /\ Queued(m, m.queue) /\ Fine(m) /\ m.running = n.running
  <2>1. m \in Node /\ m.queue = n.queue /\ m.thread = NULL /\ m.running = n.running
    BY DEF m, Node, Fine
  <2>2. Wired(m) BY DEF m, Wired, Fine, Node
  <2>3. NULL # "disconnect" BY MQTTAssumption
  <2>4. Queued(m, m.queue) BY <2>1, <2>3 DEF m, Queued, Fine, Node
  <2> QED BY <2>1, <2>2, <2>4 DEF Fine
<1>2. CASE n.thread # "disconnect"
  <2>1. Left(n) = m BY <1>2 DEF Left, m
  <2> QED BY <1>1, <2>1
<1>3. CASE n.thread = "disconnect"
  <2> DEFINE a == AbortConnection(m)
             l == [a EXCEPT !.app = "disconnected"]
  <2>1. Left(n) = l BY <1>3 DEF Left, m, a, l
  <2>2. ~Has(m.queue, "tcp") /\ ~Has(m.queue, "connect")
    <3>1. NULL # "disconnect" BY MQTTAssumption
    <3> QED BY <1>1, <1>3, <3>1 DEF Fine, Queued
  <2>3. /\ a \in Node /\ a.queue = m.queue /\ a.socket = "none" /\ a.flight = NULL
        /\ a.answers = {} /\ a.subscribed = FALSE /\ a.full = FALSE
        /\ a.state = "not_connected" /\ a.thread = NULL /\ a.running = m.running
    BY <1>1, GivenUp DEF a
  <2>4. m.queue \in Seq(Event) /\ Len(m.queue) <= NUMEVENTS /\ Fresh(m.queue)
    BY <1>1 DEF Fine, Node, Queued
  <2> HIDE DEF m, a
  <2>5. l \in Node /\ l.queue = m.queue /\ l.thread = NULL /\ l.running = m.running
    BY <2>3 DEF l, Node
  <2>6. Wired(l)
    BY <2>3, MQTTAssumption DEF l, Wired, Node, Thread, Up, Believing
  <2>7. Queued(l, l.queue)
    BY <2>2, <2>3, <2>4 DEF l, Queued, Node
  <2>8. m.running = n.running BY <1>1 DEF m
  <2> QED BY <2>1, <2>4, <2>5, <2>6, <2>7, <2>8 DEF Fine
<1> QED BY <1>2, <1>3

LEMMA Finishes ==
  ASSUME NEW n, Fine(n)
  PROVE  Fine(Finish(n)) /\ Finish(n).running = n.running
<1> DEFINE m == [n EXCEPT !.received = IF n.thread = "disconnect" THEN @ ELSE FALSE]
<1>1. m \in Node /\ m.queue = n.queue /\ m.running = n.running
  BY DEF m, Node, Fine
<1>2. Wired(m) BY DEF m, Wired, Fine, Node
<1>3. Queued(m, m.queue) BY <1>1 DEF m, Queued, Fine, Node
<1>4. Fine(m) BY <1>1, <1>2, <1>3 DEF Fine
<1> HIDE DEF m
<1>5. Fine(Disconnect(m)) /\ Disconnect(m).running = m.running
  BY <1>4, Disconnects
<1>6. Fine([m EXCEPT !.full = FALSE]) /\ [m EXCEPT !.full = FALSE].running = m.running
  <2> DEFINE k == [m EXCEPT !.full = FALSE]
  <2>1. k \in Node /\ k.queue = m.queue /\ k.running = m.running
    BY <1>4 DEF k, Node, Fine
  <2>2. Wired(k) BY <1>4 DEF k, Wired, Fine, Node
  <2>3. Queued(k, k.queue) BY <1>4, <2>1 DEF k, Queued, Fine, Node
  <2> QED BY <1>4, <2>1, <2>2, <2>3 DEF Fine
<1>7. Fine([m EXCEPT !.waiting = FALSE]) /\ [m EXCEPT !.waiting = FALSE].running = m.running
  <2> DEFINE k == [m EXCEPT !.waiting = FALSE]
  <2>1. k \in Node /\ k.queue = m.queue /\ k.running = m.running
    BY <1>4 DEF k, Node, Fine
  <2>2. Wired(k) BY <1>4 DEF k, Wired, Fine, Node
  <2>3. Queued(k, k.queue) BY <1>4, <2>1 DEF k, Queued, Fine, Node
  <2> QED BY <1>4, <2>1, <2>2, <2>3 DEF Fine
<1>8. Finish(n) \in {m, Disconnect(m), [m EXCEPT !.full = FALSE], [m EXCEPT !.waiting = FALSE]}
  BY DEF Finish, StillWaiting, m
<1> QED BY <1>1, <1>4, <1>5, <1>6, <1>7, <1>8

LEMMA Quiet ==
  ASSUME NEW n, Fine(n), n.thread = NULL
  PROVE  Waits(n)
BY MQTTAssumption DEF Waits, Stuck, Awake

(* The loop around a thread: it ends, or its event is in the queue.  An    *)
(* event taken from a full queue leaves the place that this one needs.     *)
LEMMA Loops ==
  ASSUME NEW n, Fine(n), n.thread # NULL,
         Stuck(n, n.queue) \/ Len(n.queue) + 1 = NUMEVENTS
  PROVE  Waits(Loop(n)) /\ Loop(n).running = n.running
<1>1. CASE Answered(n) \/ n.late
  <2>1. Loop(n) = Left(Finish(n)) BY <1>1 DEF Loop
  <2>2. Fine(Finish(n)) /\ Finish(n).running = n.running BY Finishes
  <2>3. /\ Fine(Left(Finish(n))) /\ Left(Finish(n)).thread = NULL
        /\ Left(Finish(n)).running = Finish(n).running
    BY <2>2, Leaves
  <2> QED BY <2>1, <2>2, <2>3, Quiet
<1>2. CASE ~(Answered(n) \/ n.late) /\ ~GoesOn(n)
  <2>1. Loop(n) = Left(n) BY <1>2 DEF Loop
  <2>2. Fine(Left(n)) /\ Left(n).thread = NULL /\ Left(n).running = n.running
    BY Leaves
  <2> QED BY <2>1, <2>2, Quiet
<1>3. CASE ~(Answered(n) \/ n.late) /\ GoesOn(n)
  <2> DEFINE m == Post(n, "continue")
  <2>1. Loop(n) = m BY <1>3 DEF Loop, m
  <2>2. /\ Fine(m) /\ Apart(m, n) /\ m.queue # <<>>
        /\ \A e \in {"tcp", "connect", "abort"} : Has(m.queue, e) <=> Has(n.queue, e)
        /\ \/ Len(n.queue) < NUMEVENTS /\ m.queue = Append(n.queue, "continue")
           \/ Len(n.queue) = NUMEVENTS /\ m.queue = n.queue
    BY NeutralPosted DEF Neutral, m
  <2>3. n.queue \in Seq(Event) /\ "continue" \in Event BY DEF Fine, Node, Event
  <2>4. Len(Append(n.queue, "continue")) = Len(n.queue) + 1 /\ Len(n.queue) \in Nat
    BY <2>3, Appended
  <2> HIDE DEF m
  <2>5. Stuck(m, m.queue)
    <3>1. CASE Len(n.queue) + 1 = NUMEVENTS
      <4>1. Len(m.queue) = NUMEVENTS BY <3>1, <2>2, <2>4, MQTTAssumption
      <4> QED BY <4>1 DEF Stuck
    <3>2. CASE Stuck(n, n.queue)
      <4>1. Len(n.queue) = NUMEVENTS => Len(m.queue) = NUMEVENTS
        BY <2>2, MQTTAssumption
      <4> QED BY <3>2, <4>1, <2>2 DEF Stuck, Apart
    <3> QED BY <3>1, <3>2
  <2>6. Awake(m, m.queue)
    <3> SUFFICES ASSUME n.thread \in {"ping", "subscribe", "publish"}
                 PROVE  Head(m.queue) # "abort"
      BY <2>2 DEF Awake, Apart
    <3>1. n.state = "connected" BY <1>3 DEF GoesOn
    <3>2. ~Has(n.queue, "abort") BY <3>1 DEF Fine, Wired, Queued, Up
    <3>3. ~Has(m.queue, "abort") BY <3>2, <2>2
    <3>4. 1 \in DOMAIN m.queue /\ Head(m.queue) = m.queue[1]
      <4>1. m.queue \in Seq(Event) BY <2>2 DEF Fine, Node
      <4> QED BY <4>1, <2>2
    <3> QED BY <3>3, <3>4 DEF Has
  <2> QED BY <2>1, <2>2, <2>5, <2>6 DEF Waits, Apart
<1> QED BY <1>1, <1>2, <1>3

(* A thread starts.                                                        *)
LEMMA Writes ==
  ASSUME NEW n, Fine(n), NEW k \in Thread, n.running, n.sent,
         k = "connect" => /\ n.state # "connecting" /\ n.app \notin Believing
                          /\ n.socket # "connecting" /\ ~Has(n.queue, "connect"),
         k = "disconnect" => n.state = "sending_disconnect",
         k \in {"ping", "subscribe", "publish"} => n.state = "connected"
  PROVE  /\ Fine(Write(n, k)) /\ Write(n, k).thread = k
         /\ Write(n, k).running = n.running
         /\ Stuck(Write(n, k), Write(n, k).queue)
<1> DEFINE m == Write(n, k)
<1>1. n \in Node /\ Wired(n) /\ Queued(n, n.queue) BY DEF Fine
<1>2. /\ m \in Node /\ m.queue = n.queue /\ m.thread = k /\ m.running = n.running
      /\ m.state = IF k = "connect" THEN "connecting" ELSE n.state
      /\ m.sent = FALSE /\ m.flight = IF n.socket = "none" THEN NULL ELSE k
      /\ (m.full => n.full) /\ m.app = n.app /\ m.answers = n.answers
      /\ m.socket = n.socket /\ m.subscribed = n.subscribed
  <2> DEFINE c == [SendOutBuffer(n, k) EXCEPT !.thread = k, !.late = FALSE]
             fl == IF n.socket = "none" THEN NULL ELSE k
  <2>1. fl \in Thread \union {NULL} OBVIOUS
  <2>2. c = [n EXCEPT !.sent = FALSE, !.flight = fl, !.thread = k, !.late = FALSE]
    BY <1>1 DEF c, SendOutBuffer, Node, fl
  <2> HIDE DEF fl
  <2>3. /\ c \in Node /\ c.queue = n.queue /\ c.thread = k /\ c.running = n.running
        /\ c.state = n.state /\ c.sent = FALSE /\ c.flight = fl /\ c.full = n.full
        /\ c.app = n.app /\ c.answers = n.answers /\ c.socket = n.socket
        /\ c.subscribed = n.subscribed
    BY ZenonT(60), <1>1, <2>1, <2>2 DEF Node
  <2>4. m = CASE k = "connect" -> [c EXCEPT !.state = "connecting", !.received = FALSE]
              [] k = "subscribe" -> [c EXCEPT !.received = FALSE]
              [] k = "publish" -> [c EXCEPT !.received = FALSE, !.full = FALSE]
              [] k = "ping" -> [c EXCEPT !.received = FALSE, !.waiting = TRUE]
              [] OTHER -> c
    BY DEF m, Write, c
  <2> HIDE DEF c, m
  <2>5. CASE k = "connect"
    <3>1. m = [c EXCEPT !.state = "connecting", !.received = FALSE] BY <2>4, <2>5
    <3> QED BY <2>3, <2>5, <3>1 DEF Node, fl
  <2>6. CASE k = "subscribe"
    <3>1. m = [c EXCEPT !.received = FALSE] BY <2>4, <2>6
    <3> QED BY <2>3, <2>6, <3>1 DEF Node, fl
  <2>7. CASE k = "publish"
    <3>1. m = [c EXCEPT !.received = FALSE, !.full = FALSE] BY <2>4, <2>7
    <3> QED BY <2>3, <2>7, <3>1 DEF Node, fl
  <2>8. CASE k = "ping"
    <3>1. m = [c EXCEPT !.received = FALSE, !.waiting = TRUE] BY <2>4, <2>8
    <3> QED BY <2>3, <2>8, <3>1 DEF Node, fl
  <2>9. CASE k = "disconnect"
    <3>1. m = c BY <2>4, <2>9
    <3> QED BY <2>3, <2>9, <3>1 DEF fl
  <2> QED BY <2>5, <2>6, <2>7, <2>8, <2>9 DEF Thread
<1> HIDE DEF m
<1>3. k # NULL /\ "connect" # NULL BY MQTTAssumption DEF Thread
<1>4. n.socket # "connecting"
  BY <1>1 DEF Wired
<1>5. Wired(m)
  <2>1. CASE k = "connect"
    <3>1. n.state \notin Up /\ n.flight = NULL /\ "connect" \notin n.answers
      BY <1>1, <2>1 DEF Wired
    <3>2. ~m.full BY <1>1, <1>2, <2>1 DEF Wired, Believing
    <3>3. m.flight \in {NULL, "connect"} /\ m.state = "connecting" /\ m.running
      BY <1>2, <2>1
    <3>4. m.app \notin Believing /\ m.socket # "connecting"
      BY <1>2, <2>1
    <3>5. m.flight # NULL \/ m.answers # {} \/ m.subscribed => m.socket = "open"
      BY <1>1, <1>2, <1>4 DEF Wired, Node
    <3>6. m.flight \notin Thread \ {"connect"} /\ "connect" \notin m.answers
      BY <1>2, <3>1, <3>3, MQTTAssumption DEF Thread
    <3> QED BY <1>2, <3>2, <3>3, <3>4, <3>5, <3>6 DEF Wired, Up
  <2>2. CASE k # "connect"
    <3>1. n.state \in Up BY <1>1, <2>2 DEF Up, Thread
    <3>2. "connect" \notin n.answers BY <1>1, <3>1 DEF Wired, Up
    <3> QED BY <1>1, <1>2, <1>3, <1>4, <2>2, <3>1, <3>2 DEF Wired, Up, Believing
  <2> QED BY <2>1, <2>2
<1>6. Queued(m, m.queue)
  <2>1. Has(n.queue, "connect") => k # "connect" /\ n.state \notin Up
    BY <1>1 DEF Queued, Wired
  <2>2. ~Has(n.queue, "connect")
    BY <1>1, <2>1 DEF Up, Thread
  <2>3. k = "disconnect" => ~Has(n.queue, "tcp")
    BY <1>1 DEF Wired, Queued, Up
  <2> QED BY <1>1, <1>2, <2>2, <2>3 DEF Queued
<1>7. Stuck(m, m.queue) BY <1>2 DEF Stuck
<1>8. Fine(m) BY <1>2, <1>5, <1>6 DEF Fine
<1> QED BY <1>2, <1>7, <1>8 DEF m

(* The main loop's tests.                                                  *)
LEMMA Handles ==
  ASSUME NEW n, Fine(n), n.thread = NULL, n.running, NEW ev \in Event,
         ev = "abort" => n.socket = "none" /\ n.app \in {"disconnected", "registered"},
         ev = "tcp" => /\ n.socket = "none" /\ n.app = "connecting"
                       /\ ~Has(n.queue, "tcp") /\ ~Has(n.queue, "abort")
                       /\ ~Has(n.queue, "connect"),
         ev = "connect" => /\ n.state # "connecting" /\ n.app \notin Believing
                           /\ n.socket # "connecting" /\ ~Has(n.queue, "connect")
  PROVE  Waits(Handle(n, ev)) /\ Handle(n, ev).running
<1>1. n \in Node /\ Wired(n) /\ Queued(n, n.queue) BY DEF Fine
<1>2. Waits(n) BY Quiet
<1>3. CASE ev = "abort"
  <2> DEFINE a == AbortConnection(n)
  <2>1. /\ a \in Node /\ a.queue = n.queue /\ a.sent = n.sent /\ a.socket = "none"
        /\ a.flight = NULL /\ a.answers = {} /\ a.subscribed = FALSE /\ a.full = FALSE
        /\ a.state = "not_connected" /\ a.running = n.running
        /\ a.thread = n.thread /\ a.app = n.app
    BY <1>1, GivenUp DEF a
  <2> HIDE DEF a
  <2>2. Wired(a) BY <1>1, <1>3, <2>1, MQTTAssumption DEF Wired, Up, Believing, Thread
  <2>3. Queued(a, a.queue) BY <1>1, <2>1 DEF Queued
  <2>4. Fine(a) /\ a.thread = NULL BY <2>1, <2>2, <2>3 DEF Fine
  <2>5. Handle(n, ev) = a BY <1>3 DEF Handle, a
  <2> QED BY <2>1, <2>4, <2>5, Quiet
<1>4. CASE ev = "tcp"
  <2> DEFINE a == ConnectTcp(n)
  <2>1. /\ a \in Node /\ a.queue = n.queue /\ a.sent = FALSE /\ a.socket = "connecting"
        /\ a.flight = NULL /\ a.answers = {} /\ a.subscribed = FALSE /\ a.full = n.full
        /\ a.state = "tcp_connecting" /\ a.running = n.running
        /\ a.thread = n.thread /\ a.app = n.app
    <3> DEFINE c == Closed(n)
    <3>1. /\ c \in Node /\ c.queue = n.queue /\ c.flight = NULL /\ c.answers = {}
          /\ c.subscribed = FALSE /\ c.full = n.full /\ c.running = n.running
          /\ c.thread = n.thread /\ c.app = n.app
      BY ZenonT(60), <1>1 DEF c, Closed, Node
    <3>2. a = [c EXCEPT !.state = "tcp_connecting", !.waiting = FALSE,
                        !.received = FALSE, !.sent = FALSE, !.socket = "connecting"]
      BY DEF a, c, ConnectTcp
    <3> HIDE DEF c, a
    <3> QED BY <3>1, <3>2 DEF Node
  <2> HIDE DEF a
  <2>2. Wired(a) BY <1>1, <1>4, <2>1, MQTTAssumption DEF Wired, Up, Believing, Thread
  <2>3. Queued(a, a.queue) BY <1>1, <1>4, <2>1 DEF Queued
  <2>4. Fine(a) /\ a.thread = NULL BY <2>1, <2>2, <2>3 DEF Fine
  <2>5. Handle(n, ev) = a BY <1>4 DEF Handle, a
  <2> QED BY <2>1, <2>4, <2>5, Quiet
<1>5. ASSUME NEW k \in Thread, n.sent,
             k = "connect" => /\ n.state # "connecting" /\ n.app \notin Believing
                              /\ n.socket # "connecting" /\ ~Has(n.queue, "connect"),
             k = "disconnect" => n.state = "sending_disconnect",
             k \in {"ping", "subscribe", "publish"} => n.state = "connected"
      PROVE  Waits(Loop(Write(n, k))) /\ Loop(Write(n, k)).running
  <2> DEFINE m == Write(n, k)
  <2>1. Fine(m) /\ m.thread = k /\ m.running /\ Stuck(m, m.queue)
    BY <1>5, Writes
  <2>2. m.thread # NULL BY <2>1, MQTTAssumption DEF Thread
  <2> HIDE DEF m
  <2>3. Waits(Loop(m)) /\ Loop(m).running BY <2>1, <2>2, Loops
  <2> QED BY <2>3 DEF m
<1>6. CASE ev = "connect"
  <2>1. Handle(n, ev) = IF n.sent THEN Loop(Write(n, "connect")) ELSE n
    BY <1>6 DEF Handle
  <2>2. n.sent => Waits(Loop(Write(n, "connect"))) /\ Loop(Write(n, "connect")).running
    BY <1>5, <1>6 DEF Thread
  <2> QED BY <1>2, <2>1, <2>2
<1>7. CASE ev = "disconnect"
  <2>1. Handle(n, ev) =
          IF n.state # "sending_disconnect" THEN n
          ELSE IF n.sent THEN Loop(Write(n, "disconnect")) ELSE Post(n, "disconnect")
    BY <1>7 DEF Handle
  <2>2. n.state = "sending_disconnect" /\ n.sent =>
          Waits(Loop(Write(n, "disconnect"))) /\ Loop(Write(n, "disconnect")).running
    BY <1>5 DEF Thread
  <2>3. Fine(Post(n, "disconnect")) /\ Apart(Post(n, "disconnect"), n)
    BY NeutralPosted DEF Neutral
  <2>4. Waits(Post(n, "disconnect")) /\ Post(n, "disconnect").running
    BY <2>3, Quiet DEF Apart
  <2> QED BY <1>2, <2>1, <2>2, <2>4
<1>8. CASE ev \in {"ping", "subscribe", "publish"}
  <2>1. Handle(n, ev) = IF MaySend(n) THEN Loop(Write(n, ev)) ELSE n
    BY <1>8 DEF Handle
  <2>2. MaySend(n) => Waits(Loop(Write(n, ev))) /\ Loop(Write(n, ev)).running
    BY <1>5, <1>8 DEF Thread, MaySend
  <2> QED BY <1>2, <2>1, <2>2
<1>9. CASE ev = "continue"
  <2>1. Handle(n, ev) = n BY <1>9 DEF Handle
  <2> QED BY <1>2, <2>1
<1> QED BY <1>3, <1>4, <1>6, <1>7, <1>8, <1>9 DEF Event

(* The main loop tests for tcp before the events of the threads.           *)
LEMMA Ranks ==
  ASSUME NEW k \in Thread
  PROVE  ~(Rank("tcp") > Rank(k))
<1>1. /\ DOMAIN Events = 1 .. 8 /\ Events[1] = "abort" /\ Events[2] = "tcp"
      /\ Events[3] = "connect" /\ Events[4] = "disconnect" /\ Events[5] = "ping"
      /\ Events[6] = "subscribe" /\ Events[7] = "publish" /\ Events[8] = "continue"
  BY DEF Events
<1>2. \A i \in 1 .. 8 : i \in {1, 2, 3, 4, 5, 6, 7, 8}
  OBVIOUS
<1>3. Rank("tcp") = 2
  <2>1. \A i \in 1 .. 8 : Events[i] = "tcp" <=> i = 2 BY <1>1, <1>2
  <2> QED BY <1>1, <2>1 DEF Rank
<1>4. Rank(k) \in 1 .. 8 /\ Events[Rank(k)] = k
  <2>1. \E i \in 1 .. 8 : Events[i] = k
    <3>1. 3 \in 1 .. 8 /\ 4 \in 1 .. 8 /\ 5 \in 1 .. 8 /\ 6 \in 1 .. 8 /\ 7 \in 1 .. 8
      OBVIOUS
    <3> QED BY <1>1, <3>1 DEF Thread
  <2> QED BY <1>1, <2>1 DEF Rank
<1>5. Rank(k) # 1
  BY <1>1, <1>4 DEF Thread
<1> QED BY <1>3, <1>4, <1>5

(* Posting an event again keeps the place that it had.                     *)
LEMMA Resumes ==
  ASSUME NEW n, Fine(n), n.thread # NULL, n.running, NEW ev \in Event,
         Len(n.queue) < NUMEVENTS,
         ev = "abort" => n.socket = "none" /\ n.app \in {"disconnected", "registered"},
         ev = "tcp" => /\ n.socket = "none" /\ n.app = "connecting"
                       /\ n.thread # "disconnect" /\ ~Has(n.queue, "tcp")
                       /\ ~Has(n.queue, "abort") /\ ~Has(n.queue, "connect"),
         ev # "connect",
         ev # "abort" => Stuck(n, Append(n.queue, ev))
  PROVE  /\ Waits(Resume(n, ev))
         /\ ~Resume(n, ev).running => ev = "abort"
<1>1. n \in Node /\ Wired(n) /\ Queued(n, n.queue) /\ n.queue \in Seq(Event)
  BY DEF Fine, Node
<1>2. CASE ev = "abort"
  <2> DEFINE a == [n EXCEPT !.state = "abort_immediate", !.thread = NULL,
                            !.late = FALSE, !.running = FALSE]
  <2>1. Resume(n, ev) = a BY <1>2 DEF Resume, a
  <2>2. /\ a \in Node /\ a.queue = n.queue /\ a.thread = NULL
        /\ a.state = "abort_immediate" /\ a.sent = n.sent /\ a.full = n.full
        /\ a.socket = n.socket /\ a.flight = n.flight /\ a.answers = n.answers
        /\ a.subscribed = n.subscribed /\ a.app = n.app
    BY <1>1 DEF a, Node
  <2> HIDE DEF a
  <2>3. Wired(a)
    BY <1>1, <1>2, <2>2, MQTTAssumption DEF Wired, Up, Believing, Thread
  <2>4. Queued(a, a.queue) BY <1>1, <1>2, <2>2, MQTTAssumption DEF Queued
  <2>5. Fine(a) BY <2>2, <2>3, <2>4 DEF Fine
  <2> QED BY <1>2, <2>1, <2>2, <2>5, Quiet
<1>3. CASE ev # "abort"
  <2> DEFINE b == IF ev = "continue" THEN n ELSE Post(n, ev)
             m == Loop(b)
  <2>1. /\ Len(n.queue) \in Nat /\ NUMEVENTS \in Nat
        /\ Len(Append(n.queue, ev)) = Len(n.queue) + 1
        /\ \A e : Has(Append(n.queue, ev), e) <=> (Has(n.queue, e) \/ ev = e)
    BY <1>1, Appended, MQTTAssumption
  <2>2. /\ Fine(b) /\ Apart(b, n)
        /\ Stuck(b, b.queue) \/ Len(b.queue) + 1 = NUMEVENTS
    <3>1. CASE ev = "continue"
      <4>1. b = n BY <3>1
      <4>2. Stuck(n, n.queue) \/ Len(n.queue) + 1 = NUMEVENTS
        BY <1>3, <2>1, <3>1 DEF Stuck
      <4> QED BY <4>1, <4>2 DEF Apart
    <3>2. CASE ev # "continue"
      <4>1. b = Post(n, ev) BY <3>2
      <4>2. /\ b \in Node /\ Apart(b, n) /\ Len(b.queue) <= NUMEVENTS
            /\ b.queue = Append(n.queue, ev)
        BY <1>1, <4>1, Posted DEF Fine
      <4>3. Fresh(b.queue)
        BY <1>1, <4>2, AppendedFresh DEF Queued
      <4> HIDE DEF b
      <4>4. Wired(b) BY <1>1, <4>2 DEF Wired, Apart
      <4>5. Queued(b, b.queue)
        <5>1. Has(b.queue, "tcp") =>
                /\ n.socket = "none" /\ n.app = "connecting"
                /\ n.thread # "disconnect" /\ ~Has(b.queue, "abort")
          BY <1>1, <1>3, <2>1, <4>2 DEF Queued
        <5>2. Has(b.queue, "abort") => Has(n.queue, "abort")
          BY <1>3, <2>1, <4>2
        <5>3. Has(b.queue, "connect") => Has(n.queue, "connect")
          BY <2>1, <4>2
        <5> QED BY <1>1, <4>2, <4>3, <5>1, <5>2, <5>3 DEF Queued, Apart
      <4>6. Stuck(b, b.queue)
        BY <1>3, <4>2 DEF Stuck, Apart
      <4> QED BY <4>2, <4>4, <4>5, <4>6 DEF Fine
    <3> QED BY <3>1, <3>2
  <2> HIDE DEF b
  <2>3. Waits(m) /\ m.running
    BY <2>2, Loops DEF Apart
  <2>4. Resume(n, ev) = IF m.thread = NULL /\ Rank(ev) > Rank(n.thread)
                        THEN Handle(m, ev) ELSE m
    BY <1>3 DEF Resume, m, b
  <2> HIDE DEF m
  <2>5. CASE m.thread = NULL /\ Rank(ev) > Rank(n.thread)
    <3>1. n.thread \in Thread BY <1>1 DEF Node
    <3>2. ev # "tcp" BY <2>5, <3>1, Ranks
    <3>3. Fine(m) BY <2>3 DEF Waits
    <3>4. Waits(Handle(m, ev)) /\ Handle(m, ev).running
      BY <1>3, <2>3, <2>5, <3>2, <3>3, Handles
    <3> QED BY <2>4, <2>5, <3>4
  <2>6. CASE ~(m.thread = NULL /\ Rank(ev) > Rank(n.thread))
    BY <2>3, <2>4, <2>6
  <2> QED BY <2>5, <2>6
<1> QED BY <1>2, <1>3

------------------------------------------------------------------------------
(* The steps. *)

LEMMA InitWaits == Init => MInv
<1> SUFFICES ASSUME Init PROVE MInv
  OBVIOUS
<1>1. PICK k \in KEEP_ALIVE : node = Idle(k) BY DEF Init
<1>2. /\ <<>> \in Seq(Event) /\ Len(<<>>) = 0 /\ DOMAIN <<>> = 1 .. 0
      /\ NUMEVENTS \in Nat /\ \A i \in 1 .. 0 : FALSE
  BY MQTTAssumption
<1>3. node \in Node /\ node.queue = <<>> /\ node.thread = NULL
  BY <1>1, <1>2 DEF Idle, Node
<1>4. Wired(node)
  BY <1>1, MQTTAssumption DEF Idle, Wired, Up, Believing, Thread
<1>5. Queued(node, node.queue)
  BY <1>2, <1>3 DEF Queued, Fresh, Lone, Has
<1>6. Fine(node) BY <1>2, <1>3, <1>4, <1>5 DEF Fine
<1> QED BY <1>3, <1>6, Quiet DEF MInv

LEMMA ProcessWaits ==
  ASSUME MInv, Process
  PROVE  /\ MInv'
         /\ node.running /\ ~node'.running => node.thread \in {"connect", "disconnect"}
<1> DEFINE q == node.queue
           ev == Head(q)
           n == [node EXCEPT !.queue = Tail(@)]
<1>1. /\ node \in Node /\ Wired(node) /\ Queued(node, q) /\ Stuck(node, q)
      /\ Awake(node, q) /\ q \in Seq(Event) /\ q # <<>> /\ Len(q) <= NUMEVENTS
  BY DEF MInv, Waits, Fine, Process, Node
<1>2. /\ ev \in Event /\ Tail(q) \in Seq(Event) /\ Len(Tail(q)) = Len(q) - 1
      /\ Len(q) \in Nat /\ Fresh(Tail(q)) /\ Has(q, ev)
      /\ \A e : Has(Tail(q), e) => Has(q, e)
      /\ \A e : Has(q, e) => Has(Tail(q), e) \/ e = ev
      /\ ev = "tcp" => ~Has(Tail(q), "tcp") /\ ~Has(Tail(q), "connect")
      /\ ev = "connect" => ~Has(Tail(q), "connect")
  BY <1>1, Popped DEF Queued
<1>3. n \in Node /\ n.queue = Tail(q) /\ Apart(n, node)
  BY <1>1, <1>2 DEF Node, Apart
<1>4. node' = IF ~n.running THEN n
              ELSE IF n.thread = NULL THEN Handle(n, ev) ELSE Resume(n, ev)
  BY DEF Process
<1>5. NUMEVENTS \in Nat BY MQTTAssumption
<1> HIDE DEF n, q, ev
<1>6. Fine(n)
  <2>1. Wired(n) BY <1>1, <1>3 DEF Wired, Apart
  <2>2. Queued(n, n.queue) BY <1>1, <1>2, <1>3 DEF Queued, Apart
  <2> QED BY <1>1, <1>2, <1>3, <1>5, <2>1, <2>2 DEF Fine
<1>7. /\ ev = "abort" => n.socket = "none" /\ n.app \in {"disconnected", "registered"}
      /\ ev = "tcp" => /\ n.socket = "none" /\ n.app = "connecting"
                       /\ n.thread # "disconnect" /\ ~Has(n.queue, "tcp")
                       /\ ~Has(n.queue, "abort") /\ ~Has(n.queue, "connect")
      /\ ev = "connect" => /\ n.state # "connecting" /\ n.app \notin Believing
                           /\ n.socket # "connecting" /\ ~Has(n.queue, "connect")
                           /\ n.thread = NULL
  BY <1>1, <1>2, <1>3 DEF Queued, Apart
<1>8. CASE ~n.running
  <2>1. n.thread = NULL BY <1>6, <1>8 DEF Fine, Wired
  <2>2. node' = n BY <1>4, <1>8
  <2>3. Waits(n) BY <1>6, <2>1, Quiet
  <2> QED BY <1>3, <1>8, <2>2, <2>3 DEF MInv, Apart
<1>9. CASE n.running /\ n.thread = NULL
  <2>1. node' = Handle(n, ev) BY <1>4, <1>9
  <2>2. Waits(Handle(n, ev)) /\ Handle(n, ev).running
    BY <1>2, <1>6, <1>7, <1>9, Handles
  <2> QED BY <2>1, <2>2 DEF MInv
<1>10. CASE n.running /\ n.thread # NULL
  <2>1. node' = Resume(n, ev) BY <1>4, <1>10
  <2>2. Len(n.queue) < NUMEVENTS BY <1>1, <1>2, <1>3, <1>5
  <2>3. ev # "abort" => Stuck(n, Append(n.queue, ev))
    <3>1. /\ Len(Append(n.queue, ev)) = Len(q)
          /\ \A e : Has(Append(n.queue, ev), e) <=> (Has(n.queue, e) \/ ev = e)
      <4>1. n.queue \in Seq(Event) /\ ev \in Event BY <1>2, <1>3
      <4>2. /\ Len(Append(n.queue, ev)) = Len(n.queue) + 1
            /\ \A e : Has(Append(n.queue, ev), e) <=> (Has(n.queue, e) \/ ev = e)
        BY <4>1, Appended
      <4>3. Len(n.queue) + 1 = Len(q) BY <1>2, <1>3
      <4> QED BY <4>2, <4>3
    <3>2. Has(q, "abort") => Has(Append(n.queue, ev), "abort")
      BY <1>2, <1>3, <3>1
    <3> QED BY <1>1, <1>3, <3>1, <3>2 DEF Stuck, Apart
  <2>4. Waits(Resume(n, ev)) /\ (~Resume(n, ev).running => ev = "abort")
    BY <1>2, <1>6, <1>7, <1>10, <2>2, <2>3, Resumes
  <2>5. ev = "abort" => node.thread \in {"connect", "disconnect"}
    <3>1. ev = Head(q) BY DEF ev
    <3>2. ev = "abort" => node.thread \notin {"ping", "subscribe", "publish"}
      BY <1>1, <3>1 DEF Awake
    <3>3. node.thread \in Thread BY <1>1, <1>3, <1>10 DEF Node, Apart
    <3> QED BY <3>2, <3>3 DEF Thread
  <2> QED BY <2>1, <2>4, <2>5 DEF MInv
<1> QED BY <1>8, <1>9, <1>10

LEMMA TimerWaits ==
  ASSUME MInv, TimerExpires
  PROVE  MInv' /\ node'.running = node.running
<1>1. node' = [node EXCEPT !.late = TRUE] BY DEF TimerExpires
<1>2. Waits(node) /\ node \in Node BY DEF MInv, Waits, Fine
<1>3. node' \in Node /\ node'.queue = node.queue /\ node'.running = node.running
  BY <1>1, <1>2 DEF Node
<1>4. /\ node'.state = node.state /\ node'.sent = node.sent /\ node'.full = node.full
      /\ node'.socket = node.socket /\ node'.flight = node.flight
      /\ node'.answers = node.answers /\ node'.subscribed = node.subscribed
      /\ node'.app = node.app /\ node'.thread = node.thread
  BY <1>1, <1>2 DEF Node
<1>5. Waits(node')
  <2> DEFINE m == node'
  <2>1. Wired(m) BY <1>2, <1>3, <1>4 DEF Wired, Waits, Fine
  <2>2. Queued(m, m.queue) BY <1>2, <1>3, <1>4 DEF Queued, Waits, Fine
  <2>3. Stuck(m, m.queue) /\ Awake(m, m.queue)
    BY <1>2, <1>3, <1>4 DEF Stuck, Awake, Waits
  <2> QED BY <1>2, <1>3, <2>1, <2>2, <2>3 DEF Waits, Fine
<1> QED BY <1>3, <1>5 DEF MInv

LEMMA ConnectedWaits ==
  ASSUME MInv, Connected
  PROVE  MInv' /\ node'.running = node.running
<1> DEFINE m == [node EXCEPT !.state = "tcp_connected", !.sent = TRUE,
                             !.socket = "open"]
           r == Post(m, "connect")
<1>1. node' = r /\ node.socket = "connecting" BY DEF Connected
<1>2. node \in Node /\ Wired(node) /\ Queued(node, node.queue) /\ Len(node.queue) <= NUMEVENTS
  BY DEF MInv, Waits, Fine
<1>3. /\ node.state = "tcp_connecting" /\ ~node.sent /\ node.thread = NULL
      /\ node.flight = NULL /\ node.answers = {} /\ ~node.subscribed
      /\ node.app \notin Believing /\ ~node.full
  BY <1>1, <1>2 DEF Wired, Up, Believing, Node
<1>4. ~Has(node.queue, "tcp") /\ ~Has(node.queue, "connect") /\ ~Has(node.queue, "abort")
  BY <1>1, <1>2 DEF Queued
<1>5. /\ m \in Node /\ m.queue = node.queue /\ m.state = "tcp_connected" /\ m.sent
      /\ m.socket = "open" /\ m.thread = NULL /\ m.flight = NULL /\ m.answers = {}
      /\ ~m.subscribed /\ m.app \notin Believing /\ ~m.full /\ m.running = node.running
  BY <1>2, <1>3 DEF Node
<1> HIDE DEF m
<1>6. "connect" \in Event BY DEF Event
<1>7. /\ r \in Node /\ Apart(r, m) /\ Len(r.queue) <= NUMEVENTS
      /\ m.queue \in Seq(Event)
      /\ \/ Len(m.queue) < NUMEVENTS /\ r.queue = Append(m.queue, "connect")
         \/ Len(m.queue) = NUMEVENTS /\ r.queue = m.queue
  BY <1>2, <1>5, <1>6, Posted
<1>8. \A e : Has(Append(m.queue, "connect"), e) <=> (Has(m.queue, e) \/ "connect" = e)
  BY <1>6, <1>7, Appended
<1>9. Fresh(m.queue) /\ Fresh(Append(m.queue, "connect"))
  <2>1. Fresh(m.queue) BY <1>2, <1>5 DEF Queued
  <2> QED BY <1>4, <1>5, <1>6, <1>7, <2>1, AppendedFresh
<1> HIDE DEF r
<1>10. Fresh(r.queue) /\ ~Has(r.queue, "tcp") /\ ~Has(r.queue, "abort")
  BY <1>4, <1>5, <1>7, <1>8, <1>9
<1>11. Wired(r) BY <1>5, <1>7, MQTTAssumption DEF Wired, Apart, Up, Thread, Believing
<1>12. Queued(r, r.queue) BY <1>5, <1>7, <1>10 DEF Queued, Apart
<1>13. Fine(r) /\ r.thread = NULL BY <1>5, <1>7, <1>11, <1>12 DEF Fine, Apart
<1>14. Waits(r) BY <1>13, Quiet
<1> QED BY <1>1, <1>5, <1>7, <1>14 DEF MInv, Apart

LEMMA AckedWaits ==
  ASSUME MInv, Acked
  PROVE  MInv' /\ node'.running = node.running
<1>1. /\ node.flight # NULL /\ node.socket = "open"
      /\ node' = [node EXCEPT
                    !.sent = TRUE, !.flight = NULL, !.answers = @ \union {node.flight},
                    !.subscribed = @ \/ node.flight = "subscribe",
                    !.keepalive = IF @ = "none" THEN @ ELSE "set"]
  BY DEF Acked
<1>2. node \in Node /\ Wired(node) /\ Queued(node, node.queue)
      /\ Stuck(node, node.queue) /\ Awake(node, node.queue) /\ Len(node.queue) <= NUMEVENTS
  BY DEF MInv, Waits, Fine
<1> DEFINE m == node'
           s == (node.subscribed \/ node.flight = "subscribe")
           k == IF node.keepalive = "none" THEN node.keepalive ELSE "set"
<1>3. s \in BOOLEAN /\ k \in {"none", "stopped", "set"} /\ node.flight \in Thread
  BY <1>1, <1>2 DEF Node
<1>4. m = [node EXCEPT !.sent = TRUE, !.flight = NULL,
                       !.answers = node.answers \union {node.flight},
                       !.subscribed = s, !.keepalive = k]
  BY <1>1, <1>2 DEF Node
<1> HIDE DEF s, k
<1>5. m \in Node BY <1>2, <1>3, <1>4 DEF Node
<1>6. /\ m.state = node.state /\ m.full = node.full /\ m.socket = node.socket
      /\ m.flight = NULL /\ m.answers = node.answers \union {node.flight}
      /\ m.running = node.running /\ m.thread = node.thread /\ m.app = node.app
      /\ m.queue = node.queue
  BY <1>2, <1>4 DEF Node
<1> HIDE DEF m
<1>7. Wired(m)
  BY <1>1, <1>2, <1>6, MQTTAssumption DEF Wired, Thread, Up
<1>8. Queued(m, m.queue) BY <1>2, <1>6 DEF Queued
<1>9. Stuck(m, m.queue) /\ Awake(m, m.queue) BY <1>2, <1>6 DEF Stuck, Awake
<1>10. Waits(m) BY <1>2, <1>5, <1>6, <1>7, <1>8, <1>9 DEF Waits, Fine
<1> QED BY <1>6, <1>10 DEF MInv, m

(* The event that tells of the end comes behind those that are queued.     *)
LEMMA EndsWaits ==
  ASSUME MInv, Ends
  PROVE  MInv' /\ node'.running = node.running
<1> DEFINE p == Post(node, "abort")
           k == IF p.keepalive = "none" THEN p.keepalive ELSE "stopped"
           m == [p EXCEPT !.keepalive = IF @ = "none" THEN @ ELSE "stopped",
                          !.ends = @ + 1]
           t == Told(m)
           r == AbortConnection(t)
<1>1. node' = r /\ node.socket # "none" BY DEF Ends
<1>2. node \in Node /\ Wired(node) /\ Queued(node, node.queue)
      /\ Stuck(node, node.queue) /\ Awake(node, node.queue) /\ Len(node.queue) <= NUMEVENTS
  BY DEF MInv, Waits, Fine
<1>3. "abort" \in Event BY DEF Event
<1>4. /\ p \in Node /\ Apart(p, node) /\ Len(p.queue) <= NUMEVENTS
      /\ node.queue \in Seq(Event)
      /\ \/ Len(node.queue) < NUMEVENTS /\ p.queue = Append(node.queue, "abort")
         \/ Len(node.queue) = NUMEVENTS /\ p.queue = node.queue
  BY <1>2, <1>3, Posted
<1>5. /\ \A e : Has(Append(node.queue, "abort"), e) <=> (Has(node.queue, e) \/ "abort" = e)
      /\ Append(node.queue, "abort") # <<>>
      /\ node.queue # <<>> => Head(Append(node.queue, "abort")) = Head(node.queue)
  BY <1>3, <1>4, Appended
<1>6. Fresh(Append(node.queue, "abort"))
  BY <1>2, <1>3, <1>4, AppendedFresh DEF Queued
<1> HIDE DEF p
<1>7. k \in {"none", "stopped", "set"} /\ p.ends + 1 \in Nat
  BY <1>4 DEF Node
<1>8. m = [p EXCEPT !.keepalive = k, !.ends = p.ends + 1]
  BY <1>4 DEF Node
<1> HIDE DEF k, m
<1>9. m \in Node
  BY <1>4, <1>7, <1>8 DEF Node
<1>10. /\ m.running = p.running /\ m.thread = p.thread /\ m.queue = p.queue
       /\ m.sent = p.sent
  BY <1>4, <1>8 DEF Node
<1>11. /\ t \in Node /\ t.running = m.running /\ t.thread = m.thread
       /\ t.queue = m.queue /\ t.app = "disconnected" /\ t.sent = m.sent
  BY <1>9 DEF t, Told, Node
<1> HIDE DEF t
<1>12. /\ r \in Node /\ r.queue = t.queue /\ r.sent = t.sent /\ r.socket = "none"
       /\ r.flight = NULL /\ r.answers = {} /\ r.subscribed = FALSE /\ r.full = FALSE
       /\ r.state = "not_connected" /\ r.running = t.running
       /\ r.thread = t.thread /\ r.app = t.app
  BY <1>11, GivenUp
<1> HIDE DEF r
<1>13. r.queue = p.queue /\ r.thread = node.thread /\ r.running = node.running
       /\ r.app = "disconnected"
  BY <1>4, <1>10, <1>11, <1>12 DEF Apart
<1>14. Wired(r)
  BY <1>2, <1>12, <1>13, MQTTAssumption DEF Wired, Thread, Up, Believing
<1>15. Queued(r, r.queue)
  <2>1. ~Has(node.queue, "tcp") BY <1>1, <1>2 DEF Queued
  <2>2. /\ ~Has(r.queue, "tcp") /\ Fresh(r.queue)
        /\ Has(r.queue, "connect") => Has(node.queue, "connect")
    BY <1>2, <1>4, <1>5, <1>6, <1>13, <2>1 DEF Queued
  <2> QED BY <1>2, <1>12, <1>13, <2>2 DEF Queued, Believing
<1>16. Stuck(r, r.queue)
  BY <1>4, <1>5, <1>13 DEF Stuck
<1>17. Awake(r, r.queue)
  BY <1>2, <1>4, <1>5, <1>13 DEF Awake
<1>18. Waits(r)
  BY <1>4, <1>12, <1>13, <1>14, <1>15, <1>16, <1>17 DEF Waits, Fine
<1> QED BY <1>1, <1>13, <1>18 DEF MInv

LEMMA IncomingWaits ==
  ASSUME MInv, Incoming
  PROVE  MInv' /\ node'.running = node.running
<1> DEFINE m == node'
<1>1. m = [node EXCEPT !.received = TRUE] BY DEF Incoming
<1>2. node \in Node /\ Wired(node) /\ Queued(node, node.queue)
      /\ Stuck(node, node.queue) /\ Awake(node, node.queue) /\ Len(node.queue) <= NUMEVENTS
  BY DEF MInv, Waits, Fine
<1>3. /\ m \in Node /\ m.state = node.state /\ m.sent = node.sent /\ m.full = node.full
      /\ m.socket = node.socket /\ m.flight = node.flight
      /\ m.answers = node.answers /\ m.subscribed = node.subscribed
      /\ m.app = node.app /\ m.thread = node.thread
      /\ m.queue = node.queue /\ m.running = node.running
  BY <1>1, <1>2 DEF Node
<1> HIDE DEF m
<1>4. Wired(m) BY <1>2, <1>3 DEF Wired
<1>5. Queued(m, m.queue) BY <1>2, <1>3 DEF Queued
<1>6. Stuck(m, m.queue) /\ Awake(m, m.queue) BY <1>2, <1>3 DEF Stuck, Awake
<1>7. Waits(m) BY <1>2, <1>3, <1>4, <1>5, <1>6 DEF Waits, Fine
<1> QED BY <1>3, <1>7 DEF MInv, m

LEMMA AnswerWaits ==
  ASSUME MInv, NEW k \in Thread, Answer(k)
  PROVE  MInv' /\ node'.running = node.running
<1> DEFINE n == [node EXCEPT !.answers = @ \ {k}, !.received = TRUE]
           m == node'
<1>1. /\ k \in node.answers
      /\ m = CASE k = "connect" ->
                    [n EXCEPT !.acked = TRUE, !.keepalive = "set",
                              !.state = "connected", !.app = "connected"]
               [] k = "subscribe" -> [n EXCEPT !.acked = TRUE]
               [] OTHER -> n
  BY DEF Answer
<1>2. node \in Node /\ Wired(node) /\ Queued(node, node.queue)
      /\ Stuck(node, node.queue) /\ Awake(node, node.queue) /\ Len(node.queue) <= NUMEVENTS
  BY DEF MInv, Waits, Fine
<1>3. /\ n \in Node /\ n.state = node.state /\ n.sent = node.sent /\ n.full = node.full
      /\ n.socket = node.socket /\ n.flight = node.flight
      /\ n.answers = node.answers \ {k} /\ n.subscribed = node.subscribed
      /\ n.app = node.app /\ n.thread = node.thread
      /\ n.queue = node.queue /\ n.running = node.running
  BY <1>2 DEF Node
<1>4. node.socket = "open" BY <1>1, <1>2 DEF Wired
<1> HIDE DEF n
<1>5. CASE k = "connect"
  <2>1. m = [n EXCEPT !.acked = TRUE, !.keepalive = "set",
                      !.state = "connected", !.app = "connected"]
    BY <1>1, <1>5
  <2>2. /\ m \in Node /\ m.state = "connected" /\ m.sent = n.sent /\ m.full = n.full
        /\ m.socket = n.socket /\ m.flight = n.flight /\ m.answers = n.answers
        /\ m.subscribed = n.subscribed /\ m.app = "connected" /\ m.thread = n.thread
        /\ m.queue = n.queue /\ m.running = n.running
    BY <1>3, <2>1 DEF Node
  <2> HIDE DEF m
  <2>3. node.state = "connecting" /\ node.flight # "connect" /\ ~node.full
        /\ ~Has(node.queue, "connect") /\ ~Has(node.queue, "tcp")
        /\ ~Has(node.queue, "abort")
    BY <1>1, <1>2, <1>4, <1>5 DEF Wired, Queued, Up, Believing
  <2>4. Wired(m)
    BY <1>2, <1>3, <1>4, <1>5, <2>2, <2>3 DEF Wired, Up, Believing
  <2>5. Queued(m, m.queue) BY <1>2, <1>3, <2>2, <2>3 DEF Queued
  <2>6. Stuck(m, m.queue) /\ Awake(m, m.queue)
    BY <1>2, <1>3, <2>2, <2>3 DEF Stuck, Awake
  <2>7. Waits(m) BY <1>2, <1>3, <2>2, <2>4, <2>5, <2>6 DEF Waits, Fine
  <2> QED BY <1>3, <2>2, <2>7 DEF MInv, m
<1>6. CASE k # "connect"
  <2>1. m = IF k = "subscribe" THEN [n EXCEPT !.acked = TRUE] ELSE n
    BY <1>1, <1>6
  <2>2. /\ m \in Node /\ m.state = n.state /\ m.sent = n.sent /\ m.full = n.full
        /\ m.socket = n.socket /\ m.flight = n.flight /\ m.answers = n.answers
        /\ m.subscribed = n.subscribed /\ m.app = n.app /\ m.thread = n.thread
        /\ m.queue = n.queue /\ m.running = n.running
    BY <1>3, <2>1 DEF Node
  <2> HIDE DEF m
  <2>3. Wired(m) BY <1>2, <1>3, <1>4, <1>6, <2>2 DEF Wired
  <2>4. Queued(m, m.queue) BY <1>2, <1>3, <2>2 DEF Queued
  <2>5. Stuck(m, m.queue) /\ Awake(m, m.queue)
    BY <1>2, <1>3, <2>2 DEF Stuck, Awake
  <2>6. Waits(m) BY <1>2, <1>3, <2>2, <2>3, <2>4, <2>5 DEF Waits, Fine
  <2> QED BY <1>3, <2>2, <2>6 DEF MInv, m
<1> QED BY <1>5, <1>6

(* An event of the application or of its timer, behind those in the queue. *)
LEMMA PostedWaits ==
  ASSUME NEW n, Waits(n), NEW ev \in Neutral
  PROVE  Waits(Post(n, ev)) /\ Post(n, ev).running = n.running
<1> DEFINE m == Post(n, ev)
<1>1. /\ Fine(m) /\ Apart(m, n)
      /\ n.queue # <<>> => Head(m.queue) = Head(n.queue)
      /\ m.queue # <<>>
      /\ \A e \in {"tcp", "connect", "abort"} : Has(m.queue, e) <=> Has(n.queue, e)
      /\ \/ Len(n.queue) < NUMEVENTS /\ m.queue = Append(n.queue, ev)
         \/ Len(n.queue) = NUMEVENTS /\ m.queue = n.queue
  BY NeutralPosted DEF Waits
<1>2. Len(n.queue) = NUMEVENTS => Len(m.queue) = NUMEVENTS
  BY <1>1, MQTTAssumption
<1> HIDE DEF m
<1>3. Stuck(m, m.queue) BY <1>1, <1>2 DEF Stuck, Waits, Apart
<1>4. Awake(m, m.queue) BY <1>1 DEF Awake, Waits, Apart
<1> QED BY <1>1, <1>3, <1>4 DEF Waits, Apart, m

LEMMA KeepAliveWaits ==
  ASSUME MInv, KeepAlive
  PROVE  MInv' /\ node'.running = node.running
<1> DEFINE n == [node EXCEPT !.keepalive = "stopped"]
<1>1. node' = IF n.waiting THEN DisconnectTcp(n) ELSE Post(n, "ping")
  BY DEF KeepAlive
<1>2. node \in Node /\ Wired(node) /\ Queued(node, node.queue)
      /\ Stuck(node, node.queue) /\ Awake(node, node.queue) /\ Len(node.queue) <= NUMEVENTS
  BY DEF MInv, Waits, Fine
<1>3. /\ n \in Node /\ n.state = node.state /\ n.sent = node.sent /\ n.full = node.full
      /\ n.socket = node.socket /\ n.flight = node.flight
      /\ n.answers = node.answers /\ n.subscribed = node.subscribed
      /\ n.app = node.app /\ n.thread = node.thread
      /\ n.queue = node.queue /\ n.running = node.running
  BY <1>2 DEF Node
<1> HIDE DEF n
<1>4. Waits(n)
  <2>1. Wired(n) BY <1>2, <1>3 DEF Wired
  <2>2. Queued(n, n.queue) BY <1>2, <1>3 DEF Queued
  <2>3. Stuck(n, n.queue) /\ Awake(n, n.queue) BY <1>2, <1>3 DEF Stuck, Awake
  <2> QED BY <1>2, <1>3, <2>1, <2>2, <2>3 DEF Waits, Fine
<1>5. CASE ~n.waiting
  <2>1. Waits(Post(n, "ping")) /\ Post(n, "ping").running = n.running
    BY <1>4, PostedWaits DEF Neutral
  <2> QED BY <1>1, <1>3, <1>5, <2>1 DEF MInv
<1>6. CASE n.waiting
  <2> DEFINE d == DisconnectTcp(n)
  <2>1. node' = d BY <1>1, <1>6
  <2>2. /\ d \in Node /\ d.state = "disconnecting" /\ d.sent = n.sent /\ d.full = n.full
        /\ d.socket = "none" /\ d.flight = NULL /\ d.answers = {}
        /\ d.subscribed = FALSE /\ d.app = n.app /\ d.thread = n.thread
        /\ d.queue = n.queue /\ d.running = n.running
    BY <1>3 DEF d, DisconnectTcp, Closed, Node
  <2> HIDE DEF d
  <2>3. Wired(d)
    BY <1>2, <1>3, <2>2, MQTTAssumption DEF Wired, Up, Believing, Thread
  <2>4. Queued(d, d.queue) BY <1>2, <1>3, <2>2 DEF Queued
  <2>5. Stuck(d, d.queue) /\ Awake(d, d.queue)
    BY <1>2, <1>3, <2>2 DEF Stuck, Awake, Wired, Up
  <2>6. Waits(d) BY <1>2, <1>3, <2>2, <2>3, <2>4, <2>5 DEF Waits, Fine
  <2> QED BY <1>3, <2>1, <2>2, <2>6 DEF MInv
<1> QED BY <1>5, <1>6

(* No old event is behind the new connection's.                            *)
LEMMA ConnectWaits ==
  ASSUME MInv, Connect
  PROVE  MInv' /\ node'.running = node.running
<1> DEFINE n == [node EXCEPT !.app = "connecting"]
           l == [n EXCEPT !.acked = FALSE]
           r == Post(l, "tcp")
<1>1. /\ node.app = "registered" /\ Len(node.queue) < NUMEVENTS
      /\ ~Contains(node.queue, "abort")
      /\ node' = IF n.state \in {"not_connected", "disconnecting"} THEN r ELSE n
  BY DEF Connect
<1>2. node \in Node /\ Wired(node) /\ Queued(node, node.queue)
      /\ Stuck(node, node.queue) /\ Awake(node, node.queue) /\ Len(node.queue) <= NUMEVENTS
  BY DEF MInv, Waits, Fine
<1>3. /\ n \in Node /\ n.state = node.state /\ n.sent = node.sent /\ n.full = node.full
      /\ n.socket = node.socket /\ n.flight = node.flight
      /\ n.answers = node.answers /\ n.subscribed = node.subscribed
      /\ n.app = "connecting" /\ n.thread = node.thread
      /\ n.queue = node.queue /\ n.running = node.running
  BY <1>2 DEF Node
<1>4. /\ l \in Node /\ l.state = n.state /\ l.sent = n.sent /\ l.full = n.full
      /\ l.socket = n.socket /\ l.flight = n.flight
      /\ l.answers = n.answers /\ l.subscribed = n.subscribed
      /\ l.app = n.app /\ l.thread = n.thread
      /\ l.queue = n.queue /\ l.running = n.running
  BY <1>3 DEF Node
<1> HIDE DEF n, l
<1>5. ~Has(node.queue, "abort")
  <2>1. node.queue \in Seq(Event) BY <1>2 DEF Node
  <2> QED BY <1>1, <2>1 DEF Contains, Has
<1>6. ~Has(node.queue, "tcp") BY <1>1, <1>2 DEF Queued
<1>7. node.state \notin Up /\ ~node.full
  BY <1>1, <1>2 DEF Wired, Believing
<1>8. /\ Len(node.queue) \in Nat /\ Len(node.queue) # NUMEVENTS
      /\ node.thread # "disconnect"
  <2>1. node.queue \in Seq(Event) /\ NUMEVENTS \in Nat BY <1>2, MQTTAssumption DEF Node
  <2>2. Len(node.queue) \in Nat BY <2>1
  <2>3. Len(node.queue) # NUMEVENTS BY <1>1, <2>1, <2>2
  <2> QED BY <1>1, <1>2, <1>5, <1>7, <2>2, <2>3 DEF Stuck, Up, Believing
<1>9. CASE n.state \notin {"not_connected", "disconnecting"}
  <2>1. Wired(n) BY <1>1, <1>2, <1>3, <1>7 DEF Wired, Believing, Up
  <2>2. Queued(n, n.queue) BY <1>2, <1>3, <1>5, <1>6 DEF Queued, Believing
  <2>3. Stuck(n, n.queue) /\ Awake(n, n.queue)
    BY <1>2, <1>3, <1>8 DEF Stuck, Awake
  <2>4. Waits(n) BY <1>2, <1>3, <2>1, <2>2, <2>3 DEF Waits, Fine
  <2> QED BY <1>1, <1>3, <1>9, <2>4 DEF MInv
<1>10. CASE n.state \in {"not_connected", "disconnecting"}
  <2>1. node' = r BY <1>1, <1>10
  <2>2. node.socket = "none"
    BY <1>2, <1>3, <1>10 DEF Wired, Up, Node
  <2>3. "tcp" \in Event BY DEF Event
  <2>4. /\ r \in Node /\ Apart(r, l) /\ Len(r.queue) <= NUMEVENTS
        /\ node.queue \in Seq(Event) /\ r.queue = Append(node.queue, "tcp")
    <3>1. l.queue = node.queue BY <1>3, <1>4
    <3>2. l \in Node /\ Len(l.queue) <= NUMEVENTS BY <1>2, <1>4, <3>1
    <3>3. /\ r \in Node /\ Apart(r, l) /\ Len(r.queue) <= NUMEVENTS
          /\ l.queue \in Seq(Event)
          /\ \/ Len(l.queue) < NUMEVENTS /\ r.queue = Append(l.queue, "tcp")
             \/ Len(l.queue) = NUMEVENTS /\ r.queue = l.queue
      BY <2>3, <3>2, Posted
    <3> QED BY <1>8, <3>1, <3>3
  <2>5. /\ \A e : Has(Append(node.queue, "tcp"), e) <=> (Has(node.queue, e) \/ "tcp" = e)
        /\ Append(node.queue, "tcp") # <<>>
        /\ node.queue # <<>> => Head(Append(node.queue, "tcp")) = Head(node.queue)
    BY <2>3, <2>4, Appended
  <2>6. Fresh(r.queue)
    BY <1>2, <1>6, <2>3, <2>4, AppendedFresh DEF Queued
  <2> HIDE DEF r
  <2>7. Wired(r)
    BY <1>1, <1>2, <1>3, <1>4, <1>7, <2>4 DEF Wired, Believing, Up, Apart
  <2>8. Queued(r, r.queue)
    <3>1. ~Has(r.queue, "abort") BY <1>5, <2>4, <2>5
    <3>2. Has(r.queue, "connect") => Has(node.queue, "connect") BY <2>4, <2>5
    <3> QED BY <1>2, <1>3, <1>4, <1>8, <2>2, <2>4, <2>6, <3>1, <3>2
         DEF Queued, Believing, Apart
  <2>9. Stuck(r, r.queue) /\ Awake(r, r.queue)
    BY <1>2, <1>3, <1>4, <1>8, <2>4, <2>5 DEF Stuck, Awake, Apart
  <2>10. Waits(r) BY <2>4, <2>7, <2>8, <2>9 DEF Waits, Fine
  <2> QED BY <1>3, <1>4, <2>1, <2>4, <2>10 DEF MInv, Apart
<1> QED BY <1>9, <1>10

LEMMA RetryWaits ==
  ASSUME MInv, Retry
  PROVE  MInv' /\ node'.running = node.running
<1> DEFINE m == node'
<1>1. node.app = "disconnected" /\ m = [Disconnect(node) EXCEPT !.app = "registered"]
  BY DEF Retry
<1>2. node \in Node /\ Wired(node) /\ Queued(node, node.queue)
      /\ Stuck(node, node.queue) /\ Awake(node, node.queue) /\ Len(node.queue) <= NUMEVENTS
  BY DEF MInv, Waits, Fine
<1>3. Disconnect(node) = node
  BY <1>1, <1>2 DEF Disconnect, Wired, Up, Believing
<1>4. /\ m \in Node /\ m.state = node.state /\ m.sent = node.sent /\ m.full = node.full
      /\ m.socket = node.socket /\ m.flight = node.flight
      /\ m.answers = node.answers /\ m.subscribed = node.subscribed
      /\ m.app = "registered" /\ m.thread = node.thread
      /\ m.queue = node.queue /\ m.running = node.running
  BY <1>1, <1>2, <1>3 DEF Node
<1> HIDE DEF m
<1>5. Wired(m) BY <1>1, <1>2, <1>4 DEF Wired, Up, Believing
<1>6. Queued(m, m.queue) BY <1>1, <1>2, <1>4 DEF Queued, Believing
<1>7. Stuck(m, m.queue) /\ Awake(m, m.queue)
  BY <1>1, <1>2, <1>4 DEF Stuck, Awake, Believing
<1>8. Waits(m) BY <1>2, <1>4, <1>5, <1>6, <1>7 DEF Waits, Fine
<1> QED BY <1>4, <1>8 DEF MInv, m

LEMMA RequestsWait ==
  ASSUME MInv, Requests
  PROVE  MInv' /\ node'.running = node.running
<1> DEFINE n == [node EXCEPT !.full = TRUE, !.acked = FALSE, !.app = "publishing"]
           ev == IF node.app = "connected" THEN "subscribe" ELSE "publish"
<1>1. /\ node.app \in Believing /\ Len(node.queue) < NUMEVENTS
      /\ node.state = "connected" /\ node' = Post(n, ev)
  BY DEF Requests, Believing
<1>2. node \in Node /\ Wired(node) /\ Queued(node, node.queue)
      /\ Stuck(node, node.queue) /\ Awake(node, node.queue) /\ Len(node.queue) <= NUMEVENTS
  BY DEF MInv, Waits, Fine
<1>3. /\ n \in Node /\ n.state = node.state /\ n.sent = node.sent /\ n.full = TRUE
      /\ n.socket = node.socket /\ n.flight = node.flight
      /\ n.answers = node.answers /\ n.subscribed = node.subscribed
      /\ n.app = "publishing" /\ n.thread = node.thread
      /\ n.queue = node.queue /\ n.running = node.running
  BY ZenonT(60), <1>2 DEF Node
<1> HIDE DEF n
<1>4. Wired(n) BY <1>1, <1>2, <1>3 DEF Wired, Up, Believing
<1>5. ~Has(node.queue, "tcp") /\ ~Has(node.queue, "abort") /\ ~Has(node.queue, "connect")
  BY <1>1, <1>2 DEF Wired, Queued, Up, Believing
<1>6. Queued(n, n.queue) BY <1>2, <1>3, <1>5 DEF Queued
<1>7. Len(node.queue) # NUMEVENTS
  <2>1. Len(node.queue) \in Nat BY <1>2 DEF Node
  <2> QED BY <1>1, <2>1, MQTTAssumption
<1>8. Stuck(n, n.queue) /\ Awake(n, n.queue)
  BY <1>1, <1>2, <1>3, <1>5, <1>7 DEF Stuck, Awake
<1>9. Waits(n) BY <1>2, <1>3, <1>4, <1>6, <1>8 DEF Waits, Fine
<1>10. Waits(Post(n, ev)) /\ Post(n, ev).running = n.running
  BY <1>9, PostedWaits DEF Neutral
<1> QED BY <1>1, <1>3, <1>10 DEF MInv

------------------------------------------------------------------------------
(* The PINGRESP. *)

LEMMA PostHeld ==
  ASSUME NEW n \in Node, Held(n), NEW ev \in Event
  PROVE  /\ Post(n, ev) \in Node /\ Held(Post(n, ev))
         /\ Post(n, ev).thread = n.thread /\ Post(n, ev).waiting = n.waiting
         /\ Post(n, ev).state = n.state
<1> DEFINE q == Append(n.queue, ev)
<1>1. q \in Seq(Event)
  <2>1. n.queue \in Seq(Event) BY DEF Node
  <2> QED BY <2>1, Appended
<1> HIDE DEF q
<1>2. CASE Post(n, ev) = n BY <1>2
<1>3. CASE Post(n, ev) = [n EXCEPT !.queue = q]
  BY <1>1, <1>3 DEF Held, Node
<1> QED BY <1>2, <1>3 DEF Post, q

LEMMA AbortHeld ==
  ASSUME NEW n \in Node, Held(n), n.thread # "ping" \/ n.keepalive # "set"
  PROVE  AbortConnection(n) \in Node /\ Held(AbortConnection(n))
<1>1. AbortConnection(n) \in Node BY GivenUp
<1>2. /\ AbortConnection(n).socket = "none" /\ AbortConnection(n).state = "not_connected"
      /\ AbortConnection(n).keep_alive = n.keep_alive
      /\ AbortConnection(n).waiting = n.waiting
      /\ AbortConnection(n).keepalive = n.keepalive
  BY DEF AbortConnection, Closed, Node
<1> QED BY <1>1, <1>2 DEF Held

LEMMA DisconnectHeld ==
  ASSUME NEW n \in Node, Held(n), n.thread # "ping"
  PROVE  /\ Disconnect(n) \in Node /\ Held(Disconnect(n))
         /\ Disconnect(n).thread = n.thread
<1>1. CASE n.state # "connected" BY <1>1 DEF Disconnect
<1>2. CASE n.state = "connected"
  <2> DEFINE m == [n EXCEPT !.state = "sending_disconnect"]
  <2>1. m \in Node /\ m.thread = n.thread BY DEF Node
  <2>2. Held(m) BY DEF Held, Node
  <2>3. Disconnect(n) = Post(m, "disconnect") BY <1>2 DEF Disconnect
  <2> HIDE DEF m
  <2> QED BY <2>1, <2>2, <2>3, PostHeld DEF Event
<1> QED BY <1>1, <1>2

LEMMA LeftHeld ==
  ASSUME NEW n \in Node, Held(n),
         n.thread = "ping" => ~n.waiting \/ n.state # "connected"
  PROVE  Left(n) \in Node /\ Held(Left(n)) /\ Left(n).thread = NULL
<1> DEFINE m == [n EXCEPT !.thread = NULL, !.late = FALSE]
<1>1. m \in Node /\ m.thread = NULL BY DEF Node
<1>2. Held(m) BY DEF Held, Node
<1>3. CASE n.thread # "disconnect" BY <1>1, <1>2, <1>3 DEF Left
<1>4. CASE n.thread = "disconnect"
  <2> DEFINE a == AbortConnection(m)
  <2>1. Left(n) = [a EXCEPT !.app = "disconnected"] BY <1>4 DEF Left
  <2> HIDE DEF m
  <2>2. a \in Node /\ Held(a) /\ a.thread = NULL
    BY <1>1, <1>2, AbortHeld, GivenUp, MQTTAssumption
  <2> HIDE DEF a
  <2>3. Left(n) \in Node /\ Left(n).thread = NULL BY ZenonT(60), <2>1, <2>2 DEF Node
  <2>4. Held(Left(n)) BY <2>1, <2>2 DEF Held, Node
  <2> QED BY <2>3, <2>4
<1> QED BY <1>3, <1>4

LEMMA FinishHeld ==
  ASSUME NEW n \in Node, Held(n)
  PROVE  /\ Finish(n) \in Node /\ Held(Finish(n))
         /\ Finish(n).thread = "ping" => ~Finish(n).waiting
<1> DEFINE m == [n EXCEPT !.received = IF n.thread = "disconnect" THEN @ ELSE FALSE]
<1>1. m \in Node /\ m.thread = n.thread BY DEF Node
<1>2. Held(m) BY DEF Held, Node
<1>3. /\ Finish(n) \in {m, Disconnect(m), [m EXCEPT !.full = FALSE],
                        [m EXCEPT !.waiting = FALSE]}
      /\ n.thread = "ping" => Finish(n) = [m EXCEPT !.waiting = FALSE]
  BY DEF Finish, StillWaiting
<1> HIDE DEF m
<1>4. CASE n.thread = "ping"
  <2>1. Finish(n) = [m EXCEPT !.waiting = FALSE] BY <1>3, <1>4
  <2> QED BY ZenonT(60), <1>1, <1>2, <2>1 DEF Held, Node
<1>5. CASE n.thread # "ping"
  <2>1. Disconnect(m) \in Node /\ Held(Disconnect(m)) /\ Disconnect(m).thread = m.thread
    BY <1>1, <1>2, <1>5, DisconnectHeld
  <2>2. /\ [m EXCEPT !.full = FALSE] \in Node /\ Held([m EXCEPT !.full = FALSE])
        /\ [m EXCEPT !.full = FALSE].thread = m.thread
    <3> DEFINE l == [m EXCEPT !.full = FALSE]
    <3>1. l \in Node /\ l.thread = m.thread BY <1>1 DEF Node
    <3>2. Held(l) BY <1>1, <1>2 DEF Held, Node
    <3> QED BY <3>1, <3>2
  <2>3. /\ [m EXCEPT !.waiting = FALSE] \in Node /\ Held([m EXCEPT !.waiting = FALSE])
        /\ [m EXCEPT !.waiting = FALSE].thread = m.thread
    <3> DEFINE l == [m EXCEPT !.waiting = FALSE]
    <3>1. l \in Node /\ l.thread = m.thread BY <1>1 DEF Node
    <3>2. Held(l) BY <1>1, <1>2 DEF Held, Node
    <3> QED BY <3>1, <3>2
  <2> QED BY <1>1, <1>2, <1>3, <1>5, <2>1, <2>2, <2>3
<1> QED BY <1>4, <1>5

LEMMA LoopHeld ==
  ASSUME NEW n \in Node, Held(n)
  PROVE  Loop(n) \in Node /\ Held(Loop(n))
<1>1. CASE Answered(n) \/ n.late
  <2>1. Loop(n) = Left(Finish(n)) BY <1>1 DEF Loop
  <2> QED BY <2>1, FinishHeld, LeftHeld
<1>2. CASE ~(Answered(n) \/ n.late) /\ GoesOn(n)
  <2>1. Loop(n) = Post(n, "continue") BY <1>2 DEF Loop
  <2> QED BY <2>1, PostHeld DEF Event
<1>3. CASE ~(Answered(n) \/ n.late) /\ ~GoesOn(n)
  <2>1. Loop(n) = Left(n) BY <1>3 DEF Loop
  <2>2. n.thread = "ping" => n.state # "connected" BY <1>3 DEF GoesOn
  <2> QED BY <2>1, <2>2, LeftHeld
<1> QED BY <1>1, <1>2, <1>3

LEMMA WriteHeld ==
  ASSUME NEW n \in Node, Held(n), n.thread = NULL, NEW k \in Thread,
         k = "ping" => n.state = "connected"
  PROVE  Write(n, k) \in Node /\ Held(Write(n, k))
<1> DEFINE m == [SendOutBuffer(n, k) EXCEPT !.thread = k, !.late = FALSE]
<1>1. /\ m \in Node /\ m.thread = k /\ m.state = n.state /\ m.waiting = n.waiting
      /\ m.keep_alive = n.keep_alive /\ m.keepalive = n.keepalive /\ m.socket = n.socket
  <2> DEFINE f == IF n.socket = "none" THEN NULL ELSE k
             s == [n EXCEPT !.sent = FALSE, !.flight = f]
  <2>1. m = [s EXCEPT !.thread = k, !.late = FALSE] BY DEF SendOutBuffer
  <2>2. f \in Thread \union {NULL} OBVIOUS
  <2> HIDE DEF m, f
  <2>3. /\ s \in Node /\ s.state = n.state /\ s.waiting = n.waiting
        /\ s.keep_alive = n.keep_alive /\ s.keepalive = n.keepalive
        /\ s.socket = n.socket
    BY ZenonT(60), <2>2 DEF Node
  <2> HIDE DEF s
  <2> QED BY ZenonT(60), <2>1, <2>3 DEF Node
<1>2. Write(n, k) = CASE k = "connect" -> [m EXCEPT !.state = "connecting", !.received = FALSE]
                      [] k = "subscribe" -> [m EXCEPT !.received = FALSE]
                      [] k = "publish" -> [m EXCEPT !.received = FALSE, !.full = FALSE]
                      [] k = "ping" -> [m EXCEPT !.received = FALSE, !.waiting = TRUE]
                      [] OTHER -> m
  BY DEF Write
<1> HIDE DEF m
<1>3. n.thread # "ping" BY MQTTAssumption
<1>4. CASE k = "connect"
  <2>1. Write(n, k) = [m EXCEPT !.state = "connecting", !.received = FALSE]
    BY <1>2, <1>4
  <2>2. Write(n, k) \in Node BY ZenonT(60), <1>1, <2>1 DEF Node
  <2>3. Held(Write(n, k)) BY <1>1, <1>3, <2>1 DEF Held, Node
  <2> QED BY <2>2, <2>3
<1>5. CASE k = "subscribe"
  <2>1. Write(n, k) = [m EXCEPT !.received = FALSE] BY <1>2, <1>5
  <2>2. Write(n, k) \in Node BY ZenonT(60), <1>1, <2>1 DEF Node
  <2>3. Held(Write(n, k)) BY <1>1, <1>3, <2>1 DEF Held, Node
  <2> QED BY <2>2, <2>3
<1>6. CASE k = "publish"
  <2>1. Write(n, k) = [m EXCEPT !.received = FALSE, !.full = FALSE] BY <1>2, <1>6
  <2>2. Write(n, k) \in Node BY ZenonT(60), <1>1, <2>1 DEF Node
  <2>3. Held(Write(n, k)) BY <1>1, <1>3, <2>1 DEF Held, Node
  <2> QED BY <2>2, <2>3
<1>7. CASE k = "ping"
  <2>1. Write(n, k) = [m EXCEPT !.received = FALSE, !.waiting = TRUE] BY <1>2, <1>7
  <2>2. Write(n, k) \in Node BY ZenonT(60), <1>1, <2>1 DEF Node
  <2>3. Held(Write(n, k)) BY <1>1, <1>3, <1>7, <2>1 DEF Held, Node
  <2> QED BY <2>2, <2>3
<1>8. CASE k = "disconnect"
  <2>1. Write(n, k) = m BY <1>2, <1>8
  <2> QED BY <1>1, <1>3, <2>1 DEF Held
<1> QED BY <1>4, <1>5, <1>6, <1>7, <1>8 DEF Thread

LEMMA HandleHeld ==
  ASSUME NEW n \in Node, Held(n), n.thread = NULL, NEW ev \in Event
  PROVE  Handle(n, ev) \in Node /\ Held(Handle(n, ev))
<1>1. n.thread # "ping" BY MQTTAssumption
<1>2. CASE ev = "abort" BY <1>1, <1>2, AbortHeld DEF Handle
<1>3. CASE ev = "tcp"
  <2>1. Handle(n, ev) = ConnectTcp(n) BY <1>3 DEF Handle
  <2>2. ConnectTcp(n) \in Node /\ Held(ConnectTcp(n))
    <3> DEFINE c == Closed(n)
    <3>1. c \in Node BY ZenonT(60) DEF Closed, Node
    <3>2. ConnectTcp(n) = [c EXCEPT !.state = "tcp_connecting", !.waiting = FALSE,
                                    !.received = FALSE, !.sent = FALSE,
                                    !.socket = "connecting"]
      BY DEF ConnectTcp
    <3> HIDE DEF c
    <3>3. /\ ConnectTcp(n) \in Node /\ ConnectTcp(n).waiting = FALSE
          /\ ConnectTcp(n).state = "tcp_connecting"
      BY ZenonT(60), <3>1, <3>2 DEF Node
    <3> QED BY <3>3 DEF Held
  <2> QED BY <2>1, <2>2
<1>4. CASE ev \in Thread
  <2>1. \/ Handle(n, ev) = n
        \/ ev = "disconnect" /\ Handle(n, ev) = Post(n, ev)
        \/ /\ Handle(n, ev) = Loop(Write(n, ev))
           /\ ev = "ping" => n.state = "connected"
    BY <1>4 DEF Handle, MaySend, Thread
  <2>2. Post(n, ev) \in Node /\ Held(Post(n, ev)) BY PostHeld
  <2>3. ASSUME ev = "ping" => n.state = "connected"
        PROVE  Loop(Write(n, ev)) \in Node /\ Held(Loop(Write(n, ev)))
    BY <1>4, <2>3, WriteHeld, LoopHeld
  <2> QED BY <2>1, <2>2, <2>3
<1>5. CASE ev = "continue" BY <1>5 DEF Handle
<1> QED BY <1>2, <1>3, <1>4, <1>5 DEF Event, Thread

LEMMA ResumeHeld ==
  ASSUME NEW n \in Node, Held(n), NEW ev \in Event, ev = "abort" => n.thread # "ping"
  PROVE  Held(Resume(n, ev))
<1>1. CASE ev = "abort"
  <2>1. Resume(n, ev) = [n EXCEPT !.state = "abort_immediate", !.thread = NULL,
                                  !.late = FALSE, !.running = FALSE]
    BY <1>1 DEF Resume
  <2> QED BY <1>1, <2>1 DEF Held, Node
<1>2. CASE ev # "abort"
  <2> DEFINE b == IF ev = "continue" THEN n ELSE Post(n, ev)
             m == Loop(b)
  <2>1. b \in Node /\ Held(b) BY PostHeld
  <2>2. Resume(n, ev) = IF m.thread = NULL /\ Rank(ev) > Rank(n.thread)
                        THEN Handle(m, ev) ELSE m
    BY <1>2 DEF Resume
  <2> HIDE DEF b
  <2>3. m \in Node /\ Held(m) BY <2>1, LoopHeld
  <2> HIDE DEF m
  <2> QED BY <2>2, <2>3, HandleHeld
<1> QED BY <1>1, <1>2

LEMMA ProcessHeld ==
  ASSUME MInv, Held(node), Process
  PROVE  Held(node)'
<1> DEFINE ev == Head(node.queue)
           n == [node EXCEPT !.queue = Tail(@)]
<1>1. /\ node \in Node /\ Queued(node, node.queue) /\ Awake(node, node.queue)
      /\ node.queue \in Seq(Event) /\ node.queue # <<>>
  BY DEF MInv, Waits, Fine, Process, Node
<1>2. ev \in Event /\ Tail(node.queue) \in Seq(Event)
  BY <1>1, Popped DEF Queued
<1>3. n \in Node /\ n.thread = node.thread BY <1>1, <1>2 DEF Node
<1>4. Held(n) BY <1>1 DEF Held, Node
<1>5. node' = IF ~n.running THEN n
              ELSE IF n.thread = NULL THEN Handle(n, ev) ELSE Resume(n, ev)
  BY DEF Process
<1>6. ev = "abort" => n.thread # "ping" BY <1>1, <1>3 DEF Awake
<1> HIDE DEF n, ev
<1>7. Held(node') BY <1>2, <1>3, <1>4, <1>5, <1>6, HandleHeld, ResumeHeld
<1> QED BY <1>7 DEF Held

LEMMA ConnectionHeld ==
  ASSUME MInv, Held(node), \/ Connected \/ Acked \/ Ends \/ Incoming
                           \/ \E k \in Thread : Answer(k)
  PROVE  Held(node)'
<1>1. node \in Node /\ Wired(node) BY DEF MInv, Waits, Fine
<1>2. CASE Connected
  <2> DEFINE m == [node EXCEPT !.state = "tcp_connected", !.sent = TRUE, !.socket = "open"]
  <2>1. node' = Post(m, "connect") /\ node.socket = "connecting" BY <1>2 DEF Connected
  <2>2. node.state = "tcp_connecting" BY <1>1, <2>1 DEF Wired
  <2>3. m \in Node BY <1>1 DEF Node
  <2>4. Held(m) BY <1>1, <2>1, <2>2 DEF Held, Node
  <2> HIDE DEF m
  <2>5. Held(node') BY <2>1, <2>3, <2>4, PostHeld DEF Event
  <2> QED BY <2>5 DEF Held
<1>3. CASE Acked \/ Incoming \/ \E k \in Thread : Answer(k)
  <2>1. node.socket = "open" BY <1>1, <1>3 DEF Wired, Acked, Incoming, Answer
  <2>2. /\ node'.keep_alive = node.keep_alive /\ node'.waiting = node.waiting
        /\ node'.thread = node.thread /\ node'.state \in {node.state, "connected"}
    <3>1. CASE Acked BY <1>1, <3>1 DEF Acked, Node
    <3>2. CASE Incoming BY <1>1, <3>2 DEF Incoming, Node
    <3>3. CASE \E k \in Thread : Answer(k)
      <4>1. PICK k \in Thread : Answer(k) BY <3>3
      <4> DEFINE n == [node EXCEPT !.answers = @ \ {k}, !.received = TRUE]
      <4>2. node' = CASE k = "connect" ->
                           [n EXCEPT !.acked = TRUE, !.keepalive = "set",
                                     !.state = "connected", !.app = "connected"]
                      [] k = "subscribe" -> [n EXCEPT !.acked = TRUE]
                      [] OTHER -> n
        BY <4>1 DEF Answer
      <4>3. /\ n \in Node /\ n.keep_alive = node.keep_alive /\ n.waiting = node.waiting
            /\ n.thread = node.thread /\ n.state = node.state
        BY <1>1 DEF Node
      <4> HIDE DEF n
      <4>4. node' \in {n, [n EXCEPT !.acked = TRUE],
                       [n EXCEPT !.acked = TRUE, !.keepalive = "set",
                                 !.state = "connected", !.app = "connected"]}
        BY <4>2
      <4> QED BY <4>3, <4>4 DEF Node
    <3> QED BY <1>3, <3>1, <3>2, <3>3
  <2> QED BY <2>1, <2>2 DEF Held
<1>4. CASE Ends
  <2> DEFINE p == Post(node, "abort")
             n == [p EXCEPT !.keepalive = IF @ = "none" THEN @ ELSE "stopped", !.ends = @ + 1]
             t == Told(n)
  <2>1. node' = AbortConnection(t) BY <1>4 DEF Ends
  <2>2. p \in Node /\ Held(p) BY <1>1, PostHeld DEF Event
  <2> HIDE DEF p
  <2>3. n \in Node /\ n.keepalive # "set"
    <3> DEFINE k == IF p.keepalive = "none" THEN p.keepalive ELSE "stopped"
               e == p.ends + 1
    <3>1. k \in {"none", "stopped"} /\ e \in Nat BY <2>2 DEF Node
    <3>2. n = [p EXCEPT !.keepalive = k, !.ends = e] OBVIOUS
    <3> HIDE DEF k, e, n
    <3> QED BY <2>2, <3>1, <3>2 DEF Node
  <2>4. Held(n) BY <2>2 DEF Held, Node
  <2> HIDE DEF n
  <2>5. t \in Node /\ t.keepalive # "set" BY <2>3 DEF Told, Node
  <2>6. Held(t) BY <2>3, <2>4 DEF Told, Held, Node
  <2> HIDE DEF t
  <2>7. Held(node') BY <2>1, <2>5, <2>6, AbortHeld
  <2> QED BY <2>7 DEF Held
<1> QED BY <1>2, <1>3, <1>4

LEMMA ApplicationHeld ==
  ASSUME MInv, Held(node), TimerExpires \/ KeepAlive \/ Connect \/ Retry \/ Requests
  PROVE  Held(node)'
<1>1. node \in Node /\ Wired(node) BY DEF MInv, Waits, Fine
<1>2. CASE TimerExpires BY <1>1, <1>2 DEF TimerExpires, Held, Node
<1>3. CASE KeepAlive
  <2> DEFINE n == [node EXCEPT !.keepalive = "stopped"]
  <2>1. /\ node.keepalive = "set"
        /\ node.keep_alive = "long" => node.thread # "ping"
        /\ node' = IF n.waiting THEN DisconnectTcp(n) ELSE Post(n, "ping")
    BY <1>3, MQTTAssumption DEF KeepAlive
  <2>2. n \in Node /\ n.waiting = node.waiting /\ n.keep_alive = node.keep_alive
    BY <1>1 DEF Node
  <2>3. Held(n) BY <1>1 DEF Held, Node
  <2>4. n.keep_alive = "long" => ~n.waiting BY <2>1, <2>2 DEF Held
  <2> HIDE DEF n
  <2>5. DisconnectTcp(n).keep_alive = n.keep_alive
    BY <2>2 DEF DisconnectTcp, Closed, Node
  <2>6. Held(Post(n, "ping")) BY <2>2, <2>3, PostHeld DEF Event
  <2>7. Held(node') BY <2>1, <2>4, <2>5, <2>6 DEF Held
  <2> QED BY <2>7 DEF Held
<1>4. CASE Connect
  <2> DEFINE n == [node EXCEPT !.app = "connecting"]
             l == [n EXCEPT !.acked = FALSE]
  <2>1. node' \in {Post(l, "tcp"), n} BY <1>4 DEF Connect
  <2>2. n \in Node BY <1>1 DEF Node
  <2>3. Held(n) BY <1>1 DEF Held, Node
  <2> HIDE DEF n
  <2>4. l \in Node BY <2>2 DEF Node
  <2>5. Held(l) BY <2>2, <2>3 DEF Held, Node
  <2> HIDE DEF l
  <2>6. Held(node') BY <2>1, <2>3, <2>4, <2>5, PostHeld DEF Event
  <2> QED BY <2>6 DEF Held
<1>5. CASE Retry
  <2>1. Disconnect(node) = node
    BY <1>1, <1>5 DEF Retry, Disconnect, Wired, Up, Believing
  <2> QED BY <1>1, <1>5, <2>1 DEF Retry, Held, Node
<1>6. CASE Requests
  <2> DEFINE n == [node EXCEPT !.full = TRUE, !.acked = FALSE, !.app = "publishing"]
             ev == IF node.app = "connected" THEN "subscribe" ELSE "publish"
  <2>1. node' = Post(n, ev) /\ ev \in Event BY <1>6 DEF Requests, Event
  <2>2. n \in Node BY <1>1 DEF Node
  <2>3. Held(n) BY <1>1 DEF Held, Node
  <2> HIDE DEF n, ev
  <2>4. Held(node') BY <2>1, <2>2, <2>3, PostHeld
  <2> QED BY <2>4 DEF Held
<1> QED BY <1>2, <1>3, <1>4, <1>5, <1>6

------------------------------------------------------------------------------
(* The theorems. *)

LEMMA NextWaits ==
  ASSUME MInv, [Next]_vars
  PROVE  /\ MInv'
         /\ node.running /\ ~node'.running => node.thread \in {"connect", "disconnect"}
<1>1. CASE Process BY <1>1, ProcessWaits
<1>2. CASE TimerExpires BY <1>2, TimerWaits
<1>3. CASE Connected BY <1>3, ConnectedWaits
<1>4. CASE Acked BY <1>4, AckedWaits
<1>5. CASE Ends BY <1>5, EndsWaits
<1>6. CASE Incoming BY <1>6, IncomingWaits
<1>7. CASE \E k \in Thread : Answer(k) BY <1>7, AnswerWaits
<1>8. CASE KeepAlive BY <1>8, KeepAliveWaits
<1>9. CASE Connect BY <1>9, ConnectWaits
<1>10. CASE Retry BY <1>10, RetryWaits
<1>11. CASE Requests BY <1>11, RequestsWait
<1>12. CASE UNCHANGED vars
  <2>1. node' = node BY <1>12 DEF vars
  <2> QED BY <2>1 DEF MInv
<1> QED
  BY <1>1, <1>2, <1>3, <1>4, <1>5, <1>6, <1>7, <1>8, <1>9, <1>10, <1>11, <1>12 DEF Next

LEMMA AlwaysWaits == Spec => []MInv
<1>1. Init => MInv BY InitWaits
<1>2. MInv /\ [Next]_vars => MInv' BY NextWaits
<1> QED BY <1>1, <1>2, PTL DEF Spec

LEMMA AlwaysHeld == Spec => []Held(node)
<1>1. Init => Held(node) BY DEF Init, Idle, Held
<1>2. MInv /\ Held(node) /\ [Next]_vars => Held(node)'
  BY ProcessHeld, ConnectionHeld, ApplicationHeld DEF Next, vars
<1> QED BY <1>1, <1>2, AlwaysWaits, PTL DEF Spec

(* The packet that TCP may have to send again stays in the buffer, nothing *)
(* but a CONNECT is sent before the broker has answered one, and no packet *)
(* is pending when a connection is set up (mqtt.c, from the protothreads   *)
(* to tcp_event).                                                          *)
THEOREM ConnectionInOrder == Spec => []ConnectionSound
<1>1. MInv => ConnectionSound
  <2> SUFFICES ASSUME MInv PROVE ConnectionSound
    OBVIOUS
  <2>1. node \in Node /\ Wired(node) /\ Len(node.queue) <= NUMEVENTS
    BY DEF MInv, Waits, Fine
  <2>2. TypeOK
    <3>1. ToSet(Events) = Event
      <4>1. /\ DOMAIN Events = 1 .. 8 /\ Events[1] = "abort" /\ Events[2] = "tcp"
            /\ Events[3] = "connect" /\ Events[4] = "disconnect" /\ Events[5] = "ping"
            /\ Events[6] = "subscribe" /\ Events[7] = "publish"
            /\ Events[8] = "continue"
        BY DEF Events
      <4>2. 1 .. 8 = {1, 2, 3, 4, 5, 6, 7, 8} OBVIOUS
      <4> QED BY <4>1, <4>2 DEF ToSet, Event
    <3>2. \A f \in {"sent", "full", "acked", "received", "waiting", "running", "late",
                     "subscribed"} : node[f] \in BOOLEAN
      BY <2>1 DEF Node
    <3> QED BY <2>1, <3>1, <3>2 DEF TypeOK, Node
  <2>3. InFlightIntact /\ ConnectFirst /\ StartsFree
    BY <2>1 DEF Wired, Up, Believing, InFlightIntact, ConnectFirst, StartsFree
  <2> QED BY <2>2, <2>3 DEF ConnectionSound
<1> QED BY <1>1, AlwaysWaits, PTL

(* With a keep-alive interval of more than twice the time that a thread    *)
(* waits, the application believes in a connection only while the client   *)
(* has one: it is told of every loss, and the connection is not given up   *)
(* behind its back (tcp_event, keep_alive_callback and pingreq_pt).        *)
THEOREM BelievesWhileUp == Spec => []ToldOfLoss
<1>1. MInv /\ Held(node) => ToldOfLoss
  BY DEF MInv, Waits, Fine, Wired, Up, Believing, Held, ToldOfLoss
<1> QED BY <1>1, AlwaysWaits, AlwaysHeld, PTL

(* Only a loss that meets connect_pt or disconnect_pt ends the process     *)
(* (PT_MQTT_WAIT_SEND).                                                    *)
THEOREM EndsInConnecting == Spec => SurvivesLoss
<1>1. MInv /\ [Next]_vars =>
        [node.running /\ ~node'.running =>
           node.thread \in {"connect", "disconnect"}]_vars
  BY NextWaits
<1> QED BY <1>1, AlwaysWaits, PTL DEF Spec, SurvivesLoss

==============================================================================
