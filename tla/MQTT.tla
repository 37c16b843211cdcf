-------------------------------- MODULE MQTT ---------------------------------
(***************************************************************************)
(* A node that publishes by MQTT (version2/mqtt-demo): the state machine   *)
(* of its application, the MQTT client (apps/mqtt/mqtt.c) with its process *)
(* and its event queue, and the TCP socket to the broker.  The intervals   *)
(* at which the application publishes and the connection is kept alive are *)
(* any, so that either can be the longer one.                              *)
(*                                                                         *)
(* One turn of mqtt_process is one step.  It handles an event in the main  *)
(* loop, or, in the loop around a protothread (PT_MQTT_WAIT_SEND), posts   *)
(* the event again and calls the thread once more.  A thread writes a      *)
(* packet into the output buffer, which it fits, gives it to TCP and waits *)
(* for an answer until its timer expires.                                  *)
(***************************************************************************)
EXTENDS Naturals, Sequences, SequencesExt

CONSTANTS
  NULL,
  NUMEVENTS,      \* The events that the event queue can hold.
  NUM_ENDS,       \* Bound: how often TCP closes, aborts or times out.
  ACKED_IN_TIME,  \* Whether TCP acknowledges before a thread's timer expires.
  KEEP_ALIVE      \* How keep_alive may be: "long" is more than twice as long
                  \* as that timer, so that a PINGREQ has been answered or
                  \* given up, and one event handled, before it expires.

ASSUME MQTTAssumption ==
  /\ NUMEVENTS \in Nat \ {0} /\ NUM_ENDS \in Nat
  /\ ACKED_IN_TIME \in BOOLEAN /\ KEEP_ALIVE \subseteq {"short", "long"}
  /\ NULL \notin {"connect", "disconnect", "ping", "subscribe", "publish"}

Thread == {"connect", "disconnect", "ping", "subscribe", "publish"}

(* The events in the order in which the main loop tests for them.          *)
Events == <<"abort", "tcp", "connect", "disconnect", "ping", "subscribe",
            "publish", "continue">>

Rank(ev) == CHOOSE i \in DOMAIN Events : Events[i] = ev

VARIABLE node
vars == <<node>>

(* The fields of node:                                                     *)
(*   state, sent (out_buffer_sent), full (out_queue_full), acked (whether  *)
(*   qos_state is GOT_ACK), received (packet_received), waiting            *)
(*   (waiting_for_pingresp), keep_alive (the interval), keepalive (its     *)
(*   timer, "none" until it is set first): struct mqtt_connection;         *)
(*   socket, flight (the packet that TCP has not acknowledged), answers    *)
(*   (what the broker has still to answer), subscribed: the connection;    *)
(*   queue, running, thread, late (the timer of the thread has expired):   *)
(*   mqtt_process;                                                         *)
(*   app: the state of the demo; ends: how often TCP has ended.            *)
Idle(keep_alive) ==
  [state |-> "not_connected", sent |-> FALSE, full |-> FALSE,
   acked |-> FALSE, received |-> FALSE, waiting |-> FALSE,
   keep_alive |-> keep_alive, keepalive |-> "none",
   socket |-> "none", flight |-> NULL, answers |-> {}, subscribed |-> FALSE,
   queue |-> <<>>, running |-> TRUE, thread |-> NULL, late |-> FALSE,
   app |-> "registered", ends |-> 0]

(* Whose result nobody looks at.                                           *)
Post_OneMore(n, ev) ==                  \* Fault: the limit is one too high.
  IF Len(n.queue) <= NUMEVENTS THEN [n EXCEPT !.queue = Append(@, ev)] ELSE n
Post(n, ev) ==
  IF Len(n.queue) < NUMEVENTS THEN [n EXCEPT !.queue = Append(@, ev)] ELSE n

------------------------------------------------------------------------------
(* The connection. *)

(* The socket is closed and unregistered: its connection concerns nobody.  *)
Closed(n) ==
  [n EXCEPT !.socket = "none", !.flight = NULL, !.answers = {}, !.subscribed = FALSE]

AbortConnection_KeepsQueue(n) ==        \* Fault: out_queue_full stays.
  [Closed(n) EXCEPT !.acked = FALSE, !.state = "not_connected"]
AbortConnection(n) ==
  [Closed(n) EXCEPT !.full = FALSE, !.acked = FALSE, !.state = "not_connected"]

(* A connection that the socket still has is left to itself.               *)
ConnectTcp(n) ==
  [Closed(n) EXCEPT !.state = "tcp_connecting", !.waiting = FALSE,
                    !.received = FALSE, !.sent = FALSE, !.socket = "connecting"]

DisconnectTcp(n) == [Closed(n) EXCEPT !.state = "disconnecting"]

Disconnect(n) ==
  IF n.state # "connected" THEN n
  ELSE Post([n EXCEPT !.state = "sending_disconnect"], "disconnect")

SendOutBuffer_StillSent(n, k) ==        \* Fault: the buffer can be used again.
  [n EXCEPT !.flight = IF n.socket = "none" THEN NULL ELSE k]
SendOutBuffer(n, k) ==
  [n EXCEPT !.sent = FALSE, !.flight = IF n.socket = "none" THEN NULL ELSE k]

------------------------------------------------------------------------------
(* The protothreads: connect_pt, disconnect_pt, subscribe_pt (and          *)
(* unsubscribe_pt), publish_pt with QoS 0, and pingreq_pt.                 *)

(* The packet is written and handed to TCP.                                *)
Write(n, k) ==
  LET m == [SendOutBuffer(n, k) EXCEPT !.thread = k, !.late = FALSE]
  IN  CASE k = "connect" -> [m EXCEPT !.state = "connecting", !.received = FALSE]
        [] k = "subscribe" -> [m EXCEPT !.received = FALSE]
        [] k = "publish" -> [m EXCEPT !.received = FALSE, !.full = FALSE]
        [] k = "ping" -> [m EXCEPT !.received = FALSE, !.waiting = TRUE]
        [] OTHER -> m

Answered(n) ==
  CASE n.thread \in {"connect", "subscribe"} -> n.acked
    [] n.thread = "disconnect" -> n.sent
    [] n.thread = "ping" -> n.received
    [] OTHER -> TRUE

(* What a thread does when it has waited: pingreq_pt is not waiting for a  *)
(* PINGRESP any more, whether it has come or not.                          *)
StillWaiting_Late(n) == n.late          \* Fault: after a timeout it is.
StillWaiting(n) == FALSE
Finish(n) ==
  LET m == [n EXCEPT !.received = IF n.thread = "disconnect" THEN @ ELSE FALSE]
  IN  CASE n.thread = "connect" -> IF n.late THEN Disconnect(m) ELSE m
        [] n.thread = "subscribe" -> [m EXCEPT !.full = FALSE]
        [] n.thread = "ping" -> [m EXCEPT !.waiting = StillWaiting(n)]
        [] OTHER -> m

------------------------------------------------------------------------------
(* mqtt_process. *)

(* Whether the loop around a thread goes on.                               *)
GoesOn_NotAborted(n) == n.state # "abort_immediate"     \* Fault: for all alike.
GoesOn(n) ==
  IF n.thread \in {"connect", "disconnect"} THEN n.state # "abort_immediate"
  ELSE n.state = "connected"

(* After the loop.                                                         *)
Left_Open(n) ==                         \* Fault: the connection stays.
  LET m == [n EXCEPT !.thread = NULL, !.late = FALSE]
  IN  IF n.thread = "disconnect" THEN [m EXCEPT !.app = "disconnected"] ELSE m
Left(n) ==
  LET m == [n EXCEPT !.thread = NULL, !.late = FALSE]
  IN  IF n.thread = "disconnect"
      THEN [AbortConnection(m) EXCEPT !.app = "disconnected"] ELSE m

(* The loop, from where its thread is called until it waits for an event.  *)
Loop(n) ==
  IF Answered(n) \/ n.late THEN Left(Finish(n))
  ELSE IF GoesOn(n) THEN Post(n, "continue") ELSE Left(n)

MaySend_Always(n) == n.sent             \* Fault: connected or not.
MaySend(n) == n.sent /\ n.state = "connected"

(* The main loop's tests for the event.                                    *)
Handle(n, ev) ==
  CASE ev = "abort" -> AbortConnection(n)
    [] ev = "tcp" -> ConnectTcp(n)
    [] ev = "connect" -> IF n.sent THEN Loop(Write(n, ev)) ELSE n
    [] ev = "disconnect" ->
         IF n.state # "sending_disconnect" THEN n
         ELSE IF n.sent THEN Loop(Write(n, ev)) ELSE Post(n, ev)
    [] ev \in {"ping", "subscribe", "publish"} ->
         IF MaySend(n) THEN Loop(Write(n, ev)) ELSE n
    [] OTHER -> n

(* PT_MQTT_WAIT_SEND.  Its PT_EXIT leaves the process with PT_EXITED, and  *)
(* the kernel ends it.  When the thread ends, the tests that follow see    *)
(* the event that woke the process, although it has been posted again.     *)
Resume(n, ev) ==
  IF ev = "abort"
  THEN [n EXCEPT !.state = "abort_immediate", !.thread = NULL, !.late = FALSE,
                 !.running = FALSE]
  ELSE LET m == Loop(IF ev = "continue" THEN n ELSE Post(n, ev))
       IN  IF m.thread = NULL /\ Rank(ev) > Rank(n.thread)
           THEN Handle(m, ev) ELSE m

Process ==
  /\ node.queue # <<>>
  /\ LET ev == Head(node.queue)
         n == [node EXCEPT !.queue = Tail(@)]
     IN  node' = IF ~n.running THEN n
                 ELSE IF n.thread = NULL THEN Handle(n, ev) ELSE Resume(n, ev)

TimerExpires ==
  /\ node.thread # NULL /\ ~node.late
  /\ ACKED_IN_TIME => node.flight = NULL
  /\ node' = [node EXCEPT !.late = TRUE]

------------------------------------------------------------------------------
(* TCP and the broker: tcp_event and tcp_input. *)

Told_NotOfEnd(n) == n                   \* Fault: MQTT_EVENT_DISCONNECTED is lost.
Told(n) == [n EXCEPT !.app = "disconnected"]

Connected ==
  /\ node.socket = "connecting"
  /\ node' = Post([node EXCEPT !.state = "tcp_connected", !.sent = TRUE,
                               !.socket = "open"], "connect")

Acked ==
  /\ node.flight # NULL /\ node.socket = "open"
  /\ node' = [node EXCEPT
                !.sent = TRUE, !.flight = NULL, !.answers = @ \union {node.flight},
                !.subscribed = @ \/ node.flight = "subscribe",
                !.keepalive = IF @ = "none" THEN @ ELSE "set"]

Ends ==
  /\ node.socket # "none" /\ node.ends < NUM_ENDS
  /\ LET n == [Post(node, "abort") EXCEPT
                 !.keepalive = IF @ = "none" THEN @ ELSE "stopped", !.ends = @ + 1]
     IN  node' = AbortConnection(Told(n))

Answer(k) ==
  /\ k \in node.answers
  /\ LET n == [node EXCEPT !.answers = @ \ {k}, !.received = TRUE]
     IN  node' = CASE k = "connect" ->
                        [n EXCEPT !.acked = TRUE, !.keepalive = "set",
                                  !.state = "connected", !.app = "connected"]
                   [] k = "subscribe" -> [n EXCEPT !.acked = TRUE]
                   [] OTHER -> n

(* A message that another client has published.                            *)
Incoming ==
  /\ node.subscribed
  /\ node' = [node EXCEPT !.received = TRUE]

------------------------------------------------------------------------------
(* The keep-alive timer and the application run on an event that leaves    *)
(* its place in the queue to what they post.                               *)

(* keep_alive_callback.  An acknowledgement restarts the timer, so that a  *)
(* long one does not expire in a thread whose packet has been acknowledged,*)
(* nor in pingreq_pt, whose event its last expiration has posted.          *)
KeepAlive ==
  /\ node.keepalive = "set" /\ Len(node.queue) < NUMEVENTS
  /\ node.keep_alive = "long" =>
       node.thread = NULL \/ (node.flight # NULL /\ node.thread # "ping")
  /\ LET n == [node EXCEPT !.keepalive = "stopped"]
     IN  node' = IF n.waiting THEN DisconnectTcp(n) ELSE Post(n, "ping")

(* STATE_REGISTERED, after an interval of seconds: mqtt_connect.           *)
Connect ==
  /\ node.app = "registered" /\ Len(node.queue) < NUMEVENTS
  /\ ~Contains(node.queue, "abort")
  /\ LET n == [node EXCEPT !.app = "connecting"]
     IN  node' = IF n.state \in {"not_connected", "disconnecting"}
                 THEN Post([n EXCEPT !.acked = FALSE], "tcp") ELSE n

(* STATE_DISCONNECTED.                                                     *)
Retry ==
  /\ node.app = "disconnected" /\ Len(node.queue) < NUMEVENTS
  /\ node' = [Disconnect(node) EXCEPT !.app = "registered"]

(* STATE_CONNECTED and STATE_PUBLISHING: mqtt_subscribe and mqtt_publish,  *)
(* if mqtt_ready and the buffer is free.                                   *)
Requests ==
  /\ node.app \in {"connected", "publishing"} /\ Len(node.queue) < NUMEVENTS
  /\ ~node.full /\ node.state = "connected" /\ node.sent
  /\ node' = Post([node EXCEPT !.full = TRUE, !.acked = FALSE, !.app = "publishing"],
                  IF node.app = "connected" THEN "subscribe" ELSE "publish")

------------------------------------------------------------------------------
Init == node \in {Idle(k) : k \in KEEP_ALIVE}

Next ==
  \/ Process \/ TimerExpires
  \/ Connected \/ Acked \/ Ends \/ Incoming
  \/ \E k \in Thread : Answer(k)
  \/ KeepAlive \/ Connect \/ Retry \/ Requests

Spec == Init /\ [][Next]_vars

(* The processes run, timers expire, TCP delivers and the broker answers   *)
(* what a broker answers.                                                  *)
Fairness ==
  /\ WF_vars(Process) /\ WF_vars(TimerExpires)
  /\ WF_vars(Connected) /\ WF_vars(Acked) /\ WF_vars(Answer("connect"))
  /\ SF_vars(Connect) /\ WF_vars(Retry)

FairSpec == Spec /\ Fairness

------------------------------------------------------------------------------
(* The properties. *)

TypeOK ==
  /\ node.state \in {"disconnecting", "not_connected", "tcp_connecting",
                     "tcp_connected", "connecting", "connected",
                     "sending_disconnect", "abort_immediate"}
  /\ \A f \in {"sent", "full", "acked", "received", "waiting", "running", "late",
            "subscribed"} :
       node[f] \in BOOLEAN
  /\ node.keepalive \in {"none", "stopped", "set"} /\ node.keep_alive \in KEEP_ALIVE
  /\ node.socket \in {"none", "connecting", "open"}
  /\ node.flight \in Thread \union {NULL} /\ node.thread \in Thread \union {NULL}
  /\ node.answers \subseteq Thread
  /\ node.queue \in Seq(ToSet(Events)) /\ Len(node.queue) <= NUMEVENTS

(* A packet that TCP may have to send again stays in the buffer.           *)
InFlightIntact == node.sent => node.flight = NULL

(* Nothing is sent to the broker before it has answered the CONNECT.       *)
ConnectFirst ==
  node.flight \in Thread \ {"connect"} =>
    node.state \in {"connected", "sending_disconnect"}

(* The application believes in a connection only while there is one,       *)
(* however it is lost or given up, if its keep-alive interval is long.     *)
ToldOfLoss ==
  node.keep_alive = "long" /\ node.app \in {"connected", "publishing"} =>
    node.socket = "open" /\ node.state \in {"connected", "sending_disconnect"}

(* No packet is pending when a connection is set up.                       *)
StartsFree ==
  node.state \in {"tcp_connecting", "tcp_connected", "connecting"} => ~node.full

(* The connection and its buffer are in order in every state.              *)
ConnectionSound == TypeOK /\ InFlightIntact /\ ConnectFirst /\ StartsFree

(* The loss of an established connection does not end the process.         *)
SurvivesLoss ==
  [][node.running /\ ~node'.running =>
       node.thread \in {"connect", "disconnect"}]_vars

(* A packet that the application handed over does not block the next one   *)
(* for ever.  It can, on a healthy connection, if its event finds a        *)
(* PINGREQ in the buffer: when a client publishes more rarely than its     *)
(* keep-alive interval, as cc26xx-web-demo's does with an interval of 171  *)
(* seconds, of which 171 * 128 * 3 is 128 in its 16-bit keep_alive.        *)
QueueFreed == node.full ~> ~node.full

(* After a loss the node connects again.                                   *)
Reconnects == node.app = "disconnected" ~> (node.app = "connected" \/ ~node.running)
==============================================================================
