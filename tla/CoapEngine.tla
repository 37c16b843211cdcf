----------------------------- MODULE CoapEngine ------------------------------
(***************************************************************************)
(* A CoAP node: the engine (apps/er-coap, er-coap-engine.c) with its       *)
(* transactions and observers, separate responses (er-coap-separate.c),    *)
(* resources that notify their observers, and the processes that call      *)
(* coap_blocking_request.                                                  *)
(*                                                                         *)
(* Datagrams may be lost, delayed, duplicated and reordered: as long as a  *)
(* transaction is open, its answer may arrive or not, and answers that     *)
(* come too late are among the other messages.  The engine handles one     *)
(* datagram, timer event or call at a time, but a resource is notified in  *)
(* steps, one per observer.                                                *)
(***************************************************************************)
EXTENDS CoapTransactions

CONSTANTS
  Server,      \* The peer the clients send their requests to.
  LastBlock,   \* LastBlock[c]: the number of the last block of the response
               \* to c's requests, or NULL if it comes without block option.
  MAX_ATTEMPTS,\* COAP_MAX_ATTEMPTS.
  Parents,     \* The resources with HAS_SUB_RESOURCES.
  Requests,    \* The kinds of requests the peers send.
  Theirs,      \* The IDs the peers may use for messages of their own.
  Garbled,     \* Whether datagrams arrive that coap_parse_message rejects.
  NUMEVENTS    \* Bound: how many timer events the engine has in the queue.

ASSUME EngineAssumption ==
  /\ Server \in Peer /\ Parents \subseteq Uri /\ Theirs \subseteq Nat
  /\ LastBlock \in [Client -> Nat \union {NULL}]
  /\ Requests \subseteq {"get", "observe", "cancel", "change", "separate"}
  /\ MAX_ATTEMPTS \in Nat /\ NUMEVENTS \in Nat \ {0} /\ Garbled \in BOOLEAN

VARIABLES
  current,     \* The static variable transaction of coap_receive.
  loop,        \* The notification loop that is under way.
  stored,      \* The coap_separate_t of the application.
  polled,      \* The clients whose callback has polled them.
  want,        \* The ID of the request a client waits for, or 0.
  response, block_num,               \* Its struct request_state_t, as far
                                     \* as it is read again.
  more, res_block, block_error,      \* Shared by all calls: static variables.
  misled,      \* History: the clients that the callback of a message of the
               \* node itself has called, until they start anew.
  disturbed    \* History: the clients in whose request another one has
               \* received a block.

evars == <<current, loop, stored>>
cvars == <<polled, want, response, block_num, more, res_block, block_error>>
hvars == <<misled, disturbed>>
vars == <<tvars, evars, cvars, hvars>>

Idle == [uri |-> <<>>, next |-> 0, con |-> FALSE, serving |-> NULL]
Ready == loop = Idle

Answer(mid, peer, num, last) ==
  [mid |-> mid, peer |-> peer, num |-> num, more |-> num # last]

(* The callback of a transaction that ends stores the response, which is   *)
(* NULL after a timeout, and polls the process.  In the transaction of a   *)
(* message of the node itself, it is one that a request has left behind.   *)
Poll_OnResponse(c, m) == m # NULL       \* Fault: not after a timeout.
Poll(c, m) == TRUE

NoCallback == UNCHANGED <<response, polled, misled>>

Callback(t, m) ==
  LET c == slot[t].callback IN
  IF c = NULL THEN NoCallback
  ELSE /\ response' = [response EXCEPT ![c] = m]
       /\ polled' = IF Poll(c, m) THEN polled \union {c} ELSE polled
       /\ misled' = IF slot[t].packet.client = NULL THEN misled \union {c} ELSE misled

------------------------------------------------------------------------------
(* Retransmission. *)
TimerExpires(t) ==
  /\ Ready /\ t \in armed /\ events < NUMEVENTS
  /\ armed' = armed \ {t}
  /\ events' = events + 1
  /\ UNCHANGED <<open, slot, observers, evars, cvars, hvars>>

TimerEvent ==
  /\ Ready /\ events > 0
  /\ events' = events - 1
  /\ CheckTransactions
  /\ IF TimedOut = NULL THEN NoCallback ELSE Callback(TimedOut, NULL)
  /\ UNCHANGED <<evars, want, block_num, more, res_block, block_error, disturbed>>

------------------------------------------------------------------------------
(* coap_notify_observers_sub.  The type of the message is not set back     *)
(* after a confirmable one; an observer for whom there is no transaction   *)
(* is passed over.                                                         *)
Concerns(u, o) ==
  \/ o.uri = u
  \/ u \in Parents /\ IsStrictPrefix(u, o.uri) /\ o.uri[Len(u) + 1] = "/"

Forced(o) == o.counter = 0

Notify(u) ==
  /\ Ready
  /\ loop' = [Idle EXCEPT !.uri = u, !.next = 1]
  /\ UNCHANGED <<tvars, current, stored, cvars, hvars>>

NotifyNext ==
  /\ loop.next \in DOMAIN observers
  /\ LET o == observers[loop.next]
         con == loop.con \/ Forced(o)
         packet == Message(Fresh, o.peer, NULL, 0)
     IN  IF Concerns(loop.uri, o) /\ Free # {}
         THEN /\ observers' = [observers EXCEPT ![loop.next] =
                   [o EXCEPT !.last_mid = Fresh,
                             !.counter = (@ + 1) % REFRESH]]
              /\ loop' = [loop EXCEPT !.next = @ + 1, !.con = con]
              /\ IF con
                 THEN Confirmable(FirstFree, packet, slot[FirstFree].callback)
                 ELSE UNCHANGED <<open, slot, armed>>
         ELSE /\ loop' = [loop EXCEPT !.next = @ + 1]
              /\ UNCHANGED <<open, slot, armed, observers>>
  /\ UNCHANGED <<events, current, stored, cvars, hvars>>

NotifyEnd ==
  /\ ~Ready /\ loop.next \notin DOMAIN observers
  /\ loop' = Idle
  /\ IF loop.serving = NULL THEN UNCHANGED <<open, slot, armed>>
                            ELSE Clear(loop.serving)
  /\ UNCHANGED <<events, observers, current, stored, cvars, hvars>>

------------------------------------------------------------------------------
(* coap_receive with a request: its transaction is freed when the response *)
(* has been sent, but `current' still points to it.  Clients run before    *)
(* the next datagram: they were started after the radio's process.         *)
Receiving == Ready /\ polled = {}

Request(kind) ==
  /\ Receiving /\ kind \in Requests
  /\ current' = IF Free = {} THEN NULL ELSE FirstFree

Get(p, m, u) ==
  /\ Request("get")
  /\ UNCHANGED <<tvars, loop, stored, cvars, hvars>>

Observe(p, m, u) ==
  /\ Request("observe") /\ Free # {}
  /\ \E k \in 0 .. REFRESH - 1 : observers' = WithObserver(p, u, k)
  /\ UNCHANGED <<open, slot, armed, events, loop, stored, cvars, hvars>>

Cancel(p, m, u) ==
  /\ Request("cancel") /\ Free # {}
  /\ observers' = WithoutToken(p, u)
  /\ UNCHANGED <<open, slot, armed, events, loop, stored, cvars, hvars>>

(* The handler of the request notifies the observers of the resource.      *)
Change(p, m, u) ==
  /\ Request("change") /\ Free # {}
  /\ open' = Append(open, FirstFree)
  /\ slot' = [slot EXCEPT ![FirstFree].packet = Message(m, p, NULL, 0)]
  /\ loop' = [Idle EXCEPT !.uri = u, !.next = 1, !.serving = FirstFree]
  /\ UNCHANGED <<armed, events, observers, stored, cvars, hvars>>

(* coap_separate_accept looks for the transaction of the request by its    *)
(* ID, and finds an older one with that ID first.                          *)
Accept(p, m, con) ==
  /\ Request("separate") /\ Free # {} /\ stored = NULL
  /\ stored' = [con |-> con, peer |-> IF ByMid(m, p) = NULL THEN p
                                      ELSE slot[ByMid(m, p)].packet.peer]
  /\ UNCHANGED <<tvars, loop, cvars, hvars>>

Resume ==
  /\ Ready /\ stored # NULL /\ Free # {}
  /\ stored' = NULL
  /\ LET packet == Message(Fresh, stored.peer, NULL, 0)
     IN  IF stored.con
         THEN Confirmable(FirstFree, packet, slot[FirstFree].callback)
         ELSE UNCHANGED <<open, slot, armed>>
  /\ UNCHANGED <<events, observers, current, loop, cvars, hvars>>

(* Any other message ends the transaction with its ID, whoever sent it:    *)
(* the acknowledgement that carries the response, a reset of one of our    *)
(* messages, or a ping, a separate response or a late answer.              *)
Ends(mid, m) ==
  /\ current' = NULL
  /\ LET t == ByMid(mid, m.peer)
     IN  IF t = NULL THEN UNCHANGED <<open, slot, armed>> /\ NoCallback
         ELSE Clear(t) /\ Callback(t, m)
  /\ UNCHANGED <<events, loop, stored,
                 want, block_num, more, res_block, block_error, disturbed>>

(* A block beyond the last one is answered with an error.                  *)
Acknowledge(t) ==
  /\ Receiving /\ t \in Open
  /\ LET sent == slot[t].packet
         last == IF sent.client = NULL THEN NULL ELSE LastBlock[sent.client]
         num == IF last # NULL /\ sent.block <= last THEN sent.block ELSE NULL
     IN  Ends(sent.mid, Answer(sent.mid, sent.peer, num, last))
  /\ UNCHANGED observers

Reset(p, m) ==
  /\ Receiving
  /\ \/ \E o \in ToSet(observers) : o.peer = p /\ o.last_mid = m
     \/ \E t \in Open : /\ slot[t].packet.peer = p /\ slot[t].packet.mid = m
                         /\ slot[t].packet.client = NULL
  /\ observers' = WithoutMid(p, m)
  /\ Ends(m, Answer(m, p, NULL, NULL))

Other(p, m) ==
  /\ Receiving
  /\ Ends(m, Answer(m, p, NULL, NULL))
  /\ UNCHANGED observers

(* A message that is not parsed clears what `current' points to.           *)
Garble ==
  /\ Receiving /\ Garbled
  /\ IF current = NULL THEN UNCHANGED <<open, slot, armed>> ELSE Clear(current)
  /\ UNCHANGED <<events, observers, evars, cvars, hvars>>

------------------------------------------------------------------------------
(* coap_blocking_request asks for one block after the other.               *)
Ended(c) == UNCHANGED <<open, slot, armed>> /\ want' = [want EXCEPT ![c] = 0]

RequestBlock(c, block) ==
  IF Free = {} THEN Ended(c)
  ELSE /\ Confirmable(FirstFree, Message(Fresh, Server, c, block), c)
       /\ want' = [want EXCEPT ![c] = Fresh]

ResBlockAtStart_Kept == res_block     \* Fault: not set back.
ResBlockAtStart == 0

StartsAnew(c) == c \notin polled /\ \A t \in Open : slot[t].packet.client # c

StartRequest(c) ==
  /\ Ready /\ want[c] = 0
  /\ block_num' = [block_num EXCEPT ![c] = 0]
  /\ response' = [response EXCEPT ![c] = NULL]
  /\ more' = FALSE /\ res_block' = ResBlockAtStart /\ block_error' = 0
  /\ RequestBlock(c, 0)
  /\ misled' = IF StartsAnew(c) THEN misled \ {c} ELSE misled
  /\ disturbed' = disturbed \ {c}
  /\ UNCHANGED <<events, observers, evars, polled>>

(* It yields until it is polled, by whatever callback.                     *)
InTurn(c) == res_block' = block_num[c]

Waiting == {c \in Client : want[c] # 0}

ClientRuns(c) ==
  /\ Ready /\ c \in polled
  /\ polled' = polled \ {c}
  /\ response' = [response EXCEPT ![c] = NULL]
  /\ UNCHANGED <<events, observers, evars, misled>>
  /\ LET r == response[c] IN
     IF want[c] = 0 \/ r = NULL
         THEN /\ Ended(c)
              /\ UNCHANGED <<block_num, more, res_block, block_error, disturbed>>
         ELSE /\ more' = IF r.num = NULL THEN more ELSE r.more
              /\ res_block' = IF r.num = NULL THEN res_block ELSE r.num
              /\ disturbed' = IF r.num = NULL THEN disturbed
                               ELSE disturbed \union (Waiting \ {c})
              /\ block_num' = [block_num EXCEPT ![c] = IF InTurn(c) THEN @ + 1 ELSE @]
              /\ block_error' = IF InTurn(c) THEN block_error ELSE block_error + 1
              /\ IF more' /\ block_error' < MAX_ATTEMPTS
                 THEN RequestBlock(c, block_num'[c]) ELSE Ended(c)

------------------------------------------------------------------------------
(* The memory is zeroed; random_rand chooses the first ID.                 *)
Init ==
  /\ open = <<>> /\ slot = [t \in Blocks |-> Blank] /\ armed = {}
  /\ events = 0 /\ observers = <<>>
  /\ current = NULL /\ loop = Idle /\ stored = NULL
  /\ polled = {} /\ want = [c \in Client |-> 0]
  /\ response = [c \in Client |-> NULL] /\ block_num = [c \in Client |-> 0]
  /\ more = FALSE /\ res_block = 0 /\ block_error = 0
  /\ misled = {} /\ disturbed = {}

Receive ==
  \/ \E p \in Peer, m \in Theirs :
       \/ Other(p, m)
       \/ \E con \in BOOLEAN : Accept(p, m, con)
       \/ \E u \in Uri : \/ Get(p, m, u) \/ Observe(p, m, u)
                         \/ Cancel(p, m, u) \/ Change(p, m, u)
  \/ \E t \in Blocks : Acknowledge(t)
  \/ \E p \in Peer, m \in Mid : Reset(p, m)
  \/ Garble

Next ==
  \/ Receive
  \/ \E t \in Blocks : TimerExpires(t)
  \/ TimerEvent
  \/ \E u \in Uri : Notify(u)
  \/ NotifyNext \/ NotifyEnd \/ Resume
  \/ \E c \in Client : StartRequest(c) \/ ClientRuns(c)

Spec == Init /\ [][Next]_vars

(* Timers expire, and the main loop delivers their events and the polls.   *)
Fairness ==
  /\ \A t \in Blocks : SF_vars(TimerExpires(t))
  /\ WF_vars(TimerEvent)
  /\ \A c \in Client : WF_vars(ClientRuns(c))
  /\ WF_vars(NotifyNext \/ NotifyEnd)

FairSpec == Spec /\ Fairness

------------------------------------------------------------------------------
(* The properties. *)

TypeOK ==
  /\ TTypeOK
  /\ current \in Blocks \union {NULL}
  /\ loop.uri \in Uri \union {<<>>} /\ loop.serving \in Open \union {NULL}
  /\ polled \subseteq Client /\ want \in [Client -> Mid \union {0}]
  /\ \A c \in Client : response[c] # NULL => response[c].peer \in Peer
  /\ misled \subseteq Client /\ disturbed \subseteq Client

(* No retransmission is forgotten: for every open transaction whose timer  *)
(* has expired there is a timer event in the queue, although               *)
(* coap_check_transactions handles several of them on one event, none on   *)
(* another, and stops early when one times out.                            *)
NoRetransmissionForgotten == Cardinality(Expired \ {loop.serving}) <= events

(* The types hold, with only open transactions that have a timer, and each *)
(* transaction is on its way to an end.                                    *)
TransactionsSound == TypeOK /\ NoRetransmissionForgotten

(* A process that waits in coap_blocking_request waits for something: the  *)
(* transaction of its request is open, or it has been polled.              *)
NoClientStranded ==
  \A c \in Client : want[c] # 0 =>
    \/ c \in polled
    \/ \E t \in Open : slot[t].packet.mid = want[c] /\ slot[t].callback = c

(* The types hold, and each request is on its way to an end.               *)
ClientsSound == TypeOK /\ NoClientStranded

(* What a client takes for the response answers the message it waits for,  *)
(* not an earlier one or one of another client, although blocks and the    *)
(* callbacks in them are used again and anybody may send with any ID.  The *)
(* only way to a wrong one is the callback that coap_new_transaction does  *)
(* not initialize, in the transaction of a message of the node itself.     *)
OwnResponse ==
  \A c \in Client : want[c] # 0 /\ c \in polled /\ response[c] # NULL
    => response[c].mid = want[c] \/ c \in misled

(* A block that a client has asked for reaches its request_callback,       *)
(* whatever others leave in the variables that all clients share.  A       *)
(* response without block option does so, once, unless another client has  *)
(* received a block since the request began.                               *)
Spared(c) == LastBlock[c] = NULL /\ c \notin disturbed

HandedOver ==
  [][\A c \in Client : LET r == response[c] IN
       (/\ want[c] # 0 /\ c \in polled /\ c \notin polled'
        /\ r # NULL /\ r.mid = want[c] /\ (r.num = NULL => Spared(c)))
         => /\ block_num'[c] = block_num[c] + 1
            /\ r.num = NULL => want'[c] = 0]_vars

(* Nobody observes a resource twice, so nobody is notified twice.          *)
ObservedOnce ==
  \A i, j \in DOMAIN observers :
    /\ observers[i].peer = observers[j].peer /\ observers[i].uri = observers[j].uri
    => i = j

(* Every request ends, with a response or a timeout, when no more requests *)
(* begin: one that does sets back the count of errors of all the others.   *)
RequestEnds ==
  <>[][~\E c \in Client : StartRequest(c)]_vars
    => \A c \in Client : []<>(want[c] = 0)
==============================================================================
