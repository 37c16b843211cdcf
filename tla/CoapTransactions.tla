-------------------------- MODULE CoapTransactions ---------------------------
(***************************************************************************)
(* The transactions and observers of a CoAP node (apps/er-coap, files      *)
(* er-coap-transactions.c and er-coap-observe.c): the two pools of memory  *)
(* blocks, the two lists, and what their functions do to them.             *)
(*                                                                         *)
(* Retransmission intervals are not represented: a timer that runs may     *)
(* expire at any time.  Only a confirmable message leaves a transaction    *)
(* open; any other one is freed by the coap_send_transaction that sends it.*)
(***************************************************************************)
EXTENDS Naturals, Sequences, FiniteSets, SequencesExt

CONSTANTS
  Peer, NULL,
  Client,        \* The processes that call coap_blocking_request.
  Mid,           \* The message IDs coap_get_mid may hand out.
  Uri,           \* Resources, as strings: sequences of characters.
  MAX_OPEN,      \* COAP_MAX_OPEN_TRANSACTIONS.
  MAX_OBSERVERS, \* COAP_MAX_OBSERVERS.
  MAX_RETRANSMIT,\* COAP_MAX_RETRANSMIT.
  REFRESH        \* COAP_OBSERVE_REFRESH_INTERVAL.

ASSUME CoapAssumption ==
  /\ MAX_OPEN \in Nat \ {0} /\ MAX_OBSERVERS \in Nat
  /\ MAX_RETRANSMIT \in Nat \ {0} /\ REFRESH \in Nat \ {0}
  /\ Mid \subseteq Nat \ {0} /\ IsFiniteSet(Mid)
  /\ Cardinality(Mid) > MAX_OPEN + MAX_OBSERVERS
  /\ Uri \subseteq Seq(STRING) /\ NULL \notin Nat \union Peer \union Client

Blocks == 1 .. MAX_OPEN

Observer == [peer : Peer, uri : Uri, last_mid : Mid \union {0},
             counter : 0 .. REFRESH - 1]

VARIABLES
  open,      \* transactions_list.
  slot,      \* What the memory blocks hold: what a freed one holds is not
             \* read, except for its callback.
  armed,     \* The blocks whose retrans_timer runs.
  events,    \* How many PROCESS_EVENT_TIMER the engine has in the queue.
  observers  \* observers_list.

tvars == <<open, slot, armed, events, observers>>

Message(mid, peer, client, block) ==
  [mid |-> mid, peer |-> peer, client |-> client, block |-> block]

Blank == [packet |-> Message(0, NULL, NULL, 0), counter |-> 0, callback |-> NULL]

Open == ToSet(open)
Expired == Open \ armed     \* etimer_expired is true of a stopped timer, too.

(* memb_alloc takes the first free block, and does not clear it.           *)
Free == Blocks \ Open
FirstFree == CHOOSE t \in Free : \A u \in Free : t <= u

(* coap_get_mid counts; it comes back to an ID that is still in use only   *)
(* after 2^16 messages.                                                    *)
InUse == {slot[t].packet.mid : t \in Open}
           \union {o.last_mid : o \in ToSet(observers)}
Fresh == CHOOSE m \in Mid \ InUse : \A n \in Mid \ InUse : m <= n

------------------------------------------------------------------------------
(* A new transaction and the confirmable message sent in it.  Nothing      *)
(* initializes its callback: `callback' is that of the request, or the one *)
(* the block still holds.                                                  *)
Confirmable(t, packet, callback) ==
  /\ open' = Append(open, t)
  /\ slot' = [slot EXCEPT ![t] = [packet |-> packet, counter |-> 0,
                                  callback |-> callback]]
  /\ armed' = armed \union {t}

(* coap_clear_transaction stops the timer (its event may be in the queue), *)
(* unlinks the transaction, if it is on the list, and frees the block.     *)
Cleared(t) == [Blank EXCEPT !.callback = slot[t].callback]

TimerOnClear_Runs(t) == armed         \* Fault: etimer_stop is forgotten.
TimerOnClear(t) == armed \ {t}

Clear(t) ==
  /\ open' = RemoveFirst(open, t)
  /\ slot' = [slot EXCEPT ![t] = Cleared(t)]
  /\ armed' = TimerOnClear(t)

(* coap_get_transaction_by_mid: the address is not compared.               *)
Matches_Peer(t, mid, peer) == slot[t].packet.peer = peer   \* Fault.
Matches(t, mid, peer) == slot[t].packet.mid = mid

ByMid(mid, peer) ==
  LET I == {i \in DOMAIN open : Matches(open[i], mid, peer)}
  IN  IF I = {} THEN NULL ELSE open[Min(I)]

------------------------------------------------------------------------------
(* The removals of observers.  coap_remove_observer clears the link, so    *)
(* that each of the loops ends at the first observer it removes.           *)
Without(I) == IF I = {} THEN observers ELSE RemoveAt(observers, Min(I))
Observing(p) == {i \in DOMAIN observers : observers[i].peer = p}

WithoutClient(p) == Without(Observing(p))
WithoutToken(p, u) == Without({i \in Observing(p) : observers[i].uri = u})
WithoutMid(p, m) == Without({i \in Observing(p) : observers[i].last_mid = m})

(* The URL of the observer is compared in its own length.                  *)
WithoutUri_Kept(p, u) == observers    \* Fault: registered twice.
WithoutUri(p, u) == Without({i \in Observing(p) : IsPrefix(observers[i].uri, u)})

(* add_observer: obs_counter is what the block was left with, and counts   *)
(* the notification that the response to the registration is.              *)
WithObserver(p, u, counter) ==
  IF Len(WithoutUri(p, u)) < MAX_OBSERVERS
  THEN Append(WithoutUri(p, u),
              [peer |-> p, uri |-> u, last_mid |-> 0, counter |-> counter])
  ELSE WithoutUri(p, u)

------------------------------------------------------------------------------
(* coap_check_transactions retransmits in all transactions whose timer is  *)
(* not running, up to the first one that has no retransmission left.       *)
(* list_remove clears the link by which the loop would go on behind it.    *)
GivesUp(t) == slot[t].counter + 1 = MAX_RETRANSMIT

TimedOut ==
  LET I == {i \in DOMAIN open : open[i] \in Expired /\ GivesUp(open[i])}
  IN  IF I = {} THEN NULL ELSE open[Min(I)]

Before(t) ==
  {u \in Open : \A i, j \in DOMAIN open : open[i] = u /\ open[j] = t => i < j}

Retransmitted ==
  IF TimedOut = NULL THEN Expired ELSE Expired \intersect Before(TimedOut)

Rearmed_Head(T) == {t \in T : t = open[1]}  \* Fault: only the oldest one.
Rearmed(T) == T

(* With a transaction that times out goes an observer of the same client.  *)
CheckTransactions ==
  /\ open' = RemoveFirst(open, TimedOut)
  /\ slot' = [t \in Blocks |->
               IF t = TimedOut THEN Cleared(t)
               ELSE IF t \in Retransmitted THEN [slot[t] EXCEPT !.counter = @ + 1]
               ELSE slot[t]]
  /\ armed' = armed \union Rearmed(Retransmitted)
  /\ observers' = IF TimedOut = NULL THEN observers
                  ELSE WithoutClient(slot[TimedOut].packet.peer)

TTypeOK ==
  /\ ToSet(open) \subseteq Blocks /\ Len(open) = Cardinality(Open)
  /\ slot \in [Blocks -> [packet : [mid : Nat, peer : Peer \union {NULL},
                                    client : Client \union {NULL}, block : Nat],
                          counter : 0 .. MAX_RETRANSMIT - 1,
                          callback : Client \union {NULL}]]
  /\ armed \subseteq Open
  /\ events \in Nat
  /\ observers \in Seq(Observer) /\ Len(observers) <= MAX_OBSERVERS
==============================================================================
