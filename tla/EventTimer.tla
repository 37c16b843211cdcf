----------------------------- MODULE EventTimer ------------------------------
(***************************************************************************)
(* Event timers (core/sys/etimer.c and timer.c) with the clock interrupt   *)
(* that drives them (cpu/msp430/f1xxx/clock.c).                            *)
(*                                                                         *)
(* Three parties share the timer list and next_expiration: the processes   *)
(* that set and stop timers, etimer_process, which posts the events of the *)
(* timers that are due when it is polled, and the clock interrupt, which   *)
(* requests that poll and may come between any two steps of the others.    *)
(* The processes and etimer_process run one after the other, never at the  *)
(* same time.                                                              *)
(*                                                                         *)
(* Times are unsigned and wrap.  On the 16-bit MSP430 next_expiration is   *)
(* written in two halves, so an interrupt may see a mixture of its old and *)
(* its new value.  The exit of a process reaches etimer_process as         *)
(* PROCESS_EVENT_EXITED, called synchronously (ProcessKernel); the event   *)
(* queue is the one of EventQueue, with the events of others as Other.     *)
(***************************************************************************)
EXTENDS Integers, Sequences, FiniteSets, SequencesExt

CONSTANTS
  Timer,        \* The etimer structures.
  Proc,         \* The processes that use them.
  NULL,         \* PROCESS_NONE.
  Other,        \* An event of the queue that is not a timer's.
  NUMEVENTS,    \* PROCESS_CONF_NUMEVENTS.
  TimeRange,    \* The number of values of clock_time_t.
  Half,         \* The range of its lower half: each half is written at once.
  Interval,     \* The intervals timers are set to.
  Adjustments,  \* The arguments of etimer_adjust.
  Untimely,     \* Whether it moves the start of a timer into the future, or
                \* its expiration to less than two ticks ahead.
  MaxLate       \* Bound: no timer is served more ticks than this after it is due.

MAX_TICKS == (TimeRange - 1) \div 2

ASSUME TimerAssumption ==
  /\ NULL \notin Proc
  /\ Other \notin Timer
  /\ NUMEVENTS \in Nat \ {0}
  /\ TimeRange \in Nat /\ Half \in Nat \ {0} /\ TimeRange % Half = 0
  /\ MaxLate \in 0 .. TimeRange - 3
  /\ Interval \subseteq 0 .. TimeRange - MaxLate - 2
  /\ Adjustments \subseteq Int /\ Untimely \in BOOLEAN

Time == 0 .. TimeRange - 1

VARIABLES
  count,            \* The clock.
  timerlist,        \* The list of pending timers, first to last.
  timer,            \* t->timer: its start and interval.
  owner,            \* t->p
  next_expiration,
  needspoll,        \* etimer_process has been asked for a poll.
  events,           \* The event queue.
  at,               \* Where the main program stands:
                    \*   "idle", or before reading the clock, before writing
                    \*   and in the middle of writing in update_time, or in
                    \*   the loop of etimer_process.
  cursor,           \* The position of that loop in the list.
  back,             \* Where update_time returns to.
  now,              \* When it was called, and then its reading of the clock.
  left              \* History: how many ticks until the timer is due.

pc == <<at, cursor, back, now>>
vars == <<count, timerlist, timer, owner, next_expiration, needspoll, events,
          at, cursor, back, now, left>>

Long == -MaxLate - 1     \* The timer was due long ago, or was never set.
Listed == {timerlist[i] : i \in DOMAIN timerlist}

TypeOK ==
  /\ count \in Time
  /\ timerlist \in Seq(Timer)
  /\ timer \in [Timer -> [start : Time, interval : Time]]
  /\ owner \in [Timer -> Proc \union {NULL}]
  /\ next_expiration \in Time
  /\ needspoll \in BOOLEAN
  /\ events \in Seq(Timer \union {Other}) /\ Len(events) <= NUMEVENTS
  /\ at \in {"idle", "read", "write", "writing", "scan"}
  /\ cursor \in 1 .. Len(timerlist) + 1
  /\ back \in {"idle", "scan"}
  /\ now \in Time
  /\ left \in [Timer -> Int] /\ \A t \in Timer : left[t] >= Long

------------------------------------------------------------------------------
(* Unsigned arithmetic, for arguments above -TimeRange.                    *)
Wrap(n) == (n + TimeRange) % TimeRange

Due(t) == timer[t].start + timer[t].interval
Distance(t, time) == Wrap(Due(t) - time)

Expired_Early(t) ==            \* Fault: <= for <.
  timer[t].interval <= Wrap(count - timer[t].start + 1)
Expired(t) == timer[t].interval < Wrap(count - timer[t].start + 1)

------------------------------------------------------------------------------
(* The clock interrupt: it counts a tick, or two if it was held up, and    *)
(* then makes the test that wakes etimer_process.  Timing assumption: at   *)
(* most one tick comes between the call of update_time and its reading of  *)
(* the clock, and one between that and its return.                         *)
WakesAt_Unsigned(time) ==      \* Fault: compares without regard to wraps.
  next_expiration < time
WakesAt(time) == Wrap(next_expiration - time - 1) > MAX_TICKS

Ticks(n) ==
  /\ \A t \in Listed : left[t] - n >= -MaxLate
  /\ at \in {"read", "write", "writing"} => count = now /\ n = 1
  /\ count' = Wrap(count + n)
  /\ left' = [t \in Timer |-> IF left[t] - n < -MaxLate THEN Long
                                                        ELSE left[t] - n]
  /\ needspoll' = (needspoll \/ (timerlist # <<>> /\ WakesAt(count')))
  /\ UNCHANGED <<timerlist, timer, owner, next_expiration, events, pc>>

Tick == Ticks(1) \/ Ticks(2)

------------------------------------------------------------------------------
(* update_time *)
Earliest ==
  IF timerlist = <<>> THEN 0
  ELSE LET d == CHOOSE d \in {Distance(t, now) : t \in Listed} :
                  \A t \in Listed : d <= Distance(t, now)
       IN  Wrap(now + d)

UpdateCall(return) ==
  at' = "read" /\ back' = return /\ now' = count

UpdateRead ==
  /\ at = "read"
  /\ now' = count
  /\ at' = "write"
  /\ UNCHANGED <<count, timerlist, timer, owner, next_expiration, needspoll,
                 events, cursor, back, left>>

(* The first half of the result is written; the compiler chooses which.    *)
UpdateWrite ==
  /\ at = "write"
  /\ LET upper(n) == n - (n % Half)
         lower(n) == n % Half
     IN  next_expiration' \in {upper(Earliest) + lower(next_expiration),
                               upper(next_expiration) + lower(Earliest)}
  /\ at' = "writing"
  /\ UNCHANGED <<count, timerlist, timer, owner, needspoll, events, cursor,
                 back, now, left>>

UpdateDone ==
  /\ at = "writing"
  /\ next_expiration' = Earliest
  /\ at' = back
  /\ UNCHANGED <<count, timerlist, timer, owner, needspoll, events, cursor,
                 back, now, left>>

------------------------------------------------------------------------------
(* etimer_process.  It is polled: do_poll clears the flag and calls it. *)
Polled ==
  /\ at = "idle" /\ needspoll
  /\ needspoll' = FALSE
  /\ at' = "scan" /\ cursor' = 1
  /\ UNCHANGED <<count, timerlist, timer, owner, next_expiration, events,
                 back, now, left>>

Room_OffByOne == Len(events) <= NUMEVENTS
Room == Len(events) < NUMEVENTS

(* The timer is due and process_post accepts its event: the scan starts     *)
(* over (goto again) when update_time returns.                             *)
ScanPost ==
  /\ at = "scan" /\ cursor <= Len(timerlist)
  /\ LET t == timerlist[cursor]
     IN  /\ Expired(t) /\ Room
         /\ events' = Append(events, t)
         /\ owner' = [owner EXCEPT ![t] = NULL]
         /\ timerlist' = RemoveAt(timerlist, cursor)
  /\ UpdateCall("scan") /\ cursor' = 1
  /\ UNCHANGED <<count, timer, next_expiration, needspoll, left>>

(* The queue is full: it will be tried again at the next poll. *)
Retry_Dropped == needspoll     \* Fault: the poll is not requested.
Retry == TRUE

OwnerOnFull_Cleared(t) == [owner EXCEPT ![t] = NULL]
OwnerOnFull(t) == owner        \* The fault clears t->p before it posts.

ScanFull ==
  /\ at = "scan" /\ cursor <= Len(timerlist)
  /\ Expired(timerlist[cursor]) /\ ~Room
  /\ needspoll' = Retry
  /\ owner' = OwnerOnFull(timerlist[cursor])
  /\ cursor' = cursor + 1
  /\ UNCHANGED <<count, timerlist, timer, next_expiration, events, at,
                 back, now, left>>

ScanNext ==
  /\ at = "scan"
  /\ IF cursor <= Len(timerlist)
       THEN ~Expired(timerlist[cursor]) /\ cursor' = cursor + 1 /\ at' = at
       ELSE cursor' = 1 /\ at' = "idle"
  /\ UNCHANGED <<count, timerlist, timer, owner, next_expiration, needspoll,
                 events, back, now, left>>

(* It is called with PROCESS_EVENT_EXITED of process p: the others stay on *)
(* the list, in their order.  Neither t->p nor next_expiration changes.    *)
Exited(p) ==
  /\ at = "idle"
  /\ LET others == {i \in DOMAIN timerlist : owner[timerlist[i]] # p}
     IN  \E place \in [1 .. Cardinality(others) -> others] :
           /\ \A i, j \in DOMAIN place : i < j => place[i] < place[j]
           /\ timerlist' = [i \in DOMAIN place |-> timerlist[place[i]]]
  /\ UNCHANGED <<count, timer, owner, next_expiration, needspoll, events, pc,
                 left>>

------------------------------------------------------------------------------
(* The interface, called by process p.  timer_set and its kin come first:  *)
(* a tick before the rest changes nothing the rest would not.              *)

AddTimer(t, p) ==
  /\ at = "idle"
  /\ needspoll' = TRUE
  /\ timerlist' = IF owner[t] # NULL /\ t \in Listed
                    THEN timerlist ELSE <<t>> \o timerlist
  /\ owner' = [owner EXCEPT ![t] = p]
  /\ UpdateCall("idle")
  /\ UNCHANGED <<count, next_expiration, events, cursor>>

Timing(t, start, interval, ticks) ==
  /\ timer' = [timer EXCEPT ![t] = [start |-> start, interval |-> interval]]
  /\ left' = [left EXCEPT ![t] = ticks]

etimer_set(t, interval, p) ==
  /\ Timing(t, count, interval, interval)
  /\ AddTimer(t, p)

(* timer.c: it must not be executed before the timer expired. *)
etimer_reset_with_new_interval(t, interval, p) ==
  /\ left[t] \in -MaxLate .. 0
  /\ Timing(t, Wrap(Due(t)), interval, left[t] + interval)
  /\ AddTimer(t, p)

etimer_reset(t, p) ==
  etimer_reset_with_new_interval(t, timer[t].interval, p)

(* It must have been set before, unless its interval is meant to be 0. *)
etimer_restart(t, p) ==
  /\ timer[t].interval \in Interval
  /\ Timing(t, count, timer[t].interval, timer[t].interval)
  /\ AddTimer(t, p)

etimer_adjust(t, diff) ==
  /\ at = "idle" /\ t \in Listed
  /\ left[t] + diff \in -MaxLate .. TimeRange - MaxLate - 2
  /\ Untimely \/ left[t] + diff \in 2 .. timer[t].interval
  /\ Timing(t, Wrap(timer[t].start + diff), timer[t].interval, left[t] + diff)
  /\ UpdateCall("idle")
  /\ UNCHANGED <<count, timerlist, owner, next_expiration, needspoll, events,
                 cursor>>

etimer_stop(t) ==
  /\ at = "idle"
  /\ \/ t \in Listed /\ UpdateCall("idle")
     \/ t \notin Listed /\ UNCHANGED <<at, back, now>>
  /\ timerlist' = RemoveFirst(timerlist, t)
  /\ owner' = [owner EXCEPT ![t] = NULL]
  /\ UNCHANGED <<count, timer, next_expiration, needspoll, events, cursor, left>>

------------------------------------------------------------------------------
(* The kernel delivers the oldest event, and others post theirs. *)
Deliver ==
  /\ at = "idle" /\ events # <<>>
  /\ events' = Tail(events)
  /\ UNCHANGED <<count, timerlist, timer, owner, next_expiration, needspoll,
                 pc, left>>

OtherPost ==
  /\ at = "idle" /\ Room
  /\ events' = Append(events, Other)
  /\ UNCHANGED <<count, timerlist, timer, owner, next_expiration, needspoll,
                 pc, left>>

Init ==
  /\ count = 0
  /\ timerlist = <<>>
  /\ timer = [t \in Timer |-> [start |-> 0, interval |-> 0]]
  /\ owner = [t \in Timer |-> NULL]
  /\ next_expiration = 0
  /\ needspoll = FALSE
  /\ events = <<>>
  /\ at = "idle" /\ cursor = 1 /\ back = "idle" /\ now = 0
  /\ left = [t \in Timer |-> Long]

Scan == ScanPost \/ ScanFull \/ ScanNext
Update == UpdateRead \/ UpdateWrite \/ UpdateDone

Call(t, p) ==
  \/ \E i \in Interval : \/ etimer_set(t, i, p)
                         \/ etimer_reset_with_new_interval(t, i, p)
  \/ etimer_reset(t, p) \/ etimer_restart(t, p)

Clients ==
  \/ OtherPost
  \/ \E t \in Timer, p \in Proc : Call(t, p)
  \/ \E t \in Timer, d \in Adjustments : etimer_adjust(t, d)
  \/ \E t \in Timer : etimer_stop(t)
  \/ \E p \in Proc : Exited(p)

Next == Tick \/ Update \/ Polled \/ Scan \/ Deliver \/ Clients

Spec == Init /\ [][Next]_vars

------------------------------------------------------------------------------
(* The properties. *)

(* However often a timer is set again, stopped, left behind by a process   *)
(* that exits or refused by a full queue, it is on the list at most once:  *)
(* a second insertion would close the list to a cycle.                     *)
ListedOnce ==
  \A i, j \in DOMAIN timerlist : timerlist[i] = timerlist[j] => i = j

(* The state is well formed: the types, and the list is one.               *)
TimersSound == TypeOK /\ ListedOnce

(* No event is posted for a timer before its time has come, across the     *)
(* wrap of the clock and however ticks interleave with the scan.           *)
NeverEarly ==
  [][\A t \in Timer :
       Len(events') > Len(events) /\ events'[Len(events')] = t
         => t \in Listed /\ left[t] <= 0]_vars

(* A pending timer that is overdue while the main program is in its loop    *)
(* has a poll of etimer_process coming: neither a tick in the middle of    *)
(* update_time nor a half-written next_expiration nor a full queue makes   *)
(* the interrupt and the process both believe the other takes care of it.  *)
NoTimerOverlooked ==
  at = "idle" => \A t \in Listed : left[t] < 0 => needspoll
==============================================================================
