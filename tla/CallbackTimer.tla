---------------------------- MODULE CallbackTimer ----------------------------
(***************************************************************************)
(* Callback timers (core/sys/ctimer.c) on top of event timers: each ctimer *)
(* contains an etimer that belongs to ctimer_process, which calls the      *)
(* ctimer's function when it receives the event of that etimer.  A ctimer  *)
(* and its etimer are the same element of Timer here.                      *)
(*                                                                         *)
(* A callback runs on top of ctimer_process, so the main loop, and with it *)
(* etimer_process and the delivery of events, waits for its return, while  *)
(* the interrupt does not.  What callbacks do besides calling this module  *)
(* is left out, and so are the function and its argument.                  *)
(***************************************************************************)
EXTENDS EventTimer

CONSTANTS
  ctimer_process    \* The process the etimers belong to.

ASSUME CallbackAssumption == Proc = {ctimer_process} /\ NULL \notin Timer

VARIABLES
  initialized,
  ctimer_list,      \* The list of ctimers that will call back.
  calling,          \* The ctimer whose function runs, or NULL.
  armed,            \* History: the ctimers that were set or reset and have
                    \* neither been stopped nor called back since.
  rearmed           \* History: those of them whose event was in the queue.

cvars == <<initialized, ctimer_list, calling, armed, rearmed>>

CTypeOK ==
  /\ TypeOK
  /\ initialized \in BOOLEAN
  /\ ctimer_list \in Seq(Timer)
  /\ calling \in Timer \union {NULL}
  /\ armed \subseteq Timer /\ rearmed \subseteq armed

OnCtimerList == {ctimer_list[i] : i \in DOMAIN ctimer_list}
Queued == {events[i] : i \in DOMAIN events}
Removed(t) == RemoveFirst(ctimer_list, t)

------------------------------------------------------------------------------
(* ctimer_init, and with it the start of ctimer_process, which runs up to  *)
(* its first wait: ctimers set before are forgotten.                       *)
ctimer_init ==
  /\ ~initialized
  /\ initialized' = TRUE
  /\ ctimer_list' = <<>>
  /\ armed' = {} /\ rearmed' = {}
  /\ UNCHANGED <<vars, calling>>

(* list_add moves a ctimer that is on the list already to its end.         *)
ListAdd(t) == Append(Removed(t), t)

Add(t) ==
  /\ ctimer_list' = ListAdd(t)
  /\ armed' = armed \union {t}
  /\ rearmed' = (rearmed \ {t}) \union ({t} \intersect Queued)
  /\ UNCHANGED <<initialized, calling>>

ctimer_set(t, interval) ==
  /\ \/ initialized /\ etimer_set(t, interval, ctimer_process)
     \/ /\ ~initialized
        /\ timer' = [timer EXCEPT ![t].interval = interval]
        /\ UNCHANGED <<count, timerlist, owner, next_expiration, needspoll,
                       events, pc, left>>
  /\ Add(t)

ctimer_reset(t) ==
  /\ \/ initialized /\ etimer_reset(t, ctimer_process)
     \/ ~initialized /\ UNCHANGED vars
  /\ Add(t)

ctimer_restart(t) ==
  /\ \/ initialized /\ etimer_restart(t, ctimer_process)
     \/ ~initialized /\ UNCHANGED vars
  /\ Add(t)

ListOnStop_IfPending(t) ==     \* Fault: an expired etimer needs no stop.
  IF owner[t] = NULL THEN ctimer_list ELSE Removed(t)
ListOnStop(t) == Removed(t)

ctimer_stop(t) ==
  /\ \/ initialized /\ etimer_stop(t)
     \/ /\ ~initialized
        /\ owner' = [owner EXCEPT ![t] = NULL]
        /\ UNCHANGED <<count, timerlist, timer, next_expiration, needspoll,
                       events, pc, left>>
  /\ ctimer_list' = ListOnStop(t)
  /\ armed' = armed \ {t} /\ rearmed' = rearmed \ {t}
  /\ UNCHANGED <<initialized, calling>>

------------------------------------------------------------------------------
(* The main loop waits while a callback runs. *)
Looping == calling = NULL

(* ctimer_process receives the event of an etimer: if its ctimer is on the *)
(* list, it leaves the list and is called.                                 *)
Called(t) ==
  /\ t \in OnCtimerList
  /\ ctimer_list' = Removed(t)
  /\ calling' = t
  /\ armed' = armed \ {t} /\ rearmed' = rearmed \ {t}
  /\ UNCHANGED initialized

Receive ==
  /\ Looping /\ Deliver
  /\ LET t == Head(events)
     IN  \/ t \in Timer /\ Called(t)
         \/ t \notin OnCtimerList /\ UNCHANGED cvars

ListOnReturn_Removed == Removed(calling)       \* Fault: removes it afterwards.
ListOnReturn == ctimer_list

CallbackReturns ==
  /\ at = "idle" /\ calling # NULL
  /\ calling' = NULL
  /\ ctimer_list' = ListOnReturn
  /\ UNCHANGED <<vars, initialized, armed, rearmed>>

CInit ==
  /\ Init
  /\ initialized = FALSE
  /\ ctimer_list = <<>>
  /\ calling = NULL
  /\ armed = {} /\ rearmed = {}

(* A process or a callback calls the module; other processes post events. *)
CClients ==
  \/ \E t \in Timer, i \in Interval : ctimer_set(t, i)
  \/ \E t \in Timer : ctimer_reset(t) \/ ctimer_restart(t) \/ ctimer_stop(t)
  \/ OtherPost /\ UNCHANGED cvars

EtimerProcess == ((Looping /\ Polled) \/ Scan) /\ UNCHANGED cvars

CNext ==
  \/ (Tick \/ Update) /\ UNCHANGED cvars
  \/ EtimerProcess \/ ctimer_init \/ Receive \/ CallbackReturns \/ CClients

CSpec == CInit /\ [][CNext]_<<vars, cvars>>

(* Started functions run on, and a callback returns, however many calls it *)
(* makes.  The main loop comes round again and again (MainLoopReturns of   *)
(* ProcessKernel), and each round serves the polls and delivers an event.  *)
(* The clock and the clients need no fairness.                             *)
CFairSpec ==
  /\ CSpec
  /\ WF_<<vars, cvars>>(Update /\ UNCHANGED cvars)
  /\ WF_<<vars, cvars>>(Scan /\ UNCHANGED cvars)
  /\ SF_<<vars, cvars>>(Looping /\ Polled /\ UNCHANGED cvars)
  /\ SF_<<vars, cvars>>(Receive)
  /\ SF_<<vars, cvars>>(CallbackReturns)

------------------------------------------------------------------------------
(* The properties. *)

(* A ctimer that was set is never forgotten: it is on ctimer_list, and its *)
(* etimer is still pending or has its event in the queue, also when it is  *)
(* set by its own callback, stopped and set again, or set while its event  *)
(* is queued.                                                              *)
NoCallbackLost ==
  initialized => \A t \in armed : /\ t \in OnCtimerList
                                  /\ t \in Listed \union Queued

(* The types hold, and every ctimer that has to call back is where it can. *)
CallbacksSound == CTypeOK /\ NoCallbackLost

(* A ctimer that is not armed, because it was stopped or has called back,  *)
(* does not call back, although its event may still be in the queue.       *)
OnlyArmedCallBack ==
  [][\A t \in Timer : calling # t /\ calling' = t => t \in armed]_<<vars, cvars>>

(* No function is called before the interval of its ctimer has passed,     *)
(* unless the ctimer was set while the event of its last expiration was in *)
(* the queue: ctimer_process takes that event for the new expiration.      *)
OnlyRearmedEarly ==
  [][\A t \in Timer : calling # t /\ calling' = t
       => left[t] <= 0 \/ t \in rearmed]_<<vars, cvars>>

(* Once the others stop filling the queue and setting timers, a ctimer     *)
(* that is due calls back, also if the queue was full when it expired, and *)
(* even if the clock stands still.                                         *)
ArmedCallsBack ==
  <>[][~CClients]_<<vars, cvars>> =>
    \A t \in Timer :
      [](initialized /\ t \in armed /\ left[t] <= 0
           => <>(t \notin armed \/ left[t] > 0))
==============================================================================
