---------------------------- MODULE ProcessKernel ----------------------------
(***************************************************************************)
(* The Contiki process kernel (core/sys/process.c): the linked list of     *)
(* running processes, the state of each, the event queue, the poll flags   *)
(* and the C call stack on which protothreads call the kernel and the      *)
(* kernel calls protothreads.                                              *)
(*                                                                         *)
(* Everything runs on one stack.  The model keeps that stack as a sequence *)
(* of frames, innermost first: each frame is a kernel function that waits  *)
(* for a call to return, at a named control point, or a protothread.  The  *)
(* protothreads are the environment: while one is on top it may make any   *)
(* kernel call of Calls, in any order, and then return.  An interrupt      *)
(* handler may call process_poll between any two steps.                    *)
(*                                                                         *)
(* The queue is a bounded FIFO sequence, which EventQueue shows the array  *)
(* to implement.  The data of an event is left out, except for             *)
(* PROCESS_EVENT_EXITED, whose data is the process that exits: that is     *)
(* read off the stack.                                                     *)
(***************************************************************************)
EXTENDS Naturals, Sequences, FiniteSets

CONSTANTS
  Proc,         \* The process structures.
  NULL,         \* The null pointer, also PROCESS_NONE and PROCESS_BROADCAST.
  NUMEVENTS,    \* PROCESS_CONF_NUMEVENTS.
  PostedEvents, \* The events protothreads post, a subset of Ev.
  Calls,        \* Which kernel functions the protothreads of this system call.
  Interrupting, \* The processes that an interrupt handler polls.
  ExitActive,   \* Whether process_exit is called for a process on the stack.
  MaxDepth      \* Bound: a protothread deeper than this makes no nested call.

Ev == {"INIT", "EXIT", "EXITED", "POLL", "USER"}

ASSUME KernelAssumption ==
  /\ NULL \notin Proc
  /\ NUMEVENTS \in Nat \ {0}
  /\ PostedEvents \subseteq Ev
  /\ Calls \subseteq {"post", "synch", "start", "exit", "poll", "context",
                        "end"}
  /\ Interrupting \subseteq Proc
  /\ ExitActive \in BOOLEAN
  /\ MaxDepth \in Nat

Ref == Proc \union {NULL}

(* The frames on top of which code of a process executes: called by        *)
(* call_process, called by exit_process with PROCESS_EVENT_EXIT, and code  *)
(* between PROCESS_CONTEXT_BEGIN and PROCESS_CONTEXT_END.                  *)
Running == {"thread", "last", "context"}

(* The loops of exit_process and of do_poll, and that of a broadcast: about *)
(* to look at the first process, or at the one after frame.p.              *)
ExitLoop == {"exit.first", "exit.next"}
PollLoop == {"poll.first", "poll.next"}
EventLoop == {"event.first", "event.next"}
ExitFrames == ExitLoop \union {"exit.unlink"}

At == {"run", "event.polled", "synch"}
        \union Running \union ExitFrames \union PollLoop \union EventLoop

(* A stack frame: where it stands, its process (of a loop: the cursor), the *)
(* event, the process that exits and the second argument of exit_process,  *)
(* and the process_current it restores.                                    *)
Frame == [at : At, p : Ref, ev : Ev, who : Ref, from : Ref, old : Ref]

VARIABLES
  process_list, next,          \* The list: its head, and p->next.
  state,                       \* p->state.
  needspoll, poll_requested,   \* p->needspoll and the global flag.
  process_current,
  events,                      \* The queue: records of an event and receiver.
  stack,                       \* The C call stack, innermost frame first.
  booted,                      \* Whether main() has entered its loop.
  \* History variables, which no step of the program reads:
  asked,     \* asked[p]: a poll was accepted for p and is not yet served.
  owed,      \* The processes the current broadcast has still to reach.
  served,    \* The processes it has reached since a process was started.
  uninformed \* uninformed[p]: who has not been called with p's EXITED.

list == <<process_list, next>>
polls == <<needspoll, poll_requested, asked>>
delivery == <<owed, served>>
history == <<owed, served, uninformed>>
vars == <<process_list, next, state, needspoll, poll_requested,
          process_current, events, stack, booted, asked, owed, served,
          uninformed>>

TypeOK ==
  /\ process_list \in Ref
  /\ next \in [Proc -> Ref]
  /\ state \in [Proc -> {"NONE", "RUNNING", "CALLED"}]
  /\ needspoll \in [Proc -> BOOLEAN]
  /\ poll_requested \in BOOLEAN
  /\ process_current \in Ref
  /\ events \in Seq([ev : PostedEvents, p : Ref])
  /\ Len(events) <= NUMEVENTS
  /\ stack \in Seq(Frame)
  /\ booted \in BOOLEAN
  /\ asked \in [Proc -> BOOLEAN]
  /\ owed \in SUBSET Proc
  /\ served \in SUBSET Proc
  /\ uninformed \in [Proc -> SUBSET Proc]

------------------------------------------------------------------------------
(* The processes a walk from c meets: the least set closed under next.     *)
Reachable(c) ==
  {p \in Proc : \A S \in SUBSET Proc :
     (/\ c # NULL => c \in S
      /\ \A q \in S : next[q] # NULL => next[q] \in S) => p \in S}

Listed == Reachable(process_list)

OnList_HeadOnly(p) == p = process_list         \* Fault: no search.
OnList(p) == p \in Listed

Top == Head(stack)
TopAt(at) == stack # <<>> /\ Top.at \in at
Below == Tail(stack)
Call(at, p, ev) == [at |-> at, p |-> p, ev |-> ev,
                    who |-> NULL, from |-> NULL, old |-> NULL]
Moved(at, p) == <<[Top EXCEPT !.at = at, !.p = p]>> \o Below

(* p = p->next is evaluated after the call for p has returned. *)
Cursor == IF Top.at \in {"exit.next", "poll.next", "event.next"}
            THEN next[Top.p] ELSE Top.p

OnStack(at) ==
  {p \in Proc : \E i \in DOMAIN stack : stack[i].at \in at /\ stack[i].p = p}
Executing == OnStack({"thread", "last"})
Exiting ==
  {p \in Proc : \E i \in DOMAIN stack :
     stack[i].at \in ExitFrames /\ stack[i].who = p}

------------------------------------------------------------------------------
(* The test of call_process; the fault also calls a process that is in the *)
(* middle of a call.                                                       *)
Callable_WhenCalled(p, st) == st[p] # "NONE"
Callable(p, st) == st[p] = "RUNNING"

(* call_process, called with the frames base below it and the states st:   *)
(* it calls the protothread of a process in state RUNNING, or returns.     *)
CallProcess(p, ev, st, base) ==
  \/ /\ Callable(p, st)
     /\ process_current' = p
     /\ state' = [st EXCEPT ![p] = "CALLED"]
     /\ stack' = <<Call("thread", p, ev)>> \o base
  \/ /\ ~Callable(p, st)
     /\ state' = st
     /\ stack' = base
     /\ UNCHANGED process_current

(* exit_process up to its first call, with the frames base below it: the   *)
(* process is not on the list, is running, or is exiting already.          *)
ExitProcess(p, from, base) ==
  LET frame(at) == [Call(at, process_list, "EXITED") EXCEPT
                      !.who = p, !.from = from, !.old = process_current]
      others == {q \in Listed : state[q] # "NONE"} \ {p}
  IN  /\ \/ /\ ~OnList(p)
            /\ stack' = base
            /\ UNCHANGED <<state, asked, owed, uninformed>>
         \/ /\ OnList(p) /\ state[p] # "NONE"
            /\ stack' = <<frame("exit.first")>> \o base
            /\ state' = [state EXCEPT ![p] = "NONE"]
            /\ asked' = [asked EXCEPT ![p] = FALSE]
            /\ owed' = owed \ {p}
            /\ uninformed' = [q \in Proc |-> IF q = p THEN others
                                             ELSE uninformed[q] \ {p}]
         \/ /\ OnList(p) /\ state[p] = "NONE"
            /\ stack' = <<frame("exit.unlink")>> \o base
            /\ UNCHANGED <<state, asked, owed, uninformed>>
      /\ UNCHANGED <<list, needspoll, poll_requested, process_current, events,
                     booted, served>>

(* The loop that informs the others; then the process itself, unless it is *)
(* the one that asked for the exit.                                        *)
ExitInform ==
  /\ TopAt(ExitLoop)
  /\ LET q == Cursor
         p == Top.who
     IN  \/ /\ q \notin {NULL, p}
            /\ CallProcess(q, "EXITED", state, Moved("exit.next", q))
            /\ uninformed' =
                 [uninformed EXCEPT ![p] = @ \ {r \in {q} : Callable(r, state)}]
         \/ /\ q = p
            /\ stack' = Moved("exit.next", q)
            /\ UNCHANGED <<state, process_current, uninformed>>
         \/ /\ q = NULL /\ p # Top.from
            /\ process_current' = p
            /\ stack' = <<Call("last", p, "EXIT")>> \o Moved("exit.unlink", q)
            /\ UNCHANGED <<state, uninformed>>
         \/ /\ q = NULL /\ p = Top.from
            /\ stack' = Moved("exit.unlink", q)
            /\ UNCHANGED <<state, process_current, uninformed>>
  /\ UNCHANGED <<list, polls, events, booted, delivery>>

Unlink_Clears(p) ==       \* Fault: clears p->next, as list_remove() does.
  /\ process_list' = IF p = process_list THEN next[p] ELSE process_list
  /\ next' = [q \in Proc |-> IF q = p THEN NULL
                ELSE IF q \in Listed /\ next[q] = p THEN next[p] ELSE next[q]]

Unlink_NotHead(p) ==      \* Fault: the first element has no predecessor.
  /\ next' = [q \in Proc |-> IF q \in Listed /\ next[q] = p
                               THEN next[p] ELSE next[q]]
  /\ UNCHANGED process_list

(* The process leaves the list; its own next pointer stays.  At most one   *)
(* element of the list points to it (ListSound).                           *)
Unlink(p) ==
  \/ /\ p = process_list
     /\ process_list' = next[p]
     /\ UNCHANGED next
  \/ /\ p # process_list
     /\ next' = [q \in Proc |-> IF q \in Listed /\ next[q] = p
                                  THEN next[p] ELSE next[q]]
     /\ UNCHANGED process_list

Saved_Forgotten == process_current             \* Fault: nothing is restored.
Saved == Top.old

ExitUnlink ==
  /\ TopAt({"exit.unlink"})
  /\ Unlink(Top.who)
  /\ process_current' = Saved
  /\ stack' = Below
  /\ uninformed' = [uninformed EXCEPT ![Top.who] = {}]
  /\ UNCHANGED <<state, polls, events, booted, delivery>>

------------------------------------------------------------------------------
(* process_run and what it calls.  The test of poll_requested and the call *)
(* of do_poll, which clears it: an interrupt between the two changes       *)
(* nothing.                                                                *)
PollFirst(base) ==
  /\ poll_requested
  /\ poll_requested' = FALSE
  /\ stack' = <<Call("poll.first", process_list, "POLL")>> \o base

ProcessRun ==
  /\ booted /\ stack = <<>>
  /\ LET base == <<Call("run", NULL, "USER")>>
     IN  \/ PollFirst(base)
         \/ /\ ~poll_requested
            /\ stack' = base
            /\ UNCHANGED poll_requested
  /\ UNCHANGED <<list, state, needspoll, asked, process_current, events,
                 booted, history>>

FlagAfter_Cleared(flag) == flag /\ Cursor # NULL   \* Fault: cleared at the end.
FlagAfter(flag) == flag

(* The loop of do_poll. *)
DoPoll ==
  /\ TopAt(PollLoop)
  /\ LET p == Cursor
     IN  \/ /\ p # NULL /\ needspoll[p]
            /\ needspoll' = [needspoll EXCEPT ![p] = FALSE]
            /\ asked' = [asked EXCEPT ![p] = FALSE]
            /\ CallProcess(p, "POLL", [state EXCEPT ![p] = "RUNNING"],
                           Moved("poll.next", p))
         \/ /\ \/ p # NULL /\ ~needspoll[p] /\ stack' = Moved("poll.next", p)
               \/ p = NULL /\ stack' = Below
            /\ UNCHANGED <<needspoll, asked, state, process_current>>
  /\ poll_requested' = FlagAfter(poll_requested)
  /\ UNCHANGED <<list, events, booted, history>>

Rest_UnlessGone ==        \* Fault: an event for an exited process stays.
  IF Head(events).p # NULL /\ state[Head(events).p] = "NONE"
    THEN events ELSE Tail(events)
Rest == Tail(events)

(* do_event: nothing to do, an event for everyone, an event for one. *)
DoEvent ==
  /\ TopAt({"run"})
  /\ \/ /\ events = <<>>
        /\ stack' = Below
        /\ UNCHANGED <<state, process_current, events, delivery>>
     \/ /\ events # <<>>
        /\ events' = Rest
        /\ LET receiver == Head(events).p
               ev == Head(events).ev
           IN  \/ /\ receiver = NULL
                  /\ stack' = <<Call("event.first", process_list, ev)>> \o Below
                  /\ owed' = Listed
                  /\ served' = {}
                  /\ UNCHANGED <<state, process_current>>
               \/ /\ receiver # NULL
                  /\ CallProcess(receiver, ev,
                                 IF ev = "INIT"
                                   THEN [state EXCEPT ![receiver] = "RUNNING"]
                                   ELSE state,
                                 Below)
                  /\ UNCHANGED delivery
  /\ UNCHANGED <<list, polls, booted, uninformed>>

AfterPolls_Again == "event.first"              \* Fault: tests the flag again.
AfterPolls == "event.polled"

AfterCall_Again == IF poll_requested THEN "event.first" ELSE "event.next"
AfterCall == "event.next"     \* The fault comes back to a process after a poll.

(* The loop of a broadcast: polls in between, or the call for the process. *)
DoEventPolls ==
  /\ TopAt(EventLoop) /\ Cursor # NULL
  /\ PollFirst(Moved(AfterPolls, Cursor))
  /\ UNCHANGED <<list, state, needspoll, asked, process_current, events,
                 booted, history>>

DoEventCall ==
  /\ \/ TopAt(EventLoop) /\ (Cursor = NULL \/ ~poll_requested)
     \/ TopAt({"event.polled"})
  /\ LET p == Cursor
     IN  \/ /\ p # NULL
            /\ CallProcess(p, Top.ev, state, Moved(AfterCall, p))
            /\ owed' = owed \ {r \in {p} : Callable(r, state)}
            /\ served' = served \union {r \in {p} : Callable(r, state)}
         \/ /\ p = NULL
            /\ stack' = Below
            /\ UNCHANGED <<state, process_current, delivery>>
  /\ UNCHANGED <<list, polls, events, booted, uninformed>>

------------------------------------------------------------------------------
(* The kernel calls.  A protothread makes one while it is on top. *)

Calling(call) == TopAt(Running) /\ call \in Calls
Nesting == Len(stack) < MaxDepth

QueueFull_OffByOne == Len(events) > NUMEVENTS
QueueFull == Len(events) = NUMEVENTS

(* process_post; with a full queue it returns PROCESS_ERR_FULL, no change. *)
Post(ev, p) ==
  /\ Calling("post")
  /\ ~QueueFull
  /\ events' = Append(events, [ev |-> ev, p |-> p])
  /\ UNCHANGED <<list, state, polls, process_current, stack, booted, history>>

(* process_post_synch: the frame restores process_current (Restore).       *)
Synch(p, ev, st) ==
  CallProcess(p, ev, st,
    <<[Call("synch", p, ev) EXCEPT !.old = process_current]>> \o stack)

PostSynch(ev, p) ==
  /\ Calling("synch") /\ Nesting
  /\ Synch(p, ev, state)
  /\ UNCHANGED <<list, polls, events, booted, history>>

(* process_start, by main() before its loop or by a protothread.  A process *)
(* that is on the list is left alone.                                      *)
Start(p) ==
  /\ \/ ~booted /\ stack = <<>>
     \/ Calling("start") /\ Nesting
  /\ ~OnList(p)
  /\ next' = [next EXCEPT ![p] = process_list]
  /\ process_list' = p
  /\ Synch(p, "INIT", [state EXCEPT ![p] = "RUNNING"])
  /\ asked' = [asked EXCEPT ![p] = FALSE]
  /\ served' = {}
  /\ UNCHANGED <<needspoll, poll_requested, events, booted, owed, uninformed>>

(* process_exit *)
Exit(p) ==
  /\ Calling("exit") /\ Nesting
  /\ ExitActive \/ p \notin Executing \union Exiting
  /\ ExitProcess(p, process_current, stack)

PollRequest_Dropped == poll_requested          \* Fault: the flag is not set.
PollRequest == TRUE

(* process_poll, by a protothread or by an interrupt handler. *)
Poll(p) ==
  /\ Calling("poll") \/ p \in Interrupting
  /\ state[p] # "NONE"
  /\ needspoll' = [needspoll EXCEPT ![p] = TRUE]
  /\ poll_requested' = PollRequest
  /\ asked' = [asked EXCEPT ![p] = TRUE]
  /\ UNCHANGED <<list, state, process_current, events, stack, booted, history>>

(* PROCESS_CONTEXT_BEGIN, by a service that runs code for another process, *)
(* such as a timer's callback.                                             *)
ContextBegin(p) ==
  /\ Calling("context") /\ Nesting
  /\ process_current' = p
  /\ stack' = <<[Call("context", p, "USER") EXCEPT !.old = process_current]>>
                \o stack
  /\ UNCHANGED <<list, state, polls, events, booted, history>>

(* The last line of process_post_synch, and PROCESS_CONTEXT_END. *)
Restore(at) ==
  /\ TopAt({at})
  /\ process_current' = Saved
  /\ stack' = Below
  /\ UNCHANGED <<list, state, polls, events, booted, history>>

SynchReturn == Restore("synch")
ContextEnd == Restore("context")

StateAfter_Kept == "CALLED"                    \* Fault: it is not set back.
StateAfter == "RUNNING"

(* A protothread waits or yields: the end of call_process. *)
Yield ==
  /\ TopAt({"thread"}) /\ Top.ev # "EXIT"
  /\ state' = [state EXCEPT ![Top.p] = StateAfter]
  /\ stack' = Below
  /\ UNCHANGED <<list, polls, process_current, events, booted, history>>

(* It ends, or it was called with PROCESS_EVENT_EXIT: call_process exits it. *)
End ==
  /\ TopAt({"thread"}) /\ (Top.ev = "EXIT" \/ "end" \in Calls)
  /\ ExitProcess(Top.p, Top.p, Below)

(* The call by exit_process returns, with whatever value. *)
LastReturn ==
  /\ TopAt({"last"})
  /\ stack' = Below
  /\ UNCHANGED <<list, state, polls, process_current, events, booted, history>>

(* main() has started its processes and enters its loop. *)
Boot ==
  /\ ~booted /\ stack = <<>>
  /\ booted' = TRUE
  /\ UNCHANGED <<list, state, polls, process_current, events, stack, history>>

------------------------------------------------------------------------------
(* process_init, with the process structures as PROCESS() defines them. *)
Init ==
  /\ process_list = NULL
  /\ next = [p \in Proc |-> NULL]
  /\ state = [p \in Proc |-> "NONE"]
  /\ needspoll = [p \in Proc |-> FALSE]
  /\ poll_requested = FALSE
  /\ process_current = NULL
  /\ events = <<>>
  /\ stack = <<>>
  /\ booted = FALSE
  /\ asked = [p \in Proc |-> FALSE]
  /\ owed = {}
  /\ served = {}
  /\ uninformed = [p \in Proc |-> {}]

(* The kernel's own code, from one call or return to the next. *)
Kernel ==
  \/ ProcessRun \/ DoPoll \/ DoEvent \/ DoEventPolls \/ DoEventCall
  \/ ExitInform \/ ExitUnlink \/ SynchReturn

(* A protothread returns to the kernel, or to the code around a context. *)
ThreadReturn == Yield \/ End \/ LastReturn \/ ContextEnd

ThreadCall ==
  \/ \E ev \in PostedEvents, p \in Ref : Post(ev, p)
  \/ \E ev \in PostedEvents, p \in Proc : PostSynch(ev, p)
  \/ \E p \in Proc : Start(p) \/ Exit(p) \/ Poll(p) \/ ContextBegin(p)

Next == Kernel \/ ThreadReturn \/ ThreadCall \/ Boot

Spec == Init /\ [][Next]_vars

(* No frame is deeper: below MaxDepth a protothread may nest one call, and *)
(* each process can still end once on the way out.                         *)
Deepest == MaxDepth + Cardinality(Proc) + 1

(* The kernel's code runs on as long as it can.  A protothread is          *)
(* cooperative: each activation, however many calls it makes, returns.     *)
(* The boot code starts finitely many processes.  Interrupts and calls     *)
(* need not happen.                                                        *)
Fairness ==
  /\ WF_vars(Kernel)
  /\ \A d \in 1 .. Deepest : SF_vars(ThreadReturn /\ Len(stack) = d)
  /\ SF_vars(Boot)

FairSpec == Spec /\ Fairness

------------------------------------------------------------------------------
(* The properties. *)

(* Whatever calls nest, return and exit processes in between, the code     *)
(* that executes finds itself in PROCESS_CURRENT(): process_post_synch and *)
(* exit_process restore it for the caller on every path.                   *)
CurrentIsRunning ==
  stack # <<>> /\ Top.at \in Running => process_current = Top.p

(* The process list never becomes circular, although processes leave it    *)
(* and enter it while loops of the kernel stand in the middle of it.       *)
ListSound == \A p \in Listed : p \notin Reachable(next[p])

(* The list and the states tell the same story: a process is on the list   *)
(* exactly while it is running or exit_process has not yet unlinked it.    *)
RunningIsListed ==
  \A p \in Proc : p \in Listed <=> (state[p] # "NONE" \/ p \in Exiting)

(* PROCESS_STATE_CALLED marks exactly the processes whose protothread is   *)
(* on the C stack below an uncompleted call_process.                       *)
CalledIsOnStack ==
  \A p \in Proc : state[p] = "CALLED" <=>
                    /\ p \in OnStack({"thread"})
                    /\ p \notin Exiting

(* A protothread keeps its local continuation in p->pt, so no second       *)
(* activation may start while one is on the stack.                         *)
NoReentry ==
  \A i, j \in DOMAIN stack :
    /\ stack[i].at \in {"thread", "last"} /\ stack[j].at \in {"thread", "last"}
    /\ stack[i].p = stack[j].p
    => i = j

(* The states of the processes and the C stack tell the same story: who is *)
(* in a call, and that nobody is in two.                                   *)
StackSound == CalledIsOnStack /\ NoReentry

(* When exit_process unlinks a process, every process that was running     *)
(* when the exit began, and has not exited itself since, has been called   *)
(* with PROCESS_EVENT_EXITED, unless its protothread is below on the stack.*)
OthersInformed ==
  TopAt({"exit.unlink"}) => uninformed[Top.who] \subseteq Executing

(* A broadcast reaches every process that is on the list when do_event     *)
(* takes the event and does not exit before its turn, whoever leaves or    *)
(* enters the list meanwhile.                                              *)
BroadcastReachesAll ==
  stack = <<>> => owed = {}

(* While no process starts, it reaches nobody twice, however many polls    *)
(* and exits interrupt it.  (A process that ends at its turn and is        *)
(* started again takes the loop back to the head of the list.)             *)
BroadcastOnce ==
  [][\A p \in Proc :
       TopAt(EventLoop \union {"event.polled"})
         /\ state[p] = "RUNNING" /\ state'[p] = "CALLED"
           => p \notin served]_vars

(* A poll that was accepted is never lost, even if it comes while do_poll  *)
(* is walking the list: the flag is still set, and either another do_poll  *)
(* has been requested or a walk in progress has yet to come to the process.*)
PollNotLost ==
  \A p \in Proc : asked[p] =>
    /\ needspoll[p]
    /\ \/ poll_requested
       \/ \E i \in DOMAIN stack :
            \/ stack[i].at = "poll.first" /\ p \in Reachable(stack[i].p)
            \/ stack[i].at = "poll.next" /\ stack[i].p # NULL
                 /\ p \in Reachable(next[stack[i].p])

(* An accepted poll is served, unless its process exits first, however     *)
(* many events, broadcasts and further polls compete with it.              *)
PollServed == \A p \in Proc : asked[p] ~> ~asked[p]

(* A full queue gets a free slot again, so that a sender that retries      *)
(* after PROCESS_ERR_FULL can succeed.                                     *)
QueueDrains == Len(events) = NUMEVENTS ~> Len(events) < NUMEVENTS

(* The main loop gets control back from process_run, also if an interrupt  *)
(* handler requests polls all the time.                                    *)
MainLoopReturns == []<>(stack = <<>>)
==============================================================================
