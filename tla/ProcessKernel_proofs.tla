------------------------ MODULE ProcessKernel_proofs -------------------------
(***************************************************************************)
(* For any number of processes, any queue length, any nesting of calls and *)
(* any use of the kernel's functions: the variables keep their types,      *)
(* PROCESS_CURRENT() is the process that executes, and the list of         *)
(* processes is a list.  If no process on the stack is exited, list,       *)
(* states and stack agree, and no poll, broadcast or notification of an    *)
(* exit is lost.                                                           *)
(*                                                                         *)
(* The invariants speak about the whole stack.  Code of a process that has *)
(* called the kernel lies below a frame that saved process_current, and    *)
(* what it saved is that process.  Each frame of exit_process has its      *)
(* process on the list or past it, and what a loop still has to visit      *)
(* follows its cursor.                                                     *)
(***************************************************************************)
EXTENDS ProcessKernel, SequenceTheorems, TLAPS

States == {"NONE", "RUNNING", "CALLED"}

(* A cursor that has visited a process, a protothread and the process that *)
(* exits are never null.                                                   *)
GoodFrame ==
  {f \in Frame :
     /\ f.at \in {"exit.next", "poll.next", "event.next", "thread", "last"}
          => f.p \in Proc
     /\ f.at \in ExitFrames => f.who \in Proc}

(* The frames that restore process_current when they return. *)
Saving == ExitFrames \union {"synch", "context"}

Chained(s) ==
  \A i \in 1 .. Len(s) - 1 :
    s[i + 1].at \in Running => s[i].at \in Saving /\ s[i].old = s[i + 1].p

StackOK(s, current) ==
  /\ s \in Seq(GoodFrame)
  /\ Chained(s)
  /\ s # <<>> /\ Head(s).at \in Running => current = Head(s).p

IInv == TypeOK /\ StackOK(stack, process_current)

------------------------------------------------------------------------------
(* Sequences that grow and shrink at the front. *)

LEMMA ConsProperties ==
  ASSUME NEW S, NEW s \in Seq(S), NEW e \in S
  PROVE  /\ <<e>> \o s \in Seq(S)
         /\ <<e>> \o s # <<>>
         /\ Len(<<e>> \o s) = Len(s) + 1
         /\ Head(<<e>> \o s) = e
         /\ (<<e>> \o s)[1] = e
         /\ \A i \in 1 .. Len(s) : (<<e>> \o s)[i + 1] = s[i]
<1>1. <<e>> \in Seq(S) /\ Len(<<e>>) = 1 /\ <<e>>[1] = e
  OBVIOUS
<1> QED
  BY <1>1, ConcatProperties

LEMMA RestProperties ==
  ASSUME NEW S, NEW s \in Seq(S), s # <<>>
  PROVE  /\ Head(s) \in S /\ Head(s) = s[1] /\ Len(s) \in Nat /\ Len(s) > 0
         /\ Tail(s) \in Seq(S)
         /\ Len(Tail(s)) = Len(s) - 1
         /\ \A i \in 1 .. Len(s) - 1 : Tail(s)[i] = s[i + 1]
BY HeadTailProperties

LEMMA PushOK ==
  ASSUME NEW s, NEW c, NEW d, NEW f \in GoodFrame,
         StackOK(s, c),
         s # <<>> /\ Head(s).at \in Running
           => f.at \in Saving /\ f.old = Head(s).p,
         f.at \in Running => d = f.p
  PROVE  StackOK(<<f>> \o s, d)
<1> DEFINE t == <<f>> \o s
<1>1. /\ t \in Seq(GoodFrame) /\ Len(t) = Len(s) + 1 /\ Head(t) = f /\ t[1] = f
      /\ \A i \in 1 .. Len(s) : t[i + 1] = s[i]
  BY ConsProperties DEF StackOK
<1>2. Chained(t)
  <2> SUFFICES ASSUME NEW i \in 1 .. Len(t) - 1, t[i + 1].at \in Running
               PROVE  t[i].at \in Saving /\ t[i].old = t[i + 1].p
    BY DEF Chained
  <2>0. Len(s) \in Nat /\ i \in 1 .. Len(s)
    BY <1>1, LenProperties DEF StackOK
  <2>1. CASE i = 1
    <3>1. s # <<>> /\ Head(s) = s[1]
      BY <2>0, <2>1 DEF StackOK
    <3> QED
      BY <1>1, <2>0, <2>1, <3>1
  <2>2. CASE i # 1
    <3>1. i - 1 \in 1 .. Len(s) - 1 /\ (i - 1) + 1 = i
      BY <2>0, <2>2
    <3>2. t[i] = s[i - 1] /\ t[i + 1] = s[i]
      BY <1>1, <2>0, <3>1
    <3> QED
      BY <3>1, <3>2 DEF StackOK, Chained
  <2> QED
    BY <2>1, <2>2
<1> QED
  BY <1>1, <1>2 DEF StackOK

LEMMA PopOK ==
  ASSUME NEW s, NEW c, NEW d,
         StackOK(s, c), s # <<>>,
         Head(s).at \in Saving => d = Head(s).old
  PROVE  StackOK(Tail(s), d)
<1>1. /\ Head(s) = s[1] /\ Len(s) \in Nat
      /\ Tail(s) \in Seq(GoodFrame) /\ Len(Tail(s)) = Len(s) - 1
      /\ \A i \in 1 .. Len(s) - 1 : Tail(s)[i] = s[i + 1]
  BY RestProperties DEF StackOK
<1>2. Chained(Tail(s))
  <2> SUFFICES ASSUME NEW i \in 1 .. Len(Tail(s)) - 1
               PROVE  Tail(s)[i + 1].at \in Running
                        => /\ Tail(s)[i].at \in Saving
                           /\ Tail(s)[i].old = Tail(s)[i + 1].p
    BY DEF Chained
  <2>1. /\ i + 1 \in 1 .. Len(s) - 1
        /\ Tail(s)[i] = s[i + 1] /\ Tail(s)[i + 1] = s[(i + 1) + 1]
    BY <1>1
  <2> QED
    BY <2>1 DEF StackOK, Chained
<1>3. ASSUME Tail(s) # <<>>, Head(Tail(s)).at \in Running
      PROVE  d = Head(Tail(s)).p
  <2>1. Head(Tail(s)) = s[2] /\ 1 \in 1 .. Len(s) - 1
    BY <1>1, <1>3, RestProperties
  <2>2. s[1 + 1].at \in Running => s[1].at \in Saving /\ s[1].old = s[1 + 1].p
    BY <2>1 DEF StackOK, Chained
  <2> QED
    BY <1>1, <1>3, <2>1, <2>2
<1> QED
  BY <1>1, <1>2, <1>3 DEF StackOK

(* What lies below a frame that saves nothing is kernel code. *)
LEMMA KernelBelow ==
  ASSUME NEW s, NEW c, StackOK(s, c), s # <<>>, Tail(s) # <<>>,
         Head(Tail(s)).at \in Running
  PROVE  Head(s).at \in Saving /\ Head(s).old = Head(Tail(s)).p
<1>1. Head(Tail(s)) = s[2] /\ Head(s) = s[1] /\ 1 \in 1 .. Len(s) - 1
  BY RestProperties DEF StackOK
<1>2. s[1 + 1].at \in Running => s[1].at \in Saving /\ s[1].old = s[1 + 1].p
  BY <1>1 DEF StackOK, Chained
<1> QED
  BY <1>1, <1>2

(* A loop moves its cursor, or a frame its control point. *)
LEMMA ReplaceOK ==
  ASSUME NEW s, NEW c, NEW d, NEW f \in GoodFrame,
         StackOK(s, c), s # <<>>,
         f.old = Head(s).old,
         Head(s).at \in Saving => f.at \in Saving,
         f.at \notin Running
  PROVE  StackOK(<<f>> \o Tail(s), d)
<1>1. StackOK(Tail(s), Head(s).old)
  BY PopOK
<1>2. Tail(s) # <<>> /\ Head(Tail(s)).at \in Running
        => f.at \in Saving /\ f.old = Head(Tail(s)).p
  BY KernelBelow
<1> QED
  BY <1>1, <1>2, PushOK

------------------------------------------------------------------------------
(* What the shared operators do to the stack. *)

LEMMA CallFrame ==
  ASSUME NEW at \in {"thread", "last", "run", "poll.first", "event.first"},
         NEW p \in Ref, NEW ev \in Ev,
         at \in {"thread", "last"} => p \in Proc
  PROVE  Call(at, p, ev) \in GoodFrame /\ Call(at, p, ev).at = at
         /\ Call(at, p, ev).p = p
BY DEF Call, GoodFrame, Frame, At, Running, ExitFrames, ExitLoop, PollLoop,
       EventLoop, Ref

LEMMA SavingFrame ==
  ASSUME NEW at \in {"context", "synch"}, NEW p \in Ref, NEW ev \in Ev,
         NEW old \in Ref
  PROVE  LET f == [Call(at, p, ev) EXCEPT !.old = old]
         IN  f \in GoodFrame /\ f.at = at /\ f.p = p /\ f.old = old
BY DEF Call, GoodFrame, Frame, At, Running, ExitFrames, ExitLoop, PollLoop,
       EventLoop, Ref

LEMMA TopFrame ==
  ASSUME NEW c, StackOK(stack, c), stack # <<>>
  PROVE  Top \in GoodFrame /\ Top \in Frame
BY RestProperties DEF StackOK, Top, GoodFrame

(* The cursor of a loop, or the process it stands at. *)
LEMMA CursorType == IInv /\ stack # <<>> => Cursor \in Ref
BY TopFrame DEF IInv, TypeOK, Cursor, GoodFrame, Frame, Ref

LEMMA MovedOK ==
  ASSUME IInv, stack # <<>>, NEW at \in At \ Running, NEW p \in Ref, NEW d,
         at \in {"exit.next", "poll.next", "event.next"} => p \in Proc,
         at \in ExitFrames <=> Top.at \in ExitFrames,
         Top.at \notin {"synch", "context"}
  PROVE  /\ StackOK(Moved(at, p), d)
         /\ Moved(at, p) # <<>>
         /\ Head(Moved(at, p)).at = at
<1> DEFINE f == [Top EXCEPT !.at = at, !.p = p]
<1>1. Top \in GoodFrame
  BY TopFrame DEF IInv
<1>2. f \in GoodFrame /\ f.at = at /\ f.old = Top.old
  BY <1>1 DEF GoodFrame, Frame, Running
<1>3. StackOK(stack, process_current) /\ stack \in Seq(GoodFrame)
  BY DEF IInv, StackOK
<1>4. StackOK(<<f>> \o Tail(stack), d)
  BY <1>2, <1>3, ReplaceOK DEF Top, Saving
<1>5. Tail(stack) \in Seq(GoodFrame)
  BY <1>3, RestProperties
<1>6. <<f>> \o Tail(stack) # <<>> /\ Head(<<f>> \o Tail(stack)) = f
  BY <1>2, <1>5, ConsProperties
<1> QED
  BY <1>2, <1>4, <1>6 DEF Moved, Below

LEMMA CallProcessOK ==
  ASSUME NEW p \in Proc, NEW ev \in Ev, NEW st \in [Proc -> States],
         NEW base, NEW c,
         StackOK(base, c), base = <<>> \/ Head(base).at \notin Running,
         process_current \in Ref,
         CallProcess(p, ev, st, base)
  PROVE  /\ StackOK(stack', process_current')
         /\ state' \in [Proc -> States]
         /\ process_current' \in Ref
<1>1. CASE Callable(p, st)
  <2>1. /\ process_current' = p
        /\ state' = [st EXCEPT ![p] = "CALLED"]
        /\ stack' = <<Call("thread", p, ev)>> \o base
    BY <1>1 DEF CallProcess
  <2>2. Call("thread", p, ev) \in GoodFrame /\ Call("thread", p, ev).p = p
    BY CallFrame DEF Ref
  <2>3. StackOK(<<Call("thread", p, ev)>> \o base, p)
    BY <2>2, PushOK
  <2> QED
    BY <2>1, <2>3 DEF States, Ref
<1>2. CASE ~Callable(p, st)
  <2>1. state' = st /\ stack' = base /\ process_current' = process_current
    BY <1>2 DEF CallProcess
  <2>2. StackOK(base, process_current)
    BY DEF StackOK
  <2> QED
    BY <2>1, <2>2
<1> QED
  BY <1>1, <1>2

LEMMA ExitProcessOK ==
  ASSUME NEW p \in Proc, NEW from \in Ref, NEW base,
         TypeOK, StackOK(base, process_current),
         ExitProcess(p, from, base)
  PROVE  IInv'
<1> DEFINE frame(at) == [Call(at, process_list, "EXITED") EXCEPT
                           !.who = p, !.from = from, !.old = process_current]
<1>1. ASSUME NEW at \in {"exit.first", "exit.unlink"}
      PROVE  StackOK(<<frame(at)>> \o base, process_current)
  <2>1. /\ frame(at) \in GoodFrame /\ frame(at).at = at
        /\ frame(at).old = process_current
    BY DEF TypeOK, Call, GoodFrame, Frame, At, Running, ExitFrames, ExitLoop,
           PollLoop, EventLoop, Ref, Ev
  <2>2. at \in Saving /\ at \notin Running
    BY DEF Saving, ExitFrames, ExitLoop, Running
  <2>3. base # <<>> /\ Head(base).at \in Running
          => process_current = Head(base).p
    BY DEF StackOK
  <2> QED
    BY <2>1, <2>2, <2>3, PushOK
<1>2. StackOK(stack', process_current')
  BY <1>1 DEF ExitProcess
<1>3. stack' \in Seq(Frame)
  BY <1>2 DEF StackOK, GoodFrame
<1>4. /\ state' \in [Proc -> States]
      /\ asked' \in [Proc -> BOOLEAN]
      /\ owed' \in SUBSET Proc
      /\ uninformed' \in [Proc -> SUBSET Proc]
  <2>1. Listed \in SUBSET Proc
    BY DEF Listed, Reachable
  <2> DEFINE others == {q \in Listed : state[q] # "NONE"} \ {p}
  <2>2. others \in SUBSET Proc
    BY <2>1
  <2>3. CASE OnList(p) /\ state[p] # "NONE"
    <3>1. /\ state' = [state EXCEPT ![p] = "NONE"]
          /\ asked' = [asked EXCEPT ![p] = FALSE]
          /\ owed' = owed \ {p}
          /\ uninformed' = [q \in Proc |-> IF q = p THEN others
                                           ELSE uninformed[q] \ {p}]
      BY <2>3 DEF ExitProcess
    <3> QED
      BY <2>2, <3>1 DEF TypeOK, States
  <2>4. CASE ~(OnList(p) /\ state[p] # "NONE")
    BY <2>4 DEF ExitProcess, TypeOK, States
  <2> QED
    BY <2>3, <2>4
<1>5. /\ UNCHANGED <<process_list, next, needspoll, poll_requested,
                     process_current, events, booted, served>>
  BY DEF ExitProcess, list
<1> QED
  BY <1>2, <1>3, <1>4, <1>5 DEF IInv, TypeOK, States

------------------------------------------------------------------------------
(* The invariant is inductive: one step per action. *)

LEMMA StackTyped == ASSUME StackOK(stack', process_current')
                    PROVE  stack' \in Seq(Frame)
BY DEF StackOK, GoodFrame

LEMMA NoneRunningBelow ==
  ASSUME IInv, stack # <<>>, Top.at \notin Saving
  PROVE  Below = <<>> \/ Head(Below).at \notin Running
BY KernelBelow DEF IInv, Top, Below

LEMMA BelowOK ==
  ASSUME IInv, stack # <<>>, NEW d, Top.at \in Saving => d = Top.old
  PROVE  StackOK(Below, d)
BY PopOK DEF IInv, Top, Below

LEMMA ReturnOK ==
  ASSUME IInv, stack # <<>>,
         stack' = Below, process_current' \in Ref,
         Top.at \in Saving => process_current' = Top.old
  PROVE  StackOK(stack', process_current') /\ stack' \in Seq(Frame)
BY BelowOK, StackTyped

LEMMA InitIInv == Init => IInv
<1> SUFFICES ASSUME Init PROVE IInv
  OBVIOUS
<1>1. <<>> \in Seq(Frame) /\ <<>> \in Seq(GoodFrame) /\ Len(<<>>) = 0
      /\ <<>> \in Seq([ev : PostedEvents, p : Ref])
  OBVIOUS
<1>2. StackOK(stack, process_current)
  BY <1>1 DEF Init, StackOK, Chained
<1>3. events \in Seq([ev : PostedEvents, p : Ref]) /\ Len(events) <= NUMEVENTS
  BY <1>1, KernelAssumption DEF Init
<1>4. stack \in Seq(Frame)
  BY <1>1 DEF Init
<1>5. TypeOK
  BY <1>3, <1>4 DEF Init, TypeOK, Ref
<1> QED
  BY <1>2, <1>5 DEF IInv

LEMMA StepIInv == IInv /\ [Next]_vars => IInv'
<1> SUFFICES ASSUME IInv, [Next]_vars PROVE IInv'
  OBVIOUS
<1> USE DEF States
<1>0. TypeOK /\ StackOK(stack, process_current)
  BY DEF IInv
<1>1. CASE ProcessRun
  <2> DEFINE base == <<Call("run", NULL, "USER")>>
  <2>1. StackOK(<<Call("run", NULL, "USER")>> \o <<>>, process_current)
    <3>1. StackOK(<<>>, process_current)
      BY DEF StackOK, Chained
    <3>2. NULL \in Ref /\ "USER" \in Ev
      BY DEF Ref, Ev
    <3>3. /\ Call("run", NULL, "USER") \in GoodFrame
          /\ Call("run", NULL, "USER").at = "run"
      BY <3>2, CallFrame
    <3>4. "run" \notin Running
      BY DEF Running
    <3> QED
      BY <3>1, <3>3, <3>4, PushOK
  <2>2. base = <<Call("run", NULL, "USER")>> \o <<>>
    OBVIOUS
  <2>3. StackOK(base, process_current)
    BY <2>1, <2>2
  <2>4. Head(base).at = "run"
    BY DEF Call
  <2>5. Call("poll.first", process_list, "POLL") \in GoodFrame
        /\ Call("poll.first", process_list, "POLL").at = "poll.first"
    BY <1>0, CallFrame DEF TypeOK, Ev
  <2>6. StackOK(<<Call("poll.first", process_list, "POLL")>> \o base,
                process_current)
    BY <2>3, <2>4, <2>5, PushOK DEF Running
  <2>7. StackOK(stack', process_current')
    BY <1>1, <2>3, <2>6 DEF ProcessRun, PollFirst
  <2>8. poll_requested' \in BOOLEAN
    BY <1>0, <1>1 DEF ProcessRun, PollFirst, TypeOK
  <2> QED
    BY <1>0, <1>1, <2>7, <2>8, StackTyped
       DEF ProcessRun, IInv, TypeOK, list, history
<1>2. CASE DoPoll
  <2>1. stack # <<>> /\ Top.at \in PollLoop /\ Top.at \notin Saving
        /\ Top.at \notin ExitFrames
    BY <1>2 DEF DoPoll, TopAt, Saving, PollLoop, ExitFrames, ExitLoop
  <2>2. Cursor \in Ref
    BY <2>1, CursorType
  <2>3. ASSUME Cursor # NULL, NEW d
        PROVE  StackOK(Moved("poll.next", Cursor), d)
               /\ Head(Moved("poll.next", Cursor)).at = "poll.next"
    BY <2>1, <2>2, <2>3, MovedOK
       DEF At, Running, PollLoop, Ref, ExitFrames, ExitLoop
  <2>4. /\ StackOK(stack', process_current')
        /\ state' \in [Proc -> States] /\ process_current' \in Ref
        /\ needspoll' \in [Proc -> BOOLEAN] /\ asked' \in [Proc -> BOOLEAN]
    <3>1. CASE Cursor # NULL /\ needspoll[Cursor]
      <4>1. CallProcess(Cursor, "POLL", [state EXCEPT ![Cursor] = "RUNNING"],
                        Moved("poll.next", Cursor))
            /\ needspoll' = [needspoll EXCEPT ![Cursor] = FALSE]
            /\ asked' = [asked EXCEPT ![Cursor] = FALSE]
        BY <1>2, <3>1 DEF DoPoll
      <4>2. [state EXCEPT ![Cursor] = "RUNNING"] \in [Proc -> States]
            /\ Cursor \in Proc
        BY <1>0, <2>2, <3>1 DEF TypeOK, Ref
      <4>3. StackOK(stack', process_current') /\ state' \in [Proc -> States]
            /\ process_current' \in Ref
        BY <1>0, <2>3, <3>1, <4>1, <4>2, CallProcessOK DEF TypeOK, Ev, Running
      <4> QED
        BY <1>0, <4>1, <4>3 DEF TypeOK
    <3>2. CASE Cursor # NULL /\ ~needspoll[Cursor]
      BY <1>0, <1>2, <2>3, <3>2 DEF DoPoll, TypeOK
    <3>3. CASE Cursor = NULL
      <4>1. stack' = Below
            /\ UNCHANGED <<needspoll, asked, state, process_current>>
        BY <1>2, <3>3 DEF DoPoll
      <4> QED
        BY <1>0, <2>1, <4>1, ReturnOK DEF TypeOK
    <3> QED
      BY <3>1, <3>2, <3>3
  <2> QED
    BY <1>0, <1>2, <2>4, StackTyped
       DEF DoPoll, FlagAfter, IInv, TypeOK, list, history
<1>3. CASE DoEvent
  <2>1. stack # <<>> /\ Top.at \notin Saving
    BY <1>3 DEF DoEvent, TopAt, Saving, ExitFrames, ExitLoop
  <2>2. StackOK(Below, process_current)
    BY <2>1, BelowOK
  <2>3. Below = <<>> \/ Head(Below).at \notin Running
    BY <2>1, NoneRunningBelow
  <2>4. CASE events = <<>>
    BY <1>0, <1>3, <2>2, <2>4, StackTyped
       DEF DoEvent, IInv, TypeOK, list, polls, delivery
  <2>5. CASE events # <<>>
    <3> DEFINE receiver == Head(events).p
               ev == Head(events).ev
    <3>1. /\ receiver \in Ref /\ ev \in Ev
          /\ Tail(events) \in Seq([ev : PostedEvents, p : Ref])
          /\ Len(Tail(events)) <= NUMEVENTS
      <4> DEFINE Posted == [ev : PostedEvents, p : Ref]
      <4>1. events \in Seq(Posted) /\ Len(events) <= NUMEVENTS
        BY <1>0 DEF TypeOK
      <4>2. /\ Head(events) \in Posted /\ Tail(events) \in Seq(Posted)
            /\ Len(Tail(events)) = Len(events) - 1 /\ Len(events) \in Nat
        BY <2>5, <4>1, RestProperties
      <4> QED
        BY <4>1, <4>2, KernelAssumption
    <3>2. events' = Tail(events)
      BY <1>3, <2>5 DEF DoEvent, Rest
    <3>3. CASE receiver = NULL
      <4>1. Call("event.first", process_list, ev) \in GoodFrame
            /\ Call("event.first", process_list, ev).at = "event.first"
        BY <1>0, <3>1, CallFrame DEF TypeOK
      <4>2. StackOK(<<Call("event.first", process_list, ev)>> \o Below,
                    process_current)
        BY <2>2, <2>3, <4>1, PushOK DEF Running
      <4>3. stack' = <<Call("event.first", process_list, ev)>> \o Below
            /\ owed' = Listed /\ served' = {}
            /\ UNCHANGED <<state, process_current>>
        BY <1>3, <2>5, <3>3 DEF DoEvent
      <4>4. Listed \in SUBSET Proc
        BY DEF Listed, Reachable
      <4> QED
        BY <1>0, <1>3, <3>1, <3>2, <4>2, <4>3, <4>4, StackTyped
           DEF DoEvent, IInv, TypeOK, list, polls
    <3>4. CASE receiver # NULL
      <4> DEFINE st == IF ev = "INIT" THEN [state EXCEPT ![receiver] = "RUNNING"]
                                      ELSE state
      <4>1. CallProcess(receiver, ev, st, Below) /\ UNCHANGED delivery
        BY <1>3, <2>5, <3>4 DEF DoEvent
      <4>2. receiver \in Proc /\ st \in [Proc -> States]
        BY <1>0, <3>1, <3>4 DEF TypeOK, Ref
      <4>3. StackOK(stack', process_current') /\ state' \in [Proc -> States]
            /\ process_current' \in Ref
        BY <1>0, <2>2, <2>3, <3>1, <4>1, <4>2, CallProcessOK DEF TypeOK
      <4> QED
        BY <1>0, <1>3, <3>1, <3>2, <4>1, <4>3, StackTyped
           DEF DoEvent, IInv, TypeOK, list, polls, delivery
    <3> QED
      BY <3>3, <3>4
  <2> QED
    BY <2>4, <2>5
<1>4. CASE DoEventPolls
  <2>1. stack # <<>> /\ Top.at \in EventLoop /\ Top.at \notin ExitFrames
    BY <1>4 DEF DoEventPolls, TopAt, EventLoop, ExitFrames, ExitLoop
  <2>2. Cursor \in Ref
    BY <2>1, CursorType
  <2>3. StackOK(Moved("event.polled", Cursor), process_current)
        /\ Head(Moved("event.polled", Cursor)).at = "event.polled"
    BY <2>1, <2>2, MovedOK DEF At, Running, EventLoop, ExitFrames, ExitLoop
  <2>4. Call("poll.first", process_list, "POLL") \in GoodFrame
        /\ Call("poll.first", process_list, "POLL").at = "poll.first"
    BY <1>0, CallFrame DEF TypeOK, Ev
  <2>5. StackOK(<<Call("poll.first", process_list, "POLL")>>
                  \o Moved("event.polled", Cursor), process_current)
    BY <2>3, <2>4, PushOK DEF Running
  <2>6. StackOK(stack', process_current') /\ poll_requested' = FALSE
    BY <1>4, <2>5 DEF DoEventPolls, PollFirst, AfterPolls
  <2> QED
    BY <1>0, <1>4, <2>6, StackTyped
       DEF DoEventPolls, IInv, TypeOK, list, history
<1>5. CASE DoEventCall
  <2>1. stack # <<>> /\ Top.at \in EventLoop \union {"event.polled"}
        /\ Top.at \notin Saving /\ Top.at \notin ExitFrames
    BY <1>5 DEF DoEventCall, TopAt, Saving, EventLoop, ExitFrames, ExitLoop
  <2>2. Cursor \in Ref
    BY <2>1, CursorType
  <2>3. ASSUME Cursor # NULL
        PROVE  StackOK(Moved("event.next", Cursor), process_current)
               /\ Head(Moved("event.next", Cursor)).at = "event.next"
    BY <2>1, <2>2, <2>3, MovedOK
       DEF At, Running, EventLoop, Ref, ExitFrames, ExitLoop
  <2>4. /\ StackOK(stack', process_current')
        /\ state' \in [Proc -> States] /\ process_current' \in Ref
        /\ owed' \in SUBSET Proc /\ served' \in SUBSET Proc
    <3>1. CASE Cursor # NULL
      <4>1. /\ CallProcess(Cursor, Top.ev, state, Moved("event.next", Cursor))
            /\ owed' = owed \ {r \in {Cursor} : Callable(r, state)}
            /\ served' = served \union {r \in {Cursor} : Callable(r, state)}
        BY <1>5, <3>1 DEF DoEventCall, AfterCall
      <4>2. Cursor \in Proc /\ Top.ev \in Ev
        BY <1>0, <2>1, <2>2, <3>1, TopFrame DEF Ref, Frame
      <4>3. StackOK(stack', process_current') /\ state' \in [Proc -> States]
            /\ process_current' \in Ref
        BY <1>0, <2>3, <3>1, <4>1, <4>2, CallProcessOK DEF TypeOK, Running
      <4> QED
        BY <1>0, <4>1, <4>2, <4>3 DEF TypeOK
    <3>2. CASE Cursor = NULL
      <4>1. stack' = Below /\ UNCHANGED <<state, process_current, owed, served>>
        BY <1>5, <3>2 DEF DoEventCall, delivery
      <4> QED
        BY <1>0, <2>1, <4>1, ReturnOK DEF TypeOK
    <3> QED
      BY <3>1, <3>2
  <2> QED
    BY <1>0, <1>5, <2>4, StackTyped DEF DoEventCall, IInv, TypeOK, list, polls
<1>6. CASE ExitInform
  <2> DEFINE q == Cursor
             p == Top.who
  <2>1. stack # <<>> /\ Top.at \in ExitLoop /\ Top.at \in ExitFrames
        /\ Top.at \notin {"synch", "context"}
    BY <1>6 DEF ExitInform, TopAt, ExitFrames, ExitLoop
  <2>2. q \in Ref /\ p \in Proc /\ Top.from \in Ref
    BY <1>0, <2>1, CursorType, TopFrame DEF GoodFrame, Frame
  <2>3. ASSUME q # NULL, NEW d
        PROVE  StackOK(Moved("exit.next", q), d)
               /\ Head(Moved("exit.next", q)).at = "exit.next"
    BY <2>1, <2>2, <2>3, MovedOK
       DEF At, Running, Ref, ExitFrames, ExitLoop
  <2>4. ASSUME NEW d
        PROVE  StackOK(Moved("exit.unlink", q), d)
               /\ Head(Moved("exit.unlink", q)).at = "exit.unlink"
    BY <2>1, <2>2, MovedOK DEF At, Running, ExitFrames, ExitLoop
  <2>5. /\ StackOK(stack', process_current')
        /\ state' \in [Proc -> States] /\ process_current' \in Ref
        /\ uninformed' \in [Proc -> SUBSET Proc]
    <3>1. CASE q \notin {NULL, p}
      <4>1. CallProcess(q, "EXITED", state, Moved("exit.next", q))
            /\ uninformed' = [uninformed EXCEPT
                                ![p] = @ \ {r \in {q} : Callable(r, state)}]
        BY <1>6, <3>1 DEF ExitInform
      <4>2. q \in Proc
        BY <2>2, <3>1 DEF Ref
      <4>3. StackOK(stack', process_current') /\ state' \in [Proc -> States]
            /\ process_current' \in Ref
        BY <1>0, <2>3, <3>1, <4>1, <4>2, CallProcessOK DEF TypeOK, Ev, Running
      <4> QED
        BY <1>0, <2>2, <4>1, <4>3 DEF TypeOK
    <3>2. CASE q = p
      <4>1. stack' = Moved("exit.next", q)
            /\ UNCHANGED <<state, process_current, uninformed>>
        BY <1>6, <2>2, <3>2, KernelAssumption, <1>0 DEF ExitInform
      <4>2. q # NULL
        BY <2>2, <3>2, KernelAssumption
      <4> QED
        BY <1>0, <2>3, <4>1, <4>2 DEF TypeOK
    <3>3. CASE q = NULL /\ p # Top.from
      <4>1. /\ process_current' = p
            /\ stack' = <<Call("last", p, "EXIT")>> \o Moved("exit.unlink", q)
            /\ UNCHANGED <<state, uninformed>>
        BY <1>6, <2>2, <3>3, KernelAssumption DEF ExitInform
      <4>2. Call("last", p, "EXIT") \in GoodFrame
            /\ Call("last", p, "EXIT").p = p
        BY <2>2, CallFrame DEF Ref, Ev
      <4>3. StackOK(<<Call("last", p, "EXIT")>> \o Moved("exit.unlink", q), p)
        BY <2>4, <4>2, PushOK DEF Running
      <4> QED
        BY <1>0, <2>2, <4>1, <4>3 DEF TypeOK, Ref
    <3>4. CASE q = NULL /\ p = Top.from
      <4>1. stack' = Moved("exit.unlink", q)
            /\ UNCHANGED <<state, process_current, uninformed>>
        BY <1>6, <2>2, <3>4, KernelAssumption DEF ExitInform
      <4> QED
        BY <1>0, <2>4, <4>1 DEF TypeOK
    <3> QED
      BY <3>1, <3>2, <3>3, <3>4
  <2> QED
    BY <1>0, <1>6, <2>5, StackTyped
       DEF ExitInform, IInv, TypeOK, list, polls, delivery
<1>7. CASE ExitUnlink
  <2>1. stack # <<>> /\ Top.at \in ExitFrames
        /\ process_current' = Top.old /\ stack' = Below
    BY <1>7 DEF ExitUnlink, TopAt, ExitFrames, Saved
  <2>2. Top.who \in Proc /\ Top.old \in Ref
    BY <1>0, <2>1, TopFrame DEF GoodFrame, Frame
  <2>3. process_list' \in Ref /\ next' \in [Proc -> Ref]
    BY <1>0, <1>7, <2>2 DEF ExitUnlink, Unlink, TypeOK
  <2>4. uninformed' \in [Proc -> SUBSET Proc]
    BY <1>0, <1>7 DEF ExitUnlink, TypeOK
  <2>5. StackOK(stack', process_current') /\ stack' \in Seq(Frame)
    BY <2>1, <2>2, ReturnOK
  <2> QED
    BY <1>0, <1>7, <2>1, <2>2, <2>3, <2>4, <2>5
       DEF ExitUnlink, IInv, TypeOK, polls, delivery
<1>8. ASSUME NEW at \in {"synch", "context"}, Restore(at) PROVE IInv'
  <2>1. stack # <<>> /\ process_current' = Top.old /\ stack' = Below
    BY <1>8 DEF Restore, TopAt, Saved
  <2>2. Top.old \in Ref
    BY <1>0, <2>1, TopFrame DEF Frame
  <2>3. StackOK(stack', process_current') /\ stack' \in Seq(Frame)
    BY <2>1, <2>2, ReturnOK
  <2> QED
    BY <1>0, <1>8, <2>1, <2>2, <2>3 DEF Restore, IInv, TypeOK, list, polls, history
<1>9. CASE Yield
  <2>1. stack # <<>> /\ Top.at \notin Saving /\ stack' = Below
        /\ process_current' = process_current
    BY <1>9 DEF Yield, TopAt, Saving, ExitFrames, ExitLoop
  <2>2. StackOK(stack', process_current') /\ stack' \in Seq(Frame)
    BY <1>0, <2>1, ReturnOK DEF TypeOK
  <2>3. state' \in [Proc -> States]
    BY <1>0, <1>9 DEF Yield, StateAfter, TypeOK
  <2> QED
    BY <1>0, <1>9, <2>2, <2>3 DEF Yield, IInv, TypeOK, list, polls, history
<1>10. CASE End
  <2>1. stack # <<>> /\ Top.at = "thread" /\ ExitProcess(Top.p, Top.p, Below)
    BY <1>10 DEF End, TopAt
  <2>2. Top.at \notin Saving
    BY <2>1 DEF Saving, ExitFrames, ExitLoop
  <2>3. StackOK(Below, process_current)
    BY <2>1, <2>2, BelowOK
  <2>4. Top.p \in Proc
    BY <1>0, <2>1, TopFrame DEF GoodFrame
  <2> QED
    BY <1>0, <2>1, <2>3, <2>4, ExitProcessOK DEF Ref
<1>11. CASE LastReturn
  <2>1. stack # <<>> /\ Top.at \notin Saving /\ stack' = Below
        /\ process_current' = process_current
    BY <1>11 DEF LastReturn, TopAt, Saving, ExitFrames, ExitLoop
  <2>2. StackOK(stack', process_current') /\ stack' \in Seq(Frame)
    BY <1>0, <2>1, ReturnOK DEF TypeOK
  <2> QED
    BY <1>0, <1>11, <2>2 DEF LastReturn, IInv, TypeOK, list, polls, history
<1>12. ASSUME NEW ev \in PostedEvents, NEW p \in Ref, Post(ev, p) PROVE IInv'
  <2> DEFINE Posted == [ev : PostedEvents, p : Ref]
             e == [ev |-> ev, p |-> p]
  <2>1. e \in Posted /\ events \in Seq(Posted) /\ Len(events) <= NUMEVENTS
        /\ Len(events) # NUMEVENTS /\ events' = Append(events, e)
    BY <1>0, <1>12 DEF Post, QueueFull, TypeOK
  <2>2. Append(events, e) \in Seq(Posted)
        /\ Len(Append(events, e)) = Len(events) + 1 /\ Len(events) \in Nat
    BY <2>1, AppendProperties
  <2>3. events' \in Seq(Posted) /\ Len(events') <= NUMEVENTS
    BY <2>1, <2>2, KernelAssumption
  <2> QED
    BY <1>0, <1>12, <2>3 DEF Post, IInv, TypeOK, list, polls, history
<1>13. ASSUME NEW ev \in Ev, NEW p \in Proc, NEW st \in [Proc -> States],
              Synch(p, ev, st),
              stack = <<>> \/ Head(stack).at \in Running
       PROVE  /\ StackOK(stack', process_current')
              /\ state' \in [Proc -> States] /\ process_current' \in Ref
  <2> DEFINE f == [Call("synch", p, ev) EXCEPT !.old = process_current]
  <2>1. f \in GoodFrame /\ f.at = "synch" /\ f.old = process_current
    BY <1>0, SavingFrame DEF TypeOK, Ref
  <2>2. StackOK(<<f>> \o stack, process_current)
    <3>1. stack # <<>> /\ Head(stack).at \in Running
            => process_current = Head(stack).p
      BY <1>0 DEF StackOK
    <3>2. f.at \in Saving /\ f.at \notin Running
      BY <2>1 DEF Saving, Running
    <3> HIDE DEF f
    <3> QED
      BY <1>0, <2>1, <3>1, <3>2, PushOK
  <2>3. Head(<<f>> \o stack) = f
    BY <1>0, <2>1, ConsProperties DEF StackOK
  <2>4. CallProcess(p, ev, st, <<f>> \o stack)
    BY <1>13 DEF Synch
  <2> QED
    BY <1>0, <2>1, <2>2, <2>3, <2>4, CallProcessOK DEF TypeOK, Running
<1>14. ASSUME NEW ev \in PostedEvents, NEW p \in Proc, PostSynch(ev, p)
       PROVE  IInv'
  <2>1. /\ StackOK(stack', process_current')
        /\ state' \in [Proc -> States] /\ process_current' \in Ref
    BY <1>0, <1>13, <1>14, KernelAssumption
       DEF PostSynch, Calling, TopAt, Top, TypeOK
  <2> QED
    BY <1>0, <1>14, <2>1, StackTyped
       DEF PostSynch, IInv, TypeOK, list, polls, history
<1>15. ASSUME NEW p \in Proc, Start(p) PROVE IInv'
  <2>1. [state EXCEPT ![p] = "RUNNING"] \in [Proc -> States]
    BY <1>0 DEF TypeOK
  <2>2. Synch(p, "INIT", [state EXCEPT ![p] = "RUNNING"])
        /\ (stack = <<>> \/ Head(stack).at \in Running)
    BY <1>15 DEF Start, Calling, TopAt, Top
  <2>3. /\ StackOK(stack', process_current')
        /\ state' \in [Proc -> States] /\ process_current' \in Ref
    BY <1>13, <2>1, <2>2 DEF Ev
  <2>4. /\ process_list' \in Ref /\ next' \in [Proc -> Ref]
        /\ asked' \in [Proc -> BOOLEAN]
    BY <1>0, <1>15 DEF Start, TypeOK, Ref
  <2> QED
    BY <1>0, <1>15, <2>3, <2>4, StackTyped DEF Start, IInv, TypeOK
<1>16. ASSUME NEW p \in Proc, Exit(p) PROVE IInv'
  BY <1>0, <1>16, ExitProcessOK DEF Exit, TypeOK
<1>17. ASSUME NEW p \in Proc, Poll(p) PROVE IInv'
  <2>1. needspoll' \in [Proc -> BOOLEAN] /\ asked' \in [Proc -> BOOLEAN]
        /\ poll_requested' \in BOOLEAN
    BY <1>0, <1>17 DEF Poll, PollRequest, TypeOK
  <2> QED
    BY <1>0, <1>17, <2>1 DEF Poll, IInv, TypeOK, list, history
<1>18. ASSUME NEW p \in Proc, ContextBegin(p) PROVE IInv'
  <2> DEFINE f == [Call("context", p, "USER") EXCEPT !.old = process_current]
  <2>1. f \in GoodFrame /\ f.at = "context" /\ f.p = p
        /\ f.old = process_current
    BY <1>0, SavingFrame DEF TypeOK, Ref, Ev
  <2>2. StackOK(<<f>> \o stack, p)
    <3>1. stack # <<>> /\ Head(stack).at \in Running
            => process_current = Head(stack).p
      BY <1>0 DEF StackOK
    <3>2. f.at \in Saving
      BY <2>1 DEF Saving
    <3> HIDE DEF f
    <3> QED
      BY <1>0, <2>1, <3>1, <3>2, PushOK
  <2>3. stack' = <<f>> \o stack /\ process_current' = p
    BY <1>18 DEF ContextBegin
  <2> QED
    BY <1>0, <1>18, <2>2, <2>3, StackTyped
       DEF ContextBegin, IInv, TypeOK, list, polls, history, Ref
<1>19. CASE Boot
  BY <1>0, <1>19 DEF Boot, IInv, TypeOK, list, polls, history
<1>20. CASE UNCHANGED vars
  BY <1>0, <1>20 DEF vars, IInv, TypeOK
<1> QED
  BY <1>1, <1>2, <1>3, <1>4, <1>5, <1>6, <1>7, <1>8, <1>9, <1>10, <1>11, <1>12,
     <1>14, <1>15, <1>16, <1>17, <1>18, <1>19, <1>20
     DEF Next, Kernel, ThreadReturn, ThreadCall, SynchReturn, ContextEnd

------------------------------------------------------------------------------
LEMMA Invariance == Spec => []IInv
BY InitIInv, StepIInv, PTL DEF Spec

(* The kernel's variables keep their types on every path: no loop follows  *)
(* a pointer that is not a process, the queue never exceeds its array.     *)
THEOREM TypeCorrect == Spec => []TypeOK
<1>1. IInv => TypeOK
  BY DEF IInv
<1> QED
  BY <1>1, Invariance, PTL

(* Code of a process always finds that process in PROCESS_CURRENT(), for   *)
(* any number of processes, any depth of nesting and even when processes   *)
(* exit that are themselves on the stack.                                  *)
THEOREM CurrentCorrect == Spec => []CurrentIsRunning
<1>1. IInv => CurrentIsRunning
  BY DEF IInv, StackOK, CurrentIsRunning, Top
<1> QED
  BY <1>1, Invariance, PTL

------------------------------------------------------------------------------
(* The list.  Reach is the model's Reachable with the next pointers as a    *)
(* parameter, so that a list before a step can be compared with it after.  *)
(* The processes a walk from c meets if f has the next pointers. *)
Reach(c, f) ==
  {p \in Proc : \A S \in SUBSET Proc :
     (/\ c # NULL => c \in S
      /\ \A q \in S : f[q] # NULL => f[q] \in S) => p \in S}

LEMMA ReachTypes ==
  ASSUME NEW c, NEW f PROVE Reach(c, f) \in SUBSET Proc
BY DEF Reach

LEMMA ReachListed ==
  /\ \A c : Reachable(c) = Reach(c, next)
  /\ Listed = Reach(process_list, next) /\ Listed' = Reach(process_list', next')
BY DEF Reach, Reachable, Listed

(* The set is closed, and the least one. *)
LEMMA ReachStart == ASSUME NEW c \in Proc, NEW f PROVE c \in Reach(c, f)
BY KernelAssumption DEF Reach

LEMMA ReachNext ==
  ASSUME NEW c, NEW f \in [Proc -> Ref], NEW q \in Reach(c, f), f[q] # NULL
  PROVE  f[q] \in Reach(c, f)
<1>1. q \in Proc /\ f[q] \in Proc
  BY DEF Reach, Ref
<1>2. ASSUME NEW S \in SUBSET Proc, c # NULL => c \in S,
             \A r \in S : f[r] # NULL => f[r] \in S
      PROVE  f[q] \in S
  BY <1>2 DEF Reach
<1> QED
  BY <1>1, <1>2 DEF Reach

LEMMA ReachLeast ==
  ASSUME NEW c, NEW f, NEW S \in SUBSET Proc, c # NULL => c \in S,
         \A q \in S : f[q] # NULL => f[q] \in S
  PROVE  Reach(c, f) \subseteq S
BY DEF Reach

LEMMA ReachNull == ASSUME NEW f PROVE Reach(NULL, f) = {}
<1>1. ASSUME NEW p \in Reach(NULL, f) PROVE p \in {}
  <2>1. {} \in SUBSET Proc /\ \A q \in {} : f[q] # NULL => f[q] \in {}
    OBVIOUS
  <2> QED
    BY <1>1, <2>1 DEF Reach
<1> QED
  BY <1>1

LEMMA ReachFrom ==
  ASSUME NEW c, NEW f \in [Proc -> Ref], NEW q \in Ref, q # NULL => q \in Reach(c, f)
  PROVE  Reach(q, f) \subseteq Reach(c, f)
BY ReachLeast, ReachNext, ReachTypes

LEMMA ReachStep ==
  ASSUME NEW f \in [Proc -> Ref], NEW c \in Proc
  PROVE  Reach(c, f) = {c} \union Reach(f[c], f)
<1> DEFINE S == {c} \union Reach(f[c], f)
<1>1. S \in SUBSET Proc
  BY ReachTypes
<1>2. \A q \in S : f[q] # NULL => f[q] \in S
  <2>1. f[c] # NULL => f[c] \in Reach(f[c], f)
    BY ReachStart DEF Ref
  <2> QED
    BY <2>1, ReachNext
<1>3. Reach(c, f) \subseteq S
  <2>1. c \in S
    OBVIOUS
  <2> HIDE DEF S
  <2> QED
    BY <1>1, <1>2, <2>1, ReachLeast
<1>4. Reach(f[c], f) \subseteq Reach(c, f)
  BY ReachStart, ReachNext, ReachFrom DEF Ref
<1> QED
  BY <1>3, <1>4, ReachStart

(* Only the pointers that a walk meets matter to it. *)
LEMMA ReachSame ==
  ASSUME NEW c, NEW f \in [Proc -> Ref], NEW g \in [Proc -> Ref],
         \A q \in Reach(c, g) : f[q] = g[q]
  PROVE  Reach(c, g) = Reach(c, f)
<1>0. c # NULL => (c \in Reach(c, f) <=> c \in Proc) /\ (c \in Reach(c, g) <=> c \in Proc)
  BY ReachStart, ReachTypes
<1>1. CASE c \in Ref
  <2>1. Reach(c, f) \subseteq Reach(c, g)
    <3>1. \A q \in Reach(c, g) : f[q] # NULL => f[q] \in Reach(c, g)
      BY ReachNext
    <3>2. c # NULL => c \in Reach(c, g)
      BY <1>0, <1>1 DEF Ref
    <3> QED
      BY <3>1, <3>2, ReachLeast, ReachTypes
  <2>2. \A q \in Reach(c, f) : g[q] # NULL => g[q] \in Reach(c, f)
    BY <2>1, ReachNext
  <2>3. Reach(c, g) \subseteq Reach(c, f)
    BY <1>0, <1>1, <2>2, ReachLeast, ReachTypes DEF Ref
  <2> QED
    BY <2>1, <2>3
<1>2. CASE c \notin Ref
  BY <1>2 DEF Reach, Ref
<1> QED
  BY <1>1, <1>2

Acyclic(h, f) == \A p \in Reach(h, f) : p \notin Reach(f[p], f)

(* process_start puts a process at the head. *)
LEMMA StartReach ==
  ASSUME NEW h \in Ref, NEW f \in [Proc -> Ref], NEW p \in Proc, p \notin Reach(h, f),
         NEW g, g = [f EXCEPT ![p] = h]
  PROVE  /\ Reach(p, g) = {p} \union Reach(h, f)
         /\ \A c : Reach(c, f) \intersect Reach(h, f) \subseteq Reach(c, g)
         /\ Acyclic(h, f) => Acyclic(p, g)
<1>1. g \in [Proc -> Ref] /\ g[p] = h /\ \A q \in Proc : q # p => g[q] = f[q]
  OBVIOUS
<1>2. Reach(h, g) = Reach(h, f)
  <2>1. \A q \in Reach(h, f) : g[q] = f[q]
    BY <1>1, ReachTypes
  <2> QED
    BY <1>1, <2>1, ReachSame
<1>3. Reach(p, g) = {p} \union Reach(h, f)
  BY <1>1, <1>2, ReachStep
<1>4. ASSUME NEW c PROVE Reach(c, f) \intersect Reach(h, f) \subseteq Reach(c, g)
  <2>1. CASE p \in Reach(c, g)
    <3>1. Reach(p, g) \subseteq Reach(c, g)
      BY <1>1, <2>1, ReachFrom DEF Ref
    <3> QED
      BY <1>3, <3>1
  <2>2. CASE p \notin Reach(c, g)
    <3>1. \A q \in Reach(c, g) : f[q] = g[q]
      BY <1>1, <2>2, ReachTypes
    <3> QED
      BY <1>1, <3>1, ReachSame
  <2> QED
    BY <2>1, <2>2
<1>5. ASSUME Acyclic(h, f), NEW q \in Reach(p, g) PROVE q \notin Reach(g[q], g)
  <2>1. CASE q = p
    BY <1>1, <1>2, <2>1
  <2>2. CASE q # p
    <3>1. q \in Reach(h, f) /\ g[q] = f[q] /\ f[q] \in Ref /\ q \in Proc
      BY <1>1, <1>3, <1>5, <2>2, ReachTypes
    <3>2. Reach(f[q], f) \subseteq Reach(h, f)
      BY <3>1, ReachFrom, ReachNext
    <3>3. Reach(f[q], g) = Reach(f[q], f)
      <4>1. \A r \in Reach(f[q], f) : g[r] = f[r]
        BY <1>1, <3>2, ReachTypes
      <4> QED
        BY ZenonT(60), <1>1, <4>1, ReachSame
    <3> QED
      BY <1>5, <3>1, <3>3 DEF Acyclic
  <2> QED
    BY <2>1, <2>2
<1> QED
  BY <1>3, <1>4, <1>5 DEF Acyclic

(* exit_process takes a process off the list: the pointers of the others   *)
(* and its own still lead where they led.                                  *)
Unlinked(u, h, f) == [q \in Proc |-> IF q \in Reach(h, f) /\ f[q] = u THEN f[u] ELSE f[q]]

LEMMA UnlinkReach ==
  ASSUME NEW h \in Ref, NEW f \in [Proc -> Ref], NEW u \in Reach(h, f), Acyclic(h, f),
         NEW g, g = Unlinked(u, h, f)
  PROVE  /\ g \in [Proc -> Ref] /\ g[u] = f[u]
         /\ \A c \in Ref : /\ Reach(c, g) \subseteq Reach(c, f)
                           /\ Reach(c, f) \ {u} \subseteq Reach(c, g)
         /\ \A q \in Proc : g[q] = f[q] \/ (f[q] = u /\ g[q] = f[u])
         /\ \A q \in Reach(h, f) : q # u => g[q] # u
<1>0. u \in Proc /\ f[u] \in Ref /\ u \notin Reach(f[u], f) /\ u # NULL
  BY ReachTypes, KernelAssumption DEF Acyclic
<1>1. /\ g \in [Proc -> Ref]
      /\ \A q \in Proc : g[q] = IF q \in Reach(h, f) /\ f[q] = u THEN f[u] ELSE f[q]
  BY <1>0 DEF Unlinked
<1>2. f[u] # u
  BY <1>0, ReachStart
<1>3. g[u] = f[u]
  BY <1>0, <1>1
<1>4. ASSUME NEW c \in Ref PROVE Reach(c, g) \subseteq Reach(c, f)
  <2>1. \A q \in Reach(c, f) : g[q] # NULL => g[q] \in Reach(c, f)
    <3>1. ASSUME NEW q \in Reach(c, f), g[q] # NULL PROVE g[q] \in Reach(c, f)
      <4>1. q \in Proc /\ (f[q] # NULL => f[q] \in Reach(c, f))
        BY ReachNext, ReachTypes
      <4>2. CASE g[q] = f[q]
        BY <3>1, <4>1, <4>2
      <4>3. CASE f[q] = u /\ g[q] = f[u]
        <5>1. u \in Reach(c, f) /\ f[u] # NULL
          BY <1>0, <3>1, <4>1, <4>3
        <5> QED
          BY <4>3, <5>1, ReachNext
      <4> QED
        BY <1>1, <4>1, <4>2, <4>3
    <3> QED
      BY <3>1
  <2>2. c # NULL => c \in Reach(c, f)
    BY ReachStart DEF Ref
  <2> QED
    BY <2>1, <2>2, ReachLeast, ReachTypes
<1>5. ASSUME NEW c \in Ref PROVE Reach(c, f) \ {u} \subseteq Reach(c, g)
  <2>1. CASE \A q \in Reach(c, g) : g[q] = f[q]
    BY <1>1, <2>1, ReachSame
  <2>2. CASE \E q \in Reach(c, g) : g[q] # f[q]
    <3> DEFINE S == Reach(c, g) \union {u}
    <3>1. PICK q \in Reach(c, g) : g[q] # f[q]
      BY <2>2
    <3>2. g[q] = f[u]
      BY <1>1, <3>1, ReachTypes
    <3>3. f[u] # NULL => f[u] \in Reach(c, g)
      BY <1>1, <3>2, ReachNext
    <3>4. ASSUME NEW r \in S, f[r] # NULL PROVE f[r] \in S
      <4>1. CASE r = u
        BY <3>3, <3>4, <4>1
      <4>2. CASE r \in Reach(c, g)
        <5>1. r \in Proc /\ (g[r] # NULL => g[r] \in Reach(c, g))
          BY <1>1, <4>2, ReachNext, ReachTypes
        <5> QED
          BY <1>1, <3>4, <5>1
      <4> QED
        BY <4>1, <4>2
    <3>5. c # NULL => c \in S
      BY ReachStart DEF Ref
    <3>6. S \in SUBSET Proc
      BY <1>0, ReachTypes
    <3> HIDE DEF S
    <3>7. Reach(c, f) \subseteq S
      BY <3>4, <3>5, <3>6, ReachLeast
    <3> QED
      BY <3>7 DEF S
  <2> QED
    BY <2>1, <2>2
<1> QED
  BY <1>0, <1>1, <1>2, <1>3, <1>4, <1>5, ReachTypes

(* The list without the process, which is its head or not. *)
LEMMA UnlinkList ==
  ASSUME NEW h \in Ref, NEW f \in [Proc -> Ref], NEW u \in Reach(h, f), Acyclic(h, f),
         NEW k, NEW g,
         \/ u = h /\ k = f[u] /\ g = f
         \/ u # h /\ k = h /\ g = Unlinked(u, h, f)
  PROVE  /\ k \in Ref /\ g \in [Proc -> Ref] /\ g[u] = f[u]
         /\ Reach(k, g) = Reach(h, f) \ {u} /\ Acyclic(k, g)
         /\ \A c \in Ref : /\ Reach(c, g) \subseteq Reach(c, f)
                           /\ Reach(c, f) \ {u} \subseteq Reach(c, g)
         /\ \A q \in Proc : g[q] = f[q] \/ (f[q] = u /\ g[q] = f[u])
<1>0. u \in Proc /\ f[u] \in Ref /\ u \notin Reach(f[u], f) /\ u # NULL
  BY ReachTypes, KernelAssumption DEF Acyclic
<1>1. CASE u = h /\ k = f[u] /\ g = f
  <2>1. Reach(h, f) = {u} \union Reach(f[u], f)
    BY <1>0, <1>1, ReachStep
  <2>2. Acyclic(k, g)
    BY <1>1, <2>1 DEF Acyclic
  <2> QED
    BY <1>0, <1>1, <2>1, <2>2
<1>2. CASE u # h /\ k = h /\ g = Unlinked(u, h, f)
  <2>1. /\ g \in [Proc -> Ref] /\ g[u] = f[u]
        /\ \A c \in Ref : /\ Reach(c, g) \subseteq Reach(c, f)
                          /\ Reach(c, f) \ {u} \subseteq Reach(c, g)
        /\ \A q \in Proc : g[q] = f[q] \/ (f[q] = u /\ g[q] = f[u])
        /\ \A q \in Reach(h, f) : q # u => g[q] # u
    BY <1>2, UnlinkReach
  <2>2. h \in Proc
    BY <1>0, ReachNull DEF Ref
  <2>3. Reach(h, g) \subseteq Reach(h, f) \ {u}
    <3> DEFINE S == Reach(h, f) \ {u}
    <3>1. S \in SUBSET Proc /\ h \in S
      BY <1>2, <2>2, ReachStart, ReachTypes
    <3>2. ASSUME NEW q \in S, g[q] # NULL PROVE g[q] \in S
      <4>1. q \in Proc /\ q # u /\ g[q] # u /\ (f[q] # NULL => f[q] \in Reach(h, f))
        BY <2>1, ReachNext, ReachTypes
      <4>2. f[u] # NULL => f[u] \in Reach(h, f)
        BY ReachNext
      <4> QED
        BY <1>0, <2>1, <3>2, <4>1, <4>2
    <3> HIDE DEF S
    <3>3. Reach(h, g) \subseteq S
      BY <3>1, <3>2, ReachLeast
    <3> QED
      BY <3>3 DEF S
  <2>4. Reach(h, g) = Reach(h, f) \ {u}
    BY <2>1, <2>3
  <2>5. ASSUME NEW q \in Reach(h, g) PROVE q \notin Reach(g[q], g)
    <3>1. q \in Reach(h, f) /\ q \in Proc /\ f[q] \in Ref /\ g[q] \in Ref /\ q \notin Reach(f[q], f)
      BY <2>1, <2>4, ReachTypes DEF Acyclic
    <3>2. Reach(g[q], f) \subseteq Reach(f[q], f)
      <4>1. CASE g[q] = f[q]
        BY <4>1
      <4>2. CASE f[q] = u /\ g[q] = f[u]
        BY <1>0, <4>2, ReachStep
      <4> QED
        BY <2>1, <3>1, <4>1, <4>2
    <3> QED
      BY <2>1, <3>1, <3>2
  <2> QED
    BY <1>2, <2>1, <2>4, <2>5 DEF Acyclic
<1> QED
  BY <1>1, <1>2

LEMMA ListIs == ListSound <=> Acyclic(process_list, next)
BY ReachListed DEF ListSound, Acyclic

LEMMA ListIsThen == ListSound' <=> Acyclic(process_list', next')
<1>1. ListSound' <=> \A p \in Listed' : p \notin Reach(next'[p], next')
  BY DEF ListSound, Reachable, Reach
<1> QED
  BY <1>1, ReachListed DEF Acyclic

(* What starting a process does to the list. *)
LEMMA StartLists ==
  ASSUME TypeOK, ListSound, NEW p \in Proc, Start(p)
  PROVE  /\ p \notin Listed /\ Listed' = Listed \union {p} /\ ListSound'
         /\ \A c : Reach(c, next) \intersect Listed \subseteq Reach(c, next')
         /\ next' \in [Proc -> Ref] /\ next'[p] = process_list
         /\ \A q \in Proc : q # p => next'[q] = next[q]
<1>1. /\ p \notin Listed /\ process_list' = p /\ next' = [next EXCEPT ![p] = process_list]
      /\ process_list \in Ref /\ next \in [Proc -> Ref]
  BY DEF Start, OnList, TypeOK
<1>2. /\ Reach(p, next') = {p} \union Reach(process_list, next)
      /\ \A c : Reach(c, next) \intersect Reach(process_list, next) \subseteq Reach(c, next')
      /\ Acyclic(process_list, next) => Acyclic(p, next')
  BY <1>1, StartReach, ReachListed
<1>3. next' \in [Proc -> Ref] /\ next'[p] = process_list /\ \A q \in Proc : q # p => next'[q] = next[q]
  BY <1>1
<1> QED
  BY <1>1, <1>2, <1>3, ReachListed, ListIs, ListIsThen

(* What the end of exit_process does to it. *)
LEMMA UnlinkLists ==
  ASSUME TypeOK, ListSound, NEW u \in Proc, Unlink(u)
  PROVE  /\ Listed' = Listed \ {u} /\ ListSound'
         /\ next' \in [Proc -> Ref] /\ next'[u] = next[u]
         /\ \A c \in Ref : /\ Reach(c, next') \subseteq Reach(c, next)
                           /\ Reach(c, next) \ {u} \subseteq Reach(c, next')
         /\ \A q \in Proc : next'[q] = next[q] \/ (next[q] = u /\ next'[q] = next[u])
<1>1. /\ process_list \in Ref /\ next \in [Proc -> Ref]
      /\ Listed = Reach(process_list, next)
  BY ReachListed DEF TypeOK
<1>2. \/ u = process_list /\ process_list' = next[u] /\ next' = next
      \/ /\ u # process_list /\ process_list' = process_list
         /\ next' = Unlinked(u, process_list, next)
  BY <1>1 DEF Unlink, Unlinked
<1>3. CASE u \in Listed
  BY <1>1, <1>2, <1>3, UnlinkList, ReachListed, ListIs, ListIsThen
<1>4. CASE u \notin Listed
  <2>1. u # process_list
    BY <1>1, <1>4, ReachStart
  <2>2. ASSUME NEW q \in Listed PROVE next[q] # u
    BY <1>1, <1>4, ReachNext, KernelAssumption
  <2>3. Unlinked(u, process_list, next) = next
    BY <1>1, <2>2 DEF Unlinked
  <2>4. process_list' = process_list /\ next' = next
    BY <1>2, <2>1, <2>3
  <2>5. Listed' = Listed
    BY <2>4, ReachListed
  <2> QED
    BY <1>1, <1>4, <2>4, <2>5, ListIs, ListIsThen
<1> QED
  BY <1>3, <1>4

LEMMA SameList ==
  ASSUME UNCHANGED <<process_list, next>>
  PROVE  Listed' = Listed /\ (ListSound => ListSound')
BY ReachListed, ListIs, ListIsThen

LEMMA ListSteps ==
  [Next]_vars => \/ ExitUnlink
                 \/ \E p \in Proc : Start(p)
                 \/ UNCHANGED <<process_list, next>>
<1> SUFFICES ASSUME [Next]_vars
             PROVE  \/ ExitUnlink
                    \/ \E p \in Proc : Start(p)
                    \/ UNCHANGED <<process_list, next>>
  OBVIOUS
<1>1. Kernel => ExitUnlink \/ UNCHANGED <<process_list, next>>
  BY DEF Kernel, ProcessRun, DoPoll, DoEvent, DoEventPolls, DoEventCall, ExitInform,
         SynchReturn, Restore, list
<1>2. ThreadReturn => UNCHANGED <<process_list, next>>
  BY DEF ThreadReturn, ContextEnd, Restore, Yield, End, LastReturn, ExitProcess, list
<1>3. ThreadCall => (\E p \in Proc : Start(p)) \/ UNCHANGED <<process_list, next>>
  <2>1. \A ev, p : Post(ev, p) \/ PostSynch(ev, p) => UNCHANGED <<process_list, next>>
    BY DEF Post, PostSynch, list
  <2>2. \A p : Exit(p) \/ Poll(p) \/ ContextBegin(p) => UNCHANGED <<process_list, next>>
    BY DEF Exit, Poll, ContextBegin, ExitProcess, list
  <2> QED
    BY <2>1, <2>2 DEF ThreadCall
<1> QED
  BY <1>1, <1>2, <1>3 DEF Next, Boot, vars, list

LEMMA StepList ==
  IInv /\ ListSound /\ [Next]_vars => ListSound'
<1> SUFFICES ASSUME IInv, ListSound, [Next]_vars PROVE ListSound'
  OBVIOUS
<1>1. CASE ExitUnlink
  <2>1. stack # <<>> /\ Top.at \in ExitFrames /\ Unlink(Top.who)
    BY <1>1 DEF ExitUnlink, TopAt, ExitFrames
  <2>2. Top.who \in Proc
    BY <2>1, TopFrame DEF IInv, GoodFrame
  <2> QED
    BY <2>1, <2>2, UnlinkLists DEF IInv
<1>2. ASSUME NEW p \in Proc, Start(p) PROVE ListSound'
  BY <1>2, StartLists DEF IInv
<1>3. CASE UNCHANGED <<process_list, next>>
  BY <1>3, SameList
<1> QED
  BY <1>1, <1>2, <1>3, ListSteps

(* The list of processes never becomes circular, whatever processes are    *)
(* started and exited while the loops of the kernel stand in its middle,   *)
(* even if a process on the stack exits, or exits twice (process.c).       *)
THEOREM ListStaysSound == Spec => []ListSound
<1>1. Init => ListSound
  <2> SUFFICES ASSUME Init PROVE ListSound
    OBVIOUS
  <2>1. Listed = {}
    BY ReachListed, ReachNull DEF Init
  <2> QED
    BY <2>1 DEF ListSound
<1>2. IInv /\ ListSound /\ [Next]_vars => ListSound'
  BY StepList
<1> QED
  BY <1>1, <1>2, Invariance, PTL DEF Spec

------------------------------------------------------------------------------
(* The list, the states and the stack tell the same story.  This holds for *)
(* systems that post no PROCESS_EVENT_INIT and exit no process that is on  *)
(* the stack: the code has no defence against either.                      *)
Orderly == ~ExitActive /\ "INIT" \notin PostedEvents

FirstLoop == {"exit.first", "poll.first", "event.first"}
NextLoop == {"exit.next", "poll.next", "event.next"}
EventFrames == EventLoop \union {"event.polled"}

(* The processes whose protothreads are on the stack s, and those that are *)
(* exiting on it.                                                          *)
Threads(s) == {s[i].p : i \in {j \in DOMAIN s : s[j].at = "thread"}}
Exits(s) == {s[i].who : i \in {j \in DOMAIN s : s[j].at \in ExitFrames}}

(* Frame a stands above frame b: process_run and the loop of a broadcast   *)
(* are at the bottom, do_poll is called by them alone, and a loop that has *)
(* called a process waits for that process, or for its exit.               *)
Above(a, b) ==
  /\ a.at \notin EventFrames \union {"run"}
  /\ a.at \in PollLoop => b.at \in {"run", "event.polled"}
  /\ b.at \notin FirstLoop
  /\ a.at = "last" => b.at = "exit.unlink" /\ b.who = a.p
  /\ b.at \in NextLoop => \/ a.at = "thread" /\ a.p = b.p
                          \/ a.at \in ExitFrames /\ a.who = b.p

Shape(s) ==
  /\ \A i \in 1 .. Len(s) - 1 : Above(s[i], s[i + 1])
  /\ s # <<>> => s[Len(s)].at \notin PollLoop \union {"last"}

(* No process has two activations, and none exits twice. *)
Unique(s) ==
  /\ \A i, j \in DOMAIN s :
       s[i].at = "thread" /\ s[j].at = "thread" /\ s[i].p = s[j].p => i = j
  /\ \A i, j \in DOMAIN s :
       s[i].at \in ExitFrames /\ s[j].at \in ExitFrames /\ s[i].who = s[j].who => i = j

(* The stack s, the states st and the processes L of the list agree. *)
Agree(s, st, L) ==
  /\ Shape(s) /\ Unique(s)
  /\ \A p \in Proc : /\ st[p] = "CALLED" <=> p \in Threads(s)
                     /\ p \in Exits(s) => st[p] = "NONE"
                     /\ p \in L <=> st[p] # "NONE" \/ p \in Exits(s)

(* A loop begins at the head h of the list L, and do_poll stays on it. *)
CursorAt(s, h, f, L) ==
  s # <<>> =>
    /\ Head(s).at \in FirstLoop => Head(s).p = h
    /\ Head(s).at \in PollLoop =>
         (IF Head(s).at = "poll.next" THEN f[Head(s).p] ELSE Head(s).p) \in L \union {NULL}

LInv ==
  /\ ListSound
  /\ Agree(stack, state, Listed)
  /\ CursorAt(stack, process_list, next, Listed)

(* A stack with one more frame. *)
Placed(f, s) ==
  IF s = <<>> THEN f.at \notin PollLoop \union {"last"} ELSE Above(f, Head(s))

LEMMA FrontFrame ==
  ASSUME NEW s \in Seq(GoodFrame), NEW f \in GoodFrame, NEW t, t = <<f>> \o s
  PROVE  /\ t \in Seq(GoodFrame) /\ t # <<>> /\ Head(t) = f /\ Tail(t) = s
         /\ Threads(t) = Threads(s) \union (IF f.at = "thread" THEN {f.p} ELSE {})
         /\ Exits(t) = Exits(s) \union (IF f.at \in ExitFrames THEN {f.who} ELSE {})
         /\ Unique(t) <=> /\ Unique(s)
                          /\ f.at = "thread" => f.p \notin Threads(s)
                          /\ f.at \in ExitFrames => f.who \notin Exits(s)
         /\ Shape(t) <=> Shape(s) /\ Placed(f, s)
<1>1. /\ t \in Seq(GoodFrame) /\ t # <<>> /\ Len(t) = Len(s) + 1 /\ Head(t) = f /\ t[1] = f
      /\ \A i \in 1 .. Len(s) : t[i + 1] = s[i]
  BY ConsProperties
<1>2. Len(s) \in Nat /\ DOMAIN s = 1 .. Len(s) /\ DOMAIN t = 1 .. Len(s) + 1
  BY <1>1, LenProperties
<1>3. Tail(t) = s
  <2>1. /\ Tail(t) \in Seq(GoodFrame) /\ Len(Tail(t)) = Len(s)
        /\ \A i \in 1 .. Len(t) - 1 : Tail(t)[i] = t[i + 1]
    BY <1>1, <1>2, RestProperties
  <2>2. \A i \in 1 .. Len(s) : Tail(t)[i] = s[i]
    BY <1>1, <1>2, <2>1
  <2> QED
    BY <2>1, <2>2, SeqEqual
<1>4. /\ 1 \in DOMAIN t
      /\ \A i \in DOMAIN s : i + 1 \in DOMAIN t /\ i + 1 # 1
      /\ \A i \in DOMAIN t : i = 1 \/ (i - 1 \in DOMAIN s /\ (i - 1) + 1 = i)
  BY <1>2
<1>5. \A i \in DOMAIN t : t[i] = f \/ \E j \in DOMAIN s : t[i] = s[j]
  BY <1>1, <1>2, <1>4
<1>6. \A j \in DOMAIN s : \E i \in DOMAIN t : t[i] = s[j]
  BY <1>1, <1>2, <1>4
<1>7. Threads(t) = Threads(s) \union (IF f.at = "thread" THEN {f.p} ELSE {})
  <2>1. \A e : e \in Threads(t) <=> \E i \in DOMAIN t : t[i].at = "thread" /\ t[i].p = e
    BY DEF Threads
  <2>2. \A e : e \in Threads(s) <=> \E i \in DOMAIN s : s[i].at = "thread" /\ s[i].p = e
    BY DEF Threads
  <2>3. \A e : e \in Threads(t) => e \in Threads(s) \/ (f.at = "thread" /\ e = f.p)
    BY <1>5, <2>1, <2>2
  <2>4. \A e : e \in Threads(s) => e \in Threads(t)
    BY <1>6, <2>1, <2>2
  <2>5. f.at = "thread" => f.p \in Threads(t)
    <3>1. 1 \in DOMAIN t /\ (f.at = "thread" => t[1].at = "thread" /\ t[1].p = f.p)
      BY <1>1, <1>4
    <3> QED
      BY <3>1 DEF Threads
  <2> QED
    BY <2>3, <2>4, <2>5
<1>8. Exits(t) = Exits(s) \union (IF f.at \in ExitFrames THEN {f.who} ELSE {})
  <2>1. \A e : e \in Exits(t) <=> \E i \in DOMAIN t : t[i].at \in ExitFrames /\ t[i].who = e
    BY DEF Exits
  <2>2. \A e : e \in Exits(s) <=> \E i \in DOMAIN s : s[i].at \in ExitFrames /\ s[i].who = e
    BY DEF Exits
  <2>3. \A e : e \in Exits(t) => e \in Exits(s) \/ (f.at \in ExitFrames /\ e = f.who)
    BY SMTT(60), <1>5, <2>1, <2>2
  <2>4. \A e : e \in Exits(s) => e \in Exits(t)
    BY <1>6, <2>1, <2>2
  <2>5. f.at \in ExitFrames => f.who \in Exits(t)
    BY <1>1, <1>4, <2>1
  <2> QED
    BY <2>3, <2>4, <2>5
<1>9. Unique(t) => /\ Unique(s)
                   /\ f.at = "thread" => f.p \notin Threads(s)
                   /\ f.at \in ExitFrames => f.who \notin Exits(s)
  <2> SUFFICES ASSUME Unique(t)
               PROVE  /\ Unique(s)
                      /\ f.at = "thread" => f.p \notin Threads(s)
                      /\ f.at \in ExitFrames => f.who \notin Exits(s)
    OBVIOUS
  <2>1. \A j \in DOMAIN s : t[j + 1] = s[j] /\ j + 1 \in DOMAIN t /\ j + 1 # 1 /\ j \in Nat
    BY <1>1, <1>2, <1>4
  <2>2. Unique(s)
    <3>1. ASSUME NEW i \in DOMAIN s, NEW j \in DOMAIN s,
                 \/ s[i].at = "thread" /\ s[j].at = "thread" /\ s[i].p = s[j].p
                 \/ s[i].at \in ExitFrames /\ s[j].at \in ExitFrames /\ s[i].who = s[j].who
          PROVE  i = j
      <4>1. i + 1 = j + 1
        BY ZenonT(60), <2>1, <3>1 DEF Unique
      <4> QED
        BY <2>1, <4>1
    <3> QED
      BY <3>1 DEF Unique
  <2>3. ASSUME f.at = "thread", f.p \in Threads(s) PROVE FALSE
    <3>1. PICK j \in DOMAIN s : s[j].at = "thread" /\ s[j].p = f.p
      BY <2>3 DEF Threads
    <3> QED
      BY ZenonT(60), <1>1, <1>4, <2>1, <2>3, <3>1 DEF Unique
  <2>4. ASSUME f.at \in ExitFrames, f.who \in Exits(s) PROVE FALSE
    <3>1. PICK j \in DOMAIN s : s[j].at \in ExitFrames /\ s[j].who = f.who
      BY <2>4 DEF Exits
    <3> QED
      BY <1>1, <1>4, <2>1, <2>4, <3>1 DEF Unique
  <2> QED
    BY <2>2, <2>3, <2>4
<1>10. ASSUME Unique(s), f.at = "thread" => f.p \notin Threads(s),
              f.at \in ExitFrames => f.who \notin Exits(s)
       PROVE  Unique(t)
  <2>1. \A i \in DOMAIN t : i # 1 => i - 1 \in DOMAIN s /\ t[i] = s[i - 1] /\ i \in Nat
    BY <1>1, <1>2, <1>4
  <2>2. ASSUME NEW i \in DOMAIN t, NEW j \in DOMAIN t,
               \/ t[i].at = "thread" /\ t[j].at = "thread" /\ t[i].p = t[j].p
               \/ t[i].at \in ExitFrames /\ t[j].at \in ExitFrames /\ t[i].who = t[j].who
        PROVE  i = j
    <3>1. CASE i = 1 \/ j = 1
      BY <1>1, <1>10, <2>1, <2>2, <3>1 DEF Threads, Exits
    <3>2. CASE i # 1 /\ j # 1
      <4>1. i - 1 = j - 1
        BY <1>10, <2>1, <2>2, <3>2 DEF Unique
      <4> QED
        BY <2>1, <3>2, <4>1
    <3> QED
      BY <3>1, <3>2
  <2> QED
    BY <2>2 DEF Unique
<1>11. Shape(t) <=> Shape(s) /\ Placed(f, s)
  <2>1. CASE s = <<>>
    <3>1. Len(s) = 0 /\ Len(t) = 1 /\ t[Len(t)] = f
      BY <1>1, <2>1
    <3> QED
      BY <1>1, <2>1, <3>1 DEF Shape, Placed
  <2>2. CASE s # <<>>
    <3>1. Len(s) >= 1 /\ Head(s) = s[1] /\ t[2] = s[1] /\ t[Len(t)] = s[Len(s)]
      BY <1>1, <1>2, <2>2, RestProperties
    <3>2. ASSUME Shape(t) PROVE Shape(s) /\ Placed(f, s)
      <4>1. ASSUME NEW i \in 1 .. Len(s) - 1 PROVE Above(s[i], s[i + 1])
        <5>1. /\ i + 1 \in 1 .. Len(t) - 1 /\ t[i + 1] = s[i] /\ t[(i + 1) + 1] = s[i + 1]
          BY <1>1, <1>2
        <5> QED
          BY <3>2, <5>1 DEF Shape
      <4>2. Above(t[1], t[1 + 1])
        <5>1. 1 \in 1 .. Len(t) - 1
          BY <1>1, <1>2, <3>1
        <5> QED
          BY <3>2, <5>1 DEF Shape
      <4> QED
        BY <1>1, <2>2, <3>1, <3>2, <4>1, <4>2 DEF Shape, Placed
    <3>3. ASSUME Shape(s), Placed(f, s) PROVE Shape(t)
      <4>1. ASSUME NEW i \in 1 .. Len(t) - 1 PROVE Above(t[i], t[i + 1])
        <5>1. CASE i = 1
          BY <1>1, <2>2, <3>1, <3>3, <5>1 DEF Placed
        <5>2. CASE i # 1
          <6>1. /\ i - 1 \in 1 .. Len(s) - 1 /\ (i - 1) + 1 = i /\ i \in 1 .. Len(s)
                /\ t[i] = s[i - 1] /\ t[i + 1] = s[i]
            <7>1. i \in 1 .. Len(s) /\ i - 1 \in 1 .. Len(s) - 1 /\ (i - 1) + 1 = i
                  /\ i - 1 \in 1 .. Len(s)
              BY <1>1, <1>2, <5>2
            <7> QED
              BY <1>1, <7>1
          <6> QED
            BY <3>3, <6>1 DEF Shape
        <5> QED
          BY <5>1, <5>2
      <4> QED
        BY <2>2, <3>1, <3>3, <4>1 DEF Shape
    <3> QED
      BY <3>2, <3>3
  <2> QED
    BY <2>1, <2>2
<1> QED
  BY <1>1, <1>3, <1>7, <1>8, <1>9, <1>10, <1>11

LEMMA HeadAndTail ==
  ASSUME NEW s \in Seq(GoodFrame), s # <<>>
  PROVE  s = <<Head(s)>> \o Tail(s) /\ Head(s) \in GoodFrame /\ Tail(s) \in Seq(GoodFrame)
<1>1. /\ Head(s) \in GoodFrame /\ Head(s) = s[1] /\ Len(s) \in Nat /\ Len(s) > 0
      /\ Tail(s) \in Seq(GoodFrame) /\ Len(Tail(s)) = Len(s) - 1
      /\ \A i \in 1 .. Len(s) - 1 : Tail(s)[i] = s[i + 1]
  BY RestProperties
<1> DEFINE t == <<Head(s)>> \o Tail(s)
<1>2. /\ t \in Seq(GoodFrame) /\ Len(t) = Len(s) /\ t[1] = s[1]
      /\ \A i \in 1 .. Len(Tail(s)) : t[i + 1] = Tail(s)[i]
  BY <1>1, ConsProperties
<1>3. ASSUME NEW i \in 1 .. Len(s) PROVE t[i] = s[i]
  <2>1. CASE i = 1
    BY <1>2, <2>1
  <2>2. CASE i # 1
    <3>1. i - 1 \in 1 .. Len(s) - 1 /\ (i - 1) + 1 = i
      BY <1>1, <2>2
    <3> QED
      BY <1>1, <1>2, <3>1
  <2> QED
    BY <2>1, <2>2
<1>4. t = s
  BY <1>2, <1>3, SeqEqual
<1> QED
  BY <1>1, <1>4

LEMMA NoFrames == Threads(<<>>) = {} /\ Exits(<<>>) = {} /\ Shape(<<>>) /\ Unique(<<>>)
<1>1. DOMAIN <<>> = {} /\ 1 .. Len(<<>>) - 1 = {}
  OBVIOUS
<1> QED
  BY <1>1 DEF Threads, Exits, Shape, Unique

LEMMA AgreePush ==
  ASSUME NEW s \in Seq(GoodFrame), NEW f \in GoodFrame, NEW st \in [Proc -> States],
         NEW L, Agree(s, st, L), Placed(f, s)
  PROVE  /\ f.at \notin {"thread"} \union ExitFrames => Agree(<<f>> \o s, st, L)
         /\ f.at = "thread" /\ st[f.p] = "RUNNING"
              => Agree(<<f>> \o s, [st EXCEPT ![f.p] = "CALLED"], L)
         /\ f.at \in ExitFrames /\ st[f.who] = "RUNNING"
              => Agree(<<f>> \o s, [st EXCEPT ![f.who] = "NONE"], L)
<1> DEFINE t == <<f>> \o s
<1>0. /\ Threads(t) = Threads(s) \union (IF f.at = "thread" THEN {f.p} ELSE {})
      /\ Exits(t) = Exits(s) \union (IF f.at \in ExitFrames THEN {f.who} ELSE {})
      /\ Unique(t) <=> /\ Unique(s)
                       /\ f.at = "thread" => f.p \notin Threads(s)
                       /\ f.at \in ExitFrames => f.who \notin Exits(s)
      /\ Shape(t) <=> Shape(s) /\ Placed(f, s)
  BY FrontFrame
<1>1. /\ "thread" \notin ExitFrames
      /\ f.at = "thread" => f.p \in Proc
      /\ f.at \in ExitFrames => f.who \in Proc
  BY DEF ExitFrames, ExitLoop, GoodFrame
<1> HIDE DEF t
<1>2. Agree(s, st, L)
  OBVIOUS
<1>3. f.at \notin {"thread"} \union ExitFrames => Agree(t, st, L)
  BY <1>0, <1>2 DEF Agree
<1>4. f.at = "thread" /\ st[f.p] = "RUNNING" => Agree(t, [st EXCEPT ![f.p] = "CALLED"], L)
  BY <1>0, <1>1, <1>2 DEF Agree
<1>5. f.at \in ExitFrames /\ st[f.who] = "RUNNING"
        => Agree(t, [st EXCEPT ![f.who] = "NONE"], L)
  BY <1>0, <1>1, <1>2 DEF Agree
<1> QED
  BY <1>3, <1>4, <1>5 DEF t

LEMMA AgreePop ==
  ASSUME NEW s \in Seq(GoodFrame), NEW st \in [Proc -> States], NEW L,
         Agree(s, st, L), s # <<>>
  PROVE  LET f == Head(s)
         IN  /\ f \in GoodFrame /\ Placed(f, Tail(s)) /\ Tail(s) \in Seq(GoodFrame)
             /\ f.at \notin {"thread"} \union ExitFrames => Agree(Tail(s), st, L)
             /\ f.at = "thread" => /\ st[f.p] = "CALLED"
                                   /\ Agree(Tail(s), [st EXCEPT ![f.p] = "RUNNING"], L)
             /\ f.at \in ExitFrames => /\ st[f.who] = "NONE" /\ f.who \in L
                                       /\ f.who \notin Exits(Tail(s))
                                       /\ Agree(Tail(s), st, L \ {f.who})
<1> DEFINE f == Head(s)  r == Tail(s)
<1>1. f \in GoodFrame /\ r \in Seq(GoodFrame) /\ s = <<f>> \o r
  BY HeadAndTail
<1>2. /\ Threads(s) = Threads(r) \union (IF f.at = "thread" THEN {f.p} ELSE {})
      /\ Exits(s) = Exits(r) \union (IF f.at \in ExitFrames THEN {f.who} ELSE {})
      /\ Unique(s) <=> /\ Unique(r)
                       /\ f.at = "thread" => f.p \notin Threads(r)
                       /\ f.at \in ExitFrames => f.who \notin Exits(r)
      /\ Shape(s) <=> Shape(r) /\ Placed(f, r)
  BY <1>1, FrontFrame
<1>3. /\ "thread" \notin ExitFrames
      /\ f.at = "thread" => f.p \in Proc
      /\ f.at \in ExitFrames => f.who \in Proc
  BY <1>1 DEF ExitFrames, ExitLoop, GoodFrame
<1> HIDE DEF f, r
<1>4. Agree(s, st, L)
  OBVIOUS
<1>5. f.at \notin {"thread"} \union ExitFrames => Agree(r, st, L)
  BY <1>2, <1>4 DEF Agree
<1>6. f.at = "thread" => /\ st[f.p] = "CALLED"
                         /\ Agree(r, [st EXCEPT ![f.p] = "RUNNING"], L)
  BY <1>2, <1>3, <1>4 DEF Agree
<1>7. f.at \in ExitFrames => /\ st[f.who] = "NONE" /\ f.who \in L
                             /\ f.who \notin Exits(r)
                             /\ Agree(r, st, L \ {f.who})
  BY <1>2, <1>3, <1>4 DEF Agree
<1>8. Placed(f, r)
  BY <1>2, <1>4 DEF Agree
<1> QED
  BY <1>1, <1>5, <1>6, <1>7, <1>8 DEF f, r

(* A frame that is no protothread moves, and exits what it exited before. *)
LEMMA AgreeMove ==
  ASSUME NEW s \in Seq(GoodFrame), NEW g \in GoodFrame, NEW st, NEW L,
         Agree(s, st, L), s # <<>>,
         Head(s).at # "thread", g.at # "thread", g.who = Head(s).who,
         g.at \in ExitFrames <=> Head(s).at \in ExitFrames,
         Placed(Head(s), Tail(s)) => Placed(g, Tail(s))
  PROVE  Agree(<<g>> \o Tail(s), st, L)
<1> DEFINE f == Head(s)  r == Tail(s)  t == <<g>> \o r
<1>1. f \in GoodFrame /\ r \in Seq(GoodFrame) /\ s = <<f>> \o r
  BY HeadAndTail
<1>2. /\ Threads(s) = Threads(r) /\ Threads(t) = Threads(r)
      /\ Exits(t) = Exits(s)
      /\ Unique(s) <=> Unique(t)
      /\ Shape(s) <=> Shape(r) /\ Placed(f, r)
      /\ Shape(t) <=> Shape(r) /\ Placed(g, r)
  <2>1. /\ Threads(t) = Threads(r) \union (IF g.at = "thread" THEN {g.p} ELSE {})
        /\ Exits(t) = Exits(r) \union (IF g.at \in ExitFrames THEN {g.who} ELSE {})
        /\ Unique(t) <=> /\ Unique(r)
                         /\ g.at = "thread" => g.p \notin Threads(r)
                         /\ g.at \in ExitFrames => g.who \notin Exits(r)
        /\ Shape(t) <=> Shape(r) /\ Placed(g, r)
    BY <1>1, FrontFrame
  <2>2. /\ Threads(s) = Threads(r) \union (IF f.at = "thread" THEN {f.p} ELSE {})
        /\ Exits(s) = Exits(r) \union (IF f.at \in ExitFrames THEN {f.who} ELSE {})
        /\ Unique(s) <=> /\ Unique(r)
                         /\ f.at = "thread" => f.p \notin Threads(r)
                         /\ f.at \in ExitFrames => f.who \notin Exits(r)
        /\ Shape(s) <=> Shape(r) /\ Placed(f, r)
    BY <1>1, FrontFrame
  <2>3. /\ f.at # "thread" /\ g.at # "thread" /\ g.who = f.who
        /\ g.at \in ExitFrames <=> f.at \in ExitFrames
    OBVIOUS
  <2> HIDE DEF f, r, t
  <2> QED
    BY <2>1, <2>2, <2>3
<1>3. Placed(f, r) => Placed(g, r)
  OBVIOUS
<1> HIDE DEF f, r, t
<1>4. Agree(s, st, L)
  OBVIOUS
<1>5. Agree(t, st, L)
  BY <1>2, <1>3, <1>4 DEF Agree
<1> QED
  BY <1>5 DEF t, r

LEMMA CallAgree ==
  ASSUME NEW p \in Proc, NEW ev \in Ev, NEW st \in [Proc -> States],
         NEW base \in Seq(GoodFrame), CallProcess(p, ev, st, base),
         Agree(base, st, Listed'), CursorAt(base, process_list', next', Listed'),
         base # <<>> => /\ Head(base).at \notin FirstLoop
                        /\ Head(base).at \in NextLoop => Head(base).p = p
  PROVE  /\ Agree(stack', state', Listed')
         /\ CursorAt(stack', process_list', next', Listed')
<1> DEFINE f == Call("thread", p, ev)
<1>1. f \in GoodFrame /\ f.at = "thread" /\ f.p = p
  BY CallFrame DEF Ref
<1>2. CASE Callable(p, st)
  <2>1. /\ state' = [st EXCEPT ![p] = "CALLED"] /\ stack' = <<f>> \o base
        /\ st[p] = "RUNNING"
    BY <1>2 DEF CallProcess, Callable
  <2>2. Placed(f, base)
    BY <1>1 DEF Placed, Above, EventFrames, EventLoop, PollLoop
  <2>3. Agree(<<f>> \o base, [st EXCEPT ![p] = "CALLED"], Listed')
    BY <1>1, <2>1, <2>2, AgreePush
  <2>4. Head(<<f>> \o base) = f
    BY <1>1, ConsProperties
  <2>5. CursorAt(<<f>> \o base, process_list', next', Listed')
    BY <1>1, <2>4 DEF CursorAt, FirstLoop, PollLoop
  <2> QED
    BY <2>1, <2>3, <2>5
<1>3. CASE ~Callable(p, st)
  <2>1. state' = st /\ stack' = base
    BY <1>3 DEF CallProcess
  <2> QED
    BY <2>1
<1> QED
  BY <1>2, <1>3

LEMMA ExitAgree ==
  ASSUME TypeOK, NEW p \in Proc, NEW from \in Ref, NEW base \in Seq(GoodFrame),
         NEW st \in [Proc -> States],
         ExitProcess(p, from, base), Agree(base, st, Listed),
         st[p] = "RUNNING", state[p] # "NONE",
         [st EXCEPT ![p] = "NONE"] = [state EXCEPT ![p] = "NONE"],
         base # <<>> => /\ Head(base).at \notin FirstLoop
                        /\ Head(base).at \in NextLoop => Head(base).p = p
  PROVE  /\ Agree(stack', state', Listed')
         /\ CursorAt(stack', process_list', next', Listed')
<1> DEFINE f == [Call("exit.first", process_list, "EXITED") EXCEPT
                   !.who = p, !.from = from, !.old = process_current]
<1>1. f \in GoodFrame /\ f.at = "exit.first" /\ f.p = process_list /\ f.who = p
  BY DEF TypeOK, Call, GoodFrame, Frame, At, Running, ExitFrames, ExitLoop,
         PollLoop, EventLoop, Ref, Ev
<1>2. p \in Listed
  BY DEF Agree
<1>3. /\ stack' = <<f>> \o base /\ state' = [state EXCEPT ![p] = "NONE"]
      /\ UNCHANGED <<process_list, next>>
  BY <1>2 DEF ExitProcess, OnList, list
<1>4. Listed' = Listed
  BY <1>3, SameList
<1> HIDE DEF f
<1>5. Placed(f, base)
  BY <1>1 DEF Placed, Above, EventFrames, EventLoop, PollLoop, ExitFrames, ExitLoop
<1>6. Agree(<<f>> \o base, [st EXCEPT ![p] = "NONE"], Listed)
  BY <1>1, <1>5, AgreePush DEF ExitFrames, ExitLoop
<1>7. Head(<<f>> \o base) = f
  BY <1>1, ConsProperties
<1>8. CursorAt(<<f>> \o base, process_list', next', Listed')
  BY <1>1, <1>3, <1>7 DEF CursorAt, PollLoop
<1> QED
  BY <1>3, <1>4, <1>6, <1>8

(* The frame on top, of what is left when it returns. *)
LEMMA TopOf ==
  ASSUME IInv, LInv, stack # <<>>
  PROVE  /\ Top \in GoodFrame /\ Top \in Frame /\ Below \in Seq(GoodFrame)
         /\ stack = <<Top>> \o Below
         /\ Placed(Top, Below) /\ stack \in Seq(GoodFrame)
<1>1. stack \in Seq(GoodFrame) /\ Agree(stack, state, Listed) /\ state \in [Proc -> States]
  BY DEF IInv, StackOK, LInv, TypeOK, States
<1> QED
  BY <1>1, AgreePop, HeadAndTail DEF Top, Below, GoodFrame

LEMMA TopMoves ==
  ASSUME IInv, LInv, stack # <<>>, NEW at \in At, NEW p \in Ref,
         at \in {"exit.next", "poll.next", "event.next"} => p \in Proc,
         \/ Top.at \in ExitFrames /\ at \in ExitFrames
         \/ Top.at \in PollLoop /\ at \in PollLoop
         \/ Top.at \in EventFrames /\ at \in EventFrames
  PROVE  LET s == Moved(at, p)
         IN  /\ Agree(s, state, Listed) /\ s \in Seq(GoodFrame) /\ s # <<>>
             /\ Head(s).at = at /\ Head(s).p = p /\ Head(s).who = Top.who
<1> DEFINE g == [Top EXCEPT !.at = at, !.p = p]
<1>1. /\ Top \in GoodFrame /\ Top \in Frame /\ Below \in Seq(GoodFrame)
      /\ Placed(Top, Below) /\ stack \in Seq(GoodFrame)
  BY TopOf
<1>2. g \in GoodFrame /\ g.at = at /\ g.p = p /\ g.who = Top.who
  BY <1>1 DEF GoodFrame, Frame, ExitFrames, ExitLoop, PollLoop, EventFrames, EventLoop
<1> HIDE DEF g
<1>3. /\ Top.at # "thread" /\ g.at # "thread"
      /\ g.at \in ExitFrames <=> Top.at \in ExitFrames
  BY <1>2 DEF ExitFrames, ExitLoop, PollLoop, EventFrames, EventLoop
<1>4. Placed(g, Below)
  BY <1>1, <1>2 DEF Placed, Above, ExitFrames, ExitLoop, PollLoop, EventFrames,
                    EventLoop, NextLoop, FirstLoop
<1>5. Agree(<<g>> \o Below, state, Listed)
  BY <1>1, <1>2, <1>3, <1>4, AgreeMove DEF LInv, Top, Below
<1>6. <<g>> \o Below \in Seq(GoodFrame) /\ <<g>> \o Below # <<>> /\ Head(<<g>> \o Below) = g
  BY <1>1, <1>2, ConsProperties
<1>7. Moved(at, p) = <<g>> \o Below
  BY DEF Moved, g
<1> QED
  BY <1>2, <1>5, <1>6, <1>7

(* No frame waits below process_run or the loop of a broadcast, and none    *)
(* of a process below do_poll.                                             *)
LEMMA Bottom ==
  ASSUME IInv, LInv, stack # <<>>
  PROVE  /\ Top.at \in EventFrames \union {"run"} => Below = <<>>
         /\ Top.at \in EventFrames \union {"run"} \union PollLoop
              => Threads(stack) = {} /\ Exits(stack) = {}
<1>1. /\ Top \in GoodFrame /\ Below \in Seq(GoodFrame) /\ stack = <<Top>> \o Below
      /\ Placed(Top, Below) /\ Shape(stack)
  BY TopOf DEF LInv, Agree
<1>2. Top.at \in EventFrames \union {"run"} => Below = <<>>
  BY <1>1 DEF Placed, Above
<1>3. /\ Threads(stack) = Threads(Below) \union (IF Top.at = "thread" THEN {Top.p} ELSE {})
      /\ Exits(stack) = Exits(Below) \union (IF Top.at \in ExitFrames THEN {Top.who} ELSE {})
      /\ Shape(Below)
  BY <1>1, FrontFrame
<1>4. Top.at \in EventFrames \union {"run"}
        => Threads(stack) = {} /\ Exits(stack) = {}
  BY <1>2, <1>3, NoFrames DEF EventFrames, EventLoop, ExitFrames, ExitLoop
<1>5. ASSUME Top.at \in PollLoop PROVE Threads(stack) = {} /\ Exits(stack) = {}
  <2> DEFINE f == Head(Below)  r == Tail(Below)
  <2>1. Below # <<>> /\ f.at \in {"run", "event.polled"}
    BY <1>1, <1>5 DEF Placed, Above
  <2>2. f \in GoodFrame /\ r \in Seq(GoodFrame) /\ Below = <<f>> \o r
    BY <1>1, <2>1, HeadAndTail
  <2>3. /\ Threads(Below) = Threads(r) \union (IF f.at = "thread" THEN {f.p} ELSE {})
        /\ Exits(Below) = Exits(r) \union (IF f.at \in ExitFrames THEN {f.who} ELSE {})
        /\ Placed(f, r)
    BY ZenonT(60), <1>3, <2>2, FrontFrame
  <2>4. r = <<>>
    BY <2>1, <2>3 DEF Placed, Above, EventFrames
  <2> QED
    BY <1>3, <1>5, <2>1, <2>3, <2>4, NoFrames DEF PollLoop, ExitFrames, ExitLoop
<1> QED
  BY <1>2, <1>4, <1>5

LEMMA StackTypes ==
  ASSUME IInv
  PROVE  stack \in Seq(GoodFrame) /\ state \in [Proc -> States]
         /\ process_list \in Ref /\ next \in [Proc -> Ref] /\ Listed \in SUBSET Proc
BY ReachTypes, ReachListed DEF IInv, StackOK, TypeOK, States

(* What a frame that is neither a protothread nor an exit leaves when it   *)
(* returns. *)
LEMMA PlainReturn ==
  ASSUME IInv, LInv, stack # <<>>, Top.at \notin {"thread"} \union ExitFrames,
         stack' = Below, state' = state, UNCHANGED list
  PROVE  LInv'
<1>1. Below \in Seq(GoodFrame) /\ Placed(Top, Below)
  BY TopOf
<1>2. Agree(Below, state, Listed)
  BY StackTypes, AgreePop DEF LInv, Top, Below
<1>3. Listed' = Listed /\ ListSound'
  BY SameList DEF LInv, list
<1>4. Below # <<>> => Head(Below).at \notin FirstLoop \union PollLoop
  BY <1>1 DEF Placed, Above, FirstLoop, NextLoop, PollLoop
<1>5. CursorAt(Below, process_list', next', Listed')
  BY <1>4 DEF CursorAt
<1> QED
  BY <1>2, <1>3, <1>5 DEF LInv

LEMMA ListKept ==
  ASSUME LInv, UNCHANGED list
  PROVE  /\ Listed' = Listed /\ ListSound'
         /\ process_list' = process_list /\ next' = next
BY SameList DEF LInv, list

LEMMA KeepsL ==
  ASSUME LInv, UNCHANGED <<list, state, stack>>
  PROVE  LInv'
<1>1. Listed' = Listed /\ ListSound'
  BY SameList DEF LInv, list
<1> QED
  BY <1>1 DEF LInv, list

(* The head of the list, and what follows an element, are of the list. *)
LEMMA OnTheList ==
  ASSUME IInv
  PROVE  /\ process_list \in Listed \union {NULL}
         /\ \A p \in Listed : next[p] \in Listed \union {NULL}
BY StackTypes, ReachListed, ReachStart, ReachNext DEF Ref

LEMMA RunL == ASSUME IInv, LInv, ProcessRun PROVE LInv'
<1> DEFINE r == Call("run", NULL, "USER")  f == Call("poll.first", process_list, "POLL")
           base == <<r>>
<1>1. /\ r \in GoodFrame /\ r.at = "run"
      /\ f \in GoodFrame /\ f.at = "poll.first" /\ f.p = process_list
  BY CallFrame, StackTypes DEF Ref, Ev
<1>2. stack = <<>> /\ (stack' = base \/ stack' = <<f>> \o base) /\ state' = state /\ UNCHANGED list
  BY DEF ProcessRun, PollFirst
<1>3. base = <<r>> \o <<>> /\ <<>> \in Seq(GoodFrame)
  OBVIOUS
<1> HIDE DEF r, f
<1>4. Placed(r, <<>>) /\ Agree(<<>>, state, Listed)
  BY <1>1, <1>2 DEF Placed, LInv, PollLoop
<1>5. Agree(base, state, Listed)
  BY <1>1, <1>3, <1>4, StackTypes, AgreePush DEF ExitFrames, ExitLoop
<1>6. base \in Seq(GoodFrame) /\ base # <<>> /\ Head(base) = r
  BY <1>1
<1> HIDE DEF base
<1>7. Placed(f, base)
  BY <1>1, <1>6 DEF Placed, Above, EventFrames, EventLoop, FirstLoop, NextLoop, ExitFrames, ExitLoop
<1>8. Agree(<<f>> \o base, state, Listed)
  BY <1>1, <1>5, <1>6, <1>7, StackTypes, AgreePush DEF ExitFrames, ExitLoop
<1>9. /\ CursorAt(base, process_list, next, Listed)
      /\ CursorAt(<<f>> \o base, process_list, next, Listed)
  <2>1. Head(<<f>> \o base) = f
    BY <1>1, <1>6, ConsProperties
  <2> QED
    BY <1>1, <1>6, <2>1, OnTheList DEF CursorAt, FirstLoop, PollLoop
<1> QED
  BY <1>2, <1>5, <1>8, <1>9, ListKept DEF LInv

LEMMA PollL == ASSUME IInv, LInv, DoPoll PROVE LInv'
<1>1. stack # <<>> /\ Top.at \in PollLoop /\ UNCHANGED list
  BY DEF DoPoll, TopAt
<1>2. /\ Threads(stack) = {} /\ Exits(stack) = {} /\ Top \in GoodFrame
  BY <1>1, Bottom, TopOf
<1>3. Cursor \in Listed \union {NULL}
  BY <1>1 DEF LInv, CursorAt, Top, Cursor, PollLoop
<1> DEFINE p == Cursor
<1>4. CASE p = NULL
  <2>1. stack' = Below /\ state' = state
    BY <1>4 DEF DoPoll
  <2> QED
    BY <1>1, <2>1, PlainReturn DEF PollLoop, ExitFrames, ExitLoop
<1>5. CASE p # NULL
  <2> DEFINE base == Moved("poll.next", p)
  <2>1. p \in Proc /\ p \in Listed
    BY <1>3, <1>5, StackTypes
  <2>2. /\ Agree(base, state, Listed) /\ base \in Seq(GoodFrame) /\ base # <<>>
        /\ Head(base).at = "poll.next" /\ Head(base).p = p
    BY <1>1, <2>1, TopMoves DEF PollLoop, At, Ref
  <2> HIDE DEF base
  <2>3. CursorAt(base, process_list, next, Listed)
    BY <2>1, <2>2, OnTheList DEF CursorAt, FirstLoop
  <2>4. CASE needspoll[p]
    <3>1. CallProcess(p, "POLL", [state EXCEPT ![p] = "RUNNING"], base)
      BY <1>5, <2>4 DEF DoPoll, base
    <3>2. state[p] = "RUNNING"
      BY <1>2, <2>1, StackTypes DEF LInv, Agree, States
    <3>3. [state EXCEPT ![p] = "RUNNING"] = state
      BY <3>2, StackTypes
    <3>4. CallProcess(p, "POLL", state, base) /\ "POLL" \in Ev
      BY <3>1, <3>3 DEF Ev
    <3>5. Head(base).at \notin FirstLoop /\ Head(base).p = p
      BY <2>2 DEF FirstLoop
    <3> HIDE DEF p
    <3>6. /\ Agree(stack', state', Listed')
          /\ CursorAt(stack', process_list', next', Listed')
      BY <1>1, <2>1, <2>2, <2>3, <3>4, <3>5, StackTypes, ListKept, CallAgree
    <3> QED
      BY <1>1, <3>6, ListKept DEF LInv
  <2>5. CASE ~needspoll[p]
    <3>1. stack' = base /\ state' = state
      BY <1>5, <2>5 DEF DoPoll, base
    <3> QED
      BY <1>1, <2>2, <2>3, <3>1, ListKept DEF LInv
  <2> QED
    BY <2>4, <2>5
<1> QED
  BY <1>4, <1>5

LEMMA EventL == ASSUME Orderly, IInv, LInv, DoEvent PROVE LInv'
<1>1. stack # <<>> /\ Top.at = "run" /\ UNCHANGED list
  BY DEF DoEvent, TopAt
<1>2. Below = <<>> /\ <<>> \in Seq(GoodFrame)
  BY <1>1, Bottom
<1>3. Agree(Below, state, Listed)
  <2>1. Top.at \notin {"thread"} \union ExitFrames
    BY <1>1 DEF ExitFrames, ExitLoop
  <2> QED
    BY <1>1, <2>1, StackTypes, AgreePop DEF LInv, Top, Below
<1>4. CASE events = <<>>
  <2>1. stack' = Below /\ state' = state
    BY <1>4 DEF DoEvent
  <2> QED
    BY <1>1, <2>1, PlainReturn DEF ExitFrames, ExitLoop
<1>5. CASE events # <<>>
  <2> DEFINE receiver == Head(events).p  ev == Head(events).ev
  <2>1. receiver \in Ref /\ ev \in Ev /\ ev # "INIT"
    <3>1. Head(events) \in [ev : PostedEvents, p : Ref]
      BY <1>5, HeadTailProperties DEF IInv, TypeOK
    <3> QED
      BY <3>1, KernelAssumption DEF Orderly
  <2>2. CASE receiver = NULL
    <3> DEFINE f == Call("event.first", process_list, ev)
    <3>1. stack' = <<f>> \o <<>> /\ state' = state
      BY <1>2, <1>5, <2>2 DEF DoEvent
    <3>2. f \in GoodFrame /\ f.at = "event.first" /\ f.p = process_list
      BY <2>1, CallFrame, StackTypes
    <3> HIDE DEF f
    <3>3. Agree(<<f>> \o <<>>, state, Listed)
      <4>1. Placed(f, <<>>)
        BY <3>2 DEF Placed, PollLoop
      <4> QED
        BY <1>2, <1>3, <3>2, <4>1, StackTypes, AgreePush DEF ExitFrames, ExitLoop
    <3>4. CursorAt(<<f>> \o <<>>, process_list, next, Listed)
      BY <1>2, <3>2, ConsProperties DEF CursorAt, PollLoop
    <3> QED
      BY <1>1, <3>1, <3>3, <3>4, ListKept DEF LInv
  <2>3. CASE receiver # NULL
    <3>1. CallProcess(receiver, ev, state, Below)
      BY <1>5, <2>1, <2>3 DEF DoEvent
    <3>2. CursorAt(Below, process_list', next', Listed')
      BY <1>2 DEF CursorAt
    <3>3. receiver \in Proc
      BY <2>1, <2>3 DEF Ref
    <3> HIDE DEF receiver, ev
    <3>4. /\ Agree(stack', state', Listed')
          /\ CursorAt(stack', process_list', next', Listed')
      BY <1>1, <1>2, <1>3, <2>1, <3>1, <3>2, <3>3, StackTypes, ListKept, CallAgree
    <3> QED
      BY <1>1, <3>4, ListKept DEF LInv
  <2> QED
    BY <2>2, <2>3
<1> QED
  BY <1>4, <1>5

LEMMA EventPollsL == ASSUME IInv, LInv, DoEventPolls PROVE LInv'
<1> DEFINE p == Cursor  base == Moved("event.polled", p)
           f == Call("poll.first", process_list, "POLL")
<1>1. /\ stack # <<>> /\ Top.at \in EventLoop /\ UNCHANGED list /\ state' = state
      /\ stack' = <<f>> \o base
  BY DEF DoEventPolls, TopAt, PollFirst, AfterPolls
<1>2. /\ Agree(base, state, Listed) /\ base \in Seq(GoodFrame) /\ base # <<>>
      /\ Head(base).at = "event.polled"
  BY <1>1, TopMoves, CursorType DEF At, EventFrames
<1>3. f \in GoodFrame /\ f.at = "poll.first" /\ f.p = process_list
  BY StackTypes, CallFrame DEF Ev
<1> HIDE DEF base, f
<1>4. Placed(f, base)
  BY <1>2, <1>3 DEF Placed, Above, EventFrames, EventLoop, FirstLoop, NextLoop, ExitFrames, ExitLoop
<1>5. Agree(<<f>> \o base, state, Listed)
  BY <1>2, <1>3, <1>4, StackTypes, AgreePush DEF ExitFrames, ExitLoop
<1>6. CursorAt(<<f>> \o base, process_list, next, Listed)
  <2>1. Head(<<f>> \o base) = f
    BY <1>2, <1>3, ConsProperties
  <2> QED
    BY <1>3, <2>1, OnTheList DEF CursorAt
<1> QED
  BY <1>1, <1>5, <1>6, ListKept DEF LInv

LEMMA EventCallL == ASSUME IInv, LInv, DoEventCall PROVE LInv'
<1> DEFINE p == Cursor  base == Moved("event.next", p)
<1>1. stack # <<>> /\ Top.at \in EventFrames /\ UNCHANGED list
  BY DEF DoEventCall, TopAt, EventFrames
<1>2. CASE p = NULL
  <2>1. stack' = Below /\ state' = state
    BY <1>2 DEF DoEventCall
  <2> QED
    BY <1>1, <2>1, PlainReturn DEF EventFrames, EventLoop, ExitFrames, ExitLoop
<1>3. CASE p # NULL
  <2>1. p \in Proc /\ Top.ev \in Ev
    BY <1>1, <1>3, CursorType, TopOf DEF Ref, Frame
  <2>2. /\ Agree(base, state, Listed) /\ base \in Seq(GoodFrame) /\ base # <<>>
        /\ Head(base).at = "event.next" /\ Head(base).p = p
    BY <1>1, <2>1, TopMoves DEF At, EventFrames, EventLoop, Ref
  <2>3. CallProcess(p, Top.ev, state, base)
    BY <1>3 DEF DoEventCall, AfterCall
  <2>4. /\ Head(base).at \notin FirstLoop
        /\ CursorAt(base, process_list', next', Listed')
    BY <2>2 DEF FirstLoop, CursorAt, PollLoop
  <2> HIDE DEF p, base
  <2>5. /\ Agree(stack', state', Listed')
        /\ CursorAt(stack', process_list', next', Listed')
    BY <1>1, <2>1, <2>2, <2>3, <2>4, StackTypes, ListKept, CallAgree
  <2> QED
    BY <1>1, <2>5, ListKept DEF LInv
<1> QED
  BY <1>2, <1>3

LEMMA InformL == ASSUME IInv, LInv, ExitInform PROVE LInv'
<1> DEFINE q == Cursor  p == Top.who  base == Moved("exit.next", q)
           gone == Moved("exit.unlink", q)  f == Call("last", p, "EXIT")
<1>1. stack # <<>> /\ Top.at \in ExitLoop /\ UNCHANGED list
  BY DEF ExitInform, TopAt
<1>2. q \in Ref /\ p \in Proc
  BY <1>1, CursorType, TopOf DEF GoodFrame, ExitFrames
<1>3. CASE q # NULL
  <2>1. q \in Proc
    BY <1>2, <1>3 DEF Ref
  <2>2. /\ Agree(base, state, Listed) /\ base \in Seq(GoodFrame) /\ base # <<>>
        /\ Head(base).at = "exit.next" /\ Head(base).p = q
    BY <1>1, <2>1, TopMoves DEF At, ExitFrames, ExitLoop, Ref
  <2>3. /\ Head(base).at \notin FirstLoop
        /\ CursorAt(base, process_list', next', Listed')
    BY <2>2 DEF FirstLoop, CursorAt, PollLoop
  <2>4. CallProcess(q, "EXITED", state, base) \/ (stack' = base /\ state' = state)
    BY <1>3 DEF ExitInform
  <2>5. "EXITED" \in Ev
    BY DEF Ev
  <2> HIDE DEF q, base
  <2>6. /\ Agree(stack', state', Listed')
        /\ CursorAt(stack', process_list', next', Listed')
    <3>1. CASE CallProcess(q, "EXITED", state, base)
      BY <1>1, <2>1, <2>2, <2>3, <2>5, <3>1, StackTypes, ListKept, CallAgree
    <3>2. CASE stack' = base /\ state' = state
      BY <1>1, <2>2, <2>3, <3>2, ListKept
    <3> QED
      BY <2>4, <3>1, <3>2
  <2> QED
    BY <1>1, <2>6, ListKept DEF LInv
<1>4. CASE q = NULL
  <2>1. (stack' = gone \/ stack' = <<f>> \o gone) /\ state' = state
    BY <1>2, <1>4, KernelAssumption DEF ExitInform
  <2>2. /\ Agree(gone, state, Listed) /\ gone \in Seq(GoodFrame) /\ gone # <<>>
        /\ Head(gone).at = "exit.unlink" /\ Head(gone).who = p
    BY <1>1, <1>2, TopMoves DEF At, ExitFrames, ExitLoop
  <2>3. f \in GoodFrame /\ f.at = "last" /\ f.p = p
    BY <1>2, CallFrame DEF Ev, Ref
  <2> HIDE DEF gone, f, p, q
  <2>4. Placed(f, gone)
    BY <2>2, <2>3 DEF Placed, Above, EventFrames, EventLoop, PollLoop, FirstLoop, NextLoop
  <2>5. Agree(<<f>> \o gone, state, Listed)
    BY <2>2, <2>3, <2>4, StackTypes, AgreePush DEF ExitFrames, ExitLoop
  <2>6. /\ CursorAt(gone, process_list, next, Listed)
        /\ CursorAt(<<f>> \o gone, process_list, next, Listed)
    <3>1. Head(<<f>> \o gone) = f
      BY <2>2, <2>3, ConsProperties
    <3> QED
      BY <2>2, <2>3, <3>1 DEF CursorAt, FirstLoop, PollLoop
  <2> QED
    BY <1>1, <2>1, <2>2, <2>5, <2>6, ListKept DEF LInv
<1> QED
  BY <1>3, <1>4

(* The process leaves the list; the loop that called it, if one did, finds *)
(* a next pointer that is still of the list.                               *)
LEMMA UnlinkL == ASSUME IInv, LInv, ExitUnlink PROVE LInv'
<1> DEFINE u == Top.who
<1>1. /\ stack # <<>> /\ Top.at = "exit.unlink" /\ Unlink(u) /\ stack' = Below
      /\ state' = state
  BY DEF ExitUnlink, TopAt
<1>2. Top.at \in ExitFrames /\ Top.at # "last"
  BY <1>1 DEF ExitFrames
<1>3. /\ u \in Proc /\ Placed(Top, Below) /\ Below \in Seq(GoodFrame)
  BY <1>1, <1>2, TopOf DEF GoodFrame
<1>4. u \in Listed /\ Agree(Below, state, Listed \ {u})
  BY <1>1, <1>2, StackTypes, AgreePop DEF LInv, Top, Below
<1>5. /\ Listed' = Listed \ {u} /\ ListSound' /\ next'[u] = next[u]
      /\ next' \in [Proc -> Ref]
  <2>1. TypeOK /\ ListSound
    BY DEF IInv, LInv
  <2> HIDE DEF u
  <2> QED
    BY <1>1, <1>3, <2>1, UnlinkLists
<1>6. next'[u] \in Listed' \union {NULL}
  <2>1. next[u] \in Listed \union {NULL}
    BY <1>4, OnTheList
  <2>2. next[u] # u
    BY <1>3, <1>4, ReachListed, ReachStart DEF LInv, ListSound
  <2> QED
    BY <1>5, <2>1, <2>2
<1>7. CursorAt(Below, process_list', next', Listed')
  <2>1. ASSUME Below # <<>>
        PROVE  /\ Head(Below).at \notin FirstLoop
               /\ Head(Below).at \in NextLoop => Head(Below).p = u
    BY <1>1, <1>3, <2>1 DEF Placed, Above
  <2> HIDE DEF u
  <2>2. ASSUME Below # <<>>, Head(Below).at \in PollLoop
        PROVE  Head(Below).at = "poll.next" /\ Head(Below).p = u
    BY <2>1, <2>2 DEF PollLoop, FirstLoop, NextLoop
  <2> QED
    BY <1>6, <2>1, <2>2 DEF CursorAt
<1> QED
  BY <1>1, <1>4, <1>5, <1>7 DEF LInv

LEMMA YieldL == ASSUME IInv, LInv, Yield PROVE LInv'
<1> DEFINE p == Top.p
<1>1. /\ stack # <<>> /\ Top.at = "thread" /\ UNCHANGED list /\ stack' = Below
      /\ state' = [state EXCEPT ![p] = "RUNNING"]
  BY DEF Yield, TopAt, StateAfter
<1>2. p \in Proc /\ Placed(Top, Below)
  BY <1>1, TopOf DEF GoodFrame
<1>3. Agree(Below, state', Listed) /\ state[p] = "CALLED"
  BY <1>1, StackTypes, AgreePop DEF LInv, Top, Below
<1>4. p \in Listed
  BY <1>2, <1>3 DEF LInv, Agree
<1>5. CursorAt(Below, process_list, next, Listed)
  <2>1. ASSUME Below # <<>>
        PROVE  /\ Head(Below).at \notin FirstLoop
               /\ Head(Below).at \in NextLoop => Head(Below).p = p
    BY <1>1, <1>2, <2>1 DEF Placed, Above, ExitFrames, ExitLoop
  <2> HIDE DEF p
  <2>2. ASSUME Below # <<>>, Head(Below).at \in PollLoop
        PROVE  Head(Below).at = "poll.next" /\ Head(Below).p = p
    BY <2>1, <2>2 DEF PollLoop, FirstLoop, NextLoop
  <2> QED
    BY <1>4, <2>1, <2>2, OnTheList DEF CursorAt
<1> QED
  BY <1>1, <1>3, <1>5, ListKept DEF LInv

LEMMA EndL == ASSUME IInv, LInv, End PROVE LInv'
<1> DEFINE p == Top.p  st == [state EXCEPT ![p] = "RUNNING"]
<1>1. stack # <<>> /\ Top.at = "thread" /\ ExitProcess(p, p, Below)
  BY DEF End, TopAt
<1>2. p \in Proc /\ Placed(Top, Below) /\ Below \in Seq(GoodFrame)
  BY <1>1, TopOf DEF GoodFrame
<1>3. Agree(Below, st, Listed) /\ state[p] = "CALLED"
  BY <1>1, StackTypes, AgreePop DEF LInv, Top, Below
<1>4. /\ st \in [Proc -> States] /\ st[p] = "RUNNING"
      /\ [st EXCEPT ![p] = "NONE"] = [state EXCEPT ![p] = "NONE"]
  BY <1>2, StackTypes DEF States
<1>5. Below # <<>> => /\ Head(Below).at \notin FirstLoop
                      /\ Head(Below).at \in NextLoop => Head(Below).p = p
  BY <1>1, <1>2 DEF Placed, Above, ExitFrames, ExitLoop
<1>6. TypeOK /\ p \in Ref
  BY <1>2 DEF IInv, Ref
<1>7. UNCHANGED list
  BY <1>1 DEF ExitProcess
<1> HIDE DEF p, st
<1>8. /\ Agree(stack', state', Listed')
      /\ CursorAt(stack', process_list', next', Listed')
  BY <1>1, <1>2, <1>3, <1>4, <1>5, <1>6, ExitAgree
<1> QED
  BY <1>7, <1>8, ListKept DEF LInv

(* A protothread is on top, and no loop of the kernel. *)
LEMMA CallerOnTop ==
  TopAt(Running) => stack # <<>> /\ Head(stack).at \notin FirstLoop \union NextLoop
BY DEF TopAt, Top, Running, FirstLoop, NextLoop

LEMMA ExitL == ASSUME Orderly, IInv, LInv, NEW p \in Proc, Exit(p) PROVE LInv'
<1>1. /\ stack # <<>> /\ Head(stack).at \notin FirstLoop \union NextLoop
      /\ p \notin Executing \union Exiting /\ ExitProcess(p, process_current, stack)
  BY CallerOnTop DEF Exit, Calling, Orderly
<1>2. UNCHANGED list
  BY <1>1 DEF ExitProcess
<1>3. p \notin Threads(stack) /\ p \notin Exits(stack)
  BY <1>1 DEF Executing, Exiting, OnStack, Threads, Exits
<1>4. CASE ~OnList(p)
  BY <1>1, <1>2, <1>4, KeepsL DEF ExitProcess
<1>5. CASE OnList(p)
  <2>1. state[p] = "RUNNING"
    BY <1>3, <1>5, StackTypes DEF LInv, Agree, OnList, States
  <2>2. TypeOK /\ process_current \in Ref /\ Agree(stack, state, Listed)
    BY DEF IInv, TypeOK, LInv
  <2>3. /\ Agree(stack', state', Listed')
        /\ CursorAt(stack', process_list', next', Listed')
    BY <1>1, <2>1, <2>2, StackTypes, ExitAgree
  <2> QED
    BY <1>2, <2>3, ListKept DEF LInv
<1> QED
  BY <1>4, <1>5

LEMMA SynchAgree ==
  ASSUME IInv, NEW p \in Proc, NEW ev \in Ev, NEW st \in [Proc -> States],
         Synch(p, ev, st), Agree(stack, st, Listed'),
         stack # <<>> => Head(stack).at \notin FirstLoop \union NextLoop
  PROVE  /\ Agree(stack', state', Listed')
         /\ CursorAt(stack', process_list', next', Listed')
<1> DEFINE f == [Call("synch", p, ev) EXCEPT !.old = process_current]  base == <<f>> \o stack
<1>1. f \in GoodFrame /\ f.at = "synch"
  BY SavingFrame DEF IInv, TypeOK, Ref
<1> HIDE DEF f
<1>2. /\ base \in Seq(GoodFrame) /\ base # <<>> /\ Head(base) = f
  BY <1>1, StackTypes, ConsProperties
<1>3. Placed(f, stack)
  BY <1>1 DEF Placed, Above, EventFrames, EventLoop, PollLoop
<1>4. Agree(base, st, Listed')
  BY <1>1, <1>3, StackTypes, AgreePush DEF ExitFrames, ExitLoop
<1>5. /\ Head(base).at \notin FirstLoop \union NextLoop
      /\ CursorAt(base, process_list', next', Listed')
  BY <1>1, <1>2 DEF CursorAt, FirstLoop, NextLoop, PollLoop
<1>6. CallProcess(p, ev, st, base)
  BY DEF Synch, f
<1> HIDE DEF base
<1> QED
  BY <1>2, <1>4, <1>5, <1>6, CallAgree

LEMMA PostSynchL ==
  ASSUME IInv, LInv, NEW ev \in PostedEvents, NEW p \in Proc, PostSynch(ev, p)
  PROVE  LInv'
<1>1. /\ Head(stack).at \notin FirstLoop \union NextLoop
      /\ Synch(p, ev, state) /\ UNCHANGED list
  BY CallerOnTop DEF PostSynch, Calling
<1>2. Agree(stack, state, Listed') /\ ev \in Ev
  BY <1>1, ListKept, KernelAssumption DEF LInv
<1>3. /\ Agree(stack', state', Listed')
      /\ CursorAt(stack', process_list', next', Listed')
  BY <1>1, <1>2, StackTypes, SynchAgree
<1> QED
  BY <1>1, <1>3, ListKept DEF LInv

LEMMA StartL == ASSUME IInv, LInv, NEW p \in Proc, Start(p) PROVE LInv'
<1> DEFINE st == [state EXCEPT ![p] = "RUNNING"]
<1>1. /\ stack # <<>> => Head(stack).at \notin FirstLoop \union NextLoop
      /\ Synch(p, "INIT", st)
  BY CallerOnTop DEF Start, Calling
<1>2. p \notin Listed /\ Listed' = Listed \union {p} /\ ListSound'
  BY StartLists DEF IInv, LInv
<1>3. st \in [Proc -> States] /\ "INIT" \in Ev
  BY StackTypes DEF States, Ev
<1>4. Agree(stack, st, Listed')
  <2>1. state[p] = "NONE" /\ p \notin Exits(stack) /\ p \notin Threads(stack)
    BY <1>2 DEF LInv, Agree
  <2>2. st[p] = "RUNNING" /\ \A q \in Proc : q # p => st[q] = state[q]
    BY StackTypes
  <2> HIDE DEF st
  <2> QED
    BY <1>2, <2>1, <2>2 DEF LInv, Agree
<1> HIDE DEF st
<1>5. /\ Agree(stack', state', Listed')
      /\ CursorAt(stack', process_list', next', Listed')
  BY <1>1, <1>3, <1>4, SynchAgree
<1> QED
  BY <1>2, <1>5 DEF LInv

LEMMA ContextL == ASSUME IInv, LInv, NEW p \in Proc, ContextBegin(p) PROVE LInv'
<1> DEFINE f == [Call("context", p, "USER") EXCEPT !.old = process_current]
<1>1. /\ stack # <<>> /\ Head(stack).at \notin FirstLoop \union NextLoop
      /\ stack' = <<f>> \o stack /\ state' = state /\ UNCHANGED list
  BY CallerOnTop DEF ContextBegin, Calling
<1>2. f \in GoodFrame /\ f.at = "context"
  BY SavingFrame DEF IInv, TypeOK, Ref, Ev
<1> HIDE DEF f
<1>3. Placed(f, stack)
  BY <1>1, <1>2 DEF Placed, Above, EventFrames, EventLoop, PollLoop
<1>4. Agree(<<f>> \o stack, state, Listed)
  BY <1>2, <1>3, StackTypes, AgreePush DEF LInv, ExitFrames, ExitLoop
<1>5. CursorAt(<<f>> \o stack, process_list, next, Listed)
  <2>1. Head(<<f>> \o stack) = f
    BY <1>2, StackTypes, ConsProperties
  <2> QED
    BY <1>2, <2>1 DEF CursorAt, FirstLoop, PollLoop
<1> QED
  BY <1>1, <1>4, <1>5, ListKept DEF LInv

LEMMA InitL == Init => LInv
<1> SUFFICES ASSUME Init PROVE LInv
  OBVIOUS
<1>1. Listed = {}
  BY ReachListed, ReachNull DEF Init
<1>2. ListSound
  BY <1>1 DEF ListSound
<1>3. Agree(stack, state, Listed)
  BY <1>1, NoFrames DEF Init, Agree
<1> QED
  BY <1>2, <1>3 DEF LInv, CursorAt, Init

LEMMA StepL == Orderly /\ IInv /\ LInv /\ [Next]_vars => LInv'
<1> SUFFICES ASSUME Orderly, IInv, LInv, [Next]_vars PROVE LInv'
  OBVIOUS
<1>1. ASSUME UNCHANGED vars PROVE LInv'
  BY <1>1, KeepsL DEF vars, list
<1>2. CASE Kernel
  <2>1. ASSUME SynchReturn PROVE LInv'
    BY <2>1, PlainReturn DEF SynchReturn, Restore, TopAt, ExitFrames, ExitLoop
  <2> QED
    BY <1>2, <2>1, RunL, PollL, EventL, EventPollsL, EventCallL, InformL, UnlinkL DEF Kernel
<1>3. CASE ThreadReturn
  <2>1. ASSUME ContextEnd PROVE LInv'
    BY <2>1, PlainReturn DEF ContextEnd, Restore, TopAt, ExitFrames, ExitLoop
  <2>2. ASSUME LastReturn PROVE LInv'
    BY <2>2, PlainReturn DEF LastReturn, TopAt, ExitFrames, ExitLoop
  <2> QED
    BY <1>3, <2>1, <2>2, YieldL, EndL DEF ThreadReturn
<1>4. CASE ThreadCall
  <2>1. ASSUME NEW ev \in PostedEvents, NEW p \in Ref, Post(ev, p) PROVE LInv'
    BY <2>1, KeepsL DEF Post
  <2>2. ASSUME NEW p \in Proc, Poll(p) PROVE LInv'
    BY <2>2, KeepsL DEF Poll
  <2> QED
    BY <1>4, <2>1, <2>2, PostSynchL, StartL, ExitL, ContextL DEF ThreadCall
<1>5. CASE Boot
  BY <1>5, KeepsL DEF Boot
<1> QED
  BY <1>1, <1>2, <1>3, <1>4, <1>5 DEF Next

LEMMA AgreeAlways == Orderly => (Spec => [](IInv /\ LInv))
<1> SUFFICES ASSUME Orderly PROVE Spec => [](IInv /\ LInv)
  OBVIOUS
<1>1. Init => LInv
  BY InitL
<1>2. IInv /\ LInv /\ [Next]_vars => LInv'
  BY StepL
<1> QED
  BY <1>1, <1>2, Invariance, PTL DEF Spec

(* A process is on the list exactly while it is running or is about to be  *)
(* unlinked by exit_process, through every nesting of starts and exits.    *)
THEOREM StatesMatchList == Orderly => (Spec => []RunningIsListed)
<1>1. LInv => RunningIsListed
  BY DEF LInv, Agree, RunningIsListed, Exiting, Exits
<1> QED
  BY <1>1, AgreeAlways, PTL

(* PROCESS_STATE_CALLED marks exactly the processes whose protothreads are *)
(* on the stack, and no protothread is on it twice, not even for the       *)
(* PROCESS_EVENT_EXIT that exit_process sends it past call_process.        *)
THEOREM StatesMatchStack == Orderly => (Spec => []StackSound)
<1>1. ASSUME LInv, IInv PROVE StackSound
  <2>1. CalledIsOnStack
    BY <1>1 DEF LInv, Agree, CalledIsOnStack, OnStack, Exiting, Exits, Threads
  <2>2. stack \in Seq(GoodFrame) /\ Len(stack) \in Nat /\ DOMAIN stack = 1 .. Len(stack)
    BY <1>1, StackTypes, LenProperties
  <2>3. ASSUME NEW i \in DOMAIN stack, stack[i].at = "last"
        PROVE  /\ i + 1 \in DOMAIN stack /\ i \in Nat
               /\ stack[i + 1].at \in ExitFrames /\ stack[i + 1].who = stack[i].p
    <3>1. i # Len(stack) /\ i \in 1 .. Len(stack) - 1
      BY <1>1, <2>2, <2>3 DEF LInv, Agree, Shape
    <3>2. Above(stack[i], stack[i + 1])
      BY <1>1, <3>1 DEF LInv, Agree, Shape
    <3> QED
      BY <2>2, <2>3, <3>1, <3>2 DEF Above, ExitFrames
  <2>4. ASSUME NEW i \in DOMAIN stack, NEW j \in DOMAIN stack, stack[i].p = stack[j].p,
               stack[i].at = "thread", stack[j].at = "last"
        PROVE  FALSE
    <3>1. stack[i].p \in Exits(stack) /\ stack[i].p \in Threads(stack)
      BY <2>3, <2>4 DEF Exits, Threads
    <3>2. stack[i].p \in Proc
      <4>1. stack[i] \in GoodFrame
        BY <2>2
      <4> QED
        BY <2>4, <4>1 DEF GoodFrame
    <3> QED
      BY <1>1, <3>1, <3>2 DEF LInv, Agree
  <2>5. ASSUME NEW i \in DOMAIN stack, NEW j \in DOMAIN stack, stack[i].p = stack[j].p,
               stack[i].at \in {"thread", "last"}, stack[j].at \in {"thread", "last"}
        PROVE  i = j
    <3>1. CASE stack[i].at = "thread" /\ stack[j].at = "thread"
      BY <1>1, <2>5, <3>1 DEF LInv, Agree, Unique
    <3>2. CASE stack[i].at = "last" /\ stack[j].at = "last"
      <4>1. i + 1 = j + 1
        BY <1>1, <2>3, <2>5, <3>2 DEF LInv, Agree, Unique
      <4> QED
        BY <2>3, <3>2, <4>1
    <3> QED
      BY <2>4, <2>5, <3>1, <3>2
  <2>6. NoReentry
    BY <2>5 DEF NoReentry
  <2> QED
    BY <2>1, <2>6 DEF StackSound
<1> QED
  BY <1>1, AgreeAlways, PTL

------------------------------------------------------------------------------
(* Delivery: what the loops on the stack have still to visit.               *)

Ahead(f, g) == IF f.at \in NextLoop THEN Reach(g[f.p], g) ELSE Reach(f.p, g)

Frames(s, A) == {s[i] : i \in {j \in DOMAIN s : s[j].at \in A}}

(* The protothreads below frame i, and the exits, each with those.          *)
Under(s, i) == {s[j].p : j \in {k \in DOMAIN s : k > i /\ s[k].at = "thread"}}
Leaving(s) == {<<s[i], Under(s, i)>> : i \in {j \in DOMAIN s : s[j].at \in ExitFrames}}

LEMMA FrontSets ==
  ASSUME NEW s \in Seq(GoodFrame), NEW f \in GoodFrame, NEW t, t = <<f>> \o s
  PROVE  /\ \A A : Frames(t, A) = Frames(s, A) \union (IF f.at \in A THEN {f} ELSE {})
         /\ Leaving(t) = Leaving(s) \union
                           (IF f.at \in ExitFrames THEN {<<f, Threads(s)>>} ELSE {})
<1>1. /\ t \in Seq(GoodFrame) /\ Len(t) = Len(s) + 1 /\ t[1] = f
      /\ \A i \in 1 .. Len(s) : t[i + 1] = s[i]
  BY ConsProperties
<1>2. Len(s) \in Nat /\ DOMAIN s = 1 .. Len(s) /\ DOMAIN t = 1 .. Len(s) + 1
  BY <1>1, LenProperties
<1>3. /\ 1 \in DOMAIN t
      /\ \A i \in DOMAIN s : i + 1 \in DOMAIN t /\ t[i + 1] = s[i]
      /\ \A i \in DOMAIN t : i = 1 \/ \E j \in DOMAIN s : i = j + 1
  <2>1. \A i \in DOMAIN t : i = 1 \/ (i - 1 \in DOMAIN s /\ i = (i - 1) + 1)
    BY <1>2
  <2> QED
    BY <1>1, <1>2, <2>1
<1>4. /\ \A i \in DOMAIN s : i \in Nat /\ i + 1 > 1
      /\ \A i, j \in DOMAIN s : i + 1 > j + 1 <=> i > j
      /\ ~(1 > 1) /\ \A j \in DOMAIN s : ~(1 > j + 1)
  BY <1>2
<1>5. ASSUME NEW A
      PROVE  Frames(t, A) = Frames(s, A) \union (IF f.at \in A THEN {f} ELSE {})
  <2>1. \A e : e \in Frames(t, A) <=> \E i \in DOMAIN t : t[i].at \in A /\ t[i] = e
    BY DEF Frames
  <2>2. \A e : e \in Frames(s, A) <=> \E i \in DOMAIN s : s[i].at \in A /\ s[i] = e
    BY DEF Frames
  <2>3. \A e : e \in Frames(t, A) => e \in Frames(s, A) \/ (f.at \in A /\ e = f)
    BY <1>1, <1>3, <2>1, <2>2
  <2>4. \A e : e \in Frames(s, A) => e \in Frames(t, A)
    BY <1>3, <2>1, <2>2
  <2>5. f.at \in A => f \in Frames(t, A)
    BY <1>1, <1>3, <2>1
  <2> QED
    BY <2>3, <2>4, <2>5
<1>6. Under(t, 1) = Threads(s)
  <2>1. \A e : e \in Under(t, 1) <=> \E i \in DOMAIN t : i > 1 /\ t[i].at = "thread" /\ t[i].p = e
    BY DEF Under
  <2>2. \A e : e \in Threads(s) <=> \E i \in DOMAIN s : s[i].at = "thread" /\ s[i].p = e
    BY DEF Threads
  <2>3. ASSUME NEW e, e \in Under(t, 1) PROVE e \in Threads(s)
    <3>1. PICK i \in DOMAIN t : i > 1 /\ t[i].at = "thread" /\ t[i].p = e
      BY <2>1, <2>3
    <3>2. PICK j \in DOMAIN s : i = j + 1
      BY <1>3, <1>4, <3>1
    <3> QED
      BY <1>3, <2>2, <3>1, <3>2
  <2>4. ASSUME NEW e, e \in Threads(s) PROVE e \in Under(t, 1)
    <3>1. PICK j \in DOMAIN s : s[j].at = "thread" /\ s[j].p = e
      BY <2>2, <2>4
    <3>2. j + 1 \in DOMAIN t /\ t[j + 1] = s[j] /\ j + 1 > 1
      BY <1>3, <1>4
    <3> QED
      BY <2>1, <3>1, <3>2
  <2> QED
    BY <2>3, <2>4
<1>7. ASSUME NEW i \in DOMAIN s PROVE Under(t, i + 1) = Under(s, i)
  <2>1. \A e : e \in Under(t, i + 1)
                 <=> \E k \in DOMAIN t : k > i + 1 /\ t[k].at = "thread" /\ t[k].p = e
    BY DEF Under
  <2>2. \A e : e \in Under(s, i)
                 <=> \E k \in DOMAIN s : k > i /\ s[k].at = "thread" /\ s[k].p = e
    BY DEF Under
  <2>3. ASSUME NEW e, e \in Under(t, i + 1) PROVE e \in Under(s, i)
    <3>1. PICK k \in DOMAIN t : k > i + 1 /\ t[k].at = "thread" /\ t[k].p = e
      BY <2>1, <2>3
    <3>2. PICK j \in DOMAIN s : k = j + 1
      BY <1>3, <1>4, <3>1
    <3>3. j > i /\ t[k] = s[j]
      BY <1>3, <1>4, <3>1, <3>2
    <3> QED
      BY <2>2, <3>1, <3>3
  <2>4. ASSUME NEW e, e \in Under(s, i) PROVE e \in Under(t, i + 1)
    <3>1. PICK j \in DOMAIN s : j > i /\ s[j].at = "thread" /\ s[j].p = e
      BY <2>2, <2>4
    <3>2. j + 1 \in DOMAIN t /\ t[j + 1] = s[j] /\ j + 1 > i + 1
      BY <1>3, <1>4, <3>1
    <3> QED
      BY <2>1, <3>1, <3>2
  <2> QED
    BY <2>3, <2>4
<1>8. Leaving(t) = Leaving(s) \union
                     (IF f.at \in ExitFrames THEN {<<f, Threads(s)>>} ELSE {})
  <2>1. \A e : e \in Leaving(t)
                 <=> \E i \in DOMAIN t : t[i].at \in ExitFrames /\ e = <<t[i], Under(t, i)>>
    BY DEF Leaving
  <2>2. \A e : e \in Leaving(s)
                 <=> \E i \in DOMAIN s : s[i].at \in ExitFrames /\ e = <<s[i], Under(s, i)>>
    BY DEF Leaving
  <2>3. \A e : e \in Leaving(t)
                 => e \in Leaving(s) \/ (f.at \in ExitFrames /\ e = <<f, Threads(s)>>)
    BY <1>1, <1>3, <1>6, <1>7, <2>1, <2>2
  <2>4. ASSUME NEW e, e \in Leaving(s) PROVE e \in Leaving(t)
    <3>1. PICK i \in DOMAIN s : s[i].at \in ExitFrames /\ e = <<s[i], Under(s, i)>>
      BY <2>2, <2>4
    <3>2. i + 1 \in DOMAIN t /\ t[i + 1] = s[i] /\ Under(t, i + 1) = Under(s, i)
      BY <1>3, <1>7
    <3> QED
      BY <2>1, <3>1, <3>2
  <2>5. f.at \in ExitFrames => <<f, Threads(s)>> \in Leaving(t)
    BY <1>1, <1>3, <1>6, <2>1
  <2> QED
    BY <2>3, <2>4, <2>5
<1> QED
  BY <1>5, <1>8

LEMMA NoneLeft == (\A A : Frames(<<>>, A) = {}) /\ Leaving(<<>>) = {}
<1>1. DOMAIN <<>> = {}
  OBVIOUS
<1> QED
  BY <1>1 DEF Frames, Leaving

LEMMA FramesTop ==
  ASSUME IInv, LInv, stack # <<>>
  PROVE  /\ \A A : Frames(stack, A) = Frames(Below, A) \union (IF Top.at \in A THEN {Top} ELSE {})
         /\ Leaving(stack) = Leaving(Below) \union
              (IF Top.at \in ExitFrames THEN {<<Top, Threads(Below)>>} ELSE {})
BY TopOf, FrontSets

LEMMA FramesCall ==
  ASSUME NEW p \in Proc, NEW ev \in Ev, NEW st, NEW base \in Seq(GoodFrame),
         CallProcess(p, ev, st, base)
  PROVE  /\ Frames(stack', EventFrames) = Frames(base, EventFrames)
         /\ Frames(stack', PollLoop) = Frames(base, PollLoop)
         /\ Leaving(stack') = Leaving(base)
<1> DEFINE f == Call("thread", p, ev)
<1>1. f \in GoodFrame /\ f.at = "thread"
  BY CallFrame DEF Ref
<1>2. stack' = base \/ stack' = <<f>> \o base
  BY DEF CallProcess
<1> HIDE DEF f
<1>3. ASSUME stack' = <<f>> \o base
      PROVE  /\ Frames(stack', EventFrames) = Frames(base, EventFrames)
             /\ Frames(stack', PollLoop) = Frames(base, PollLoop)
             /\ Leaving(stack') = Leaving(base)
  <2>1. f.at \notin EventFrames \union PollLoop \union ExitFrames
    BY <1>1 DEF EventFrames, EventLoop, PollLoop, ExitFrames, ExitLoop
  <2> DEFINE t == <<f>> \o base
  <2>2. /\ \A A : Frames(t, A) = Frames(base, A) \union (IF f.at \in A THEN {f} ELSE {})
        /\ Leaving(t) = Leaving(base) \union
                         (IF f.at \in ExitFrames THEN {<<f, Threads(base)>>} ELSE {})
    BY <1>1, FrontSets
  <2> HIDE DEF t
  <2>3. /\ Frames(t, EventFrames) = Frames(base, EventFrames)
        /\ Frames(t, PollLoop) = Frames(base, PollLoop)
        /\ Leaving(t) = Leaving(base)
    BY <2>1, <2>2
  <2>4. stack' = t
    BY <1>3 DEF t
  <2> QED
    BY <2>3, <2>4
<1> QED
  BY <1>2, <1>3

LEMMA FramesMoved ==
  ASSUME IInv, LInv, stack # <<>>, NEW at \in At, NEW p \in Ref,
         at \in {"exit.next", "poll.next", "event.next"} => p \in Proc,
         \/ Top.at \in ExitFrames /\ at \in ExitFrames
         \/ Top.at \in PollLoop /\ at \in PollLoop
         \/ Top.at \in EventFrames /\ at \in EventFrames
  PROVE  LET f == Head(Moved(at, p))
         IN  /\ f \in GoodFrame /\ f.at = at /\ f.p = p /\ f.who = Top.who
             /\ \A A : Frames(Moved(at, p), A)
                         = Frames(Below, A) \union (IF at \in A THEN {f} ELSE {})
             /\ Leaving(Moved(at, p)) = Leaving(Below) \union
                  (IF at \in ExitFrames THEN {<<f, Threads(Below)>>} ELSE {})
<1> DEFINE g == [Top EXCEPT !.at = at, !.p = p]
<1>1. /\ Top \in GoodFrame /\ Top \in Frame /\ Below \in Seq(GoodFrame)
  BY TopOf
<1>2. g \in GoodFrame /\ g.at = at /\ g.p = p /\ g.who = Top.who
  BY <1>1 DEF GoodFrame, Frame, ExitFrames, ExitLoop, PollLoop, EventFrames, EventLoop
<1>3. Moved(at, p) = <<g>> \o Below
  BY DEF Moved
<1> HIDE DEF g
<1>4. Head(<<g>> \o Below) = g
  BY <1>1, <1>2, ConsProperties
<1>5. /\ \A A : Frames(<<g>> \o Below, A)
                   = Frames(Below, A) \union (IF g.at \in A THEN {g} ELSE {})
      /\ Leaving(<<g>> \o Below) = Leaving(Below) \union
              (IF g.at \in ExitFrames THEN {<<g, Threads(Below)>>} ELSE {})
  BY <1>1, <1>2, FrontSets
<1> QED
  BY <1>2, <1>3, <1>4, <1>5

LEMMA FramesPush ==
  ASSUME NEW f \in GoodFrame, NEW base \in Seq(GoodFrame), stack' = <<f>> \o base
  PROVE  /\ \A A : Frames(stack', A) = Frames(base, A) \union (IF f.at \in A THEN {f} ELSE {})
         /\ Leaving(stack') = Leaving(base) \union
                              (IF f.at \in ExitFrames THEN {<<f, Threads(base)>>} ELSE {})
<1> DEFINE t == <<f>> \o base
<1>1. /\ \A A : Frames(t, A) = Frames(base, A) \union (IF f.at \in A THEN {f} ELSE {})
      /\ Leaving(t) = Leaving(base) \union
                      (IF f.at \in ExitFrames THEN {<<f, Threads(base)>>} ELSE {})
  BY FrontSets
<1>2. stack' = t
  OBVIOUS
<1> HIDE DEF t
<1> QED
  BY <1>1, <1>2

(* exit_process puts one exit on the stack, or none. *)
LEMMA FramesExit ==
  ASSUME TypeOK, NEW p \in Proc, NEW from \in Ref, NEW base \in Seq(GoodFrame),
         ExitProcess(p, from, base), state[p] = "NONE" => ~OnList(p)
  PROVE  /\ Frames(stack', EventFrames) = Frames(base, EventFrames)
         /\ Frames(stack', PollLoop) = Frames(base, PollLoop)
         /\ \/ /\ Leaving(stack') = Leaving(base)
               /\ UNCHANGED <<state, asked, owed, uninformed>>
            \/ /\ state[p] # "NONE"
               /\ \E f \in GoodFrame :
                    /\ f.at = "exit.first" /\ f.p = process_list /\ f.who = p
                    /\ Leaving(stack') = Leaving(base) \union {<<f, Threads(base)>>}
<1> DEFINE f == [Call("exit.first", process_list, "EXITED") EXCEPT
                   !.who = p, !.from = from, !.old = process_current]
<1>1. f \in GoodFrame /\ f.at = "exit.first" /\ f.p = process_list /\ f.who = p
  BY DEF TypeOK, Call, GoodFrame, Frame, At, Running, ExitFrames, ExitLoop,
         PollLoop, EventLoop, Ref, Ev
<1>2. CASE ~OnList(p)
  <2>1. stack' = base /\ UNCHANGED <<state, asked, owed, uninformed>>
    BY <1>2 DEF ExitProcess
  <2> QED
    BY <2>1
<1>3. CASE OnList(p)
  <2>1. stack' = <<f>> \o base /\ state[p] # "NONE"
    BY <1>3 DEF ExitProcess
  <2> HIDE DEF f
  <2>2. f.at \in ExitFrames /\ f.at \notin EventFrames /\ f.at \notin PollLoop
    BY <1>1 DEF ExitFrames, ExitLoop, EventFrames, EventLoop, PollLoop
  <2>3. /\ \A A : Frames(stack', A) = Frames(base, A) \union (IF f.at \in A THEN {f} ELSE {})
        /\ Leaving(stack') = Leaving(base) \union
                             (IF f.at \in ExitFrames THEN {<<f, Threads(base)>>} ELSE {})
    BY <1>1, <2>1, FramesPush
  <2>4. /\ Frames(stack', EventFrames) = Frames(base, EventFrames)
        /\ Frames(stack', PollLoop) = Frames(base, PollLoop)
        /\ Leaving(stack') = Leaving(base) \union {<<f, Threads(base)>>}
    BY <2>2, <2>3
  <2> QED
    BY <1>1, <2>1, <2>4
<1> QED
  BY <1>2, <1>3

(* The loops on the stack, and the exits: which steps change them.          *)
SameFrames ==
  /\ Frames(stack', EventFrames) = Frames(stack, EventFrames)
  /\ Frames(stack', PollLoop) = Frames(stack, PollLoop)
  /\ Leaving(stack') \subseteq Leaving(stack)

LEMMA ReturnFrames ==
  ASSUME IInv, LInv, stack # <<>>, stack' = Below, Top.at \notin EventFrames \union PollLoop
  PROVE  SameFrames
BY FramesTop DEF SameFrames

LEMMA SynchFrames ==
  ASSUME IInv, NEW p \in Proc, NEW ev \in Ev, NEW st, Synch(p, ev, st)
  PROVE  SameFrames
<1> DEFINE f == [Call("synch", p, ev) EXCEPT !.old = process_current]  base == <<f>> \o stack
<1>1. f \in GoodFrame /\ f.at = "synch"
  BY SavingFrame DEF IInv, TypeOK, Ref
<1> HIDE DEF f
<1>2. base \in Seq(GoodFrame)
  BY <1>1, StackTypes, ConsProperties
<1>3. /\ \A A : Frames(base, A) = Frames(stack, A) \union (IF f.at \in A THEN {f} ELSE {})
      /\ Leaving(base) = Leaving(stack) \union
                         (IF f.at \in ExitFrames THEN {<<f, Threads(stack)>>} ELSE {})
  BY <1>1, StackTypes, FrontSets
<1>4. f.at \notin EventFrames /\ f.at \notin PollLoop /\ f.at \notin ExitFrames
  BY <1>1 DEF EventFrames, EventLoop, PollLoop, ExitFrames, ExitLoop
<1>5. CallProcess(p, ev, st, base)
  BY DEF Synch, f
<1> HIDE DEF base
<1>6. /\ Frames(stack', EventFrames) = Frames(base, EventFrames)
      /\ Frames(stack', PollLoop) = Frames(base, PollLoop)
      /\ Leaving(stack') = Leaving(base)
  BY <1>2, <1>5, FramesCall
<1> QED
  BY <1>3, <1>4, <1>6 DEF SameFrames

LEMMA ContextFrames ==
  ASSUME IInv, NEW p \in Proc, ContextBegin(p) PROVE SameFrames
<1> DEFINE f == [Call("context", p, "USER") EXCEPT !.old = process_current]
<1>1. f \in GoodFrame /\ f.at = "context"
  BY SavingFrame DEF IInv, TypeOK, Ref, Ev
<1>2. stack' = <<f>> \o stack
  BY DEF ContextBegin
<1> HIDE DEF f
<1>3. /\ \A A : Frames(stack', A) = Frames(stack, A) \union (IF f.at \in A THEN {f} ELSE {})
      /\ Leaving(stack') = Leaving(stack) \union
                           (IF f.at \in ExitFrames THEN {<<f, Threads(stack)>>} ELSE {})
  BY <1>1, <1>2, StackTypes, FramesPush
<1>4. f.at \notin EventFrames /\ f.at \notin PollLoop /\ f.at \notin ExitFrames
  BY <1>1 DEF EventFrames, EventLoop, PollLoop, ExitFrames, ExitLoop
<1> QED
  BY <1>3, <1>4 DEF SameFrames

(* The next pointers change under a loop only so that it visits what it    *)
(* would have visited, less what has left the list, and nothing more       *)
(* unless a process is started.                                            *)
Visits ==
  \A f \in GoodFrame :
    /\ Ahead(f, next) \intersect Listed \intersect Listed' \subseteq Ahead(f, next')
    /\ served' = {} \/ Ahead(f, next') \subseteq Ahead(f, next)

LEMMA StepVisits == ASSUME IInv, LInv, [Next]_vars PROVE Visits
<1>1. CASE ExitUnlink
  <2> DEFINE u == Top.who
  <2>1. stack # <<>> /\ Top.at \in ExitFrames /\ Unlink(u)
    BY <1>1 DEF ExitUnlink, TopAt, ExitFrames
  <2>2. u \in Proc /\ TypeOK /\ ListSound
    BY <2>1, TopFrame DEF IInv, GoodFrame, LInv
  <2> HIDE DEF u
  <2>3. /\ Listed' = Listed \ {u} /\ next' \in [Proc -> Ref] /\ next'[u] = next[u]
        /\ \A c \in Ref : /\ Reach(c, next') \subseteq Reach(c, next)
                          /\ Reach(c, next) \ {u} \subseteq Reach(c, next')
        /\ \A q \in Proc : next'[q] = next[q] \/ (next[q] = u /\ next'[q] = next[u])
    BY <2>1, <2>2, UnlinkLists
  <2>4. ASSUME NEW f \in GoodFrame
        PROVE  /\ Ahead(f, next) \ {u} \subseteq Ahead(f, next')
               /\ Ahead(f, next') \subseteq Ahead(f, next)
    <3>1. CASE f.at \in NextLoop
      <4>1. f.p \in Proc /\ next \in [Proc -> Ref] /\ next[f.p] \in Ref /\ next[u] \in Ref
        BY <2>2, <3>1, StackTypes DEF NextLoop, GoodFrame
      <4>2. CASE next'[f.p] = next[f.p]
        BY <2>3, <3>1, <4>1, <4>2 DEF Ahead
      <4>3. CASE next[f.p] = u /\ next'[f.p] = next[u]
        <5>1. Reach(u, next) = {u} \union Reach(next[u], next)
          BY <2>2, <4>1, ReachStep
        <5> QED
          BY <2>3, <3>1, <4>1, <4>3, <5>1 DEF Ahead
      <4> QED
        BY <2>3, <4>1, <4>2, <4>3
    <3>2. CASE f.at \notin NextLoop
      <4>1. f.p \in Ref
        BY DEF GoodFrame, Frame
      <4> QED
        BY <2>3, <3>2, <4>1 DEF Ahead
    <3> QED
      BY <3>1, <3>2
  <2> QED
    BY <2>3, <2>4 DEF Visits
<1>2. ASSUME NEW p \in Proc, Start(p) PROVE Visits
  <2>1. /\ Listed' = Listed \union {p}
        /\ \A c : Reach(c, next) \intersect Listed \subseteq Reach(c, next')
        /\ next'[p] = process_list /\ \A q \in Proc : q # p => next'[q] = next[q]
    BY <1>2, StartLists DEF IInv, LInv
  <2>2. served' = {}
    BY <1>2 DEF Start
  <2>3. ASSUME NEW f \in GoodFrame
        PROVE  Ahead(f, next) \intersect Listed \subseteq Ahead(f, next')
    <3>1. CASE f.at \in NextLoop /\ f.p = p
      <4>1. Listed \subseteq Reach(process_list, next')
        BY <2>1, ReachListed
      <4> QED
        BY <2>1, <3>1, <4>1 DEF Ahead
    <3>2. CASE f.at \in NextLoop /\ f.p # p
      <4>1. f.p \in Proc
        BY <3>2 DEF NextLoop, GoodFrame
      <4> QED
        BY <2>1, <3>2, <4>1 DEF Ahead
    <3>3. CASE f.at \notin NextLoop
      BY <2>1, <3>3 DEF Ahead
    <3> QED
      BY <3>1, <3>2, <3>3
  <2> QED
    BY <2>1, <2>2, <2>3 DEF Visits
<1>3. CASE UNCHANGED <<process_list, next>>
  BY <1>3 DEF Visits
<1> QED
  BY <1>1, <1>2, <1>3, ListSteps

(* Who stops running is not owed or asked for anything any more. *)
Cleans ==
  \A p \in Proc : state[p] # "NONE" /\ state'[p] = "NONE" =>
    p \notin owed' /\ ~asked'[p] /\ \A q \in Proc : p \notin uninformed'[q]

LEMMA CallCleans ==
  ASSUME IInv, NEW p \in Proc, NEW ev, NEW st \in [Proc -> States], NEW base,
         CallProcess(p, ev, st, base), \A q \in Proc : state[q] # "NONE" => st[q] # "NONE"
  PROVE  Cleans
<1>1. state' = st \/ state' = [st EXCEPT ![p] = "CALLED"]
  BY DEF CallProcess
<1>2. \A q \in Proc : state[q] # "NONE" => state'[q] # "NONE"
  BY <1>1
<1> QED
  BY <1>2 DEF Cleans

LEMMA ExitCleans ==
  ASSUME IInv, NEW p \in Proc, NEW from, NEW base, ExitProcess(p, from, base)
  PROVE  Cleans
<1>1. CASE OnList(p) /\ state[p] # "NONE"
  <2>1. /\ state' = [state EXCEPT ![p] = "NONE"] /\ asked' = [asked EXCEPT ![p] = FALSE]
        /\ owed' = owed \ {p}
        /\ uninformed' = [q \in Proc |-> IF q = p THEN {r \in Listed : state[r] # "NONE"} \ {p}
                                         ELSE uninformed[q] \ {p}]
    BY <1>1 DEF ExitProcess
  <2>2. p \notin owed' /\ ~asked'[p] /\ \A q \in Proc : p \notin uninformed'[q]
    BY <2>1 DEF IInv, TypeOK
  <2>3. \A q \in Proc : q # p => state'[q] = state[q]
    BY <2>1 DEF IInv, TypeOK
  <2> QED
    BY <2>2, <2>3 DEF Cleans
<1>2. CASE ~(OnList(p) /\ state[p] # "NONE")
  BY <1>2 DEF ExitProcess, Cleans
<1> QED
  BY <1>1, <1>2

LEMMA StepCleans == ASSUME IInv, LInv, [Next]_vars PROVE Cleans
<1>0. state \in [Proc -> States]
  BY StackTypes
<1>1. CASE UNCHANGED state
  BY <1>1 DEF Cleans
<1>2. ASSUME NEW p \in Proc, NEW st, NEW ev, NEW base, CallProcess(p, ev, st, base),
             st = state \/ \E q \in Proc : st = [state EXCEPT ![q] = "RUNNING"]
      PROVE  Cleans
  <2>1. st \in [Proc -> States] /\ \A q \in Proc : state[q] # "NONE" => st[q] # "NONE"
    BY <1>0, <1>2 DEF States
  <2> QED
    BY <1>2, <2>1, CallCleans
<1>3. CASE Kernel
  <2>1. ASSUME DoPoll PROVE Cleans
    <3>1. CASE UNCHANGED state
      BY <1>1, <3>1
    <3>2. CASE Cursor # NULL /\ CallProcess(Cursor, "POLL", [state EXCEPT ![Cursor] = "RUNNING"],
                                            Moved("poll.next", Cursor))
      <4>1. Cursor \in Proc
        BY <2>1, <3>2, CursorType DEF DoPoll, TopAt, Ref
      <4> QED
        BY <1>2, <3>2, <4>1
    <3> QED
      BY <2>1, <3>1, <3>2 DEF DoPoll
  <2>2. ASSUME DoEvent PROVE Cleans
    <3> DEFINE p == Head(events).p  ev == Head(events).ev
               st == IF ev = "INIT" THEN [state EXCEPT ![p] = "RUNNING"] ELSE state
    <3>1. CASE UNCHANGED state
      BY <1>1, <3>1
    <3>2. CASE events # <<>> /\ p # NULL /\ CallProcess(p, ev, st, Below)
      <4>1. p \in Proc
        <5>1. Head(events) \in [ev : PostedEvents, p : Ref]
          BY <3>2, HeadTailProperties DEF IInv, TypeOK
        <5> QED
          BY <3>2, <5>1 DEF Ref
      <4>2. st = state \/ st = [state EXCEPT ![p] = "RUNNING"]
        OBVIOUS
      <4> HIDE DEF p, ev, st
      <4> QED
        BY <1>2, <3>2, <4>1, <4>2
    <3> QED
      BY <2>2, <3>1, <3>2 DEF DoEvent
  <2>3. ASSUME DoEventCall PROVE Cleans
    <3>1. CASE UNCHANGED state
      BY <1>1, <3>1
    <3>2. CASE Cursor # NULL /\ CallProcess(Cursor, Top.ev, state, Moved(AfterCall, Cursor))
      <4>1. Cursor \in Proc
        BY <2>3, <3>2, CursorType DEF DoEventCall, TopAt, Ref
      <4> QED
        BY <1>2, <3>2, <4>1
    <3> QED
      BY <2>3, <3>1, <3>2 DEF DoEventCall
  <2>4. ASSUME ExitInform PROVE Cleans
    <3>1. CASE UNCHANGED state
      BY <1>1, <3>1
    <3>2. CASE Cursor # NULL /\ CallProcess(Cursor, "EXITED", state, Moved("exit.next", Cursor))
      <4>1. Cursor \in Proc
        BY <2>4, <3>2, CursorType DEF ExitInform, TopAt, Ref
      <4> QED
        BY <1>2, <3>2, <4>1
    <3> QED
      BY <2>4, <3>1, <3>2 DEF ExitInform
  <2>5. ProcessRun \/ DoEventPolls \/ ExitUnlink \/ SynchReturn => UNCHANGED state
    BY DEF ProcessRun, DoEventPolls, ExitUnlink, SynchReturn, Restore
  <2> QED
    BY <1>1, <1>3, <2>1, <2>2, <2>3, <2>4, <2>5 DEF Kernel
<1>4. CASE ThreadReturn
  <2>1. ASSUME Yield PROVE Cleans
    <3>1. Top.p \in Proc /\ state' = [state EXCEPT ![Top.p] = "RUNNING"]
      BY <2>1, TopOf DEF Yield, TopAt, StateAfter, GoodFrame
    <3> QED
      BY <1>0, <3>1 DEF Cleans
  <2>2. ASSUME End PROVE Cleans
    <3>1. Top.p \in Proc /\ ExitProcess(Top.p, Top.p, Below)
      BY <2>2, TopOf DEF End, TopAt, GoodFrame
    <3> QED
      BY <3>1, ExitCleans
  <2>3. LastReturn \/ ContextEnd => UNCHANGED state
    BY DEF LastReturn, ContextEnd, Restore
  <2> QED
    BY <1>1, <1>4, <2>1, <2>2, <2>3 DEF ThreadReturn
<1>5. CASE ThreadCall
  <2>1. ASSUME NEW ev \in PostedEvents, NEW p \in Proc, PostSynch(ev, p) PROVE Cleans
    BY <1>2, <2>1 DEF PostSynch, Synch
  <2>2. ASSUME NEW p \in Proc, Start(p) PROVE Cleans
    BY <1>2, <2>2 DEF Start, Synch
  <2>3. ASSUME NEW p \in Proc, Exit(p) PROVE Cleans
    BY <2>3, ExitCleans DEF Exit
  <2>4. \A p, ev : Post(ev, p) \/ Poll(p) \/ ContextBegin(p) => UNCHANGED state
    BY DEF Post, Poll, ContextBegin
  <2> QED
    BY <1>1, <1>5, <2>1, <2>2, <2>3, <2>4 DEF ThreadCall
<1> QED
  BY <1>1, <1>3, <1>4, <1>5 DEF Next, Boot, vars

------------------------------------------------------------------------------
(* The invariants of delivery.  Whom a broadcast owes its event is running  *)
(* and ahead of its loop, and nobody it has served is; a poll that was      *)
(* accepted is ahead of a walk, unless another is requested; whom an exit   *)
(* has not informed is ahead of its loop or in a call below it.             *)
Reached ==
  /\ \A p \in owed : /\ state[p] # "NONE"
                     /\ \E f \in Frames(stack, EventFrames) : p \in Ahead(f, next)
  /\ \A f \in Frames(stack, EventFrames) : served \intersect Ahead(f, next) = {}

Polled ==
  \A p \in Proc : asked[p] =>
    /\ state[p] # "NONE" /\ needspoll[p]
    /\ poll_requested \/ \E f \in Frames(stack, PollLoop) : p \in Ahead(f, next)

Told ==
  \A w \in Leaving(stack) : \A q \in uninformed[w[1].who] :
    /\ state[q] # "NONE"
    /\ q \in w[2] \/ (w[1].at \in ExitLoop /\ q \in Ahead(w[1], next))

DInv == Reached /\ Polled /\ Told

LEMMA FrameTypes ==
  ASSUME IInv, LInv
  PROVE  /\ \A A : Frames(stack, A) \subseteq GoodFrame
         /\ \A w \in Leaving(stack) : /\ w[1] \in GoodFrame /\ w[1].at \in ExitFrames
                                      /\ w[1].who \in Proc /\ w[1].who \in Exits(stack)
<1>1. \A i \in DOMAIN stack : stack[i] \in GoodFrame
  BY StackTypes
<1>2. ASSUME NEW w \in Leaving(stack)
      PROVE  /\ w[1] \in GoodFrame /\ w[1].at \in ExitFrames
             /\ w[1].who \in Proc /\ w[1].who \in Exits(stack)
  <2>1. PICK i \in DOMAIN stack : stack[i].at \in ExitFrames /\ w = <<stack[i], Under(stack, i)>>
    BY DEF Leaving
  <2>2. w[1] = stack[i]
    BY <2>1
  <2> QED
    BY <1>1, <2>1, <2>2 DEF Exits, GoodFrame
<1> QED
  BY <1>1, <1>2 DEF Frames

(* Who runs before and after a step is on the list before and after, so a   *)
(* loop that was to visit it still is.                                      *)
LEMMA StillAhead ==
  ASSUME LInv, LInv', Visits, NEW f \in GoodFrame, NEW p \in Proc,
         p \in Ahead(f, next), state[p] # "NONE", state'[p] # "NONE"
  PROVE  p \in Ahead(f, next')
<1>1. p \in Listed /\ p \in Listed'
  BY DEF LInv, Agree
<1> QED
  BY <1>1 DEF Visits

LEMMA KeepsReached ==
  ASSUME IInv, LInv, LInv', Visits, Cleans, Reached,
         Frames(stack', EventFrames) = Frames(stack, EventFrames),
         owed' \subseteq owed, served' \in {served, {}}
  PROVE  Reached'
<1>1. owed \subseteq Proc
  BY DEF IInv, TypeOK
<1>2. ASSUME NEW p \in owed'
      PROVE  /\ state'[p] # "NONE"
             /\ \E f \in Frames(stack', EventFrames) : p \in Ahead(f, next')
  <2>1. p \in Proc /\ state[p] # "NONE" /\ state'[p] # "NONE"
    BY <1>1, <1>2 DEF Reached, Cleans
  <2>2. PICK f \in Frames(stack, EventFrames) : p \in Ahead(f, next)
    BY DEF Reached
  <2>3. p \in Ahead(f, next')
    BY <2>1, <2>2, FrameTypes, StillAhead
  <2> QED
    BY <2>1, <2>3
<1>3. ASSUME NEW f \in Frames(stack', EventFrames)
      PROVE  served' \intersect Ahead(f, next') = {}
  <2>1. f \in GoodFrame /\ served \intersect Ahead(f, next) = {}
    BY <1>3, FrameTypes DEF Reached
  <2> QED
    BY <2>1 DEF Visits
<1> QED
  BY <1>2, <1>3 DEF Reached

LEMMA KeepsPolled ==
  ASSUME IInv, LInv, LInv', Visits, Cleans, Polled,
         Frames(stack', PollLoop) = Frames(stack, PollLoop),
         \A p \in Proc : asked'[p] => asked[p],
         UNCHANGED <<needspoll, poll_requested>>
  PROVE  Polled'
<1> SUFFICES ASSUME NEW p \in Proc, asked'[p]
             PROVE  /\ state'[p] # "NONE" /\ needspoll'[p]
                    /\ poll_requested'
                         \/ \E f \in Frames(stack', PollLoop) : p \in Ahead(f, next')
  BY DEF Polled
<1>1. state[p] # "NONE" /\ state'[p] # "NONE" /\ needspoll[p]
  BY DEF Polled, Cleans
<1>2. CASE poll_requested
  BY <1>1, <1>2
<1>3. CASE ~poll_requested
  <2>1. PICK f \in Frames(stack, PollLoop) : p \in Ahead(f, next)
    BY <1>3 DEF Polled
  <2>2. p \in Ahead(f, next')
    BY <1>1, <2>1, FrameTypes, StillAhead
  <2> QED
    BY <1>1, <2>1, <2>2
<1> QED
  BY <1>2, <1>3

(* One exit, whose process q has still to be informed. *)
LEMMA KeepsWaiting ==
  ASSUME IInv, LInv, LInv', Visits, Cleans, Told,
         NEW w \in Leaving(stack), NEW q \in uninformed'[w[1].who], q \in uninformed[w[1].who]
  PROVE  /\ state'[q] # "NONE"
         /\ q \in w[2] \/ (w[1].at \in ExitLoop /\ q \in Ahead(w[1], next'))
<1>1. w[1] \in GoodFrame /\ w[1].who \in Proc
  BY FrameTypes
<1>2. q \in Proc
  BY <1>1 DEF IInv, TypeOK
<1>3. state[q] # "NONE" /\ state'[q] # "NONE"
  BY <1>1, <1>2 DEF Told, Cleans
<1>4. CASE q \in w[2]
  BY <1>3, <1>4
<1>5. CASE q \notin w[2]
  <2>1. w[1].at \in ExitLoop /\ q \in Ahead(w[1], next)
    BY <1>5 DEF Told
  <2>2. q \in Ahead(w[1], next')
    BY <1>1, <1>2, <1>3, <2>1, StillAhead
  <2> QED
    BY <1>3, <2>1, <2>2
<1> QED
  BY <1>4, <1>5

LEMMA KeepsTold ==
  ASSUME IInv, LInv, LInv', Visits, Cleans, Told,
         Leaving(stack') \subseteq Leaving(stack),
         \A p \in Proc : uninformed'[p] \subseteq uninformed[p]
  PROVE  Told'
<1> SUFFICES ASSUME NEW w \in Leaving(stack'), NEW q \in uninformed'[w[1].who]
             PROVE  /\ state'[q] # "NONE"
                    /\ q \in w[2] \/ (w[1].at \in ExitLoop /\ q \in Ahead(w[1], next'))
  BY DEF Told
<1>1. w \in Leaving(stack) /\ w[1].who \in Proc
  BY FrameTypes
<1>2. q \in uninformed[w[1].who]
  BY <1>1
<1> QED
  BY <1>1, <1>2, KeepsWaiting

(* The next step of a loop: the process at its cursor, then the rest. *)
LEMMA AheadOfTop ==
  ASSUME IInv, LInv, stack # <<>>
  PROVE  /\ Ahead(Top, next) = Reach(Cursor, next)
         /\ Cursor = NULL => Ahead(Top, next) = {}
         /\ Cursor # NULL => /\ Cursor \in Proc
                             /\ Reach(Cursor, next) = {Cursor} \union Reach(next[Cursor], next)
<1>1. Cursor \in Ref /\ next \in [Proc -> Ref]
  BY CursorType, StackTypes
<1>2. Ahead(Top, next) = Reach(Cursor, next)
  BY DEF Ahead, Cursor, NextLoop
<1>3. Cursor = NULL => Ahead(Top, next) = {}
  BY <1>2, ReachNull
<1>4. Cursor # NULL => /\ Cursor \in Proc
                       /\ Reach(Cursor, next) = {Cursor} \union Reach(next[Cursor], next)
  BY <1>1, ReachStep DEF Ref
<1> QED
  BY <1>2, <1>3, <1>4

(* A walk that begins at the head of the list visits all of it. *)
LEMMA WholeList ==
  ASSUME NEW f, f.at \in {"exit.first", "poll.first", "event.first"}, f.p = process_list
  PROVE  Ahead(f, next) = Listed
BY ReachListed DEF Ahead, NextLoop

LEMMA NewWalk ==
  ASSUME IInv, LInv, Polled, NEW f \in Frames(stack', PollLoop),
         f.at = "poll.first", f.p = process_list,
         UNCHANGED <<process_list, next, state, needspoll, asked>>
  PROVE  Polled'
<1> SUFFICES ASSUME NEW p \in Proc, asked'[p]
             PROVE  /\ state'[p] # "NONE" /\ needspoll'[p] /\ p \in Ahead(f, next')
  BY DEF Polled
<1>1. state[p] # "NONE" /\ needspoll[p]
  BY DEF Polled
<1>2. p \in Listed
  BY <1>1 DEF LInv, Agree
<1>3. p \in Ahead(f, next)
  BY <1>2, WholeList
<1> QED
  BY <1>1, <1>3

(* Steps that leave the loops and the exits as they are. *)
LEMMA SameD ==
  ASSUME IInv, LInv, LInv', Visits, Cleans, DInv, SameFrames,
         owed' \subseteq owed, served' \in {served, {}},
         \A p \in Proc : (asked'[p] => asked[p]) /\ uninformed'[p] \subseteq uninformed[p],
         UNCHANGED <<needspoll, poll_requested>>
  PROVE  DInv'
BY KeepsReached, KeepsPolled, KeepsTold DEF DInv, SameFrames

LEMMA RunD ==
  ASSUME IInv, LInv, LInv', Visits, Cleans, DInv, ProcessRun PROVE DInv'
<1> DEFINE r == Call("run", NULL, "USER")  f == Call("poll.first", process_list, "POLL")
           base == <<r>> \o <<>>
<1>1. /\ r \in GoodFrame /\ r.at = "run"
      /\ f \in GoodFrame /\ f.at = "poll.first" /\ f.p = process_list
  BY CallFrame, StackTypes DEF Ref, Ev
<1>2. /\ stack = <<>> /\ <<>> \in Seq(GoodFrame)
      /\ UNCHANGED <<process_list, next, state, needspoll, asked, owed, served, uninformed>>
      /\ \/ stack' = base /\ ~poll_requested /\ UNCHANGED poll_requested
         \/ stack' = <<f>> \o base
  BY DEF ProcessRun, PollFirst, list, history
<1> HIDE DEF r, f
<1>3. base \in Seq(GoodFrame)
  BY <1>1
<1>4. /\ \A A : Frames(base, A) = Frames(<<>>, A) \union (IF r.at \in A THEN {r} ELSE {})
      /\ Leaving(base) = Leaving(<<>>) \union
                         (IF r.at \in ExitFrames THEN {<<r, Threads(<<>>)>>} ELSE {})
  BY <1>1, <1>2, FrontSets
<1>5. /\ Frames(base, EventFrames) = {} /\ Frames(base, PollLoop) = {} /\ Leaving(base) = {}
  BY <1>1, <1>4, NoneLeft DEF EventFrames, EventLoop, PollLoop, ExitFrames, ExitLoop
<1> HIDE DEF base
<1>6. /\ Frames(stack, EventFrames) = {} /\ Frames(stack, PollLoop) = {}
  BY <1>2, NoneLeft
<1>7. CASE stack' = base /\ ~poll_requested /\ UNCHANGED poll_requested
  <2>1. SameFrames
    BY <1>5, <1>6, <1>7 DEF SameFrames
  <2> QED
    BY <1>2, <1>7, <2>1, SameD
<1>8. CASE stack' = <<f>> \o base
  <2>1. /\ \A A : Frames(stack', A) = Frames(base, A) \union (IF f.at \in A THEN {f} ELSE {})
        /\ Leaving(stack') = Leaving(base) \union
                             (IF f.at \in ExitFrames THEN {<<f, Threads(base)>>} ELSE {})
    BY <1>1, <1>3, <1>8, FramesPush
  <2>2. f.at \in PollLoop /\ f.at \notin EventFrames /\ f.at \notin ExitFrames
    BY <1>1 DEF EventFrames, EventLoop, PollLoop, ExitFrames, ExitLoop
  <2>3. /\ Frames(stack', EventFrames) = Frames(stack, EventFrames)
        /\ f \in Frames(stack', PollLoop) /\ Leaving(stack') = {}
    BY <1>5, <1>6, <2>1, <2>2
  <2>4. Polled'
    BY <1>1, <1>2, <2>3, NewWalk DEF DInv
  <2>5. Reached' /\ Told'
    BY <1>2, <2>3, KeepsReached, KeepsTold DEF DInv
  <2> QED
    BY <2>4, <2>5 DEF DInv
<1> QED
  BY <1>2, <1>7, <1>8

LEMMA PollD ==
  ASSUME IInv, LInv, LInv', Visits, Cleans, DInv, DoPoll PROVE DInv'
<1> DEFINE p == Cursor  base == Moved("poll.next", p)  g == Head(base)
<1>1. /\ stack # <<>> /\ Top.at \in PollLoop
      /\ UNCHANGED <<process_list, next, owed, served, uninformed, poll_requested>>
  BY DEF DoPoll, TopAt, list, history, FlagAfter
<1>2. Top.at \notin EventFrames /\ Top.at \notin ExitFrames /\ Below \in Seq(GoodFrame)
  BY <1>1, TopOf DEF EventFrames, EventLoop, PollLoop, ExitFrames, ExitLoop
<1>3. /\ Frames(stack, EventFrames) = Frames(Below, EventFrames)
      /\ Frames(stack, PollLoop) = Frames(Below, PollLoop) \union {Top}
      /\ Leaving(stack) = Leaving(Below)
  BY <1>1, <1>2, FramesTop
<1>4. /\ Ahead(Top, next) = Reach(p, next)
      /\ p = NULL => Ahead(Top, next) = {}
      /\ p # NULL => p \in Proc /\ Reach(p, next) = {p} \union Reach(next[p], next)
  BY <1>1, AheadOfTop
<1>5. CASE p = NULL
  <2>1. stack' = Below /\ UNCHANGED <<needspoll, asked, state>>
    BY <1>5 DEF DoPoll
  <2>2. Polled'
    <3> SUFFICES ASSUME NEW q \in Proc, asked[q], ~poll_requested
                 PROVE  \E f \in Frames(Below, PollLoop) : q \in Ahead(f, next)
      BY <1>1, <2>1 DEF DInv, Polled
    <3>1. PICK f \in Frames(stack, PollLoop) : q \in Ahead(f, next)
      BY DEF DInv, Polled
    <3> QED
      BY <1>3, <1>4, <1>5, <3>1
  <2>3. Reached' /\ Told'
    BY <1>1, <1>3, <2>1, KeepsReached, KeepsTold DEF DInv
  <2> QED
    BY <2>2, <2>3 DEF DInv
<1>6. CASE p # NULL
  <2>1. /\ g \in GoodFrame /\ g.at = "poll.next" /\ g.p = p
        /\ \A A : Frames(base, A) = Frames(Below, A) \union (IF "poll.next" \in A THEN {g} ELSE {})
        /\ Leaving(base) = Leaving(Below) \union
             (IF "poll.next" \in ExitFrames THEN {<<g, Threads(Below)>>} ELSE {})
    BY <1>1, <1>4, <1>6, FramesMoved DEF At, PollLoop, Ref
  <2>2. base \in Seq(GoodFrame)
    BY <1>1, <1>4, <1>6, TopMoves DEF At, PollLoop, Ref
  <2>3. \/ /\ needspoll[p] /\ needspoll' = [needspoll EXCEPT ![p] = FALSE]
           /\ asked' = [asked EXCEPT ![p] = FALSE]
           /\ CallProcess(p, "POLL", [state EXCEPT ![p] = "RUNNING"], base)
        \/ /\ ~needspoll[p] /\ stack' = base /\ UNCHANGED <<needspoll, asked, state>>
    BY <1>6 DEF DoPoll
  <2>4. Ahead(g, next) = Reach(next[p], next)
    BY <2>1 DEF Ahead, NextLoop
  <2> HIDE DEF g, base
  <2>5. /\ "poll.next" \in PollLoop /\ "poll.next" \notin EventFrames
        /\ "poll.next" \notin ExitFrames
    BY DEF EventFrames, EventLoop, PollLoop, ExitFrames, ExitLoop
  <2>6. /\ Frames(stack', EventFrames) = Frames(base, EventFrames)
        /\ Frames(stack', PollLoop) = Frames(base, PollLoop)
        /\ Leaving(stack') = Leaving(base)
    <3>1. CASE CallProcess(p, "POLL", [state EXCEPT ![p] = "RUNNING"], base)
      BY <1>4, <1>6, <2>2, <3>1, FramesCall DEF Ev
    <3>2. CASE stack' = base
      BY <3>2
    <3> QED
      BY <2>3, <3>1, <3>2
  <2>7. /\ Frames(stack', EventFrames) = Frames(stack, EventFrames)
        /\ Frames(stack', PollLoop) = Frames(Below, PollLoop) \union {g}
        /\ Leaving(stack') = Leaving(stack)
    <3>1. /\ Frames(base, EventFrames) = Frames(Below, EventFrames)
          /\ Frames(base, PollLoop) = Frames(Below, PollLoop) \union {g}
          /\ Leaving(base) = Leaving(Below)
      BY <2>1, <2>5
    <3> QED
      BY <1>3, <2>6, <3>1
  <2>8. \A q \in Proc : asked'[q] => /\ asked[q] /\ needspoll'[q] = needspoll[q]
                                     /\ q # p
    BY <1>4, <1>6, <2>3 DEF IInv, TypeOK, DInv, Polled
  <2>9. Polled'
    <3> SUFFICES ASSUME NEW q \in Proc, asked'[q]
                 PROVE  /\ state'[q] # "NONE" /\ needspoll'[q]
                        /\ poll_requested'
                             \/ \E f \in Frames(stack', PollLoop) : q \in Ahead(f, next')
      BY DEF Polled
    <3>1. asked[q] /\ state[q] # "NONE" /\ state'[q] # "NONE" /\ needspoll'[q] /\ q # p
      BY <2>8 DEF DInv, Polled, Cleans
    <3>2. CASE poll_requested
      BY <1>1, <3>1, <3>2
    <3>3. CASE ~poll_requested
      <4>1. PICK f \in Frames(stack, PollLoop) : q \in Ahead(f, next)
        BY <3>1, <3>3 DEF DInv, Polled
      <4>2. \E h \in Frames(stack', PollLoop) : q \in Ahead(h, next)
        BY <1>3, <1>4, <1>6, <2>4, <2>7, <3>1, <4>1
      <4> QED
        BY <1>1, <3>1, <4>2
    <3> QED
      BY <3>2, <3>3
  <2>10. Reached' /\ Told'
    BY <1>1, <2>7, KeepsReached, KeepsTold DEF DInv
  <2> QED
    BY <2>9, <2>10 DEF DInv
<1> QED
  BY <1>5, <1>6

LEMMA EventD ==
  ASSUME IInv, LInv, LInv', Visits, Cleans, DInv, DoEvent PROVE DInv'
<1>1. /\ stack # <<>> /\ Top.at = "run"
      /\ UNCHANGED <<process_list, next, needspoll, poll_requested, asked, uninformed>>
  BY DEF DoEvent, TopAt, list, polls
<1>2. /\ Below = <<>> /\ <<>> \in Seq(GoodFrame) /\ Exits(stack) = {}
  BY <1>1, Bottom
<1>3. Top.at \notin EventFrames /\ Top.at \notin PollLoop /\ Top.at \notin ExitFrames
  BY <1>1 DEF EventFrames, EventLoop, PollLoop, ExitFrames, ExitLoop
<1>4. /\ Frames(stack, EventFrames) = {} /\ Frames(stack, PollLoop) = {} /\ Leaving(stack) = {}
  BY <1>1, <1>2, <1>3, FramesTop, NoneLeft
<1> DEFINE receiver == Head(events).p  ev == Head(events).ev
           f == Call("event.first", process_list, ev)
<1>5. CASE events = <<>>
  <2>1. stack' = Below /\ UNCHANGED <<owed, served>>
    BY <1>5 DEF DoEvent, delivery
  <2>2. SameFrames
    BY <1>1, <1>3, <2>1, ReturnFrames
  <2> QED
    BY <1>1, <2>1, <2>2, SameD
<1>6. events # <<>> => ev \in Ev /\ receiver \in Ref
  <2>1. ASSUME events # <<>> PROVE Head(events) \in [ev : PostedEvents, p : Ref]
    BY <2>1, HeadTailProperties DEF IInv, TypeOK
  <2> QED
    BY <2>1, KernelAssumption
<1>7. CASE events # <<>> /\ receiver # NULL
  <2>1. CallProcess(receiver, ev, IF ev = "INIT" THEN [state EXCEPT ![receiver] = "RUNNING"]
                                  ELSE state, Below) /\ UNCHANGED <<owed, served>>
    BY <1>7 DEF DoEvent, delivery
  <2>2. receiver \in Proc /\ ev \in Ev
    BY <1>6, <1>7 DEF Ref
  <2> HIDE DEF receiver, ev
  <2>3. /\ Frames(stack', EventFrames) = Frames(Below, EventFrames)
        /\ Frames(stack', PollLoop) = Frames(Below, PollLoop)
        /\ Leaving(stack') = Leaving(Below)
    BY <1>2, <2>1, <2>2, FramesCall
  <2>4. SameFrames
    BY <1>2, <1>4, <2>3, NoneLeft DEF SameFrames
  <2> QED
    BY <1>1, <2>1, <2>4, SameD
<1>8. CASE events # <<>> /\ receiver = NULL
  <2>1. /\ stack' = <<f>> \o <<>> /\ owed' = Listed /\ served' = {} /\ UNCHANGED state
    BY <1>2, <1>8 DEF DoEvent
  <2>2. f \in GoodFrame /\ f.at = "event.first" /\ f.p = process_list
    BY <1>6, <1>8, CallFrame, StackTypes
  <2> HIDE DEF f
  <2>3. /\ \A A : Frames(stack', A) = Frames(<<>>, A) \union (IF f.at \in A THEN {f} ELSE {})
        /\ Leaving(stack') = Leaving(<<>>) \union
                             (IF f.at \in ExitFrames THEN {<<f, Threads(<<>>)>>} ELSE {})
    BY <1>2, <2>1, <2>2, FramesPush
  <2>4. f.at \in EventFrames /\ f.at \notin PollLoop /\ f.at \notin ExitFrames
    BY <2>2 DEF EventFrames, EventLoop, PollLoop, ExitFrames, ExitLoop
  <2>5. /\ Frames(stack', EventFrames) = {f}
        /\ Frames(stack', PollLoop) = Frames(stack, PollLoop)
        /\ Leaving(stack') = Leaving(stack)
    BY <1>4, <2>3, <2>4, NoneLeft
  <2>6. Ahead(f, next) = Listed
    BY <2>2, WholeList
  <2>7. \A p \in Listed : state[p] # "NONE"
    BY <1>2, StackTypes DEF LInv, Agree
  <2>8. Reached'
    BY <1>1, <2>1, <2>5, <2>6, <2>7 DEF Reached
  <2>9. Polled' /\ Told'
    BY <1>1, <2>5, KeepsPolled, KeepsTold DEF DInv
  <2> QED
    BY <2>8, <2>9 DEF DInv
<1> QED
  BY <1>5, <1>7, <1>8

LEMMA EventPollsD ==
  ASSUME IInv, LInv, LInv', Visits, Cleans, DInv, DoEventPolls PROVE DInv'
<1> DEFINE p == Cursor  base == Moved("event.polled", p)  g == Head(base)
           f == Call("poll.first", process_list, "POLL")
<1>1. /\ stack # <<>> /\ Top.at \in EventFrames /\ stack' = <<f>> \o base
      /\ UNCHANGED <<process_list, next, state, needspoll, asked, owed, served, uninformed>>
  BY DEF DoEventPolls, TopAt, PollFirst, AfterPolls, list, history, EventFrames
<1>2. Top.at \notin ExitFrames /\ Top.at \notin PollLoop /\ Below = <<>>
  BY <1>1, Bottom DEF EventFrames, EventLoop, PollLoop, ExitFrames, ExitLoop
<1>3. /\ Frames(stack, EventFrames) = {Top} /\ Frames(stack, PollLoop) = {}
      /\ Leaving(stack) = {}
  BY <1>1, <1>2, FramesTop, NoneLeft
<1>4. p \in Ref
  BY <1>1, CursorType
<1>5. /\ g \in GoodFrame /\ g.at = "event.polled" /\ g.p = p
      /\ \A A : Frames(base, A) = Frames(Below, A) \union (IF "event.polled" \in A THEN {g} ELSE {})
      /\ Leaving(base) = Leaving(Below) \union
           (IF "event.polled" \in ExitFrames THEN {<<g, Threads(Below)>>} ELSE {})
  BY <1>1, <1>4, FramesMoved DEF At, EventFrames
<1>6. base \in Seq(GoodFrame)
  BY <1>1, <1>4, TopMoves DEF At, EventFrames
<1>7. /\ "event.polled" \in EventFrames /\ "event.polled" \notin PollLoop
      /\ "event.polled" \notin ExitFrames
  BY DEF EventFrames, EventLoop, PollLoop, ExitFrames, ExitLoop
<1>8. f \in GoodFrame /\ f.at = "poll.first" /\ f.p = process_list
  BY CallFrame, StackTypes DEF Ev
<1>9. Ahead(g, next) = Ahead(Top, next)
  BY <1>1, <1>5, AheadOfTop DEF Ahead, NextLoop
<1> HIDE DEF f, g, base
<1>10. /\ Frames(base, EventFrames) = {g} /\ Leaving(base) = {}
  BY <1>2, <1>5, <1>7, NoneLeft
<1>11. /\ \A A : Frames(stack', A) = Frames(base, A) \union (IF f.at \in A THEN {f} ELSE {})
       /\ Leaving(stack') = Leaving(base) \union
                            (IF f.at \in ExitFrames THEN {<<f, Threads(base)>>} ELSE {})
  BY <1>1, <1>6, <1>8, FramesPush
<1>12. f.at \in PollLoop /\ f.at \notin EventFrames /\ f.at \notin ExitFrames
  BY <1>8 DEF EventFrames, EventLoop, PollLoop, ExitFrames, ExitLoop
<1>13. /\ Frames(stack', EventFrames) = {g} /\ f \in Frames(stack', PollLoop)
       /\ Leaving(stack') = {}
  BY <1>10, <1>11, <1>12
<1>14. Polled'
  BY <1>1, <1>8, <1>13, NewWalk DEF DInv
<1>15. Reached'
  BY <1>1, <1>3, <1>9, <1>13 DEF DInv, Reached
<1>16. Told'
  BY <1>13 DEF Told
<1> QED
  BY <1>14, <1>15, <1>16 DEF DInv

(* The call of a broadcast: nobody is in a call below the loop, so the     *)
(* process at its cursor is called if it runs at all.                      *)
LEMMA EventCallD ==
  ASSUME IInv, LInv, LInv', Visits, Cleans, DInv, DoEventCall PROVE DInv'
<1> DEFINE p == Cursor  base == Moved("event.next", p)  g == Head(base)
<1>1. /\ stack # <<>> /\ Top.at \in EventFrames
      /\ UNCHANGED <<process_list, next, needspoll, poll_requested, asked, uninformed>>
  BY DEF DoEventCall, TopAt, list, polls, EventFrames
<1>2. /\ Top.at \notin ExitFrames /\ Top.at \notin PollLoop /\ Below = <<>>
      /\ Threads(stack) = {} /\ Below \in Seq(GoodFrame)
  BY <1>1, Bottom, TopOf DEF EventFrames, EventLoop, PollLoop, ExitFrames, ExitLoop
<1>3. /\ Frames(stack, EventFrames) = {Top} /\ Frames(stack, PollLoop) = {}
      /\ Leaving(stack) = {}
  BY <1>1, <1>2, FramesTop, NoneLeft
<1>4. /\ Ahead(Top, next) = Reach(p, next)
      /\ p = NULL => Ahead(Top, next) = {}
      /\ p # NULL => p \in Proc /\ Reach(p, next) = {p} \union Reach(next[p], next)
  BY <1>1, AheadOfTop
<1>5. CASE p = NULL
  <2>1. stack' = Below /\ UNCHANGED <<state, owed, served>>
    BY <1>5 DEF DoEventCall, delivery
  <2>2. /\ Frames(stack', EventFrames) = {} /\ Frames(stack', PollLoop) = {}
        /\ Leaving(stack') = {}
    BY <1>2, <2>1, NoneLeft
  <2>3. owed = {}
    BY <1>3, <1>4, <1>5 DEF DInv, Reached
  <2>4. Reached'
    BY <2>1, <2>2, <2>3 DEF Reached
  <2>5. Polled' /\ Told'
    BY <1>1, <1>3, <2>2, KeepsPolled, KeepsTold DEF DInv
  <2> QED
    BY <2>4, <2>5 DEF DInv
<1>6. CASE p # NULL
  <2>1. /\ g \in GoodFrame /\ g.at = "event.next" /\ g.p = p
        /\ \A A : Frames(base, A) = Frames(Below, A) \union (IF "event.next" \in A THEN {g} ELSE {})
        /\ Leaving(base) = Leaving(Below) \union
             (IF "event.next" \in ExitFrames THEN {<<g, Threads(Below)>>} ELSE {})
    BY <1>1, <1>4, <1>6, FramesMoved DEF At, EventFrames, EventLoop, Ref
  <2>2. base \in Seq(GoodFrame) /\ Top.ev \in Ev
    BY <1>1, <1>4, <1>6, TopMoves, TopOf DEF At, EventFrames, EventLoop, Ref, Frame
  <2>3. /\ CallProcess(p, Top.ev, state, base)
        /\ owed' = owed \ {r \in {p} : Callable(r, state)}
        /\ served' = served \union {r \in {p} : Callable(r, state)}
    BY <1>6 DEF DoEventCall, AfterCall
  <2>4. Ahead(g, next) = Reach(next[p], next)
    BY <2>1 DEF Ahead, NextLoop
  <2> HIDE DEF g, base
  <2>5. /\ "event.next" \in EventFrames /\ "event.next" \notin PollLoop
        /\ "event.next" \notin ExitFrames
    BY DEF EventFrames, EventLoop, PollLoop, ExitFrames, ExitLoop
  <2>6. /\ Frames(base, EventFrames) = {g} /\ Frames(base, PollLoop) = {} /\ Leaving(base) = {}
    BY <1>2, <2>1, <2>5, NoneLeft
  <2>7. /\ Frames(stack', EventFrames) = {g} /\ Frames(stack', PollLoop) = {}
        /\ Leaving(stack') = {}
    <3>1. /\ Frames(stack', EventFrames) = Frames(base, EventFrames)
          /\ Frames(stack', PollLoop) = Frames(base, PollLoop)
          /\ Leaving(stack') = Leaving(base)
      BY <1>4, <1>6, <2>2, <2>3, FramesCall
    <3> QED
      BY <2>6, <3>1
  <2>8. ASSUME NEW q \in owed' PROVE state'[q] # "NONE" /\ q \in Ahead(g, next)
    <3>1. q \in owed /\ q \in Proc /\ state[q] # "NONE" /\ q \in Ahead(Top, next)
      BY <1>3, <2>3, <2>8 DEF DInv, Reached, IInv, TypeOK
    <3>2. state'[q] # "NONE"
      BY <2>8, <3>1 DEF Cleans
    <3>3. q # p
      <4>1. state[q] = "RUNNING"
        BY <1>2, <3>1, StackTypes DEF LInv, Agree, States
      <4> QED
        BY <2>3, <2>8, <4>1 DEF Callable
    <3> QED
      BY <1>4, <1>6, <2>4, <3>1, <3>2, <3>3
  <2>9. served' \intersect Ahead(g, next) = {}
    <3>1. served \intersect Ahead(Top, next) = {}
      BY <1>3 DEF DInv, Reached
    <3>2. Callable(p, state) => p \notin Reach(next[p], next)
      <4>1. Callable(p, state) => p \in Listed
        BY <1>4, <1>6 DEF LInv, Agree, Callable
      <4> QED
        BY <4>1, ReachListed DEF LInv, ListSound
    <3> QED
      BY <1>4, <1>6, <2>3, <2>4, <3>1, <3>2
  <2>10. Reached'
    BY <1>1, <2>7, <2>8, <2>9 DEF Reached
  <2>11. Polled' /\ Told'
    BY <1>1, <1>3, <2>7, KeepsPolled, KeepsTold DEF DInv
  <2> QED
    BY <2>10, <2>11 DEF DInv
<1> QED
  BY <1>5, <1>6

(* exit_process informs one more process, or leaves it out: it exits        *)
(* itself, or its protothread is in a call below.                           *)
LEMMA InformD ==
  ASSUME IInv, LInv, LInv', Visits, Cleans, DInv, ExitInform PROVE DInv'
<1> DEFINE c == Cursor  p == Top.who  at == IF c = NULL THEN "exit.unlink" ELSE "exit.next"
           base == Moved(at, c)  g == Head(base)  f == Call("last", p, "EXIT")
<1>1. /\ stack # <<>> /\ Top.at \in ExitLoop /\ Top.at \in ExitFrames
      /\ UNCHANGED <<process_list, next, needspoll, poll_requested, asked, owed, served>>
  BY DEF ExitInform, TopAt, list, polls, delivery, ExitFrames
<1>2. /\ p \in Proc /\ c \in Ref /\ (c # NULL => c \in Proc)
      /\ Below \in Seq(GoodFrame) /\ Top.at \notin EventFrames /\ Top.at \notin PollLoop
  BY <1>1, TopOf, CursorType DEF GoodFrame, Ref, EventFrames, EventLoop, PollLoop, ExitLoop
<1>3. /\ Frames(stack, EventFrames) = Frames(Below, EventFrames)
      /\ Frames(stack, PollLoop) = Frames(Below, PollLoop)
      /\ Leaving(stack) = Leaving(Below) \union {<<Top, Threads(Below)>>}
  BY <1>1, <1>2, FramesTop
<1>4. at \in ExitFrames /\ at \notin EventFrames /\ at \notin PollLoop /\ at \in At
  BY DEF EventFrames, EventLoop, PollLoop, ExitFrames, ExitLoop, At
<1>5. /\ g \in GoodFrame /\ g.at = at /\ g.p = c /\ g.who = p
      /\ \A A : Frames(base, A) = Frames(Below, A) \union (IF at \in A THEN {g} ELSE {})
      /\ Leaving(base) = Leaving(Below) \union
           (IF at \in ExitFrames THEN {<<g, Threads(Below)>>} ELSE {})
      /\ base \in Seq(GoodFrame)
  <2>1. at \in {"exit.next", "poll.next", "event.next"} => c \in Proc
    BY <1>2
  <2> HIDE DEF at, c
  <2> QED
    BY <1>1, <1>2, <1>4, <2>1, FramesMoved, TopMoves
<1>6. Threads(stack) = Threads(Below) /\ p \in Exits(stack)
  <2>1. "thread" \notin ExitFrames
    BY DEF ExitFrames, ExitLoop
  <2>2. /\ Top \in GoodFrame /\ Below \in Seq(GoodFrame) /\ stack = <<Top>> \o Below
    BY <1>1, TopOf
  <2>3. /\ Threads(stack) = Threads(Below) \union (IF Top.at = "thread" THEN {Top.p} ELSE {})
        /\ Exits(stack) = Exits(Below) \union (IF Top.at \in ExitFrames THEN {Top.who} ELSE {})
    BY <2>2, FrontFrame
  <2> QED
    BY <1>1, <2>1, <2>3
<1>7. f \in GoodFrame /\ f.at = "last"
  BY <1>2, CallFrame DEF Ev, Ref
<1>8. /\ \A q \in Proc : uninformed'[q] \subseteq uninformed[q]
      /\ c \notin {NULL, p} /\ Callable(c, state) => c \notin uninformed'[p]
      /\ \/ c # NULL /\ CallProcess(c, "EXITED", state, base)
         \/ stack' = base
         \/ stack' = <<f>> \o base
  <2>1. CASE c \notin {NULL, p}
    <3>1. /\ CallProcess(c, "EXITED", state, base)
          /\ uninformed' = [uninformed EXCEPT ![p] = @ \ {r \in {c} : Callable(r, state)}]
      BY <1>2, <2>1 DEF ExitInform
    <3> QED
      BY <1>2, <2>1, <3>1 DEF IInv, TypeOK
  <2>2. CASE c = p
    <3>1. stack' = base /\ uninformed' = uninformed
      BY <1>2, <2>2, KernelAssumption DEF ExitInform
    <3> QED
      BY <2>2, <3>1
  <2>3. CASE c = NULL
    <3>1. (stack' = base \/ stack' = <<f>> \o base) /\ uninformed' = uninformed
      BY <1>2, <2>3, KernelAssumption DEF ExitInform
    <3> QED
      BY <2>3, <3>1
  <2> QED
    BY <2>1, <2>2, <2>3
<1>9. /\ Ahead(Top, next) = Reach(c, next)
      /\ c = NULL => Ahead(Top, next) = {}
      /\ c # NULL => Reach(c, next) = {c} \union Reach(next[c], next)
  BY <1>1, AheadOfTop
<1>10. c # NULL => g.at \in ExitLoop /\ Ahead(g, next) = Reach(next[c], next)
  BY <1>5 DEF Ahead, NextLoop, ExitLoop
<1> HIDE DEF base, g, f, at
<1>11. /\ Frames(stack', EventFrames) = Frames(base, EventFrames)
       /\ Frames(stack', PollLoop) = Frames(base, PollLoop)
       /\ Leaving(stack') = Leaving(base)
  <2>1. CASE c # NULL /\ CallProcess(c, "EXITED", state, base)
    BY <1>2, <1>5, <2>1, FramesCall DEF Ev
  <2>2. CASE stack' = base
    BY <2>2
  <2>3. CASE stack' = <<f>> \o base
    <3>1. /\ \A A : Frames(stack', A) = Frames(base, A) \union (IF f.at \in A THEN {f} ELSE {})
          /\ Leaving(stack') = Leaving(base) \union
                               (IF f.at \in ExitFrames THEN {<<f, Threads(base)>>} ELSE {})
      BY <1>5, <1>7, <2>3, FramesPush
    <3>2. f.at \notin EventFrames /\ f.at \notin PollLoop /\ f.at \notin ExitFrames
      BY <1>7 DEF EventFrames, EventLoop, PollLoop, ExitFrames, ExitLoop
    <3> QED
      BY <3>1, <3>2
  <2> QED
    BY <1>8, <2>1, <2>2, <2>3
<1>12. /\ Frames(base, EventFrames) = Frames(Below, EventFrames)
       /\ Frames(base, PollLoop) = Frames(Below, PollLoop)
       /\ Leaving(base) = Leaving(Below) \union {<<g, Threads(Below)>>}
  BY <1>4, <1>5
<1>13. ASSUME NEW q \in uninformed'[p]
       PROVE  /\ state'[q] # "NONE"
              /\ q \in Threads(Below) \/ (g.at \in ExitLoop /\ q \in Ahead(g, next))
  <2>1. q \in uninformed[p] /\ q \in Proc
    BY <1>2, <1>8 DEF IInv, TypeOK
  <2>2. /\ state[q] # "NONE"
        /\ q \in Threads(Below) \/ q \in Ahead(Top, next)
    <3> DEFINE w == <<Top, Threads(Below)>>
    <3>1. w \in Leaving(stack) /\ w[1] = Top /\ w[2] = Threads(Below)
      BY <1>3
    <3> HIDE DEF w
    <3> QED
      BY <2>1, <3>1 DEF DInv, Told
  <2>3. state'[q] # "NONE"
    BY <1>2, <1>13, <2>1, <2>2 DEF Cleans
  <2>4. CASE q \in Threads(Below)
    BY <2>3, <2>4
  <2>5. CASE q \notin Threads(Below) /\ q = c
    <3>1. state[q] = "RUNNING"
      BY <1>6, <2>1, <2>2, <2>5, StackTypes DEF LInv, Agree, States
    <3>2. c # p
      BY <1>2, <1>6, <2>2, <2>5 DEF LInv, Agree
    <3>3. c # NULL
      BY <2>1, <2>5, KernelAssumption
    <3> QED
      BY <1>8, <1>13, <2>5, <3>1, <3>2, <3>3 DEF Callable
  <2>6. CASE q \notin Threads(Below) /\ q # c
    BY <1>9, <1>10, <2>2, <2>3, <2>6
  <2> QED
    BY <2>4, <2>5, <2>6
<1>14. Told'
  <2> SUFFICES ASSUME NEW w \in Leaving(stack'), NEW q \in uninformed'[w[1].who]
               PROVE  /\ state'[q] # "NONE"
                      /\ q \in w[2] \/ (w[1].at \in ExitLoop /\ q \in Ahead(w[1], next'))
    BY DEF Told
  <2>1. CASE w \in Leaving(Below)
    <3>1. w \in Leaving(stack) /\ w[1].who \in Proc
      BY <1>3, <2>1, FrameTypes
    <3>2. q \in uninformed[w[1].who]
      BY <1>8, <3>1
    <3> QED
      BY <3>1, <3>2, KeepsWaiting DEF DInv
  <2>2. CASE w = <<g, Threads(Below)>>
    <3>1. w[1] = g /\ w[2] = Threads(Below)
      BY <2>2
    <3> QED
      BY <1>1, <1>5, <1>13, <3>1
  <2> QED
    BY <1>11, <1>12, <2>1, <2>2
<1>15. Reached' /\ Polled'
  BY <1>1, <1>3, <1>11, <1>12, KeepsReached, KeepsPolled DEF DInv
<1> QED
  BY <1>14, <1>15 DEF DInv

(* A process begins to exit: the others that run are all ahead of its loop. *)
LEMMA ExitD ==
  ASSUME IInv, LInv, LInv', DInv, Cleans, NEW p \in Proc, NEW from \in Ref,
         NEW base \in Seq(GoodFrame), ExitProcess(p, from, base),
         Visits, state[p] # "NONE" \/ ~OnList(p),
         /\ Frames(base, EventFrames) = Frames(stack, EventFrames)
         /\ Frames(base, PollLoop) = Frames(stack, PollLoop)
         /\ Leaving(base) = Leaving(stack)
  PROVE  DInv'
<1>0. UNCHANGED <<process_list, next, needspoll, poll_requested, served>>
  BY DEF ExitProcess, list
<1>1. /\ Frames(stack', EventFrames) = Frames(stack, EventFrames)
      /\ Frames(stack', PollLoop) = Frames(stack, PollLoop)
      /\ \/ /\ Leaving(stack') = Leaving(stack)
            /\ UNCHANGED <<state, asked, owed, uninformed>>
         \/ /\ state[p] # "NONE"
            /\ \E f \in GoodFrame :
                 /\ f.at = "exit.first" /\ f.p = process_list /\ f.who = p
                 /\ Leaving(stack') = Leaving(stack) \union {<<f, Threads(base)>>}
  <2>1. TypeOK
    BY DEF IInv
  <2> QED
    BY <2>1, FramesExit
<1>2. CASE Leaving(stack') = Leaving(stack) /\ UNCHANGED <<state, asked, owed, uninformed>>
  <2>1. SameFrames
    BY <1>1, <1>2 DEF SameFrames
  <2> QED
    BY <1>0, <1>2, <2>1, SameD
<1>3. ASSUME state[p] # "NONE", NEW f \in GoodFrame, f.at = "exit.first", f.p = process_list,
             f.who = p, Leaving(stack') = Leaving(stack) \union {<<f, Threads(base)>>}
      PROVE  DInv'
  <2>1. /\ p \in Listed /\ p \notin Exits(stack)
    BY <1>3 DEF LInv, Agree
  <2>2. /\ state' = [state EXCEPT ![p] = "NONE"] /\ asked' = [asked EXCEPT ![p] = FALSE]
        /\ owed' = owed \ {p}
        /\ uninformed' = [q \in Proc |-> IF q = p THEN {r \in Listed : state[r] # "NONE"} \ {p}
                                         ELSE uninformed[q] \ {p}]
    BY <1>3, <2>1 DEF ExitProcess, OnList
  <2>3. Reached'
    BY <1>0, <1>1, <2>2, KeepsReached DEF DInv
  <2>4. \A q \in Proc : asked'[q] => asked[q]
    BY <2>2 DEF IInv, TypeOK
  <2>5. Polled'
    BY <1>0, <1>1, <2>4, KeepsPolled DEF DInv
  <2>6. Told'
    <3> SUFFICES ASSUME NEW w \in Leaving(stack'), NEW q \in uninformed'[w[1].who]
                 PROVE  /\ state'[q] # "NONE"
                        /\ q \in w[2] \/ (w[1].at \in ExitLoop /\ q \in Ahead(w[1], next'))
      BY DEF Told
    <3>1. CASE w \in Leaving(stack)
      <4>1. w[1].who \in Proc /\ w[1].who # p
        BY <2>1, <3>1, FrameTypes
      <4>2. q \in uninformed[w[1].who]
        BY <2>2, <4>1
      <4> QED
        BY <3>1, <4>2, KeepsWaiting DEF DInv
    <3>2. CASE w = <<f, Threads(base)>>
      <4>1. w[1] = f
        BY <3>2
      <4>2. q \in Listed /\ state[q] # "NONE" /\ q # p
        BY <1>3, <2>2, <4>1
      <4>3. state'[q] # "NONE"
        BY <2>2, <4>2, StackTypes
      <4>4. q \in Ahead(f, next') /\ f.at \in ExitLoop
        BY <1>0, <1>3, <4>2, WholeList DEF ExitLoop
      <4> QED
        BY <4>1, <4>3, <4>4
    <3> QED
      BY <1>3, <3>1, <3>2
  <2> QED
    BY <2>3, <2>5, <2>6 DEF DInv
<1> QED
  BY <1>1, <1>2, <1>3

LEMMA EndD ==
  ASSUME IInv, LInv, LInv', Visits, Cleans, DInv, End PROVE DInv'
<1>1. /\ stack # <<>> /\ Top.at = "thread" /\ ExitProcess(Top.p, Top.p, Below)
  BY DEF End, TopAt
<1>2. Top.p \in Proc /\ Top.p \in Ref /\ Below \in Seq(GoodFrame)
  BY <1>1, TopOf DEF GoodFrame, Ref
<1>3. state[Top.p] # "NONE"
  BY <1>1, StackTypes, AgreePop DEF LInv, Top
<1>4. Top.at \notin EventFrames /\ Top.at \notin PollLoop /\ Top.at \notin ExitFrames
  BY <1>1 DEF EventFrames, EventLoop, PollLoop, ExitFrames, ExitLoop
<1>5. /\ Frames(Below, EventFrames) = Frames(stack, EventFrames)
      /\ Frames(Below, PollLoop) = Frames(stack, PollLoop)
      /\ Leaving(Below) = Leaving(stack)
  BY <1>1, <1>4, FramesTop
<1> QED
  BY <1>1, <1>2, <1>3, <1>5, ExitD

LEMMA ExitCallD ==
  ASSUME Orderly, IInv, LInv, LInv', Visits, Cleans, DInv, NEW p \in Proc, Exit(p)
  PROVE  DInv'
<1>1. p \notin Executing \union Exiting /\ ExitProcess(p, process_current, stack)
  BY DEF Exit, Orderly
<1>2. p \notin Exits(stack)
  BY <1>1 DEF Exiting, Exits
<1>3. state[p] # "NONE" \/ ~OnList(p)
  BY <1>2 DEF LInv, Agree, OnList
<1>4. process_current \in Ref /\ stack \in Seq(GoodFrame)
  BY StackTypes DEF IInv, TypeOK
<1> QED
  BY <1>1, <1>3, <1>4, ExitD

LEMMA UnlinkD ==
  ASSUME IInv, LInv, LInv', Visits, Cleans, DInv, ExitUnlink PROVE DInv'
<1>1. /\ stack # <<>> /\ Top.at = "exit.unlink" /\ stack' = Below
      /\ uninformed' = [uninformed EXCEPT ![Top.who] = {}]
      /\ UNCHANGED <<needspoll, poll_requested, asked, owed, served>>
  BY DEF ExitUnlink, TopAt, polls, delivery
<1>2. Top.at \notin EventFrames \union PollLoop
  BY <1>1 DEF EventFrames, EventLoop, PollLoop
<1>3. SameFrames
  BY <1>1, <1>2, ReturnFrames
<1>4. \A q \in Proc : uninformed'[q] \subseteq uninformed[q]
  BY <1>1 DEF IInv, TypeOK
<1> QED
  BY <1>1, <1>3, <1>4, SameD

LEMMA StartD ==
  ASSUME IInv, LInv, LInv', Visits, Cleans, DInv, NEW p \in Proc, Start(p) PROVE DInv'
<1>1. /\ Synch(p, "INIT", [state EXCEPT ![p] = "RUNNING"])
      /\ asked' = [asked EXCEPT ![p] = FALSE] /\ served' = {}
      /\ UNCHANGED <<needspoll, poll_requested, owed, uninformed>>
  BY DEF Start
<1>2. SameFrames
  BY <1>1, SynchFrames DEF Ev
<1>3. \A q \in Proc : asked'[q] => asked[q]
  BY <1>1 DEF IInv, TypeOK
<1> QED
  BY <1>1, <1>2, <1>3, SameD

LEMMA PollCallD ==
  ASSUME IInv, LInv, LInv', Visits, Cleans, DInv, NEW p \in Proc, Poll(p) PROVE DInv'
<1>1. /\ state[p] # "NONE" /\ needspoll' = [needspoll EXCEPT ![p] = TRUE] /\ poll_requested'
      /\ asked' = [asked EXCEPT ![p] = TRUE]
      /\ UNCHANGED <<process_list, next, state, stack, owed, served, uninformed>>
  BY DEF Poll, PollRequest, list, history
<1>2. \A q \in Proc : asked'[q] => state'[q] # "NONE" /\ needspoll'[q]
  BY <1>1 DEF IInv, TypeOK, DInv, Polled
<1>3. Polled'
  BY <1>1, <1>2 DEF Polled
<1>4. Reached' /\ Told'
  BY <1>1, KeepsReached, KeepsTold DEF DInv
<1> QED
  BY <1>3, <1>4 DEF DInv

LEMMA InitD == Init => DInv
<1> SUFFICES ASSUME Init PROVE DInv
  OBVIOUS
<1>1. (\A A : Frames(stack, A) = {}) /\ Leaving(stack) = {}
  BY NoneLeft DEF Init
<1> QED
  BY <1>1 DEF Init, DInv, Reached, Polled, Told

LEMMA StepD == Orderly /\ IInv /\ LInv /\ DInv /\ [Next]_vars => DInv'
<1> SUFFICES ASSUME Orderly, IInv, LInv, DInv, [Next]_vars PROVE DInv'
  OBVIOUS
<1>0. LInv' /\ Visits /\ Cleans
  BY StepL, StepVisits, StepCleans
<1>1. ASSUME UNCHANGED <<stack, polls, history>> PROVE DInv'
  <2>1. SameFrames
    BY <1>1 DEF SameFrames
  <2> QED
    BY <1>0, <1>1, <2>1, SameD DEF polls, history
<1>2. CASE Kernel
  <2>1. ASSUME SynchReturn PROVE DInv'
    <3>1. /\ stack # <<>> /\ Top.at = "synch" /\ stack' = Below
          /\ UNCHANGED <<needspoll, poll_requested, asked, owed, served, uninformed>>
      BY <2>1 DEF SynchReturn, Restore, TopAt, polls, history
    <3>2. SameFrames
      BY <3>1, ReturnFrames DEF EventFrames, EventLoop, PollLoop
    <3> QED
      BY <1>0, <3>1, <3>2, SameD
  <2> QED
    BY <1>0, <1>2, <2>1, RunD, PollD, EventD, EventPollsD, EventCallD, InformD, UnlinkD DEF Kernel
<1>3. CASE ThreadReturn
  <2>1. ASSUME ContextEnd \/ LastReturn \/ Yield PROVE DInv'
    <3>1. /\ stack # <<>> /\ Top.at \in Running /\ stack' = Below
          /\ UNCHANGED <<needspoll, poll_requested, asked, owed, served, uninformed>>
      BY <2>1 DEF ContextEnd, LastReturn, Yield, Restore, TopAt, polls, history, Running
    <3>2. SameFrames
      BY <3>1, ReturnFrames DEF EventFrames, EventLoop, PollLoop, Running
    <3> QED
      BY <1>0, <3>1, <3>2, SameD
  <2> QED
    BY <1>0, <1>3, <2>1, EndD DEF ThreadReturn
<1>4. CASE ThreadCall
  <2>1. ASSUME NEW ev \in PostedEvents, NEW p \in Ref, Post(ev, p) PROVE DInv'
    BY <1>1, <2>1 DEF Post
  <2>2. ASSUME NEW ev \in PostedEvents, NEW p \in Proc, PostSynch(ev, p) PROVE DInv'
    <3>1. /\ Synch(p, ev, state) /\ ev \in Ev
          /\ UNCHANGED <<needspoll, poll_requested, asked, owed, served, uninformed>>
      BY <2>2, KernelAssumption DEF PostSynch, polls, history
    <3>2. SameFrames
      BY <3>1, SynchFrames
    <3> QED
      BY <1>0, <3>1, <3>2, SameD
  <2>3. ASSUME NEW p \in Proc, ContextBegin(p) PROVE DInv'
    <3>1. SameFrames /\ UNCHANGED <<needspoll, poll_requested, asked, owed, served, uninformed>>
      BY <2>3, ContextFrames DEF ContextBegin, polls, history
    <3> QED
      BY <1>0, <3>1, SameD
  <2> QED
    BY <1>0, <1>4, <2>1, <2>2, <2>3, StartD, ExitCallD, PollCallD DEF ThreadCall
<1>5. CASE Boot
  BY <1>1, <1>5 DEF Boot
<1> QED
  BY <1>1, <1>2, <1>3, <1>4, <1>5 DEF Next, vars, polls, history

LEMMA DeliveryAlways == Orderly => (Spec => [](IInv /\ LInv /\ DInv))
<1> SUFFICES ASSUME Orderly PROVE Spec => [](IInv /\ LInv /\ DInv)
  OBVIOUS
<1>1. Init => DInv
  BY InitD
<1>2. IInv /\ LInv /\ DInv /\ [Next]_vars => DInv'
  BY StepD
<1>3. Spec => [](IInv /\ LInv)
  BY AgreeAlways
<1> QED
  BY <1>1, <1>2, <1>3, PTL DEF Spec

(* A broadcast reaches everyone who is on the list when it begins and does *)
(* not exit before its turn, however many processes leave or enter the     *)
(* list under its loop.                                                    *)
THEOREM EveryoneReached == Orderly => (Spec => []BroadcastReachesAll)
<1>1. DInv => BroadcastReachesAll
  BY NoneLeft DEF DInv, Reached, BroadcastReachesAll
<1> QED
  BY <1>1, DeliveryAlways, PTL

(* Nobody is called twice for a broadcast during which no process starts:  *)
(* what the loop has served is never ahead of it again.                    *)
THEOREM NobodyTwice == Orderly => (Spec => BroadcastOnce)
<1> SUFFICES ASSUME Orderly PROVE Spec => BroadcastOnce
  OBVIOUS
<1> DEFINE Once == \A p \in Proc :
             TopAt(EventLoop \union {"event.polled"})
               /\ state[p] = "RUNNING" /\ state'[p] = "CALLED" => p \notin served
<1>1. ASSUME IInv, LInv, DInv, [Next]_vars PROVE [Once]_vars
  <2> SUFFICES ASSUME NEW p \in Proc, stack # <<>>, Top.at \in EventFrames,
                      state[p] = "RUNNING", state'[p] = "CALLED"
               PROVE  p \notin served
    BY DEF TopAt, EventFrames
  <2>0. /\ Top.at \notin Running /\ Top.at \notin ExitFrames /\ Top.at \notin PollLoop
        /\ Top.at \notin {"run", "synch"}
    BY DEF EventFrames, EventLoop, Running, ExitFrames, ExitLoop, PollLoop
  <2>1. DoEventCall
    <3>1. Kernel => DoEventCall
      BY <2>0 DEF Kernel, ProcessRun, DoPoll, DoEvent, DoEventPolls, ExitInform, ExitUnlink,
                  SynchReturn, Restore, TopAt, ExitFrames
    <3>2. ~ThreadReturn
      BY <2>0 DEF ThreadReturn, ContextEnd, LastReturn, Yield, End, Restore, TopAt, Running
    <3>3. ~ThreadCall
      <4>1. ~TopAt(Running)
        BY <2>0 DEF TopAt
      <4>2. \A ev, q : ~Post(ev, q) /\ ~PostSynch(ev, q)
        BY <4>1 DEF Post, PostSynch, Calling
      <4>3. \A q : ~Start(q) /\ ~Exit(q) /\ ~ContextBegin(q)
        BY <4>1 DEF Start, Exit, ContextBegin, Calling
      <4>4. \A q : Poll(q) => state' = state
        BY DEF Poll
      <4> QED
        BY <4>2, <4>3, <4>4 DEF ThreadCall
    <3>4. ~Boot /\ ~UNCHANGED vars
      BY DEF Boot, vars
    <3> QED
      BY <1>1, <3>1, <3>2, <3>3, <3>4 DEF Next
  <2>2. p = Cursor /\ p # NULL
    <3>1. CASE Cursor = NULL
      BY <2>1, <3>1 DEF DoEventCall
    <3>2. CASE Cursor # NULL
      <4>1. CallProcess(Cursor, Top.ev, state, Moved(AfterCall, Cursor))
        BY <2>1, <3>2 DEF DoEventCall
      <4>2. state' = [state EXCEPT ![Cursor] = "CALLED"] \/ state' = state
        BY <4>1 DEF CallProcess
      <4> QED
        BY <1>1, <3>2, <4>2, StackTypes
    <3> QED
      BY <3>1, <3>2
  <2>3. p \in Ahead(Top, next)
    BY <1>1, <2>2, AheadOfTop
  <2>4. Top \in Frames(stack, EventFrames)
    BY <1>1, FramesTop
  <2> QED
    BY <1>1, <2>3, <2>4 DEF DInv, Reached
<1>2. Spec => [](IInv /\ LInv /\ DInv)
  BY DeliveryAlways
<1> QED
  BY <1>1, <1>2, PTL DEF Spec, BroadcastOnce

(* An accepted poll is never lost, also if it is requested while do_poll   *)
(* walks the list, whatever that walk has passed already.                  *)
THEOREM PollsKept == Orderly => (Spec => []PollNotLost)
<1>1. ASSUME IInv, LInv, DInv PROVE PollNotLost
  <2> SUFFICES ASSUME NEW p \in Proc, asked[p], ~poll_requested
               PROVE  /\ needspoll[p]
                      /\ \E i \in DOMAIN stack :
                           \/ stack[i].at = "poll.first" /\ p \in Reachable(stack[i].p)
                           \/ stack[i].at = "poll.next" /\ stack[i].p # NULL
                                /\ p \in Reachable(next[stack[i].p])
    BY <1>1 DEF PollNotLost, DInv, Polled
  <2>1. needspoll[p] /\ \E f \in Frames(stack, PollLoop) : p \in Ahead(f, next)
    BY <1>1 DEF DInv, Polled
  <2>2. PICK i \in DOMAIN stack : stack[i].at \in PollLoop /\ p \in Ahead(stack[i], next)
    BY <2>1 DEF Frames
  <2>3. stack[i] \in GoodFrame
    BY <1>1, <2>2, StackTypes
  <2>4. CASE stack[i].at = "poll.first"
    BY <2>1, <2>2, <2>4, ReachListed DEF Ahead, NextLoop
  <2>5. CASE stack[i].at = "poll.next"
    <3>1. stack[i].p # NULL
      BY <2>3, <2>5, KernelAssumption DEF GoodFrame
    <3> QED
      BY <2>1, <2>2, <2>5, <3>1, ReachListed DEF Ahead, NextLoop
  <2> QED
    BY <2>2, <2>4, <2>5 DEF PollLoop
<1> QED
  BY <1>1, DeliveryAlways, PTL

(* When a process is unlinked, everyone who was running when it began to   *)
(* exit and has not exited since has been called with                      *)
(* PROCESS_EVENT_EXITED, or is in a call below the exit.                   *)
THEOREM OthersTold == Orderly => (Spec => []OthersInformed)
<1>1. ASSUME IInv, LInv, DInv PROVE OthersInformed
  <2> SUFFICES ASSUME stack # <<>>, Top.at = "exit.unlink", NEW q \in uninformed[Top.who]
               PROVE  q \in Executing
    BY DEF OthersInformed, TopAt
  <2> DEFINE w == <<Top, Threads(Below)>>
  <2>1. w \in Leaving(stack) /\ w[1] = Top /\ w[2] = Threads(Below)
    BY <1>1, FramesTop DEF ExitFrames
  <2> HIDE DEF w
  <2>2. Top.at \notin ExitLoop
    BY DEF ExitLoop
  <2>3. q \in Threads(Below)
    BY <1>1, <2>1, <2>2 DEF DInv, Told
  <2>4. Threads(Below) \subseteq Threads(stack)
    <3>1. Top \in GoodFrame /\ Below \in Seq(GoodFrame) /\ stack = <<Top>> \o Below
      BY <1>1, TopOf
    <3> QED
      BY <3>1, FrontFrame
  <2>5. q \in Proc
    <3>1. Top.who \in Proc
      BY <1>1, TopOf DEF GoodFrame, ExitFrames
    <3> QED
      BY <1>1, <3>1 DEF IInv, TypeOK
  <2> QED
    BY <2>3, <2>4, <2>5 DEF Threads, Executing, OnStack
<1> QED
  BY <1>1, DeliveryAlways, PTL

==============================================================================
