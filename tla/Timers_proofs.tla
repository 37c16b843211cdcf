---------------------------- MODULE Timers_proofs -----------------------------
(***************************************************************************)
(* The event timers and the callback timers.                               *)
(*                                                                         *)
(* For any timers, processes and clock: the list of timers is one, no      *)
(* timer is served early, and none that is overdue is overlooked, as long  *)
(* as the intervals stay below about half the range of the clock.          *)
(*                                                                         *)
(* The invariant says how next_expiration stands to the timers it is for:  *)
(* it is not after the expiration of one that is not due yet, and not so   *)
(* long before it that the comparison of the interrupt wraps; and a timer  *)
(* that is overdue has a poll coming or is still to be reached by the scan.*)
(*                                                                         *)
(* For any ctimers and clock: a ctimer that was set is on its way to call  *)
(* back, one that was stopped does not, and none does before its time      *)
(* unless the event of its last expiration was still in the queue when it  *)
(* was set.                                                                *)
(*                                                                         *)
(* The invariant is the one of the event timers, with the list of ctimers: *)
(* the armed ctimers and no others are on it, each once, and each has its  *)
(* etimer pending or its event queued, once ctimer_init was called; before *)
(* that no etimer is pending.                                              *)
(***************************************************************************)
EXTENDS CallbackTimer, SequenceTheorems, FiniteSetTheorems, WellFoundedInduction, TLAPS

------------------------------------------------------------------------------
(* Event timers: the invariant. *)

(* How far the distance of two times may reach for the test of the         *)
(* interrupt to tell which comes first.                                    *)
Reach == TimeRange - MAX_TICKS - 2 - MaxLate

(* What NeverEarly and NoTimerOverlooked depend on. *)
Timely == ~Untimely
Near == Reach >= 1 /\ \A i \in Interval : i <= Reach

(* The ticks since update_time was called, and then since it read the      *)
(* clock.                                                                  *)
Updating == at \in {"read", "write", "writing"}
Elapsed == IF Updating THEN Wrap(count - now) ELSE 0

ListOK ==
  /\ ListedOnce
  /\ \A t \in Listed : owner[t] # NULL /\ left[t] # Long
  /\ at # "scan" => cursor = 1
  /\ Updating => Elapsed <= 1

(* The timers that were set, and are at most MaxLate ticks overdue.        *)
OnTime == \A t \in Timer :
  left[t] # Long =>
    /\ timer[t].interval \in Interval
    /\ left[t] + Elapsed <= timer[t].interval
    /\ Wrap(Due(t)) = Wrap(count + left[t])

(* The timer at position i of the list has the attention of the process.   *)
Scanning == at = "scan" \/ (Updating /\ back = "scan")
Attended(i) == needspoll \/ (Scanning /\ i >= cursor)

(* At time c, the time e stands for a timer that has l ticks left: it is g *)
(* ticks ahead.                                                            *)
Fits(e, c, l) == \E g \in -MaxLate - Reach .. Reach :
  e = Wrap(c + g) /\ g <= l /\ l <= g + Reach

(* A timer that was set or adjusted, before update_time writes.            *)
Fresh(t) == \/ at = "read" /\ (needspoll \/ left[t] + Elapsed >= 2)
            \/ at = "write" /\ (needspoll \/ left[t] + Elapsed >= 1)

WakeOK == \A i \in DOMAIN timerlist :
  LET t == timerlist[i]
  IN  /\ left[t] < 0 => Attended(i)
      /\ (left[t] >= 0 /\ at # "writing") =>
             Fits(next_expiration, count, left[t]) \/ Fresh(t)
      /\ (left[t] = 0 /\ ~Attended(i) /\ (at \in {"write", "writing"} => Elapsed = 0))
           => next_expiration = count

TInv == TypeOK /\ ListOK

------------------------------------------------------------------------------
(* Times *)

LEMMA Clock ==
  /\ TimeRange \in Nat /\ MaxLate \in Nat /\ MaxLate + 3 <= TimeRange
  /\ MAX_TICKS \in Nat /\ MAX_TICKS < TimeRange
  /\ NUMEVENTS \in Nat \ {0} /\ Half \in Nat \ {0}
  /\ \A i \in Interval : i \in 0 .. TimeRange - MaxLate - 2 /\ i \in Time
  /\ 0 \in Time /\ Time \subseteq Nat /\ NULL \notin Proc /\ Other \notin Timer
BY TimerAssumption DEF MAX_TICKS, Time

LEMMA Modulo ==
  ASSUME NEW m \in Nat \ {0}, NEW a \in Int
  PROVE  a % m \in 0 .. m - 1
OBVIOUS

LEMMA ModuloIs ==
  ASSUME NEW m \in Nat \ {0}, NEW a \in 0 .. 3 * m - 1
  PROVE  a % m = IF a < m THEN a ELSE IF a < 2 * m THEN a - m ELSE a - 2 * m
OBVIOUS

LEMMA WrapIs ==
  ASSUME NEW n \in Int
  PROVE  /\ Wrap(n) \in Time
         /\ -TimeRange <= n /\ n < 2 * TimeRange =>
              Wrap(n) = IF n < 0 THEN n + TimeRange
                        ELSE IF n < TimeRange THEN n ELSE n - TimeRange
<1>1. TimeRange \in Nat \ {0} /\ n + TimeRange \in Int
  BY Clock
<1>2. Wrap(n) \in Time
  BY <1>1, Modulo DEF Wrap, Time
<1>3. ASSUME -TimeRange <= n, n < 2 * TimeRange
      PROVE  Wrap(n) = IF n < 0 THEN n + TimeRange
                       ELSE IF n < TimeRange THEN n ELSE n - TimeRange
  <2>1. n + TimeRange \in 0 .. 3 * TimeRange - 1
    BY <1>1, <1>3
  <2>2. PICK a \in 0 .. 3 * TimeRange - 1 : a = n + TimeRange
    BY <2>1
  <2>3. a % TimeRange = IF a < TimeRange THEN a ELSE
                        IF a < 2 * TimeRange THEN a - TimeRange ELSE a - 2 * TimeRange
    BY <1>1, ModuloIs
  <2>4. Wrap(n) = a % TimeRange
    BY <2>2 DEF Wrap
  <2> QED
    BY <1>1, <2>2, <2>3, <2>4
<1> QED
  BY <1>2, <1>3

------------------------------------------------------------------------------
(* Sequences *)

LEMMA Least ==
  ASSUME NEW S \in SUBSET Nat, S # {}
  PROVE  \E m \in S : \A n \in S : m <= n
<1> DEFINE R == OpToRel(<, Nat)
<1>1. IsWellFoundedOn(R, Nat)
  BY NatLessThanWellFounded
<1>2. \A m, n \in Nat : <<n, m>> \in R <=> n < m
  BY DEF OpToRel
<1> HIDE DEF R
<1>3. PICK m \in S : \A n \in S : ~(<<n, m>> \in R)
  BY <1>1, WFMin
<1>4. ASSUME NEW n \in S PROVE m <= n
  <2>1. ~(n < m) /\ m \in Nat /\ n \in Nat
    BY <1>2, <1>3
  <2> QED
    BY <2>1
<1> QED
  BY <1>4

Elements(s) == {s[i] : i \in DOMAIN s}
Distinct(s) == \A i, j \in DOMAIN s : s[i] = s[j] => i = j

LEMMA RemoveAtIs ==
  ASSUME NEW S, NEW s \in Seq(S), NEW k \in 1 .. Len(s)
  PROVE  /\ RemoveAt(s, k) \in Seq(S) /\ Len(RemoveAt(s, k)) = Len(s) - 1
         /\ \A i \in 1 .. Len(s) - 1 :
              RemoveAt(s, k)[i] = IF i < k THEN s[i] ELSE s[i + 1]
<1> DEFINE a == SubSeq(s, 1, k - 1)
           b == SubSeq(s, k + 1, Len(s))
<1>1. /\ Len(s) \in Nat /\ k \in Int /\ k - 1 \in Int /\ k + 1 \in Int /\ 1 \in Int
      /\ \A i \in 1 .. Len(s) : s[i] \in S
  BY ElementOfSeq
<1>2. a \in Seq(S) /\ Len(a) = k - 1 /\ \A i \in 1 .. k - 1 : a[i] = s[i]
  <2>1. \A i \in 1 .. k - 1 : s[i] \in S
    BY <1>1
  <2>2. /\ a \in Seq(S) /\ Len(a) = IF 1 <= k - 1 THEN (k - 1) - 1 + 1 ELSE 0
        /\ \A i \in 1 .. (k - 1) - 1 + 1 : a[i] = s[1 + i - 1]
    BY <1>1, <2>1, SubSeqProperties
  <2> QED
    BY <1>1, <2>2
<1>3. b \in Seq(S) /\ Len(b) = Len(s) - k /\ \A i \in 1 .. Len(s) - k : b[i] = s[k + i]
  <2>1. \A i \in k + 1 .. Len(s) : s[i] \in S
    BY <1>1
  <2>2. /\ b \in Seq(S) /\ Len(b) = IF k + 1 <= Len(s) THEN Len(s) - (k + 1) + 1 ELSE 0
        /\ \A i \in 1 .. Len(s) - (k + 1) + 1 : b[i] = s[(k + 1) + i - 1]
    BY <1>1, <2>1, SubSeqProperties
  <2> QED
    BY <1>1, <2>2
<1> HIDE DEF a, b
<1>4. RemoveAt(s, k) = a \o b
  BY DEF RemoveAt, a, b
<1>5. /\ a \o b \in Seq(S) /\ Len(a \o b) = Len(a) + Len(b)
      /\ \A i \in 1 .. Len(a) + Len(b) :
           (a \o b)[i] = IF i <= Len(a) THEN a[i] ELSE b[i - Len(a)]
  BY <1>2, <1>3, ConcatProperties
<1>6. Len(a) + Len(b) = Len(s) - 1
  BY <1>1, <1>2, <1>3
<1>7. ASSUME NEW i \in 1 .. Len(s) - 1
      PROVE  (a \o b)[i] = IF i < k THEN s[i] ELSE s[i + 1]
  <2>1. (a \o b)[i] = IF i <= Len(a) THEN a[i] ELSE b[i - Len(a)]
    BY <1>5, <1>6
  <2>2. CASE i < k
    BY <1>1, <1>2, <2>1, <2>2
  <2>3. CASE ~(i < k)
    <3>1. ~(i <= Len(a)) /\ i - Len(a) \in 1 .. Len(s) - k /\ k + (i - Len(a)) = i + 1
      BY <1>1, <1>2, <2>3
    <3> QED
      BY <1>3, <2>1, <2>3, <3>1
  <2> QED
    BY <2>2, <2>3
<1> QED
  BY <1>4, <1>5, <1>6, <1>7

(* An element that is on a list once is not on it when it is taken away.   *)
LEMMA RemoveAtElements ==
  ASSUME NEW S, NEW s \in Seq(S), Distinct(s), NEW k \in 1 .. Len(s)
  PROVE  /\ RemoveAt(s, k) \in Seq(S) /\ Distinct(RemoveAt(s, k))
         /\ Elements(RemoveAt(s, k)) = Elements(s) \ {s[k]}
<1> DEFINE r == RemoveAt(s, k)
<1>1. /\ r \in Seq(S) /\ Len(r) = Len(s) - 1 /\ Len(s) \in Nat
      /\ \A i \in 1 .. Len(s) - 1 : r[i] = IF i < k THEN s[i] ELSE s[i + 1]
  BY RemoveAtIs
<1>2. DOMAIN r = 1 .. Len(s) - 1 /\ DOMAIN s = 1 .. Len(s)
  BY <1>1, LenProperties
<1> HIDE DEF r
<1>3. Distinct(r)
  BY SMTT(60), <1>1, <1>2 DEF Distinct
<1>4. ASSUME NEW i \in 1 .. Len(s) - 1 PROVE r[i] \in Elements(s) /\ r[i] # s[k]
  <2>1. CASE i < k
    BY <1>1, <1>2, <2>1 DEF Elements, Distinct
  <2>2. CASE ~(i < k)
    <3>1. i + 1 \in 1 .. Len(s) /\ i + 1 # k /\ r[i] = s[i + 1]
      BY <1>1, <2>2
    <3> QED
      BY <1>2, <3>1 DEF Elements, Distinct
  <2> QED
    BY <2>1, <2>2
<1>5. ASSUME NEW i \in 1 .. Len(s), i # k PROVE s[i] \in Elements(r)
  <2>1. CASE i < k
    <3>1. i \in 1 .. Len(s) - 1
      BY <1>1, <2>1
    <3> QED
      BY <1>1, <1>2, <2>1, <3>1 DEF Elements
  <2>2. CASE ~(i < k)
    <3>1. i - 1 \in 1 .. Len(s) - 1 /\ ~(i - 1 < k) /\ (i - 1) + 1 = i
      BY <1>1, <1>5, <2>2
    <3> QED
      BY <1>1, <1>2, <3>1 DEF Elements
  <2> QED
    BY <2>1, <2>2
<1>6. Elements(r) = Elements(s) \ {s[k]}
  BY <1>2, <1>4, <1>5 DEF Elements
<1> QED
  BY <1>1, <1>3, <1>6 DEF r

LEMMA RemoveFirstElements ==
  ASSUME NEW S, NEW s \in Seq(S), Distinct(s), NEW e
  PROVE  /\ RemoveFirst(s, e) \in Seq(S) /\ Distinct(RemoveFirst(s, e))
         /\ Elements(RemoveFirst(s, e)) = Elements(s) \ {e}
<1>1. DOMAIN s = 1 .. Len(s) /\ Len(s) \in Nat
  BY LenProperties
<1>2. CASE \E i \in 1 .. Len(s) : s[i] = e
  <2> DEFINE I == {i \in 1 .. Len(s) : s[i] = e}
  <2>1. I \in SUBSET Nat /\ I # {}
    BY <1>1, <1>2
  <2>2. PICK k \in I : \A n \in I : k <= n
    BY <2>1, Least
  <2>3. Min(I) \in I
    BY <2>2 DEF Min
  <2>4. RemoveFirst(s, e) = RemoveAt(s, Min(I))
    BY <1>2, <2>1 DEF RemoveFirst, SelectInSeq
  <2> HIDE DEF I
  <2>5. Min(I) \in 1 .. Len(s) /\ s[Min(I)] = e
    BY <2>3 DEF I
  <2> QED
    BY <2>4, <2>5, RemoveAtElements
<1>3. CASE ~(\E i \in 1 .. Len(s) : s[i] = e)
  BY <1>1, <1>3 DEF RemoveFirst, Elements
<1> QED
  BY <1>2, <1>3

(* What is in front of a list. *)
LEMMA InFront ==
  ASSUME NEW S, NEW s \in Seq(S), Distinct(s), NEW e \in S, e \notin Elements(s)
  PROVE  /\ <<e>> \o s \in Seq(S) /\ Distinct(<<e>> \o s)
         /\ Elements(<<e>> \o s) = Elements(s) \union {e}
<1> DEFINE r == <<e>> \o s
<1>1. <<e>> \in Seq(S) /\ Len(<<e>>) = 1 /\ <<e>>[1] = e
  OBVIOUS
<1>2. /\ r \in Seq(S) /\ Len(r) = 1 + Len(s) /\ Len(s) \in Nat
      /\ \A i \in 1 .. 1 + Len(s) : r[i] = IF i <= 1 THEN <<e>>[i] ELSE s[i - 1]
  BY <1>1, ConcatProperties, LenProperties
<1>3. DOMAIN r = 1 .. Len(s) + 1 /\ DOMAIN s = 1 .. Len(s)
  BY <1>2, LenProperties
<1> HIDE DEF r
<1>4. r[1] = e /\ \A i \in 1 .. Len(s) : r[i + 1] = s[i]
  BY <1>1, <1>2
<1>5. \A i \in 1 .. Len(s) + 1 : i = 1 \/ (i - 1 \in 1 .. Len(s) /\ (i - 1) + 1 = i)
  BY <1>2
<1>6. Elements(r) = Elements(s) \union {e}
  <2>1. ASSUME NEW i \in 1 .. Len(s) + 1 PROVE r[i] \in Elements(s) \union {e}
    <3>1. CASE i = 1
      BY <1>4, <3>1
    <3>2. CASE i # 1
      <4>1. r[i] = s[i - 1] /\ i - 1 \in 1 .. Len(s)
        BY <1>4, <1>5, <3>2
      <4> QED
        BY <1>3, <4>1 DEF Elements
    <3> QED
      BY <3>1, <3>2
  <2>2. 1 \in 1 .. Len(s) + 1 /\ \A i \in 1 .. Len(s) : i + 1 \in 1 .. Len(s) + 1
    BY <1>2
  <2> QED
    BY <1>3, <1>4, <2>1, <2>2 DEF Elements
<1>7. Distinct(r)
  <2>1. ASSUME NEW i \in 1 .. Len(s) + 1, NEW j \in 1 .. Len(s) + 1, r[i] = r[j]
        PROVE  i = j
    <3>1. \A m \in 1 .. Len(s) : s[m] # e
      BY <1>3 DEF Elements
    <3>2. CASE i = 1 \/ j = 1
      <4>1. \A m \in 1 .. Len(s) + 1 : m # 1 => r[m] = s[m - 1] /\ r[m] # e
        BY <1>4, <1>5, <3>1
      <4> QED
        BY <1>4, <2>1, <3>2, <4>1
    <3>3. CASE i # 1 /\ j # 1
      <4>1. s[i - 1] = s[j - 1] /\ i - 1 \in 1 .. Len(s) /\ j - 1 \in 1 .. Len(s)
        BY <1>4, <1>5, <2>1, <3>3
      <4>2. i - 1 = j - 1
        BY <1>3, <4>1 DEF Distinct
      <4> QED
        BY <1>2, <4>2
    <3> QED
      BY <3>2, <3>3
  <2> QED
    BY <1>3, <2>1 DEF Distinct
<1> QED
  BY <1>2, <1>6, <1>7 DEF r

------------------------------------------------------------------------------
(* The list and the types: no hypothesis. *)

LEMMA InitSound == Init => TInv
<1> SUFFICES ASSUME Init PROVE TInv
  OBVIOUS
<1>1. timerlist = <<>> /\ Len(timerlist) = 0 /\ DOMAIN timerlist = {}
  BY DEF Init
<1>2. TypeOK
  <2>1. timerlist \in Seq(Timer) /\ events \in Seq(Timer \union {Other}) /\ Len(events) = 0
    BY DEF Init
  <2>2. left \in [Timer -> Int] /\ \A t \in Timer : left[t] >= Long
    BY Clock DEF Init, Long
  <2>3. timer \in [Timer -> [start : Time, interval : Time]]
    BY Clock DEF Init
  <2>4. cursor \in 1 .. Len(timerlist) + 1 /\ Len(events) <= NUMEVENTS
    BY <1>1, <2>1, Clock DEF Init
  <2> QED
    BY <2>1, <2>2, <2>3, <2>4, Clock DEF Init, TypeOK
<1>3. ListOK
  BY <1>1 DEF Init, ListOK, ListedOnce, Listed, Updating
<1> QED
  BY <1>2, <1>3 DEF TInv

(* The clock moves while update_time runs by one tick at most. *)
LEMMA ElapsedOne ==
  ASSUME NEW a \in Time PROVE Wrap(a - a) = 0 /\ Wrap(Wrap(a + 1) - a) = 1
<1>1. a \in Nat /\ a < TimeRange /\ a - a = 0 /\ TimeRange \in Nat /\ TimeRange >= 3
  BY Clock DEF Time
<1>2. Wrap(a - a) = 0
  BY <1>1, WrapIs
<1>3. Wrap(a + 1) = IF a + 1 < TimeRange THEN a + 1 ELSE a + 1 - TimeRange
  BY <1>1, WrapIs
<1>4. CASE a + 1 < TimeRange
  BY <1>1, <1>3, <1>4, WrapIs
<1>5. CASE ~(a + 1 < TimeRange)
  BY <1>1, <1>3, <1>5, WrapIs
<1> QED
  BY <1>2, <1>4, <1>5

LEMMA TicksSound == ASSUME TInv, NEW n \in {1, 2}, Ticks(n) PROVE TInv'
<1>1. /\ count \in Time /\ now \in Time /\ left \in [Timer -> Int]
      /\ Long \in Int /\ \A t \in Timer : left[t] >= Long
  BY Clock DEF TInv, TypeOK, Long
<1>2. /\ count' = Wrap(count + n)
      /\ left' = [t \in Timer |-> IF left[t] - n < -MaxLate THEN Long ELSE left[t] - n]
      /\ needspoll' = (needspoll \/ (timerlist # <<>> /\ WakesAt(count')))
      /\ timerlist' = timerlist /\ timer' = timer /\ owner' = owner
      /\ next_expiration' = next_expiration /\ events' = events
      /\ at' = at /\ cursor' = cursor /\ back' = back /\ now' = now
      /\ \A t \in Listed : left[t] - n >= -MaxLate
      /\ Updating => count = now /\ n = 1
  BY DEF Ticks, pc, Updating
<1>3. count' \in Time
  <2>1. count + n \in Int
    BY <1>1, Clock
  <2> QED
    BY <1>2, <2>1, WrapIs
<1>4. left' \in [Timer -> Int] /\ \A t \in Timer : left'[t] >= Long
  BY <1>1, <1>2, Clock DEF Long
<1>5. needspoll' \in BOOLEAN
  BY <1>2 DEF TInv, TypeOK, WakesAt
<1>6. TypeOK'
  BY <1>2, <1>3, <1>4, <1>5 DEF TInv, TypeOK
<1>7. ListOK'
  <2>1. \A t \in Listed : t \in Timer
    BY ElementOfSeq, LenProperties DEF TInv, TypeOK, Listed
  <2>2. \A t \in Listed : left'[t] # Long
    BY <1>1, <1>2, <2>1, Clock DEF Long
  <2>3. Updating => Elapsed' = 1
    BY <1>1, <1>2, ElapsedOne DEF Elapsed, Updating
  <2> QED
    BY <1>2, <2>2, <2>3 DEF TInv, ListOK, ListedOnce, Listed, Updating
<1> QED
  BY <1>6, <1>7 DEF TInv

(* Half of one time and half of another make a time. *)
LEMMA HalvesInRange ==
  ASSUME NEW m \in Time, NEW k \in Time
  PROVE  m - (m % Half) + (k % Half) \in Time
<1>0. TimeRange % Half = 0 /\ TimeRange \in Nat /\ Half \in Nat \ {0}
  BY TimerAssumption
<1>1. PICK q \in Nat : TimeRange = Half * q
  <2>1. TimeRange = Half * (TimeRange \div Half) + (TimeRange % Half)
    BY <1>0
  <2> QED
    BY <1>0, <2>1
<1>2. PICK a \in Nat : m = Half * a + (m % Half) /\ m % Half \in 0 .. Half - 1
  <2>1. m \in Nat /\ m = Half * (m \div Half) + (m % Half) /\ m \div Half \in Nat
    BY <1>0, Clock
  <2>2. m % Half \in 0 .. Half - 1
    BY <1>0, <2>1, Modulo
  <2> QED
    BY <2>1, <2>2
<1>3. k % Half \in 0 .. Half - 1
  BY <1>0, Modulo, Clock
<1>4. a + 1 <= q
  <2>1. SUFFICES ASSUME a >= q PROVE FALSE
    OBVIOUS
  <2>2. Half * a >= Half * q
    <3>1. PICK z \in Nat : a = q + z
      BY <2>1
    <3>2. Half * z \in Nat /\ Half * a = Half * q + Half * z
      BY <1>0, <3>1
    <3> QED
      BY <1>0, <3>2
  <2>3. m < Half * q /\ m \in Nat
    BY <1>0, <1>1, Clock DEF Time
  <2> QED
    BY <1>0, <1>2, <2>2, <2>3
<1>5. Half * a + Half <= Half * q
  <2>1. PICK z \in Nat : q = a + 1 + z
    BY <1>4
  <2>2. Half * z \in Nat /\ Half * q = Half * a + Half + Half * z
    BY <1>0, <2>1
  <2> QED
    BY <1>0, <2>2
<1>6. m - (m % Half) = Half * a /\ Half * a \in Nat /\ Half * q \in Nat
  BY <1>0, <1>2, Clock
<1> QED
  BY <1>0, <1>1, <1>3, <1>5, <1>6 DEF Time

(* update_time finds the timer that expires first, as seen from now.       *)
LEMMA ListedTimers ==
  ASSUME TInv
  PROVE  /\ \A t \in Listed : t \in Timer /\ Distance(t, now) \in Nat
         /\ timerlist # <<>> => Listed # {}
         /\ Len(timerlist) \in Nat /\ DOMAIN timerlist = 1 .. Len(timerlist)
<1>1. \A t \in Listed : t \in Timer
  BY ElementOfSeq, LenProperties DEF TInv, TypeOK, Listed
<1>2. ASSUME NEW t \in Listed PROVE Due(t) - now \in Int
  <2>1. timer[t].start \in Nat /\ timer[t].interval \in Nat /\ now \in Nat
    BY <1>1, Clock DEF TInv, TypeOK
  <2> QED
    BY <2>1 DEF Due
<1>3. Len(timerlist) \in Nat /\ DOMAIN timerlist = 1 .. Len(timerlist)
  BY LenProperties DEF TInv, TypeOK
<1>4. timerlist # <<>> => Listed # {}
  <2>1. timerlist # <<>> => 1 \in DOMAIN timerlist
    BY <1>3, EmptySeq DEF TInv, TypeOK
  <2> QED
    BY <2>1 DEF Listed
<1> QED
  BY <1>1, <1>2, <1>3, <1>4, WrapIs, Clock DEF Distance

LEMMA EarliestIs ==
  ASSUME TInv, timerlist # <<>>
  PROVE  /\ Earliest \in Time
         /\ \E u \in Listed : /\ Earliest = Wrap(now + Distance(u, now))
                            /\ \A t \in Listed : Distance(u, now) <= Distance(t, now)
<1> DEFINE D == {Distance(t, now) : t \in Listed}
<1>1. D \subseteq Nat /\ D # {}
  BY ListedTimers
<1>2. \E d \in D : \A e \in D : d <= e
  BY <1>1, Least
<1>3. \E d \in D : \A t \in Listed : d <= Distance(t, now)
  BY <1>2
<1>4. PICK d \in D : Earliest = Wrap(now + d) /\ \A t \in Listed : d <= Distance(t, now)
  BY <1>3 DEF Earliest
<1>5. now + d \in Int
  <2>1. d \in Nat /\ now \in Nat
    BY <1>1, Clock DEF TInv, TypeOK
  <2> QED
    BY <2>1
<1>6. Earliest \in Time
  BY <1>4, <1>5, WrapIs
<1> QED
  BY <1>4, <1>6

LEMMA UpdateSound == ASSUME TInv, Update PROVE TInv'
<1>1. CASE UpdateRead
  <2>1. /\ at' = "write" /\ now' = count /\ UNCHANGED <<count, timerlist, timer,
          owner, next_expiration, needspoll, events, cursor, back, left>> /\ at = "read"
    BY <1>1 DEF UpdateRead
  <2>2. TypeOK'
    BY <2>1 DEF TInv, TypeOK
  <2>3. Elapsed' = 0
    BY <2>1, ElapsedOne DEF Elapsed, Updating, TInv, TypeOK
  <2> QED
    BY <2>1, <2>2, <2>3 DEF TInv, ListOK, ListedOnce, Listed
<1>3. Earliest \in Time
  BY EarliestIs, Clock DEF Earliest
<1>4. CASE UpdateWrite
  <2> DEFINE upper(m) == m - (m % Half)
             lower(m) == m % Half
  <2>1. /\ at' = "writing" /\ UNCHANGED <<count, timerlist, timer, owner, needspoll,
          events, cursor, back, now, left>> /\ at = "write"
        /\ next_expiration' \in {upper(Earliest) + lower(next_expiration),
                                 upper(next_expiration) + lower(Earliest)}
    BY <1>4 DEF UpdateWrite
  <2>2. ASSUME NEW m \in Time, NEW k \in Time PROVE upper(m) + lower(k) \in Time
    BY <2>2, HalvesInRange
  <2>3. next_expiration \in Time
    BY DEF TInv, TypeOK
  <2>4. next_expiration' \in Time
    BY <1>3, <2>1, <2>2, <2>3
  <2> HIDE DEF upper, lower
  <2>5. TypeOK'
    BY <2>1, <2>4 DEF TInv, TypeOK
  <2> QED
    BY <2>1, <2>5 DEF TInv, ListOK, ListedOnce, Listed, Updating, Elapsed
<1>5. CASE UpdateDone
  <2>1. /\ at' = back /\ next_expiration' = Earliest /\ at = "writing"
        /\ UNCHANGED <<count, timerlist, timer, owner, needspoll, events, cursor,
                       back, now, left>>
    BY <1>5 DEF UpdateDone
  <2>2. TypeOK'
    BY <1>3, <2>1 DEF TInv, TypeOK
  <2> QED
    BY <2>1, <2>2 DEF TInv, TypeOK, ListOK, ListedOnce, Listed, Updating
<1> QED
  BY <1>1, <1>4, <1>5 DEF Update

LEMMA ScanSound == ASSUME TInv, Polled \/ Scan PROVE TInv'
<1>1. CASE Polled
  <2>1. /\ needspoll' = FALSE /\ at' = "scan" /\ cursor' = 1
        /\ UNCHANGED <<count, timerlist, timer, owner, next_expiration, events,
                       back, now, left>>
    BY <1>1 DEF Polled
  <2>2. TypeOK'
    <3>1. cursor' \in 1 .. Len(timerlist) + 1
      BY <2>1, ListedTimers
    <3> QED
      BY <2>1, <3>1 DEF TInv, TypeOK
  <2> QED
    BY <2>1, <2>2 DEF TInv, ListOK, ListedOnce, Listed, Updating
<1>2. CASE ScanPost
  <2> DEFINE t == timerlist[cursor]
  <2>1. /\ at' = "read" /\ back' = "scan" /\ now' = count /\ cursor' = 1
        /\ UNCHANGED <<count, timer, next_expiration, needspoll, left>>
        /\ cursor <= Len(timerlist) /\ Room
        /\ events' = Append(events, t)
        /\ owner' = [owner EXCEPT ![t] = NULL]
        /\ timerlist' = RemoveAt(timerlist, cursor)
    BY <1>2 DEF ScanPost, UpdateCall
  <2>2. cursor \in 1 .. Len(timerlist)
    BY <2>1, ListedTimers DEF TInv, TypeOK
  <2>3. t \in Listed /\ t \in Timer
    BY <2>2, ListedTimers DEF Listed
  <2> HIDE DEF t
  <2>4. /\ timerlist' \in Seq(Timer) /\ Distinct(timerlist')
        /\ Elements(timerlist') = Listed \ {t}
    <3>1. timerlist \in Seq(Timer) /\ Distinct(timerlist) /\ Elements(timerlist) = Listed
      BY DEF TInv, TypeOK, ListOK, ListedOnce, Distinct, Elements, Listed
    <3> QED
      BY <2>1, <2>2, <3>1, RemoveAtElements DEF t
  <2>5. events' \in Seq(Timer \union {Other}) /\ Len(events') <= NUMEVENTS
    <3>1. events \in Seq(Timer \union {Other}) /\ Len(events) < NUMEVENTS
      BY <2>1 DEF TInv, TypeOK, Room
    <3>2. Len(events) \in Nat /\ Len(Append(events, t)) = Len(events) + 1
      BY <2>3, <3>1, AppendProperties, LenProperties
    <3> QED
      BY <2>1, <2>3, <3>1, <3>2, AppendProperties, Clock
  <2>6. Len(timerlist') \in Nat
    BY <2>4, LenProperties
  <2>7. TypeOK'
    BY <2>1, <2>3, <2>4, <2>5, <2>6 DEF TInv, TypeOK
  <2>8. Elapsed' = 0
    BY <2>1, ElapsedOne DEF Elapsed, Updating, TInv, TypeOK
  <2>9. \A u \in Elements(timerlist') : owner'[u] # NULL /\ left'[u] # Long
    BY <2>1, <2>4, ListedTimers DEF TInv, TypeOK, ListOK
  <2> QED
    BY <2>1, <2>4, <2>7, <2>8, <2>9 DEF TInv, ListOK, ListedOnce, Listed, Distinct, Elements
<1>3. CASE ScanFull
  <2> DEFINE t == timerlist[cursor]
  <2>1. /\ needspoll' = TRUE /\ owner' = owner /\ cursor' = cursor + 1 /\ at = "scan"
        /\ UNCHANGED <<count, timerlist, timer, next_expiration, events, at, back, now, left>>
        /\ cursor <= Len(timerlist)
    BY <1>3 DEF ScanFull, OwnerOnFull, Retry
  <2>2. cursor' \in 1 .. Len(timerlist) + 1
    BY <2>1, ListedTimers DEF TInv, TypeOK
  <2>3. TypeOK'
    BY <2>1, <2>2 DEF TInv, TypeOK
  <2> QED
    BY <2>1, <2>3 DEF TInv, ListOK, ListedOnce, Listed, Updating
<1>4. CASE ScanNext
  <2>1. /\ at = "scan"
        /\ UNCHANGED <<count, timerlist, timer, owner, next_expiration, needspoll,
                       events, back, now, left>>
        /\ \/ cursor <= Len(timerlist) /\ cursor' = cursor + 1 /\ at' = at
           \/ cursor' = 1 /\ at' = "idle"
    BY <1>4 DEF ScanNext
  <2>2. cursor' \in 1 .. Len(timerlist) + 1
    BY <2>1, ListedTimers DEF TInv, TypeOK
  <2>3. TypeOK'
    BY <2>1, <2>2 DEF TInv, TypeOK
  <2> QED
    BY <2>1, <2>3 DEF TInv, ListOK, ListedOnce, Listed, Updating
<1> QED
  BY <1>1, <1>2, <1>3, <1>4 DEF Scan

(* A call of this module's functions ends with the timer on the list once. *)
LEMMA AddTimerSound ==
  ASSUME TInv, NEW t \in Timer, NEW p \in Proc, NEW start \in Time,
         NEW interval \in Time, NEW ticks \in Int, ticks >= -MaxLate,
         Timing(t, start, interval, ticks), AddTimer(t, p)
  PROVE  TInv' /\ Listed' = Listed \union {t}
<1>1. /\ at = "idle" /\ at' = "read" /\ back' = "idle" /\ now' = count /\ needspoll' = TRUE
      /\ timerlist' = (IF owner[t] # NULL /\ t \in Listed
                         THEN timerlist ELSE <<t>> \o timerlist)
      /\ owner' = [owner EXCEPT ![t] = p]
      /\ timer' = [timer EXCEPT ![t] = [start |-> start, interval |-> interval]]
      /\ left' = [left EXCEPT ![t] = ticks]
      /\ UNCHANGED <<count, next_expiration, events, cursor>>
  BY DEF AddTimer, Timing, UpdateCall
<1>2. /\ timerlist' \in Seq(Timer) /\ Distinct(timerlist')
      /\ Elements(timerlist') = Listed \union {t}
  <2>1. timerlist \in Seq(Timer) /\ Distinct(timerlist) /\ Elements(timerlist) = Listed
    BY DEF TInv, TypeOK, ListOK, ListedOnce, Distinct, Elements, Listed
  <2>2. CASE t \in Listed
    BY <1>1, <2>1, <2>2 DEF TInv, ListOK
  <2>3. CASE t \notin Listed
    BY <1>1, <2>1, <2>3, InFront
  <2> QED
    BY <2>2, <2>3
<1>3. cursor' = 1 /\ Len(timerlist') \in Nat
  BY <1>1, <1>2, LenProperties DEF TInv, ListOK
<1>4. left' \in [Timer -> Int] /\ \A u \in Timer : left'[u] >= Long
  BY <1>1, Clock DEF TInv, TypeOK, Long
<1>5. TypeOK'
  BY <1>1, <1>2, <1>3, <1>4 DEF TInv, TypeOK
<1>6. Elapsed' = 0
  BY <1>1, ElapsedOne DEF Elapsed, Updating, TInv, TypeOK
<1>7. \A u \in Elements(timerlist') : owner'[u] # NULL /\ left'[u] # Long
  <2>1. p # NULL /\ ticks # Long
    BY Clock DEF Long
  <2> QED
    BY <1>1, <1>2, <2>1, ListedTimers DEF TInv, TypeOK, ListOK
<1>8. TInv'
  BY <1>1, <1>2, <1>3, <1>5, <1>6, <1>7 DEF TInv, ListOK, ListedOnce, Listed, Distinct, Elements
<1> QED
  BY <1>2, <1>8 DEF Listed, Elements

(* The calls that set a timer. *)
LEMMA CallSets ==
  ASSUME TInv, NEW t \in Timer, NEW p \in Proc, Call(t, p)
  PROVE  \E start \in Time, interval \in Time, ticks \in Int :
           /\ Timing(t, start, interval, ticks) /\ AddTimer(t, p)
           /\ ticks >= -MaxLate
           /\ \/ start = count /\ ticks = interval /\ interval \in Interval
              \/ /\ left[t] \in -MaxLate .. 0 /\ ticks = left[t] + interval
                 /\ start = Wrap(Due(t))
                 /\ interval \in Interval \/ interval = timer[t].interval
<1>1. /\ timer[t].start \in Nat /\ timer[t].interval \in Time
      /\ count \in Time /\ left[t] \in Int
  BY Clock DEF TInv, TypeOK
<1>2. Wrap(Due(t)) \in Time
  <2>1. Due(t) \in Int
    <3>1. timer[t].interval \in Nat
      BY <1>1, Clock
    <3> QED
      BY <1>1, <3>1 DEF Due
  <2> QED
    BY <2>1, WrapIs
<1>3. ASSUME NEW i \in Interval, etimer_set(t, i, p)
      PROVE  Timing(t, count, i, i) /\ AddTimer(t, p) /\ i \in Time /\ i \in Int /\ i >= -MaxLate
  BY <1>3, Clock DEF etimer_set
<1>4. ASSUME etimer_restart(t, p)
      PROVE  /\ timer[t].interval \in Interval /\ AddTimer(t, p)
             /\ Timing(t, count, timer[t].interval, timer[t].interval)
             /\ timer[t].interval \in Int /\ timer[t].interval >= -MaxLate
  BY <1>4, Clock DEF etimer_restart
<1>5. ASSUME NEW i \in Time, etimer_reset_with_new_interval(t, i, p)
      PROVE  /\ left[t] \in -MaxLate .. 0 /\ AddTimer(t, p)
             /\ Timing(t, Wrap(Due(t)), i, left[t] + i)
             /\ left[t] + i \in Int /\ left[t] + i >= -MaxLate
  BY <1>1, <1>5, Clock DEF etimer_reset_with_new_interval
<1>6. CASE \E i \in Interval : etimer_set(t, i, p)
  BY <1>1, <1>3, <1>6
<1>7. CASE \E i \in Interval : etimer_reset_with_new_interval(t, i, p)
  BY <1>2, <1>5, <1>7, Clock
<1>8. CASE etimer_reset(t, p)
  BY <1>1, <1>2, <1>5, <1>8 DEF etimer_reset
<1>9. CASE etimer_restart(t, p)
  BY <1>1, <1>4, <1>9
<1> QED
  BY <1>6, <1>7, <1>8, <1>9 DEF Call

LEMMA CallSound ==
  ASSUME TInv, NEW t \in Timer, NEW p \in Proc, Call(t, p)
  PROVE  TInv' /\ Listed' = Listed \union {t}
BY CallSets, AddTimerSound

LEMMA AdjustSound ==
  ASSUME TInv, NEW t \in Timer, NEW d \in Adjustments, etimer_adjust(t, d)
  PROVE  TInv'
<1>1. /\ at = "idle" /\ at' = "read" /\ back' = "idle" /\ now' = count
      /\ timer' = [timer EXCEPT ![t] = [start |-> Wrap(timer[t].start + d),
                                        interval |-> timer[t].interval]]
      /\ left' = [left EXCEPT ![t] = left[t] + d]
      /\ left[t] + d >= -MaxLate /\ d \in Int
      /\ UNCHANGED <<count, timerlist, owner, next_expiration, needspoll, events, cursor>>
  BY TimerAssumption, Clock DEF etimer_adjust, Timing, UpdateCall
<1>2. Wrap(timer[t].start + d) \in Time /\ left[t] + d \in Int
  <2>1. timer[t].start \in Nat /\ left[t] \in Int
    BY Clock DEF TInv, TypeOK
  <2>2. timer[t].start + d \in Int
    BY <1>1, <2>1
  <2> QED
    BY <1>1, <2>1, <2>2, WrapIs
<1>3. left' \in [Timer -> Int] /\ \A u \in Timer : left'[u] >= Long
  BY <1>1, <1>2, Clock DEF TInv, TypeOK, Long
<1>4. TypeOK'
  BY <1>1, <1>2, <1>3 DEF TInv, TypeOK
<1>5. Elapsed' = 0
  BY <1>1, ElapsedOne DEF Elapsed, Updating, TInv, TypeOK
<1>6. \A u \in Listed : left'[u] # Long
  <2>1. left[t] + d # Long
    BY <1>1, <1>2, Clock DEF Long
  <2> QED
    BY <1>1, <2>1, ListedTimers DEF TInv, TypeOK, ListOK
<1> QED
  BY <1>1, <1>4, <1>5, <1>6 DEF TInv, ListOK, ListedOnce, Listed, Updating

(* The list becomes shorter. *)
LEMMA StopSound ==
  ASSUME TInv, NEW t \in Timer, etimer_stop(t)
  PROVE  /\ TInv' /\ Listed' = Listed \ {t}
         /\ timerlist' = RemoveFirst(timerlist, t)
<1>1. /\ at = "idle" /\ timerlist' = RemoveFirst(timerlist, t)
      /\ \/ at' = "read" /\ back' = "idle" /\ now' = count
         \/ UNCHANGED <<at, back, now>>
      /\ owner' = [owner EXCEPT ![t] = NULL]
      /\ UNCHANGED <<count, timer, next_expiration, needspoll, events, cursor, left>>
  BY DEF etimer_stop, UpdateCall
<1>2. /\ timerlist' \in Seq(Timer) /\ Distinct(timerlist')
      /\ Elements(timerlist') = Listed \ {t}
  <2>1. timerlist \in Seq(Timer) /\ Distinct(timerlist) /\ Elements(timerlist) = Listed
    BY DEF TInv, TypeOK, ListOK, ListedOnce, Distinct, Elements, Listed
  <2> QED
    BY <1>1, <2>1, RemoveFirstElements
<1>3. cursor' = 1 /\ Len(timerlist') \in Nat
  BY <1>1, <1>2, LenProperties DEF TInv, ListOK
<1>4. TypeOK'
  BY <1>1, <1>2, <1>3 DEF TInv, TypeOK
<1>5. Updating' => Elapsed' = 0
  BY <1>1, ElapsedOne DEF Elapsed, Updating, TInv, TypeOK
<1>6. \A u \in Elements(timerlist') : owner'[u] # NULL /\ left'[u] # Long
  BY <1>1, <1>2, ListedTimers DEF TInv, TypeOK, ListOK
<1>7. Listed' = Listed \ {t} /\ ListedOnce'
  BY <1>2 DEF ListedOnce, Listed, Distinct, Elements
<1>8. ListOK'
  BY <1>2, <1>3, <1>5, <1>6, <1>7 DEF ListOK, Listed, Elements
<1> QED
  BY <1>1, <1>4, <1>7, <1>8 DEF TInv

LEMMA ExitedSound ==
  ASSUME TInv, NEW p \in Proc, Exited(p)
  PROVE  TInv' /\ Listed' \subseteq Listed
<1> DEFINE others == {i \in DOMAIN timerlist : owner[timerlist[i]] # p}
           n == Cardinality(others)
<1>1. /\ at = "idle" /\ UNCHANGED <<count, timer, owner, next_expiration, needspoll,
                                      events, at, cursor, back, now, left>>
  BY DEF Exited, pc
<1>2. PICK place \in [1 .. n -> others] :
        /\ \A i, j \in DOMAIN place : i < j => place[i] < place[j]
        /\ timerlist' = [i \in DOMAIN place |-> timerlist[place[i]]]
  BY DEF Exited
<1>3. others \subseteq 1 .. Len(timerlist) /\ DOMAIN place = 1 .. n
  BY ListedTimers
<1>4. n \in Nat
  <2>1. IsFiniteSet(1 .. Len(timerlist))
    BY ListedTimers, FS_Interval
  <2> QED
    BY <1>3, <2>1, FS_Subset, FS_CardinalityType
<1> HIDE DEF n, others
<1>5. \A i \in 1 .. n : place[i] \in 1 .. Len(timerlist)
  BY <1>2, <1>3
<1>6. timerlist' \in Seq(Timer)
  <2>1. \A i \in 1 .. n : timerlist[place[i]] \in Timer
    BY <1>5, ListedTimers DEF Listed
  <2>2. timerlist' = [i \in 1 .. n |-> timerlist[place[i]]]
    BY <1>2, <1>3
  <2>3. timerlist' \in [1 .. n -> Timer]
    BY <2>1, <2>2
  <2> QED
    BY <1>4, <2>3
<1>7. /\ Len(timerlist') = n /\ DOMAIN timerlist' = 1 .. n
      /\ \A i \in 1 .. n : timerlist'[i] = timerlist[place[i]]
  BY <1>2, <1>3, <1>4
<1>8. Listed' \subseteq Listed
  BY <1>5, <1>7, ListedTimers DEF Listed
<1>9. ListedOnce'
  <2>1. ASSUME NEW i \in 1 .. n, NEW j \in 1 .. n, timerlist'[i] = timerlist'[j]
        PROVE  i = j
    <3>1. place[i] = place[j] /\ place[i] \in Nat
      BY <1>5, <1>7, <2>1, ListedTimers DEF TInv, ListOK, ListedOnce
    <3>2. ~(i < j) /\ ~(j < i)
      BY <1>2, <1>3, <3>1
    <3> QED
      BY <3>2
  <2> QED
    BY <1>7, <2>1 DEF ListedOnce
<1>10. TypeOK'
  <2>1. cursor' \in 1 .. Len(timerlist') + 1
    BY <1>1, <1>4, <1>7 DEF TInv, ListOK
  <2> QED
    BY <1>1, <1>6, <2>1 DEF TInv, TypeOK
<1> QED
  BY <1>1, <1>8, <1>9, <1>10 DEF TInv, ListOK, Updating

(* The other uses of the event queue. *)
LEMMA EventsSound == ASSUME TInv, Deliver \/ OtherPost PROVE TInv'
<1>1. /\ UNCHANGED <<count, timerlist, timer, owner, next_expiration, needspoll, left>>
      /\ UNCHANGED <<at, cursor, back, now>>
      /\ \/ events # <<>> /\ events' = Tail(events)
         \/ Room /\ events' = Append(events, Other)
  BY DEF Deliver, OtherPost, pc
<1>2. events \in Seq(Timer \union {Other}) /\ Len(events) \in Nat /\ Len(events) <= NUMEVENTS
  BY LenProperties DEF TInv, TypeOK
<1>3. events' \in Seq(Timer \union {Other}) /\ Len(events') <= NUMEVENTS
  <2>1. CASE events # <<>> /\ events' = Tail(events)
    BY <1>2, <2>1, HeadTailProperties, Clock
  <2>2. CASE Room /\ events' = Append(events, Other)
    BY <1>2, <2>2, AppendProperties, Clock DEF Room
  <2> QED
    BY <1>1, <2>1, <2>2
<1>4. TypeOK'
  BY <1>1, <1>3 DEF TInv, TypeOK
<1> QED
  BY <1>1, <1>4 DEF TInv, ListOK, ListedOnce, Listed, Updating, Elapsed

LEMMA StutterSound == ASSUME TInv, UNCHANGED vars PROVE TInv'
<1>1. UNCHANGED <<count, timerlist, timer, owner, next_expiration, needspoll, events,
                  at, cursor, back, now, left>>
  BY DEF vars
<1>2. TypeOK'
  BY <1>1 DEF TInv, TypeOK
<1> QED
  BY <1>1, <1>2 DEF TInv, ListOK, ListedOnce, Listed, Updating, Elapsed

LEMMA NextSound == TInv /\ [Next]_vars => TInv'
BY TicksSound, UpdateSound, ScanSound, CallSound, AdjustSound, StopSound, ExitedSound,
   EventsSound, StutterSound DEF Next, Tick, Clients

(* A timer is on the list at most once, whatever is set, stopped, refused  *)
(* by the queue or left behind by a process that exits, and the values     *)
(* keep their ranges (etimer.c).                                           *)
THEOREM ListCorrect == Spec => []TimersSound
<1>1. TInv => TimersSound
  BY DEF TInv, ListOK, TimersSound
<1> QED
  BY <1>1, InitSound, NextSound, PTL DEF Spec

------------------------------------------------------------------------------
(* Sums of times that stand for the same moment. *)

LEMMA SameTime ==
  ASSUME NEW x \in Int, NEW y \in Int,
         -TimeRange <= x, x < 2 * TimeRange, -TimeRange <= y, y < 2 * TimeRange
  PROVE  Wrap(x) = Wrap(y) <=>
           \/ x = y \/ x = y + TimeRange \/ x = y - TimeRange
           \/ x = y + 2 * TimeRange \/ x = y - 2 * TimeRange
<1>1. TimeRange \in Nat /\ TimeRange >= 3
  BY Clock
<1>2. Wrap(x) = IF x < 0 THEN x + TimeRange ELSE IF x < TimeRange THEN x ELSE x - TimeRange
  BY WrapIs
<1>3. Wrap(y) = IF y < 0 THEN y + TimeRange ELSE IF y < TimeRange THEN y ELSE y - TimeRange
  BY WrapIs
<1> QED
  BY <1>1, <1>2, <1>3

LEMMA WrapMoves ==
  ASSUME NEW x \in Int, -TimeRange <= x, x < 2 * TimeRange
  PROVE  /\ Wrap(x) \in Nat /\ Wrap(x) < TimeRange
         /\ \/ Wrap(x) = x \/ Wrap(x) = x + TimeRange \/ Wrap(x) = x - TimeRange
BY WrapIs, Clock DEF Time

(* due is the time l ticks after c, in each case. *)
LEMMA TickKeeps ==
  ASSUME NEW due \in Nat, due < 2 * TimeRange, NEW c \in Time, NEW n \in {1, 2},
         NEW l \in Int, l - n >= -MaxLate, l + MaxLate + 2 <= TimeRange,
         Wrap(due) = Wrap(c + l)
  PROVE  Wrap(due) = Wrap(Wrap(c + n) + (l - n))
<1>0. TimeRange \in Nat /\ MaxLate \in Nat /\ MaxLate + 3 <= TimeRange /\ c \in Nat /\ c < TimeRange
  BY Clock DEF Time
<1>1. \/ due = c + l \/ due = c + l + TimeRange \/ due = c + l - TimeRange
      \/ due = c + l + 2 * TimeRange \/ due = c + l - 2 * TimeRange
  BY <1>0, SameTime
<1> DEFINE m == Wrap(c + n)
<1>2. m \in Nat /\ m < TimeRange /\ (m = c + n \/ m = c + n + TimeRange \/ m = c + n - TimeRange)
  BY <1>0, WrapMoves
<1> HIDE DEF m
<1>3. Wrap(due) = Wrap(m + (l - n)) <=>
        \/ due = m + (l - n) \/ due = m + (l - n) + TimeRange \/ due = m + (l - n) - TimeRange
        \/ due = m + (l - n) + 2 * TimeRange \/ due = m + (l - n) - 2 * TimeRange
  BY <1>0, <1>2, SameTime
<1>4. Wrap(due) = Wrap(m + (l - n))
  BY <1>0, <1>1, <1>2, <1>3
<1> QED
  BY <1>4 DEF m

LEMMA ResetKeeps ==
  ASSUME NEW due \in Nat, due < 2 * TimeRange, NEW c \in Time, NEW i \in Time,
         NEW l \in -MaxLate .. 0, i + MaxLate + 2 <= TimeRange,
         Wrap(due) = Wrap(c + l)
  PROVE  Wrap(Wrap(due) + i) = Wrap(c + (l + i))
<1>0. /\ TimeRange \in Nat /\ MaxLate \in Nat /\ MaxLate + 3 <= TimeRange
      /\ c \in Nat /\ c < TimeRange /\ i \in Nat /\ i < TimeRange /\ l \in Int
  BY Clock DEF Time
<1> DEFINE m == Wrap(due)
<1>1. m \in Nat /\ m < TimeRange
  BY <1>0, WrapMoves
<1>2. m = c + l \/ m = c + l + TimeRange \/ m = c + l - TimeRange
  BY <1>0, WrapMoves
<1> HIDE DEF m
<1>3. Wrap(m + i) = Wrap(c + (l + i))
  BY <1>0, <1>1, <1>2, SameTime
<1> QED
  BY <1>3 DEF m

LEMMA AdjustKeeps ==
  ASSUME NEW s \in Time, NEW i \in Time, NEW c \in Time, NEW d \in Int, NEW l \in Int,
         -MaxLate <= l, l + MaxLate + 2 <= TimeRange,
         -MaxLate <= l + d, l + d + MaxLate + 2 <= TimeRange,
         Wrap(s + i) = Wrap(c + l)
  PROVE  Wrap(Wrap(s + d) + i) = Wrap(c + (l + d))
<1>0. /\ TimeRange \in Nat /\ MaxLate \in Nat /\ MaxLate + 3 <= TimeRange
      /\ c \in Nat /\ c < TimeRange /\ i \in Nat /\ i < TimeRange
      /\ s \in Nat /\ s < TimeRange
  BY Clock DEF Time
<1>1. \/ s + i = c + l \/ s + i = c + l + TimeRange \/ s + i = c + l - TimeRange
      \/ s + i = c + l + 2 * TimeRange \/ s + i = c + l - 2 * TimeRange
  BY <1>0, SameTime
<1> DEFINE m == Wrap(s + d)
<1>2. m \in Nat /\ m < TimeRange /\ (m = s + d \/ m = s + d + TimeRange \/ m = s + d - TimeRange)
  BY <1>0, WrapMoves
<1> HIDE DEF m
<1>3. Wrap(m + i) = Wrap(c + (l + d)) <=>
        \/ m + i = c + (l + d) \/ m + i = c + (l + d) + TimeRange
        \/ m + i = c + (l + d) - TimeRange
        \/ m + i = c + (l + d) + 2 * TimeRange \/ m + i = c + (l + d) - 2 * TimeRange
  BY <1>0, <1>2, SameTime
<1>4. Wrap(m + i) = Wrap(c + (l + d))
  BY <1>0, <1>1, <1>2, <1>3
<1> QED
  BY <1>4 DEF m

(* A timer that has a place on the clock has expired exactly when no ticks *)
(* are left.                                                               *)
LEMMA ExpiredIs ==
  ASSUME TInv, OnTime, NEW t \in Timer, left[t] # Long
  PROVE  Expired(t) <=> left[t] <= 0
<1> DEFINE s == timer[t].start
           i == timer[t].interval
           l == left[t]
           m == Wrap(count - s + 1)
<1>0. /\ TimeRange \in Nat /\ MaxLate \in Nat /\ MaxLate + 3 <= TimeRange
      /\ count \in Nat /\ count < TimeRange /\ i \in Nat /\ i < TimeRange
      /\ s \in Nat /\ s < TimeRange /\ l \in Int /\ l >= -MaxLate
      /\ i + MaxLate + 2 <= TimeRange
  <2>1. timer[t].interval \in Interval /\ timer[t].start \in Time /\ count \in Time
    BY DEF TInv, TypeOK, OnTime
  <2>2. l \in Int /\ l >= -MaxLate
    BY Clock DEF TInv, TypeOK, Long
  <2>3. i \in 0 .. TimeRange - MaxLate - 2
    BY <2>1, Clock
  <2> QED
    BY <2>1, <2>2, <2>3, Clock DEF Time
<1>1. Elapsed \in Nat
  <2>1. count - now \in Int
    BY Clock DEF TInv, TypeOK
  <2> QED
    BY <2>1, WrapIs, Clock DEF Elapsed
<1>2. l <= i /\ Wrap(s + i) = Wrap(count + l)
  <2>1. l + Elapsed <= i
    BY DEF OnTime
  <2> QED
    BY <1>0, <1>1, <2>1 DEF OnTime, Due
<1>3. m \in Nat /\ m < TimeRange /\
        (m = count - s + 1 \/ m = count - s + 1 + TimeRange \/ m = count - s + 1 - TimeRange)
  BY <1>0, WrapMoves
<1>4. Expired(t) <=> i < m
  BY DEF Expired
<1> HIDE DEF s, i, l, m
<1>5. \/ s + i = count + l \/ s + i = count + l + TimeRange \/ s + i = count + l - TimeRange
      \/ s + i = count + l + 2 * TimeRange \/ s + i = count + l - 2 * TimeRange
  BY <1>0, <1>2, SameTime
<1>6. i < m <=> l <= 0
  BY <1>0, <1>2, <1>3, <1>5
<1> QED
  BY <1>4, <1>6 DEF l

LEMMA ElapsedIs ==
  ASSUME TInv PROVE Elapsed \in {0, 1} /\ (~Updating => Elapsed = 0)
<1>1. count - now \in Int
  BY Clock DEF TInv, TypeOK
<1>2. Elapsed \in Nat
  BY <1>1, WrapIs, Clock DEF Elapsed
<1>3. Elapsed <= 1
  BY DEF TInv, ListOK, Elapsed
<1> QED
  BY <1>2, <1>3 DEF Elapsed

(* The ranges that OnTime gives.                                           *)
LEMMA OnTimeIs ==
  ASSUME TInv, OnTime, NEW t \in Timer, left[t] # Long
  PROVE  /\ left[t] \in Int /\ left[t] >= -MaxLate /\ timer[t].interval \in Nat
         /\ left[t] + Elapsed <= timer[t].interval
         /\ timer[t].interval + MaxLate + 2 <= TimeRange
         /\ Due(t) \in Nat /\ Due(t) < 2 * TimeRange
         /\ Wrap(Due(t)) = Wrap(count + left[t])
<1>1. left[t] \in Int /\ left[t] >= -MaxLate
  BY Clock DEF TInv, TypeOK, Long
<1>2. timer[t].interval \in Interval /\ timer[t].start \in Time
  BY DEF TInv, TypeOK, OnTime
<1>3. /\ timer[t].interval \in Nat /\ timer[t].interval + MaxLate + 2 <= TimeRange
      /\ timer[t].start \in Nat /\ timer[t].start < TimeRange
  BY <1>2, Clock DEF Time
<1> QED
  BY <1>1, <1>3, Clock DEF OnTime, Due

LEMMA InitOnTime == Init => OnTime
BY DEF Init, OnTime

LEMMA TicksOnTime == ASSUME TInv, OnTime, NEW n \in {1, 2}, Ticks(n) PROVE OnTime'
<1>1. /\ count' = Wrap(count + n)
      /\ left' = [t \in Timer |-> IF left[t] - n < -MaxLate THEN Long ELSE left[t] - n]
      /\ timer' = timer /\ at' = at /\ now' = now
      /\ Updating => count = now /\ n = 1
  BY DEF Ticks, pc, Updating
<1>2. Elapsed' <= Elapsed + n /\ Elapsed' \in Nat
  <2>1. CASE Updating
    <3>1. Elapsed' = 1 /\ n = 1
      BY <1>1, <2>1, ElapsedOne DEF Elapsed, Updating, TInv, TypeOK
    <3> QED
      BY <3>1, ElapsedIs
  <2>2. CASE ~Updating
    <3>1. Elapsed' = 0
      BY <1>1, <2>2 DEF Elapsed, Updating
    <3> QED
      BY <3>1, ElapsedIs
  <2> QED
    BY <2>1, <2>2
<1>3. ASSUME NEW t \in Timer, left'[t] # Long
      PROVE  /\ timer'[t].interval \in Interval
             /\ left'[t] + Elapsed' <= timer'[t].interval
             /\ Wrap(timer'[t].start + timer'[t].interval) = Wrap(count' + left'[t])
  <2>1. left[t] \in Int /\ left[t] >= Long
    BY DEF TInv, TypeOK
  <2>2. left'[t] = left[t] - n /\ left[t] - n >= -MaxLate /\ left[t] # Long
    BY <1>1, <1>3, <2>1, Clock DEF Long
  <2>3. /\ left[t] + Elapsed <= timer[t].interval /\ timer[t].interval \in Nat
        /\ timer[t].interval + MaxLate + 2 <= TimeRange
        /\ Due(t) \in Nat /\ Due(t) < 2 * TimeRange
        /\ Wrap(Due(t)) = Wrap(count + left[t])
    BY <2>2, OnTimeIs
  <2>4. left[t] + MaxLate + 2 <= TimeRange
    BY <2>1, <2>3, ElapsedIs, Clock
  <2>5. Wrap(Due(t)) = Wrap(Wrap(count + n) + (left[t] - n))
    BY <2>1, <2>2, <2>3, <2>4, TickKeeps DEF TInv, TypeOK
  <2>6. left'[t] + Elapsed' <= timer[t].interval
    BY <1>2, <2>1, <2>2, <2>3, ElapsedIs
  <2> QED
    BY <1>1, <2>2, <2>5, <2>6 DEF OnTime, Due
<1> QED
  BY <1>3 DEF OnTime, Due

(* What leaves the clock and the timers alone and does not make update_time *)
(* later.                                                                  *)
LEMMA StillOnTime ==
  ASSUME OnTime, TInv, UNCHANGED <<count, timer, left>>, Elapsed' \in Int, Elapsed' <= Elapsed
  PROVE  OnTime'
<1>1. ASSUME NEW t \in Timer, left[t] # Long
      PROVE  /\ timer[t].interval \in Interval /\ left[t] + Elapsed' <= timer[t].interval
             /\ Wrap(timer[t].start + timer[t].interval) = Wrap(count + left[t])
  <2>1. left[t] \in Int /\ timer[t].interval \in Nat /\ left[t] + Elapsed <= timer[t].interval
    BY <1>1, OnTimeIs
  <2>2. left[t] + Elapsed' <= timer[t].interval
    BY <2>1, ElapsedIs
  <2> QED
    BY <1>1, <2>2 DEF OnTime, Due
<1> QED
  BY <1>1 DEF OnTime, Due

LEMMA OthersOnTime ==
  ASSUME TInv, OnTime,
         \/ Update \/ Polled \/ Scan \/ Deliver \/ OtherPost \/ UNCHANGED vars
         \/ \E t \in Timer : etimer_stop(t)
         \/ \E p \in Proc : Exited(p)
  PROVE  OnTime'
<1>1. UNCHANGED <<count, timer, left>>
  BY DEF Update, UpdateRead, UpdateWrite, UpdateDone, Polled, Scan, ScanPost, ScanFull,
         ScanNext, Deliver, OtherPost, vars, etimer_stop, Exited
<1>2. \/ UNCHANGED <<at, now>> \/ now' = count \/ at' \in {"idle", "scan"}
      \/ at = "write" /\ UNCHANGED now
  <2>1. Update => \/ now' = count
                  \/ at = "write" /\ UNCHANGED now
                  \/ at' \in {"idle", "scan"}
    <3>1. UpdateRead => now' = count
      BY DEF UpdateRead
    <3>2. UpdateWrite => at = "write" /\ UNCHANGED now
      BY DEF UpdateWrite
    <3>3. UpdateDone => at' \in {"idle", "scan"}
      BY DEF UpdateDone, TInv, TypeOK
    <3> QED
      BY <3>1, <3>2, <3>3 DEF Update
  <2>2. Polled \/ Scan => at' \in {"idle", "scan"} \/ now' = count
    BY DEF Polled, Scan, ScanPost, UpdateCall, ScanFull, ScanNext
  <2>3. Deliver \/ OtherPost \/ UNCHANGED vars => UNCHANGED <<at, now>>
    BY DEF Deliver, OtherPost, vars, pc
  <2>4. (\E t \in Timer : etimer_stop(t)) => UNCHANGED <<at, now>> \/ now' = count
    BY DEF etimer_stop, UpdateCall
  <2>5. (\E p \in Proc : Exited(p)) => UNCHANGED <<at, now>>
    BY DEF Exited, pc
  <2> QED
    BY <2>1, <2>2, <2>3, <2>4, <2>5
<1>3. Elapsed' \in Int /\ Elapsed' <= Elapsed
  <2>1. CASE UNCHANGED <<at, now>>
    <3>1. Elapsed' = Elapsed
      BY <1>1, <2>1 DEF Elapsed, Updating
    <3> QED
      BY <3>1, ElapsedIs
  <2>2. CASE now' = count
    <3>1. Elapsed' = 0
      BY <1>1, <2>2, ElapsedOne DEF Elapsed, Updating, TInv, TypeOK
    <3> QED
      BY <3>1, ElapsedIs
  <2>3. CASE at' \in {"idle", "scan"}
    <3>1. Elapsed' = 0
      BY <2>3 DEF Elapsed, Updating
    <3> QED
      BY <3>1, ElapsedIs
  <2>4. CASE at = "write" /\ UNCHANGED now
    <3>1. Elapsed' = Elapsed \/ Elapsed' = 0
      BY <1>1, <2>4 DEF Elapsed, Updating
    <3> QED
      BY <3>1, ElapsedIs
  <2> QED
    BY <1>2, <2>1, <2>2, <2>3, <2>4
<1> QED
  BY <1>1, <1>3, StillOnTime

(* A timer that is set anew starts from the moment it is set or, if it is  *)
(* reset, from its last expiration.                                        *)
LEMMA CallOnTime ==
  ASSUME TInv, OnTime, NEW t \in Timer, NEW p \in Proc, Call(t, p)
  PROVE  OnTime'
<1>1. PICK start \in Time, interval \in Time, ticks \in Int :
        /\ Timing(t, start, interval, ticks) /\ AddTimer(t, p)
        /\ ticks >= -MaxLate
        /\ \/ start = count /\ ticks = interval /\ interval \in Interval
           \/ /\ left[t] \in -MaxLate .. 0 /\ ticks = left[t] + interval
              /\ start = Wrap(Due(t))
              /\ interval \in Interval \/ interval = timer[t].interval
  BY CallSets
<1>2. /\ timer' = [timer EXCEPT ![t] = [start |-> start, interval |-> interval]]
      /\ left' = [left EXCEPT ![t] = ticks]
      /\ count' = count /\ now' = count /\ at = "idle" /\ at' = "read"
  BY <1>1 DEF Timing, AddTimer, UpdateCall
<1>3. Elapsed' = 0 /\ Elapsed = 0
  BY <1>2, ElapsedOne, ElapsedIs DEF Elapsed, Updating, TInv, TypeOK
<1>4. /\ interval \in Interval /\ ticks <= interval
      /\ Wrap(start + interval) = Wrap(count + ticks)
  <2>1. CASE start = count /\ ticks = interval /\ interval \in Interval
    BY <2>1, Clock
  <2>2. CASE /\ left[t] \in -MaxLate .. 0 /\ ticks = left[t] + interval
             /\ start = Wrap(Due(t))
             /\ interval \in Interval \/ interval = timer[t].interval
    <3>1. left[t] # Long
      BY <2>2, Clock DEF Long
    <3>2. interval \in Interval
      BY <2>2, <3>1 DEF OnTime
    <3>3. interval \in Nat /\ interval + MaxLate + 2 <= TimeRange
      BY <3>2, Clock
    <3>4. /\ Due(t) \in Nat /\ Due(t) < 2 * TimeRange
          /\ Wrap(Due(t)) = Wrap(count + left[t])
      BY <3>1, OnTimeIs
    <3>5. Wrap(Wrap(Due(t)) + interval) = Wrap(count + (left[t] + interval))
      BY <2>2, <3>3, <3>4, ResetKeeps DEF TInv, TypeOK
    <3>6. ticks <= interval
      BY <2>2, <3>3, Clock
    <3> QED
      BY <2>2, <3>2, <3>5, <3>6
  <2> QED
    BY <1>1, <2>1, <2>2
<1>5. ASSUME NEW u \in Timer, left'[u] # Long
      PROVE  /\ timer'[u].interval \in Interval
             /\ left'[u] + 0 <= timer'[u].interval
             /\ Wrap(timer'[u].start + timer'[u].interval) = Wrap(count + left'[u])
  <2>1. CASE u = t
    <3>1. left'[u] = ticks /\ timer'[u] = [start |-> start, interval |-> interval]
      BY <1>2, <2>1 DEF TInv, TypeOK
    <3> QED
      BY <1>4, <3>1
  <2>2. CASE u # t
    <3>1. left'[u] = left[u] /\ timer'[u] = timer[u]
      BY <1>2, <2>2 DEF TInv, TypeOK
    <3> QED
      BY <1>3, <1>5, <3>1 DEF OnTime, Due
  <2> QED
    BY <2>1, <2>2
<1> QED
  BY <1>2, <1>3, <1>5 DEF OnTime, Due

LEMMA AdjustOnTime ==
  ASSUME TInv, OnTime, Timely, NEW t \in Timer, NEW d \in Adjustments, etimer_adjust(t, d)
  PROVE  OnTime'
<1>1. /\ t \in Listed /\ at = "idle" /\ at' = "read" /\ now' = count /\ count' = count
      /\ timer' = [timer EXCEPT ![t] = [start |-> Wrap(timer[t].start + d),
                                        interval |-> timer[t].interval]]
      /\ left' = [left EXCEPT ![t] = left[t] + d]
      /\ left[t] + d \in -MaxLate .. TimeRange - MaxLate - 2
      /\ left[t] + d \in 2 .. timer[t].interval
      /\ d \in Int
  BY TimerAssumption DEF etimer_adjust, Timing, UpdateCall, Timely
<1>2. Elapsed' = 0 /\ Elapsed = 0
  BY <1>1, ElapsedOne, ElapsedIs DEF Elapsed, Updating, TInv, TypeOK
<1>3. left[t] # Long
  BY <1>1 DEF TInv, ListOK
<1>4. /\ timer[t].start \in Time /\ timer[t].interval \in Time /\ count \in Time
      /\ timer[t].interval \in Interval
      /\ Wrap(timer[t].start + timer[t].interval) = Wrap(count + left[t])
      /\ left[t] \in Int /\ left[t] >= -MaxLate /\ left[t] + MaxLate + 2 <= TimeRange
  <2>1. /\ left[t] \in Int /\ left[t] >= -MaxLate /\ timer[t].interval \in Nat
        /\ left[t] + Elapsed <= timer[t].interval
        /\ timer[t].interval + MaxLate + 2 <= TimeRange
    BY <1>3, OnTimeIs
  <2> QED
    BY <1>2, <1>3, <2>1, Clock DEF TInv, TypeOK, OnTime, Due
<1>5. -MaxLate <= left[t] + d /\ left[t] + d + MaxLate + 2 <= TimeRange
  BY <1>1, <1>4, Clock
<1>6. Wrap(Wrap(timer[t].start + d) + timer[t].interval) = Wrap(count + (left[t] + d))
  BY <1>1, <1>4, <1>5, AdjustKeeps
<1>7. ASSUME NEW u \in Timer, left'[u] # Long
      PROVE  /\ timer'[u].interval \in Interval
             /\ left'[u] + 0 <= timer'[u].interval
             /\ Wrap(timer'[u].start + timer'[u].interval) = Wrap(count + left'[u])
  <2>1. CASE u = t
    <3>1. /\ left'[u] = left[t] + d
          /\ timer'[u] = [start |-> Wrap(timer[t].start + d), interval |-> timer[t].interval]
      BY <1>1, <2>1 DEF TInv, TypeOK
    <3>2. left[t] + d <= timer[t].interval /\ left[t] + d \in Int
      BY <1>1, <1>4
    <3> QED
      BY <1>4, <1>6, <3>1, <3>2
  <2>2. CASE u # t
    <3>1. left'[u] = left[u] /\ timer'[u] = timer[u]
      BY <1>1, <2>2 DEF TInv, TypeOK
    <3> QED
      BY <1>2, <1>7, <3>1 DEF OnTime, Due
  <2> QED
    BY <2>1, <2>2
<1> QED
  BY <1>1, <1>2, <1>7 DEF OnTime, Due

LEMMA NextOnTime == TInv /\ OnTime /\ Timely /\ [Next]_vars => OnTime'
BY TicksOnTime, OthersOnTime, CallOnTime, AdjustOnTime DEF Next, Tick, Clients

LEMMA TimingInvariant == Timely => (Spec => [](TInv /\ OnTime))
<1> SUFFICES ASSUME Timely PROVE Spec => [](TInv /\ OnTime)
  OBVIOUS
<1>1. Init => TInv /\ OnTime
  BY InitSound, InitOnTime
<1>2. TInv /\ OnTime /\ [Next]_vars => TInv' /\ OnTime'
  BY NextSound, NextOnTime
<1> QED
  BY <1>1, <1>2, PTL DEF Spec

(* The event of a timer is posted by the scan, when it is due. *)
LEMMA PostIsDue ==
  ASSUME TInv, OnTime, [Next]_vars, NEW t \in Timer,
         Len(events') > Len(events), events'[Len(events')] = t
  PROVE  t \in Listed /\ left[t] <= 0
<1>1. events \in Seq(Timer \union {Other}) /\ Len(events) \in Nat
  BY LenProperties DEF TInv, TypeOK
<1>2. CASE ScanPost
  <2> DEFINE u == timerlist[cursor]
  <2>1. cursor <= Len(timerlist) /\ Expired(u) /\ events' = Append(events, u)
    BY <1>2 DEF ScanPost
  <2>2. cursor \in DOMAIN timerlist
    BY <2>1, ListedTimers DEF TInv, TypeOK
  <2>3. u \in Listed /\ u \in Timer /\ left[u] # Long
    BY <2>2, ListedTimers DEF Listed, TInv, ListOK
  <2> HIDE DEF u
  <2>4. u = t
    BY <1>1, <2>1, <2>3, AppendProperties
  <2> QED
    BY <2>1, <2>3, <2>4, ExpiredIs
<1>3. CASE OtherPost
  <2>1. events' = Append(events, Other)
    BY <1>3 DEF OtherPost
  <2>2. events'[Len(events')] = Other
    BY <1>1, <2>1, AppendProperties
  <2> QED
    BY <2>2, Clock
<1>4. CASE Deliver
  <2>1. events # <<>> /\ events' = Tail(events)
    BY <1>4 DEF Deliver
  <2> QED
    BY <1>1, <2>1, HeadTailProperties
<1>5. CASE events' = events
  BY <1>1, <1>5
<1>6. ScanPost \/ OtherPost \/ Deliver \/ events' = events
  BY DEF Next, vars, Tick, Ticks, Update, UpdateRead, UpdateWrite, UpdateDone, Polled, Scan,
         ScanFull, ScanNext, Clients, Call, etimer_set, etimer_reset, etimer_restart,
         etimer_reset_with_new_interval, AddTimer, etimer_adjust, etimer_stop, Exited
<1> QED
  BY <1>2, <1>3, <1>4, <1>5, <1>6

(* No event of a timer is posted before the timer is due, across the wrap  *)
(* of the clock and however ticks interleave with the scan, as long as     *)
(* etimer_adjust moves no start into the future (etimer.c, timer.c).       *)
THEOREM ServedOnTime == Timely => (Spec => NeverEarly)
<1> SUFFICES ASSUME Timely PROVE Spec => NeverEarly
  OBVIOUS
<1>1. TInv /\ OnTime /\ [Next]_vars =>
        [\A t \in Timer :
           Len(events') > Len(events) /\ events'[Len(events')] = t
             => t \in Listed /\ left[t] <= 0]_vars
  BY PostIsDue
<1> QED
  BY <1>1, TimingInvariant, PTL DEF Spec, NeverEarly

------------------------------------------------------------------------------
(* next_expiration and the interrupt. *)

LEMMA ReachIs ==
  ASSUME TInv, OnTime, Near, NEW t \in Listed
  PROVE  /\ Reach \in Nat /\ Reach >= 1 /\ Reach < TimeRange
         /\ MaxLate + Reach + MAX_TICKS + 2 = TimeRange
         /\ left[t] \in Int /\ left[t] >= -MaxLate /\ left[t] + Elapsed <= Reach
<1>1. t \in Timer /\ left[t] # Long
  BY ListedTimers DEF TInv, ListOK
<1>2. timer[t].interval <= Reach /\ timer[t].interval \in 0 .. TimeRange - MaxLate - 2
  BY <1>1, Clock DEF OnTime, Near
<1>3. left[t] \in Int /\ left[t] >= -MaxLate /\ left[t] + Elapsed <= timer[t].interval
  BY <1>1, OnTimeIs
<1>4. Reach \in Int /\ Reach = TimeRange - MAX_TICKS - 2 - MaxLate
  BY Clock DEF Reach
<1> QED
  BY <1>2, <1>3, <1>4, Clock, ElapsedIs DEF Near

(* A time that is not ahead wakes the process. *)
LEMMA Wakes ==
  ASSUME NEW c \in Time, Reach \in Nat, MaxLate + Reach + MAX_TICKS + 2 = TimeRange,
         NEW g \in Int, -MaxLate - Reach <= g, g <= 0, next_expiration = Wrap(c + g)
  PROVE  WakesAt(c)
<1>0. /\ TimeRange \in Nat /\ MaxLate \in Nat /\ MAX_TICKS \in Nat /\ TimeRange >= 3
      /\ c \in Nat /\ c < TimeRange
  BY Clock DEF Time
<1> DEFINE e == next_expiration
<1>1. e \in Nat /\ e < TimeRange /\ (e = c + g \/ e = c + g + TimeRange \/ e = c + g - TimeRange)
  BY <1>0, WrapMoves
<1> HIDE DEF e
<1>2. e = c + g \/ e = c + g + TimeRange
  BY <1>0, <1>1
<1>3. e - c - 1 \in Int /\ (e - c - 1 = g - 1 \/ e - c - 1 = g - 1 + TimeRange)
  BY <1>1, <1>2, <1>0
<1> DEFINE x == e - c - 1
<1>4. Wrap(x) = IF x < 0 THEN x + TimeRange ELSE IF x < TimeRange THEN x ELSE x - TimeRange
  BY <1>0, <1>3, WrapIs
<1>5. Wrap(x) = g - 1 + TimeRange
  BY <1>0, <1>3, <1>4
<1>6. g - 1 + TimeRange > MAX_TICKS
  BY <1>0
<1> QED
  BY <1>5, <1>6 DEF WakesAt, e

(* A tick brings next_expiration closer, and wakes the process when it is  *)
(* there.                                                                  *)
LEMMA FitsTicks ==
  ASSUME NEW c \in Time, NEW n \in {1, 2}, NEW l \in Int, l - n >= -MaxLate,
         Reach \in Nat, Reach >= 1, MaxLate + Reach + MAX_TICKS + 2 = TimeRange,
         Fits(next_expiration, c, l)
  PROVE  /\ Fits(next_expiration, Wrap(c + n), l - n)
         /\ l - n <= 0 => WakesAt(Wrap(c + n))
<1>0. /\ TimeRange \in Nat /\ MaxLate \in Nat /\ MAX_TICKS \in Nat /\ TimeRange >= 3
      /\ c \in Nat /\ c < TimeRange
  BY Clock DEF Time
<1>1. PICK g \in -MaxLate - Reach .. Reach :
        next_expiration = Wrap(c + g) /\ g <= l /\ l <= g + Reach
  BY DEF Fits
<1> DEFINE m == Wrap(c + n)
<1>2. m \in Time /\ m \in Nat /\ m < TimeRange
      /\ (m = c + n \/ m = c + n + TimeRange \/ m = c + n - TimeRange)
  BY <1>0, WrapMoves, WrapIs
<1> HIDE DEF m
<1>3. g - n \in -MaxLate - Reach .. Reach /\ g - n <= l - n /\ l - n <= (g - n) + Reach
  BY <1>0, <1>1
<1>4. Wrap(c + g) = Wrap(m + (g - n))
  <2>1. m + (g - n) = c + g \/ m + (g - n) = c + g + TimeRange \/ m + (g - n) = c + g - TimeRange
    BY <1>0, <1>1, <1>2
  <2> QED
    BY <1>0, <1>1, <1>2, <1>3, <2>1, SameTime
<1>5. Fits(next_expiration, m, l - n)
  BY <1>1, <1>3, <1>4 DEF Fits
<1>6. l - n <= 0 => WakesAt(m)
  <2>1. SUFFICES ASSUME l - n <= 0 PROVE WakesAt(m)
    OBVIOUS
  <2>2. g - n <= 0 /\ -MaxLate - Reach <= g - n /\ g - n \in Int
    BY <1>0, <1>1, <1>3, <2>1
  <2> QED
    BY <1>1, <1>2, <1>4, <2>2, Wakes
<1> QED
  BY <1>5, <1>6 DEF m

(* The parts of WakeOK for the timer at a position. *)
LEMMA WakeIs ==
  ASSUME WakeOK, NEW i \in DOMAIN timerlist, NEW t, t = timerlist[i]
  PROVE  /\ left[t] < 0 => Attended(i)
         /\ left[t] >= 0 /\ at # "writing" => Fits(next_expiration, count, left[t]) \/ Fresh(t)
         /\ (left[t] = 0 /\ ~Attended(i) /\ (at \in {"write", "writing"} => Elapsed = 0))
              => next_expiration = count
BY DEF WakeOK

LEMMA TicksWake ==
  ASSUME TInv, OnTime, Near, WakeOK, NEW n \in {1, 2}, Ticks(n)
  PROVE  WakeOK'
<1>1. /\ count' = Wrap(count + n)
      /\ left' = [t \in Timer |-> IF left[t] - n < -MaxLate THEN Long ELSE left[t] - n]
      /\ needspoll' = (needspoll \/ (timerlist # <<>> /\ WakesAt(Wrap(count + n))))
      /\ timerlist' = timerlist /\ next_expiration' = next_expiration
      /\ at' = at /\ cursor' = cursor /\ back' = back /\ now' = now
      /\ \A t \in Listed : left[t] - n >= -MaxLate
      /\ Updating => count = now /\ n = 1
  BY DEF Ticks, pc, Updating
<1>2. Updating => Elapsed = 0 /\ Elapsed' = 1 /\ n = 1
  BY <1>1, ElapsedOne DEF Elapsed, Updating, TInv, TypeOK
<1>3. SUFFICES ASSUME NEW i \in DOMAIN timerlist, NEW t, t = timerlist[i]
               PROVE  /\ left'[t] < 0 => Attended(i)'
                      /\ left'[t] >= 0 /\ at # "writing" =>
                           Fits(next_expiration, Wrap(count + n), left'[t]) \/ Fresh(t)'
                      /\ (left'[t] = 0 /\ ~Attended(i)' /\ (at \in {"write", "writing"} => Elapsed' = 0))
                           => next_expiration = count'
  BY <1>1 DEF WakeOK
<1>4. t \in Listed /\ t \in Timer /\ timerlist # <<>>
  BY <1>3, ListedTimers DEF Listed
<1>5. left'[t] = left[t] - n /\ left[t] \in Int /\ left[t] - n >= -MaxLate
  BY <1>1, <1>4, ReachIs, Clock
<1>6. Attended(i) => Attended(i)'
  BY <1>1 DEF Attended, Scanning, Updating
<1>7. ASSUME at # "writing", Fits(next_expiration, count, left[t])
      PROVE  /\ Fits(next_expiration, Wrap(count + n), left[t] - n)
             /\ left[t] - n <= 0 => Attended(i)'
  <2>1. left[t] - n <= 0 => WakesAt(Wrap(count + n))
    BY <1>4, <1>5, <1>7, ReachIs, FitsTicks DEF TInv, TypeOK
  <2> QED
    BY <1>1, <1>4, <1>5, <1>7, <2>1, ReachIs, FitsTicks DEF TInv, TypeOK, Attended
<1>8. ASSUME Fresh(t)
      PROVE  Fresh(t)' /\ (left[t] - n <= 0 => Attended(i)' \/ (at = "write" /\ left[t] - n = 0))
  <2>1. CASE needspoll
    <3>1. needspoll'
      BY <1>1, <2>1
    <3>2. at' = "read" \/ at' = "write"
      BY <1>1, <1>8 DEF Fresh
    <3> QED
      BY <3>1, <3>2, Zenon DEF Fresh, Attended
  <2>2. CASE at = "read" /\ left[t] + Elapsed >= 2
    <3>1. Elapsed = 0 /\ Elapsed' = 1 /\ n = 1 /\ left'[t] + 1 >= 2
      BY <1>2, <1>5, <2>2 DEF Updating
    <3> QED
      BY <1>1, <1>5, <2>2, <3>1 DEF Fresh
  <2>3. CASE at = "write" /\ left[t] + Elapsed >= 1
    <3>1. Elapsed = 0 /\ Elapsed' = 1 /\ n = 1 /\ left'[t] + 1 >= 1
      BY <1>2, <1>5, <2>3 DEF Updating
    <3> QED
      BY <1>1, <1>5, <2>3, <3>1 DEF Fresh
  <2> QED
    BY <1>8, <2>1, <2>2, <2>3 DEF Fresh
<1>9. ASSUME at = "writing", left[t] >= 0, left[t] - n < 0 PROVE Attended(i)'
  <2>1. Elapsed = 0 /\ n = 1 /\ left[t] = 0
    BY <1>2, <1>5, <1>9 DEF Updating
  <2>2. CASE Attended(i)
    BY <1>6, <2>2
  <2>3. CASE ~Attended(i)
    <3>1. next_expiration = count
      BY <1>3, <1>9, <2>1, <2>3, WakeIs
    <3>2. count \in Time /\ count \in Nat /\ count < TimeRange
      BY Clock DEF TInv, TypeOK, Time
    <3>3. next_expiration = Wrap(count + 0)
      <4>1. count + 0 = count /\ count \in Int /\ -TimeRange <= count /\ count < 2 * TimeRange
        BY <3>2, Clock
      <4>2. Wrap(count) = count
        BY <3>2, <4>1, WrapIs
      <4> QED
        BY <3>1, <4>1, <4>2
    <3>4. Fits(next_expiration, count, 0)
      BY <1>4, <3>3, ReachIs, Clock DEF Fits
    <3>5. WakesAt(Wrap(count + n))
      BY <1>4, <1>5, <2>1, <3>2, <3>4, ReachIs, FitsTicks
    <3> QED
      BY <1>1, <1>4, <3>5 DEF Attended
  <2> QED
    BY <2>2, <2>3
<1>10. ASSUME left'[t] < 0 PROVE Attended(i)'
  <2>1. CASE left[t] < 0
    BY <1>3, <1>6, <2>1, WakeIs
  <2>2. CASE left[t] >= 0 /\ at = "writing"
    BY <1>5, <1>9, <1>10, <2>2
  <2>3. CASE left[t] >= 0 /\ at # "writing"
    <3>1. Fits(next_expiration, count, left[t]) \/ Fresh(t)
      BY <1>3, <2>3, WakeIs
    <3>2. left[t] - n <= 0 /\ left[t] - n # 0
      BY <1>5, <1>10
    <3> QED
      BY <1>7, <1>8, <2>3, <3>1, <3>2
  <2> QED
    BY <1>5, <2>1, <2>2, <2>3
<1>11. ASSUME left'[t] >= 0, at # "writing"
       PROVE  Fits(next_expiration, Wrap(count + n), left'[t]) \/ Fresh(t)'
  <2>1. left[t] >= 0
    BY <1>5, <1>11
  <2>2. Fits(next_expiration, count, left[t]) \/ Fresh(t)
    BY <1>3, <1>11, <2>1, WakeIs
  <2> QED
    BY <1>5, <1>7, <1>8, <1>11, <2>2
<1>12. ASSUME left'[t] = 0, ~Attended(i)', at \in {"write", "writing"} => Elapsed' = 0
       PROVE  FALSE
  <2>1. at \notin {"write", "writing"}
    BY <1>2, <1>12 DEF Updating
  <2>2. left[t] >= 0 /\ left[t] - n <= 0
    BY <1>5, <1>12
  <2>3. Fits(next_expiration, count, left[t]) \/ Fresh(t)
    BY <1>3, <2>1, <2>2, WakeIs
  <2> QED
    BY <1>7, <1>8, <1>12, <2>1, <2>2, <2>3
<1> QED
  BY <1>10, <1>11, <1>12

(* The clock and the distances of the timers, from where update_time was   *)
(* called or read the clock.                                               *)
LEMMA FromNow ==
  ASSUME NEW due \in Nat, due < 2 * TimeRange, NEW c \in Time, NEW n \in Time,
         Wrap(c - n) \in {0, 1}, NEW l \in Int, -MaxLate <= l,
         l + Wrap(c - n) < TimeRange, Wrap(due) = Wrap(c + l)
  PROVE  /\ c = Wrap(n + Wrap(c - n))
         /\ Wrap(due - n) = IF l + Wrap(c - n) >= 0 THEN l + Wrap(c - n)
                            ELSE l + Wrap(c - n) + TimeRange
<1> PICK e \in {0, 1} : e = Wrap(c - n)
  OBVIOUS
<1>0. /\ TimeRange \in Nat /\ MaxLate \in Nat /\ MaxLate + 3 <= TimeRange
      /\ c \in Nat /\ c < TimeRange /\ n \in Nat /\ n < TimeRange /\ e \in Int /\ e >= 0 /\ e <= 1
  BY Clock DEF Time
<1>1. c - n = e \/ c - n + TimeRange = e
  <2>1. /\ c - n \in Int /\ -TimeRange <= c - n /\ c - n < 2 * TimeRange
    BY <1>0
  <2>2. Wrap(c - n) = IF c - n < 0 THEN c - n + TimeRange
                      ELSE IF c - n < TimeRange THEN c - n ELSE c - n - TimeRange
    BY <2>1, WrapIs
  <2> QED
    BY <1>0, <2>1, <2>2
<1>2. c = Wrap(n + e)
  <2>1. Wrap(n + e) = IF n + e < TimeRange THEN n + e ELSE n + e - TimeRange
    BY <1>0, WrapIs
  <2> QED
    BY <1>0, <1>1, <2>1
<1>3. \/ due = c + l \/ due = c + l + TimeRange \/ due = c + l - TimeRange
      \/ due = c + l + 2 * TimeRange \/ due = c + l - 2 * TimeRange
  BY <1>0, SameTime
<1> DEFINE x == due - n
<1>4. x \in Int /\ -TimeRange <= x /\ x < 2 * TimeRange
  BY <1>0
<1>5. Wrap(x) \in Nat /\ Wrap(x) < TimeRange /\
        (Wrap(x) = x \/ Wrap(x) = x + TimeRange \/ Wrap(x) = x - TimeRange)
  BY <1>4, WrapMoves
<1> DEFINE w == Wrap(x)
<1> HIDE DEF w
<1>6. \E k \in {-4, -3, -2, -1, 0, 1, 2, 3, 4} : w = l + e + k * TimeRange
  BY <1>0, <1>1, <1>3, <1>5 DEF w
<1>7. w = IF l + e >= 0 THEN l + e ELSE l + e + TimeRange
  BY <1>0, <1>5, <1>6 DEF w
<1>8. /\ c = Wrap(n + e)
      /\ Wrap(due - n) = IF l + e >= 0 THEN l + e ELSE l + e + TimeRange
  BY <1>2, <1>7 DEF w
<1> QED
  BY <1>8

LEMMA DistanceIs ==
  ASSUME TInv, OnTime, Near, Updating, NEW t \in Listed
  PROVE  /\ count = Wrap(now + Elapsed)
         /\ Distance(t, now) = IF left[t] + Elapsed >= 0 THEN left[t] + Elapsed
                               ELSE left[t] + Elapsed + TimeRange
<1>1. /\ left[t] \in Int /\ left[t] >= -MaxLate /\ left[t] + Elapsed <= Reach
      /\ Reach \in Nat /\ Reach < TimeRange
  BY ReachIs
<1>2. t \in Timer /\ left[t] # Long
  BY ListedTimers DEF TInv, ListOK
<1>3. Due(t) \in Nat /\ Due(t) < 2 * TimeRange /\ Wrap(Due(t)) = Wrap(count + left[t])
  BY <1>2, OnTimeIs
<1>4. Elapsed \in {0, 1} /\ Elapsed = Wrap(count - now)
  BY ElapsedIs DEF Elapsed
<1>5. count \in Time /\ now \in Time /\ TimeRange \in Nat
  BY Clock DEF TInv, TypeOK
<1>6. left[t] + Elapsed < TimeRange /\ -MaxLate <= left[t]
  BY <1>1, <1>4, <1>5, Clock
<1> QED
  BY <1>1, <1>3, <1>4, <1>5, <1>6, FromNow DEF Distance

LEMMA UpdateReadWakes == ASSUME TInv, OnTime, Near, WakeOK, UpdateRead PROVE WakeOK'
<1>1. /\ at = "read" /\ at' = "write" /\ now' = count
      /\ UNCHANGED <<count, timerlist, timer, owner, next_expiration, needspoll,
                     events, cursor, back, left>>
  BY DEF UpdateRead
<1>2. SUFFICES ASSUME NEW i \in DOMAIN timerlist, NEW t, t = timerlist[i]
               PROVE  /\ left[t] < 0 => Attended(i)'
                      /\ left[t] >= 0 => Fits(next_expiration, count, left[t]) \/ Fresh(t)'
                      /\ (left[t] = 0 /\ ~Attended(i)') => next_expiration = count
  BY <1>1 DEF WakeOK
<1>3. Attended(i)' <=> Attended(i)
  BY <1>1 DEF Attended, Scanning, Updating
<1>4. t \in Listed /\ left[t] \in Int /\ Elapsed \in {0, 1}
  BY <1>2, ReachIs, ElapsedIs DEF Listed
<1>5. Elapsed' = 0
  BY <1>1, ElapsedOne DEF Elapsed, Updating, TInv, TypeOK
<1>6. Fresh(t) => Fresh(t)'
  <2>1. CASE needspoll
    BY <1>1, <2>1, Zenon DEF Fresh
  <2>2. CASE left[t] + Elapsed >= 2
    <3>1. left[t] + 0 >= 1
      BY <1>4, <2>2
    <3> QED
      BY <1>1, <1>5, <3>1 DEF Fresh
  <2> QED
    BY <1>1, <2>1, <2>2 DEF Fresh
<1>7. left[t] >= 0 => Fits(next_expiration, count, left[t]) \/ Fresh(t)
  BY <1>1, <1>2, WakeIs
<1>8. (left[t] = 0 /\ ~Attended(i)) => next_expiration = count
  BY <1>1, <1>2, WakeIs
<1> QED
  BY <1>2, <1>3, <1>6, <1>7, <1>8, WakeIs

LEMMA UpdateWriteWakes == ASSUME TInv, OnTime, Near, WakeOK, UpdateWrite PROVE WakeOK'
<1> DEFINE upper(m) == m - (m % Half)
           lower(m) == m % Half
<1>1. /\ at = "write" /\ at' = "writing"
      /\ UNCHANGED <<count, timerlist, timer, owner, needspoll, events, cursor,
                     back, now, left>>
      /\ next_expiration' \in {upper(Earliest) + lower(next_expiration),
                               upper(next_expiration) + lower(Earliest)}
  BY DEF UpdateWrite
<1>2. \A m \in Time : upper(m) + lower(m) = m
  <2>1. ASSUME NEW m \in Time PROVE upper(m) + lower(m) = m
    <3>1. m \in Nat /\ m % Half \in Int
      BY Clock, Modulo
    <3> QED
      BY <3>1
  <2> QED
    BY <2>1
<1> HIDE DEF upper, lower
<1>3. SUFFICES ASSUME NEW i \in DOMAIN timerlist, NEW t, t = timerlist[i]
               PROVE  /\ left[t] < 0 => Attended(i)'
                      /\ (left[t] = 0 /\ ~Attended(i)' /\ Elapsed' = 0) => next_expiration' = count
  BY <1>1 DEF WakeOK
<1>4. Attended(i)' <=> Attended(i)
  BY <1>1 DEF Attended, Scanning, Updating
<1>5. Elapsed' = Elapsed /\ Updating
  BY <1>1 DEF Elapsed, Updating
<1>6. ASSUME left[t] = 0, ~Attended(i), Elapsed = 0 PROVE next_expiration' = count
  <2>1. next_expiration = count /\ t \in Listed /\ timerlist # <<>>
    BY <1>3, <1>6, WakeIs, ListedTimers DEF Listed
  <2>2. count = Wrap(now + 0) /\ Distance(t, now) = 0
    BY <1>5, <1>6, <2>1, DistanceIs
  <2>3. PICK u \in Listed : /\ Earliest = Wrap(now + Distance(u, now))
                            /\ Distance(u, now) <= Distance(t, now)
    BY <2>1, EarliestIs
  <2>4. Distance(u, now) = 0
    BY <2>2, <2>3, ListedTimers
  <2>5. Earliest = count /\ count \in Time
    BY <2>2, <2>3, <2>4 DEF TInv, TypeOK
  <2> QED
    BY <1>1, <1>2, <2>1, <2>5
<1> QED
  BY <1>3, <1>4, <1>5, <1>6, WakeIs

LEMMA UpdateDoneWakes == ASSUME TInv, OnTime, Near, WakeOK, UpdateDone PROVE WakeOK'
<1>1. /\ at = "writing" /\ at' = back /\ next_expiration' = Earliest
      /\ UNCHANGED <<count, timerlist, timer, owner, needspoll, events, cursor,
                     back, now, left>>
  BY DEF UpdateDone
<1>2. back \in {"idle", "scan"} /\ cursor = 1 /\ Updating /\ count \in Nat /\ now \in Nat
  BY <1>1, Clock DEF TInv, TypeOK, ListOK, Updating
<1>3. SUFFICES ASSUME NEW i \in DOMAIN timerlist, NEW t, t = timerlist[i]
               PROVE  /\ left[t] < 0 => Attended(i)'
                      /\ left[t] >= 0 => Fits(Earliest, count, left[t])
                      /\ (left[t] = 0 /\ ~Attended(i)') => Earliest = count
  BY <1>1 DEF WakeOK
<1>4. \A j \in DOMAIN timerlist : /\ Attended(j)' <=> Attended(j)
                                  /\ Attended(j) => Attended(i)
  <2>1. \A j \in DOMAIN timerlist : j >= cursor
    BY <1>2, ListedTimers
  <2> QED
    BY <1>1, <1>2, <1>3, <2>1 DEF Attended, Scanning, Updating
<1>5. t \in Listed /\ timerlist # <<>>
  BY <1>3, ListedTimers DEF Listed
<1>6. PICK u \in Listed : /\ Earliest = Wrap(now + Distance(u, now))
                          /\ Distance(u, now) <= Distance(t, now)
  BY <1>5, EarliestIs
<1> DEFINE d == Distance(u, now)
<1>7. /\ d \in Nat
      /\ d = (IF left[u] + Elapsed >= 0 THEN left[u] + Elapsed ELSE left[u] + Elapsed + TimeRange)
      /\ left[u] \in Int /\ left[u] >= -MaxLate /\ left[u] + Elapsed <= Reach
  BY <1>2, <1>6, ListedTimers, DistanceIs, ReachIs
<1>8. /\ left[t] \in Int /\ left[t] >= -MaxLate /\ left[t] + Elapsed <= Reach
      /\ Elapsed \in {0, 1} /\ count = Wrap(now + Elapsed)
      /\ Reach \in Nat /\ Reach < TimeRange /\ TimeRange \in Nat
      /\ MaxLate \in Nat /\ MaxLate + 3 <= TimeRange
  BY <1>2, <1>5, ReachIs, ElapsedIs, DistanceIs, Clock
<1>9. left[t] >= 0 => d <= left[t] + Elapsed
  BY <1>2, <1>5, <1>6, <1>8, DistanceIs
<1> HIDE DEF d
<1>10. ASSUME left[t] >= 0 PROVE Fits(Earliest, count, left[t])
  <2>1. d - Elapsed \in -MaxLate - Reach .. Reach /\ d <= Reach
    BY <1>7, <1>8, <1>9, <1>10
  <2>2. d - Elapsed <= left[t] /\ left[t] <= (d - Elapsed) + Reach
    BY <1>7, <1>8, <1>9, <1>10
  <2>3. Wrap(now + d) = Wrap(count + (d - Elapsed))
    <3>1. now < TimeRange
      BY Clock DEF TInv, TypeOK, Time
    <3>2. count = now + Elapsed \/ count = now + Elapsed - TimeRange
      BY <1>2, <1>8, <3>1, WrapIs
    <3>3. /\ now + d \in Int /\ -TimeRange <= now + d /\ now + d < 2 * TimeRange
          /\ count + (d - Elapsed) \in Int /\ -TimeRange <= count + (d - Elapsed)
          /\ count + (d - Elapsed) < 2 * TimeRange
      <4>1. count < TimeRange
        BY Clock DEF TInv, TypeOK, Time
      <4> QED
        BY <1>2, <1>7, <1>8, <2>1, <3>1, <4>1
    <3>4. now + d = count + (d - Elapsed) \/ now + d = count + (d - Elapsed) + TimeRange
      BY <1>2, <1>7, <1>8, <3>2
    <3> QED
      BY <3>3, <3>4, SameTime
  <2> QED
    BY <1>6, <2>1, <2>2, <2>3 DEF Fits, d
<1>11. ASSUME left[t] = 0, ~Attended(i) PROVE Earliest = count
  <2>1. PICK j \in DOMAIN timerlist : u = timerlist[j]
    BY <1>6 DEF Listed
  <2>2. ~(left[u] < 0)
    BY <1>4, <1>11, <2>1, WakeIs
  <2>3. d = Elapsed
    BY <1>7, <1>8, <1>9, <1>11, <2>2
  <2> QED
    BY <1>6, <1>8, <2>3 DEF d
<1> QED
  BY <1>3, <1>4, <1>10, <1>11, WakeIs

LEMMA UpdateWakes == ASSUME TInv, OnTime, Near, WakeOK, Update PROVE WakeOK'
BY UpdateReadWakes, UpdateWriteWakes, UpdateDoneWakes DEF Update

(* The loop of etimer_process. *)
LEMMA PolledWakes == ASSUME TInv, WakeOK, Polled PROVE WakeOK'
<1>1. /\ at = "idle" /\ at' = "scan" /\ cursor' = 1
      /\ UNCHANGED <<count, timerlist, timer, owner, next_expiration, left>>
  BY DEF Polled
<1>2. \A i \in DOMAIN timerlist : Attended(i)'
  BY <1>1, ListedTimers DEF Attended, Scanning
<1>3. \A i \in DOMAIN timerlist :
        left[timerlist[i]] >= 0 => Fits(next_expiration, count, left[timerlist[i]])
  BY <1>1, WakeIs DEF Fresh
<1> QED
  BY <1>1, <1>2, <1>3 DEF WakeOK

LEMMA ScanPostWakes == ASSUME TInv, WakeOK, ScanPost PROVE WakeOK'
<1>1. /\ at = "scan" /\ at' = "read" /\ back' = "scan" /\ cursor' = 1
      /\ UNCHANGED <<count, timer, next_expiration, needspoll, left>>
      /\ timerlist' = RemoveAt(timerlist, cursor) /\ cursor <= Len(timerlist)
  BY DEF ScanPost, UpdateCall
<1>2. /\ timerlist \in Seq(Timer) /\ cursor \in 1 .. Len(timerlist) /\ Distinct(timerlist)
      /\ Elements(timerlist) = Listed
  BY <1>1, ListedTimers DEF TInv, TypeOK, ListOK, ListedOnce, Distinct, Elements, Listed
<1>3. timerlist' \in Seq(Timer) /\ Elements(timerlist') \subseteq Listed
  BY <1>1, <1>2, RemoveAtElements
<1>4. SUFFICES ASSUME NEW i \in DOMAIN timerlist', NEW t, t = timerlist'[i]
               PROVE  /\ Attended(i)'
                      /\ left[t] >= 0 => Fits(next_expiration, count, left[t])
  BY <1>1 DEF WakeOK
<1>5. i \in Nat /\ i >= 1
  BY <1>3, LenProperties
<1>6. PICK j \in DOMAIN timerlist : t = timerlist[j]
  BY <1>3, <1>4 DEF Elements, Listed
<1>7. left[t] >= 0 => Fits(next_expiration, count, left[t])
  BY <1>1, <1>6, WakeIs DEF Fresh
<1> QED
  BY <1>1, <1>5, <1>7 DEF Attended, Scanning, Updating

LEMMA ScanFullWakes == ASSUME TInv, WakeOK, ScanFull PROVE WakeOK'
<1>1. /\ at = "scan" /\ at' = at /\ needspoll' = TRUE
      /\ UNCHANGED <<count, timerlist, timer, next_expiration, left>>
  BY DEF ScanFull, Retry
<1>2. \A i \in DOMAIN timerlist : Attended(i)'
  BY <1>1 DEF Attended
<1>3. \A i \in DOMAIN timerlist :
        left[timerlist[i]] >= 0 => Fits(next_expiration, count, left[timerlist[i]])
  BY <1>1, WakeIs DEF Fresh
<1> QED
  BY <1>1, <1>2, <1>3 DEF WakeOK

LEMMA ScanNextWakes == ASSUME TInv, OnTime, WakeOK, ScanNext PROVE WakeOK'
<1>1. /\ at = "scan"
      /\ UNCHANGED <<count, timerlist, timer, owner, next_expiration, needspoll,
                     events, back, now, left>>
      /\ \/ cursor <= Len(timerlist) /\ ~Expired(timerlist[cursor])
            /\ cursor' = cursor + 1 /\ at' = at
         \/ ~(cursor <= Len(timerlist)) /\ cursor' = 1 /\ at' = "idle"
  BY DEF ScanNext
<1>2. cursor \in Nat /\ Len(timerlist) \in Nat /\ DOMAIN timerlist = 1 .. Len(timerlist)
  BY ListedTimers DEF TInv, TypeOK
<1>3. SUFFICES ASSUME NEW i \in DOMAIN timerlist, NEW t, t = timerlist[i]
               PROVE  /\ left[t] <= 0 /\ Attended(i) => Attended(i)'
                      /\ left[t] \in Int
  <2>1. ASSUME NEW i \in DOMAIN timerlist
        PROVE  LET t == timerlist[i]
               IN  /\ left[t] < 0 => Attended(i)'
                   /\ left[t] >= 0 => Fits(next_expiration, count, left[t])
                   /\ left[t] = 0 /\ ~Attended(i)' => next_expiration = count
    <3> DEFINE t == timerlist[i]
    <3>1. (left[t] <= 0 /\ Attended(i) => Attended(i)') /\ left[t] \in Int
      BY <1>3
    <3>2. /\ left[t] < 0 => Attended(i)
          /\ left[t] >= 0 => Fits(next_expiration, count, left[t])
          /\ left[t] = 0 /\ ~Attended(i) => next_expiration = count
      BY <1>1, WakeIs DEF Fresh
    <3> HIDE DEF t
    <3>3. /\ left[t] < 0 => Attended(i)'
          /\ left[t] >= 0 => Fits(next_expiration, count, left[t])
          /\ left[t] = 0 /\ ~Attended(i)' => next_expiration = count
      BY <3>1, <3>2
    <3> QED
      BY <3>3 DEF t
  <2>2. at' # "writing" /\ at' \notin {"write", "writing"}
    BY <1>1
  <2> QED
    BY <1>1, <2>1, <2>2 DEF WakeOK
<1>4. t \in Timer /\ left[t] # Long /\ left[t] \in Int
  BY <1>3, ListedTimers DEF Listed, TInv, ListOK, TypeOK
<1>5. ASSUME left[t] <= 0, Attended(i) PROVE Attended(i)'
  <2>1. Expired(t)
    BY <1>4, <1>5, ExpiredIs
  <2>2. CASE needspoll
    BY <1>1, <2>2, Zenon DEF Attended
  <2>3. CASE ~needspoll
    <3>1. i >= cursor /\ i \in Nat
      BY <1>1, <1>2, <1>5, <2>3 DEF Attended, Scanning, Updating
    <3>2. i # cursor /\ cursor <= Len(timerlist)
      BY <1>1, <1>2, <1>3, <2>1, <3>1
    <3>3. i >= cursor' /\ at' = "scan"
      BY <1>1, <1>2, <3>1, <3>2
    <3> QED
      BY <3>3 DEF Attended, Scanning
  <2> QED
    BY <2>2, <2>3
<1> QED
  BY <1>4, <1>5

(* The calls. *)
LEMMA CallWakes ==
  ASSUME TInv, NEW t \in Timer, NEW p \in Proc, Call(t, p)
  PROVE  WakeOK'
<1>1. PICK start \in Time, interval \in Time, ticks \in Int :
        Timing(t, start, interval, ticks) /\ AddTimer(t, p)
  BY CallSets
<1>2. needspoll' = TRUE /\ at' = "read"
  BY <1>1 DEF AddTimer, UpdateCall
<1> QED
  BY <1>2 DEF WakeOK, Attended, Fresh

LEMMA AdjustWakes ==
  ASSUME TInv, OnTime, Timely, WakeOK,
         NEW t \in Timer, NEW d \in Adjustments, etimer_adjust(t, d)
  PROVE  WakeOK'
<1>1. /\ at = "idle" /\ at' = "read" /\ back' = "idle" /\ now' = count
      /\ left' = [left EXCEPT ![t] = left[t] + d]
      /\ left[t] + d \in 2 .. timer[t].interval
      /\ UNCHANGED <<count, timerlist, owner, next_expiration, needspoll, cursor>>
  BY DEF etimer_adjust, Timing, UpdateCall, Timely
<1>2. Elapsed' = 0
  BY <1>1, ElapsedOne DEF Elapsed, Updating, TInv, TypeOK
<1>3. SUFFICES ASSUME NEW i \in DOMAIN timerlist, NEW u, u = timerlist[i]
               PROVE  /\ left'[u] < 0 => Attended(i)'
                      /\ left'[u] >= 0 => Fits(next_expiration, count, left'[u]) \/ Fresh(u)'
                      /\ left'[u] = 0 /\ ~Attended(i)' => next_expiration = count
  BY <1>1 DEF WakeOK
<1>4. Attended(i)' <=> Attended(i)
  BY <1>1 DEF Attended, Scanning, Updating
<1>5. u \in Timer
  BY <1>3, ListedTimers DEF Listed
<1>6. CASE u = t
  <2>1. left'[u] = left[t] + d /\ left'[u] >= 2 /\ left'[u] \in Int
    BY <1>1, <1>5, <1>6 DEF TInv, TypeOK
  <2>2. left'[u] + Elapsed' >= 2
    BY <1>2, <2>1
  <2>3. Fresh(u)'
    BY <1>1, <2>2 DEF Fresh
  <2> QED
    BY <2>1, <2>3
<1>7. CASE u # t
  <2>1. left'[u] = left[u]
    BY <1>1, <1>5, <1>7 DEF TInv, TypeOK
  <2>2. ~Fresh(u)
    BY <1>1 DEF Fresh
  <2>3. /\ left[u] < 0 => Attended(i)
        /\ left[u] >= 0 => Fits(next_expiration, count, left[u])
        /\ left[u] = 0 /\ ~Attended(i) => next_expiration = count
    BY <1>1, <1>3, <2>2, WakeIs
  <2> QED
    BY <1>4, <2>1, <2>3
<1> QED
  BY <1>6, <1>7

(* Timers that leave the list leave next_expiration as it is. *)
LEMMA FewerWakes ==
  ASSUME WakeOK, at = "idle", Listed' \subseteq Listed,
         UNCHANGED <<count, next_expiration, needspoll, left>>,
         UNCHANGED <<at, back>> \/ (at' = "read" /\ back' = "idle")
  PROVE  WakeOK'
<1>1. SUFFICES ASSUME NEW i \in DOMAIN timerlist', NEW t, t = timerlist'[i]
               PROVE  /\ left[t] < 0 => needspoll
                      /\ left[t] >= 0 => Fits(next_expiration, count, left[t])
                      /\ left[t] = 0 /\ ~needspoll => next_expiration = count
  <2>1. at' \notin {"write", "writing"}
    OBVIOUS
  <2>2. \A i \in DOMAIN timerlist' : Attended(i)' <=> needspoll
    BY DEF Attended, Scanning, Updating
  <2> QED
    BY <1>1, <2>1, <2>2 DEF WakeOK
<1>2. PICK j \in DOMAIN timerlist : t = timerlist[j]
  BY <1>1 DEF Listed
<1>3. (Attended(j) <=> needspoll) /\ ~Fresh(t)
  BY DEF Attended, Scanning, Updating, Fresh
<1> QED
  BY <1>2, <1>3, WakeIs

LEMMA StopWakes ==
  ASSUME TInv, WakeOK, NEW t \in Timer, etimer_stop(t) PROVE WakeOK'
<1>1. Listed' \subseteq Listed
  BY StopSound
<1>2. /\ at = "idle" /\ UNCHANGED <<count, next_expiration, needspoll, left>>
      /\ UNCHANGED <<at, back>> \/ (at' = "read" /\ back' = "idle")
  BY DEF etimer_stop, UpdateCall
<1> QED
  BY <1>1, <1>2, FewerWakes

LEMMA ExitedWakes ==
  ASSUME TInv, WakeOK, NEW p \in Proc, Exited(p) PROVE WakeOK'
<1>1. Listed' \subseteq Listed
  BY ExitedSound
<1>2. /\ at = "idle" /\ UNCHANGED <<count, next_expiration, needspoll, left>>
      /\ UNCHANGED <<at, back>>
  BY DEF Exited, pc
<1> QED
  BY <1>1, <1>2, FewerWakes

LEMMA OthersWake ==
  ASSUME WakeOK, Deliver \/ OtherPost \/ UNCHANGED vars PROVE WakeOK'
<1>1. UNCHANGED <<count, timerlist, next_expiration, needspoll, at, cursor, back, now, left>>
  BY DEF Deliver, OtherPost, vars, pc
<1> QED
  BY <1>1 DEF WakeOK, Attended, Scanning, Updating, Fresh, Elapsed

LEMMA NextWakes ==
  TInv /\ OnTime /\ WakeOK /\ Timely /\ Near /\ [Next]_vars => WakeOK'
BY TicksWake, UpdateWakes, PolledWakes, ScanPostWakes, ScanFullWakes, ScanNextWakes,
   CallWakes, AdjustWakes, StopWakes, ExitedWakes, OthersWake
   DEF Next, Tick, Scan, Clients

(* A pending timer that is overdue has a poll coming whenever the main     *)
(* program is in its loop, however ticks interleave with update_time and   *)
(* its writes and however often the queue is full, as long as no timer is  *)
(* set further ahead than the comparison of the interrupt can tell from    *)
(* the past, or adjusted against the interface (etimer.c and clock.c).     *)
THEOREM NotOverlooked == Timely /\ Near => (Spec => []NoTimerOverlooked)
<1> SUFFICES ASSUME Timely, Near PROVE Spec => []NoTimerOverlooked
  OBVIOUS
<1>1. Init => WakeOK
  BY DEF Init, WakeOK
<1>2. TInv /\ OnTime /\ WakeOK /\ [Next]_vars => WakeOK'
  BY NextWakes
<1>3. TInv /\ WakeOK => NoTimerOverlooked
  BY DEF WakeOK, NoTimerOverlooked, Attended, Scanning, Updating, Listed
<1> QED
  BY <1>1, <1>2, <1>3, TimingInvariant, PTL DEF Spec

------------------------------------------------------------------------------
(* Callback timers: the invariant. *)

(* Before ctimer_init no etimer of a ctimer was set. *)
NothingPending ==
  /\ Listed = {} /\ Queued \intersect Timer = {}
  /\ \A t \in Timer : left[t] = Long

CTypes ==
  /\ initialized \in BOOLEAN
  /\ ctimer_list \in Seq(Timer)
  /\ calling \in Timer \union {NULL}
  /\ armed \subseteq Timer /\ rearmed \subseteq armed

CListOK ==
  /\ Distinct(ctimer_list)
  /\ OnCtimerList = armed
  /\ ~initialized => NothingPending
  /\ initialized => armed \subseteq Listed \union Queued

(* The events in the queue are those of expirations, or are outdated. *)
QueuedOK == \A t \in Queued \intersect armed : left[t] <= 0 \/ t \in rearmed

CInv == TInv /\ OnTime /\ CTypes /\ CListOK /\ QueuedOK

------------------------------------------------------------------------------
(* The list of ctimers. *)

LEMMA AtTheEnd ==
  ASSUME NEW S, NEW s \in Seq(S), Distinct(s), NEW e \in S, e \notin Elements(s)
  PROVE  /\ Append(s, e) \in Seq(S) /\ Distinct(Append(s, e))
         /\ Elements(Append(s, e)) = Elements(s) \union {e}
<1> DEFINE r == Append(s, e)
<1>1. /\ r \in Seq(S) /\ Len(r) = Len(s) + 1 /\ Len(s) \in Nat
      /\ r[Len(s) + 1] = e /\ \A i \in 1 .. Len(s) : r[i] = s[i]
  BY AppendProperties, LenProperties
<1>2. DOMAIN r = 1 .. Len(s) + 1 /\ DOMAIN s = 1 .. Len(s)
  BY <1>1, LenProperties
<1> HIDE DEF r
<1>3. \A i \in 1 .. Len(s) + 1 : i \in 1 .. Len(s) \/ i = Len(s) + 1
  BY <1>1
<1>4. \A i \in 1 .. Len(s) : i \in 1 .. Len(s) + 1 /\ s[i] # e
  BY <1>1, <1>2 DEF Elements
<1>5. Elements(r) = Elements(s) \union {e}
  <2>1. ASSUME NEW i \in 1 .. Len(s) + 1 PROVE r[i] \in Elements(s) \union {e}
    BY <1>1, <1>2, <1>3 DEF Elements
  <2>2. Len(s) + 1 \in 1 .. Len(s) + 1
    BY <1>1
  <2> QED
    BY <1>1, <1>2, <1>4, <2>1, <2>2 DEF Elements
<1>6. Distinct(r)
  BY <1>1, <1>2, <1>3, <1>4 DEF Distinct
<1> QED
  BY <1>1, <1>5, <1>6 DEF r

LEMMA RemovedIs ==
  ASSUME CTypes, CListOK, NEW t \in Timer
  PROVE  /\ Removed(t) \in Seq(Timer) /\ Distinct(Removed(t))
         /\ Elements(Removed(t)) = armed \ {t}
<1>1. Elements(ctimer_list) = armed
  BY DEF CListOK, Elements, OnCtimerList
<1> QED
  BY <1>1, RemoveFirstElements DEF CTypes, CListOK, Removed

LEMMA AddIs ==
  ASSUME CTypes, CListOK, NEW t \in Timer, Add(t)
  PROVE  /\ CTypes' /\ Distinct(ctimer_list)' /\ OnCtimerList' = armed'
         /\ armed' = armed \union {t} /\ initialized' = initialized
         /\ rearmed' = (rearmed \ {t}) \union ({t} \intersect Queued)
<1>1. /\ ctimer_list' = Append(Removed(t), t)
      /\ armed' = armed \union {t}
      /\ rearmed' = (rearmed \ {t}) \union ({t} \intersect Queued)
      /\ UNCHANGED <<initialized, calling>>
  BY DEF Add, ListAdd
<1>2. /\ ctimer_list' \in Seq(Timer) /\ Distinct(ctimer_list')
      /\ Elements(ctimer_list') = armed \union {t}
  BY <1>1, RemovedIs, AtTheEnd
<1>3. CTypes'
  BY <1>1, <1>2 DEF CTypes
<1> QED
  BY <1>1, <1>2, <1>3 DEF OnCtimerList, Elements

------------------------------------------------------------------------------
(* The steps of the event timers. *)

(* The steps of the list and the queue that keep the ctimers where they    *)
(* are: what is queued anew is due.                                        *)
LEMMA StillCalls ==
  ASSUME CInv, TInv', OnTime', UNCHANGED cvars,
         Listed \union (Queued \intersect Timer) \subseteq Listed' \union Queued',
         \A t \in Timer : /\ t \in Queued' => t \in Queued \/ (t \in Listed /\ left[t] <= 0)
                          /\ left[t] <= 0 => left'[t] <= 0
                          /\ left[t] = Long => left'[t] = Long,
         Listed' \subseteq Listed
  PROVE  CInv'
<1>1. UNCHANGED <<initialized, ctimer_list, calling, armed, rearmed>>
  BY DEF cvars
<1>2. CTypes'
  BY <1>1 DEF CInv, CTypes
<1>3. CListOK'
  <2>1. ~initialized => NothingPending'
    BY DEF CInv, CListOK, NothingPending
  <2>2. initialized => armed \subseteq Listed' \union Queued'
    BY DEF CInv, CListOK, CTypes
  <2> QED
    BY <1>1, <2>1, <2>2 DEF CInv, CListOK, OnCtimerList
<1>4. QueuedOK'
  <2>1. ASSUME NEW t \in armed, t \in Queued' PROVE left'[t] <= 0 \/ t \in rearmed
    BY <2>1 DEF CInv, QueuedOK, CTypes
  <2> QED
    BY <1>1, <2>1 DEF QueuedOK
<1> QED
  BY <1>2, <1>3, <1>4 DEF CInv

LEMMA TickCalls == ASSUME CInv, NEW n \in {1, 2}, Ticks(n), UNCHANGED cvars PROVE CInv'
<1>1. /\ timerlist' = timerlist /\ events' = events
      /\ left' = [t \in Timer |-> IF left[t] - n < -MaxLate THEN Long ELSE left[t] - n]
  BY DEF Ticks
<1>2. Listed' = Listed /\ Queued' = Queued
  BY <1>1 DEF Listed, Queued
<1>3. ASSUME NEW t \in Timer
      PROVE  /\ left[t] <= 0 => left'[t] <= 0
             /\ left[t] = Long => left'[t] = Long
  <2>1. left[t] \in Int /\ MaxLate \in Nat
    BY Clock DEF CInv, TInv, TypeOK
  <2> QED
    BY <1>1, <2>1 DEF Long
<1>4. TInv' /\ OnTime'
  BY TicksSound, TicksOnTime DEF CInv
<1> QED
  BY <1>2, <1>3, <1>4, StillCalls

LEMMA UpdateCalls == ASSUME CInv, Update, UNCHANGED cvars PROVE CInv'
<1>1. UNCHANGED <<timerlist, events, left>>
  BY DEF Update, UpdateRead, UpdateWrite, UpdateDone
<1>2. Listed' = Listed /\ Queued' = Queued
  BY <1>1 DEF Listed, Queued
<1>3. TInv' /\ OnTime'
  BY UpdateSound, OthersOnTime DEF CInv
<1> QED
  BY <1>1, <1>2, <1>3, StillCalls

(* A timer that leaves the list is in the queue. *)
LEMMA ScanCalls == ASSUME CInv, Polled \/ Scan, UNCHANGED cvars PROVE CInv'
<1>1. TInv' /\ OnTime'
  BY ScanSound, OthersOnTime DEF CInv
<1>2. CASE ScanPost
  <2> DEFINE t == timerlist[cursor]
  <2>1. /\ cursor <= Len(timerlist) /\ Expired(t) /\ left' = left
        /\ events' = Append(events, t)
        /\ timerlist' = RemoveAt(timerlist, cursor)
    BY <1>2 DEF ScanPost
  <2>2. cursor \in 1 .. Len(timerlist)
    BY <2>1, ListedTimers DEF CInv, TInv, TypeOK
  <2>3. t \in Listed /\ t \in Timer /\ left[t] # Long
    BY <2>2, ListedTimers DEF Listed, CInv, TInv, ListOK
  <2>4. left[t] <= 0
    BY <2>1, <2>3, ExpiredIs DEF CInv
  <2> HIDE DEF t
  <2>5. Listed' = Listed \ {t}
    <3>1. timerlist \in Seq(Timer) /\ Distinct(timerlist) /\ Elements(timerlist) = Listed
      BY DEF CInv, TInv, TypeOK, ListOK, ListedOnce, Distinct, Elements, Listed
    <3>2. Elements(timerlist') = Listed \ {t}
      BY <2>1, <2>2, <3>1, RemoveAtElements DEF t
    <3> QED
      BY <3>2 DEF Elements, Listed
  <2>6. Queued' = Queued \union {t}
    <3>1. events \in Seq(Timer \union {Other}) /\ Len(events) \in Nat
      BY LenProperties DEF CInv, TInv, TypeOK
    <3>2. /\ Len(events') = Len(events) + 1 /\ events'[Len(events) + 1] = t
          /\ \A i \in 1 .. Len(events) : events'[i] = events[i]
          /\ events' \in Seq(Timer \union {Other})
      BY <2>1, <2>3, <3>1, AppendProperties
    <3>3. DOMAIN events' = 1 .. Len(events) + 1 /\ DOMAIN events = 1 .. Len(events)
      BY <3>1, <3>2, LenProperties
    <3>4. /\ \A i \in 1 .. Len(events) + 1 : i \in 1 .. Len(events) \/ i = Len(events) + 1
          /\ Len(events) + 1 \in 1 .. Len(events) + 1
          /\ \A i \in 1 .. Len(events) : i \in 1 .. Len(events) + 1
      BY <3>1
    <3> QED
      BY <3>2, <3>3, <3>4 DEF Queued
  <2> QED
    BY <1>1, <2>1, <2>3, <2>4, <2>5, <2>6, StillCalls
<1>3. CASE Polled \/ ScanFull \/ ScanNext
  <2>1. UNCHANGED <<timerlist, events, left>>
    BY <1>3 DEF Polled, ScanFull, ScanNext
  <2>2. Listed' = Listed /\ Queued' = Queued
    BY <2>1 DEF Listed, Queued
  <2> QED
    BY <1>1, <2>1, <2>2, StillCalls
<1> QED
  BY <1>2, <1>3 DEF Scan

------------------------------------------------------------------------------
(* The calls of this module. *)

(* A ctimer that is set anew has its etimer on the list of timers, once    *)
(* ctimer_process runs.                                                    *)
LEMMA AddCalls ==
  ASSUME CInv, initialized, NEW t \in Timer, Call(t, ctimer_process), Add(t) PROVE CInv'
<1>1. ctimer_process \in Proc
  BY CallbackAssumption
<1>2. TInv' /\ OnTime' /\ Listed' = Listed \union {t}
  BY <1>1, CallSound, CallOnTime DEF CInv
<1>3. /\ CTypes' /\ Distinct(ctimer_list)' /\ OnCtimerList' = armed'
      /\ armed' = armed \union {t} /\ initialized' = initialized
      /\ rearmed' = (rearmed \ {t}) \union ({t} \intersect Queued)
  BY AddIs DEF CInv
<1>4. events' = events /\ \A u \in Timer : u # t => left'[u] = left[u]
  <2>1. PICK start \in Time, interval \in Time, ticks \in Int :
          Timing(t, start, interval, ticks) /\ AddTimer(t, ctimer_process)
    BY <1>1, CallSets DEF CInv
  <2> QED
    BY <2>1 DEF Timing, AddTimer, CInv, TInv, TypeOK
<1>5. Queued' = Queued
  BY <1>4 DEF Queued
<1>6. CListOK'
  BY <1>2, <1>3, <1>5 DEF CInv, CListOK
<1>7. QueuedOK'
  BY <1>3, <1>4, <1>5 DEF CInv, CTypes, QueuedOK
<1> QED
  BY <1>2, <1>3, <1>6, <1>7 DEF CInv

(* Before ctimer_init, at most the interval of its etimer is noted. *)
LEMMA AddEarly ==
  ASSUME CInv, ~initialized, NEW t \in Timer, Add(t),
         UNCHANGED <<count, timerlist, owner, next_expiration, needspoll, events, pc, left>>,
         UNCHANGED timer \/ \E i \in Interval : timer' = [timer EXCEPT ![t].interval = i]
  PROVE  CInv'
<1>1. /\ CTypes' /\ Distinct(ctimer_list)' /\ OnCtimerList' = armed'
      /\ initialized' = initialized
  BY AddIs DEF CInv
<1>2. NothingPending
  BY DEF CInv, CListOK
<1>3. TInv'
  <2>1. UNCHANGED <<count, timerlist, owner, next_expiration, needspoll, events,
                    at, cursor, back, now, left>>
    BY DEF pc
  <2>2. timer' \in [Timer -> [start : Time, interval : Time]]
    <3>1. timer \in [Timer -> [start : Time, interval : Time]] /\ Interval \subseteq Time
      BY Clock DEF CInv, TInv, TypeOK
    <3> QED
      BY <3>1
  <2>3. TypeOK'
    BY <2>1, <2>2 DEF CInv, TInv, TypeOK
  <2> QED
    BY <2>1, <2>3 DEF CInv, TInv, ListOK, ListedOnce, Listed, Updating, Elapsed
<1>4. OnTime'
  BY <1>2 DEF NothingPending, OnTime
<1>5. NothingPending' /\ Queued' = Queued
  BY <1>2 DEF NothingPending, Listed, Queued
<1>6. QueuedOK'
  BY <1>1, <1>2, <1>5 DEF QueuedOK, NothingPending, CTypes
<1> QED
  BY <1>1, <1>3, <1>4, <1>5, <1>6 DEF CInv, CListOK

LEMMA SetCalls ==
  ASSUME CInv, NEW t \in Timer,
         (\E i \in Interval : ctimer_set(t, i)) \/ ctimer_reset(t) \/ ctimer_restart(t)
  PROVE  CInv'
<1>1. CASE \E i \in Interval : ctimer_set(t, i)
  <2>1. PICK i \in Interval : ctimer_set(t, i)
    BY <1>1
  <2>2. CASE initialized /\ etimer_set(t, i, ctimer_process)
    BY <2>1, <2>2, AddCalls DEF ctimer_set, Call
  <2>3. CASE /\ ~initialized
             /\ timer' = [timer EXCEPT ![t].interval = i]
             /\ UNCHANGED <<count, timerlist, owner, next_expiration, needspoll,
                            events, pc, left>>
    BY <2>1, <2>3, AddEarly DEF ctimer_set
  <2> QED
    BY <2>1, <2>2, <2>3 DEF ctimer_set
<1>2. CASE ctimer_reset(t) \/ ctimer_restart(t)
  <2>1. Add(t)
    BY <1>2 DEF ctimer_reset, ctimer_restart
  <2>2. \/ initialized /\ Call(t, ctimer_process)
        \/ ~initialized /\ UNCHANGED vars
    BY <1>2 DEF ctimer_reset, ctimer_restart, Call
  <2>3. UNCHANGED vars => UNCHANGED <<count, timerlist, timer, owner, next_expiration,
                                      needspoll, events, pc, left>>
    BY DEF vars, pc
  <2> QED
    BY <2>1, <2>2, <2>3, AddCalls, AddEarly
<1> QED
  BY <1>1, <1>2

LEMMA StopCalls == ASSUME CInv, NEW t \in Timer, ctimer_stop(t) PROVE CInv'
<1>1. /\ ctimer_list' = Removed(t) /\ UNCHANGED <<initialized, calling>>
      /\ armed' = armed \ {t} /\ rearmed' = rearmed \ {t}
  BY DEF ctimer_stop, ListOnStop
<1>2. /\ ctimer_list' \in Seq(Timer) /\ Distinct(ctimer_list') /\ OnCtimerList' = armed'
  BY <1>1, RemovedIs DEF CInv, OnCtimerList, Elements
<1>3. CTypes'
  BY <1>1, <1>2 DEF CInv, CTypes
<1>4. events' = events /\ left' = left
  BY DEF ctimer_stop, etimer_stop
<1>5. Queued' = Queued
  BY <1>4 DEF Queued
<1>6. QueuedOK'
  BY <1>1, <1>4, <1>5 DEF CInv, QueuedOK
<1>7. CASE initialized
  <2>1. etimer_stop(t)
    BY <1>7 DEF ctimer_stop
  <2>2. TInv' /\ OnTime' /\ Listed' = Listed \ {t}
    BY <2>1, StopSound, OthersOnTime DEF CInv
  <2>3. CListOK'
    BY <1>1, <1>2, <1>5, <1>7, <2>2 DEF CInv, CListOK
  <2> QED
    BY <1>3, <1>6, <2>2, <2>3 DEF CInv
<1>8. CASE ~initialized
  <2>1. /\ owner' = [owner EXCEPT ![t] = NULL]
        /\ UNCHANGED <<count, timerlist, timer, next_expiration, needspoll, events,
                       at, cursor, back, now, left>>
    BY <1>8 DEF ctimer_stop, pc
  <2>2. NothingPending /\ Listed' = Listed
    BY <1>8, <2>1 DEF CInv, CListOK, Listed
  <2>3. TInv'
    <3>1. owner' \in [Timer -> Proc \union {NULL}]
      BY <2>1 DEF CInv, TInv, TypeOK
    <3>2. TypeOK'
      BY <2>1, <3>1 DEF CInv, TInv, TypeOK
    <3>3. \A u \in Listed' : owner'[u] # NULL /\ left'[u] # Long
      BY <2>2 DEF NothingPending
    <3> QED
      BY <2>1, <3>2, <3>3 DEF CInv, TInv, ListOK, ListedOnce, Updating, Elapsed
  <2>4. OnTime'
    BY <2>1, <2>2 DEF NothingPending, OnTime
  <2>5. NothingPending'
    BY <1>5, <2>1, <2>2 DEF NothingPending
  <2> QED
    BY <1>1, <1>2, <1>3, <1>6, <1>8, <2>3, <2>4, <2>5 DEF CInv, CListOK
<1> QED
  BY <1>7, <1>8

(* What leaves the queue is received: its ctimer is called, or none is.    *)
LEMMA ReceiveCalls == ASSUME CInv, Receive PROVE CInv'
<1> DEFINE t == Head(events)
<1>1. /\ events # <<>> /\ events' = Tail(events)
      /\ UNCHANGED <<timerlist, left>> /\ Deliver
      /\ (t \in Timer /\ Called(t)) \/ (t \notin OnCtimerList /\ UNCHANGED cvars)
  <2>1. Deliver /\ ((t \in Timer /\ Called(t)) \/ (t \notin OnCtimerList /\ UNCHANGED cvars))
    BY DEF Receive
  <2> QED
    BY <2>1 DEF Deliver
<1>2. TInv' /\ OnTime'
  BY <1>1, EventsSound, OthersOnTime DEF CInv
<1>3. events \in Seq(Timer \union {Other}) /\ Len(events) \in Nat /\ Len(events) >= 1
  BY <1>1, LenProperties, EmptySeq DEF CInv, TInv, TypeOK
<1>4. /\ events' \in Seq(Timer \union {Other}) /\ Len(events') = Len(events) - 1
      /\ t = events[1]
      /\ \A i \in 1 .. Len(events) - 1 : events'[i] = events[i + 1]
  BY <1>1, <1>3, HeadTailProperties
<1>5. DOMAIN events = 1 .. Len(events) /\ DOMAIN events' = 1 .. Len(events) - 1
  BY <1>3, <1>4, LenProperties
<1> HIDE DEF t
<1>6. Queued' \subseteq Queued /\ Queued \subseteq Queued' \union {t}
  <2>1. \A i \in 1 .. Len(events) - 1 : i + 1 \in 1 .. Len(events)
    BY <1>3
  <2>2. \A i \in 1 .. Len(events) : i # 1 =>
          i - 1 \in 1 .. Len(events) - 1 /\ events'[i - 1] = events[i]
    BY <1>3, <1>4
  <2>3. \A e \in Queued' : e \in Queued
    BY <1>4, <1>5, <2>1 DEF Queued
  <2>4. \A e \in Queued : e = t \/ e \in Queued'
    BY <1>4, <1>5, <2>2 DEF Queued
  <2> QED
    BY <2>3, <2>4
<1>7. Listed' = Listed
  BY <1>1 DEF Listed
<1>8. ~initialized => NothingPending'
  BY <1>1, <1>6, <1>7 DEF CInv, CListOK, NothingPending
<1>9. CASE t \in Timer /\ Called(t)
  <2>1. /\ ctimer_list' = Removed(t) /\ calling' = t /\ UNCHANGED initialized
        /\ armed' = armed \ {t} /\ rearmed' = rearmed \ {t} /\ t \in Timer
    BY <1>9 DEF Called
  <2>2. /\ ctimer_list' \in Seq(Timer) /\ Distinct(ctimer_list') /\ OnCtimerList' = armed'
    BY <2>1, RemovedIs DEF CInv, OnCtimerList, Elements
  <2>3. CTypes'
    BY <2>1, <2>2 DEF CInv, CTypes
  <2>4. CListOK'
    BY <1>6, <1>7, <1>8, <2>1, <2>2 DEF CInv, CListOK
  <2>5. QueuedOK'
    BY <1>1, <1>6, <2>1 DEF CInv, QueuedOK
  <2> QED
    BY <1>2, <2>3, <2>4, <2>5 DEF CInv
<1>10. CASE t \notin OnCtimerList /\ UNCHANGED cvars
  <2>1. UNCHANGED <<initialized, ctimer_list, calling, armed, rearmed>> /\ t \notin armed
    BY <1>10 DEF CInv, CListOK, cvars
  <2>2. CTypes'
    BY <2>1 DEF CInv, CTypes
  <2>3. CListOK'
    BY <1>6, <1>7, <1>8, <2>1 DEF CInv, CListOK, OnCtimerList
  <2>4. QueuedOK'
    BY <1>1, <1>6, <2>1 DEF CInv, QueuedOK
  <2> QED
    BY <1>2, <2>2, <2>3, <2>4 DEF CInv
<1> QED
  BY <1>1, <1>9, <1>10

LEMMA QuietCalls ==
  ASSUME CInv, ctimer_init \/ CallbackReturns \/ UNCHANGED <<vars, cvars>>
  PROVE  CInv'
<1>1. UNCHANGED vars
  BY DEF ctimer_init, CallbackReturns
<1>2. TInv' /\ OnTime'
  BY <1>1, StutterSound, OthersOnTime DEF CInv
<1>3. Listed' = Listed /\ Queued' = Queued /\ left' = left
  BY <1>1 DEF vars, Listed, Queued
<1>4. CASE ctimer_init
  <2>1. initialized' = TRUE /\ ctimer_list' = <<>> /\ armed' = {} /\ rearmed' = {} /\ calling' = calling
    BY <1>4 DEF ctimer_init
  <2>2. OnCtimerList' = {} /\ Distinct(ctimer_list')
    BY <2>1 DEF OnCtimerList, Distinct
  <2>3. CTypes'
    BY <2>1 DEF CInv, CTypes
  <2> QED
    BY <1>2, <2>1, <2>2, <2>3 DEF CInv, CListOK, QueuedOK
<1>5. CASE CallbackReturns \/ UNCHANGED <<vars, cvars>>
  <2>1. UNCHANGED <<initialized, ctimer_list, armed, rearmed>> /\ calling' \in {calling, NULL}
    BY <1>5 DEF CallbackReturns, ListOnReturn, cvars
  <2>2. CTypes'
    BY <2>1 DEF CInv, CTypes
  <2>3. NothingPending => NothingPending'
    BY <1>3 DEF NothingPending
  <2>4. CListOK'
    BY <1>3, <2>1, <2>3 DEF CInv, CListOK, OnCtimerList
  <2>5. QueuedOK'
    BY <1>3, <2>1 DEF CInv, QueuedOK
  <2> QED
    BY <1>2, <2>2, <2>4, <2>5 DEF CInv
<1> QED
  BY <1>4, <1>5

LEMMA OtherCalls == ASSUME CInv, OtherPost, UNCHANGED cvars PROVE CInv'
<1>1. UNCHANGED <<timerlist, left>> /\ events' = Append(events, Other)
  BY DEF OtherPost
<1>2. TInv' /\ OnTime'
  BY EventsSound, OthersOnTime DEF CInv
<1>3. events \in Seq(Timer \union {Other}) /\ Len(events) \in Nat
  BY LenProperties DEF CInv, TInv, TypeOK
<1>4. /\ Len(events') = Len(events) + 1 /\ events'[Len(events) + 1] = Other
      /\ \A i \in 1 .. Len(events) : events'[i] = events[i]
      /\ events' \in Seq(Timer \union {Other})
  BY <1>1, <1>3, AppendProperties
<1>5. DOMAIN events' = 1 .. Len(events) + 1 /\ DOMAIN events = 1 .. Len(events)
  BY <1>3, <1>4, LenProperties
<1>6. Queued' = Queued \union {Other}
  <2>1. /\ \A i \in 1 .. Len(events) + 1 : i \in 1 .. Len(events) \/ i = Len(events) + 1
        /\ Len(events) + 1 \in 1 .. Len(events) + 1
        /\ \A i \in 1 .. Len(events) : i \in 1 .. Len(events) + 1
    BY <1>3
  <2> QED
    BY <1>4, <1>5, <2>1 DEF Queued
<1>7. Listed' = Listed /\ Other \notin Timer
  BY <1>1, Clock DEF Listed
<1> QED
  BY <1>1, <1>2, <1>6, <1>7, StillCalls

LEMMA CNextSound == CInv /\ [CNext]_<<vars, cvars>> => CInv'
<1>1. ASSUME CInv, Tick, UNCHANGED cvars PROVE CInv'
  BY <1>1, TickCalls DEF Tick
<1>2. ASSUME CInv, EtimerProcess PROVE CInv'
  BY <1>2, ScanCalls DEF EtimerProcess
<1>3. ASSUME CInv, CClients PROVE CInv'
  BY <1>3, SetCalls, StopCalls, OtherCalls DEF CClients
<1> QED
  BY <1>1, <1>2, <1>3, UpdateCalls, ReceiveCalls, QuietCalls DEF CNext

LEMMA CInitSound == CInit => CInv
<1> SUFFICES ASSUME CInit PROVE CInv
  OBVIOUS
<1>1. TInv /\ OnTime
  BY InitSound, InitOnTime DEF CInit
<1>2. CTypes
  <2>1. ctimer_list \in Seq(Timer)
    BY DEF CInit
  <2> QED
    BY <2>1 DEF CInit, CTypes
<1>3. Listed = {} /\ Queued = {} /\ OnCtimerList = {} /\ Distinct(ctimer_list)
  BY DEF CInit, Init, Listed, Queued, OnCtimerList, Distinct
<1>4. NothingPending
  BY <1>3 DEF CInit, Init, NothingPending
<1> QED
  BY <1>1, <1>2, <1>3, <1>4 DEF CInit, CInv, CListOK, QueuedOK

LEMMA CallsInvariant == CSpec => []CInv
BY CInitSound, CNextSound, PTL DEF CSpec

------------------------------------------------------------------------------
(* A ctimer that was set is not forgotten: it is on the list, and its      *)
(* etimer is pending or has its event queued, also if its own callback     *)
(* sets it or it is set while its event is queued (ctimer.c).              *)
THEOREM CallbacksCorrect == CSpec => []CallbacksSound
<1>1. CInv => CallbacksSound
  BY DEF CInv, TInv, CTypes, CListOK, CallbacksSound, CTypeOK, NoCallbackLost
<1> QED
  BY <1>1, CallsInvariant, PTL

(* Which ctimers call back in a step. *)
LEMMA CallIs ==
  ASSUME CInv, [CNext]_<<vars, cvars>>, NEW t \in Timer, calling # t, calling' = t
  PROVE  t \in armed /\ t \in Queued
<1>1. CASE Receive
  <2>1. Called(Head(events)) /\ events # <<>>
    BY <1>1 DEF Receive, Deliver, cvars
  <2>2. t = Head(events) /\ t \in OnCtimerList
    BY <2>1 DEF Called
  <2>3. Head(events) \in Queued
    <3>1. events \in Seq(Timer \union {Other})
      BY DEF CInv, TInv, TypeOK
    <3>2. Head(events) = events[1] /\ 1 \in DOMAIN events
      BY <2>1, <3>1, HeadTailProperties, LenProperties, EmptySeq
    <3> QED
      BY <3>2 DEF Queued
  <2> QED
    BY <2>2, <2>3 DEF CInv, CListOK
<1>2. CASE CallbackReturns
  BY <1>2, CallbackAssumption DEF CallbackReturns
<1>3. CASE calling' = calling
  BY <1>3
<1>4. Receive \/ CallbackReturns \/ calling' = calling
  BY DEF CNext, cvars, EtimerProcess, ctimer_init, CClients, ctimer_set, ctimer_reset,
         ctimer_restart, ctimer_stop, Add
<1> QED
  BY <1>1, <1>2, <1>3, <1>4

(* A ctimer that was stopped, or has called back, does not call back,      *)
(* although its event may still be in the queue (ctimer.c).                *)
THEOREM StoppedStaysQuiet == CSpec => OnlyArmedCallBack
<1>1. CInv /\ [CNext]_<<vars, cvars>> =>
        [\A t \in Timer : calling # t /\ calling' = t => t \in armed]_<<vars, cvars>>
  BY CallIs
<1> QED
  BY <1>1, CallsInvariant, PTL DEF CSpec, OnlyArmedCallBack

(* No ctimer calls back before its interval has passed, unless it was set  *)
(* while the event of its last expiration was in the queue (ctimer.c).     *)
THEOREM CalledOnTime == CSpec => OnlyRearmedEarly
<1>1. CInv /\ [CNext]_<<vars, cvars>> =>
        [\A t \in Timer : calling # t /\ calling' = t
           => left[t] <= 0 \/ t \in rearmed]_<<vars, cvars>>
  BY CallIs DEF CInv, QueuedOK
<1> QED
  BY <1>1, CallsInvariant, PTL DEF CSpec, OnlyRearmedEarly
==============================================================================
