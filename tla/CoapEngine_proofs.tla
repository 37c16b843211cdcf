--------------------------- MODULE CoapEngine_proofs --------------------------
(***************************************************************************)
(* For any number of transactions, observers, clients, resources and       *)
(* message IDs, any traffic and any expirations of timers: no              *)
(* retransmission is forgotten, a client gets no response but its own      *)
(* unless a stale callback misleads it, and what it has asked for reaches  *)
(* it unless another client disturbs it.  If resources have names of which *)
(* none is a prefix of another, nobody observes one twice; if no message   *)
(* is garbled, or no request received, no client waits in vain.            *)
(***************************************************************************)
EXTENDS CoapEngine, SequenceTheorems, FiniteSetTheorems, WellFoundedInduction, TLAPS

(* What the theorems on observers and clients depend on.                   *)
PrefixFree == \A u, v \in Uri : IsPrefix(u, v) => u = v
Unharmed == ~Garbled \/ Requests = {}

Slot == [packet : [mid : Nat, peer : Peer \union {NULL},
                   client : Client \union {NULL}, block : Nat],
         counter : 0 .. MAX_RETRANSMIT - 1, callback : Client \union {NULL}]
Response == [mid : Nat, peer : Peer, num : Nat \union {NULL}, more : BOOLEAN]
Notification == [uri : Uri \union {<<>>}, next : Nat, con : BOOLEAN,
                 serving : Blocks \union {NULL}]

Distinct(s) == \A i, j \in DOMAIN s : s[i] = s[j] => i = j

Transactions ==
  /\ open \in Seq(Blocks) /\ Distinct(open) /\ slot \in [Blocks -> Slot]
  /\ armed \subseteq Open /\ events \in Nat
  /\ observers \in Seq(Observer) /\ Len(observers) <= MAX_OBSERVERS
  /\ \A t \in Open : slot[t].packet.peer \in Peer

Engine ==
  /\ current \in Blocks \union {NULL}
  /\ loop \in Notification /\ loop.serving \in Open \union {NULL}
  /\ stored \in [con : BOOLEAN, peer : Peer] \union {NULL}

Clients ==
  /\ polled \subseteq Client /\ want \in [Client -> Mid \union {0}]
  /\ response \in [Client -> Response \union {NULL}]
  /\ block_num \in [Client -> Nat] /\ more \in BOOLEAN
  /\ res_block \in Nat /\ block_error \in Nat
  /\ misled \subseteq Client /\ disturbed \subseteq Client

TInv == Transactions /\ Engine /\ Clients /\ NoRetransmissionForgotten

(* The transaction of the request that c waits for.                        *)
Asking(t, c) ==
  /\ slot[t].packet.mid = want[c] /\ slot[t].packet.client = c
  /\ slot[t].callback = c

(* A message that a client sends calls it back, and is not the response    *)
(* that a notification waits for.                                          *)
CInv ==
  /\ \A c \in Client :
       want[c] # 0 => c \in polled \/ \E t \in Open : Asking(t, c)
  /\ loop.serving # NULL => slot[loop.serving].packet.client = NULL
  /\ Requests = {} => current = NULL

(* The messages that may be answered have different IDs.                   *)
DifferentIDs ==
  \A t, u \in Open \ {loop.serving} :
    slot[t].packet.mid = slot[u].packet.mid => t = u

(* The request of a client calls it back, and asks for its next block.     *)
Asks(t) ==
  LET sent == slot[t].packet IN
  sent.client # NULL =>
    /\ slot[t].callback = sent.client /\ sent.mid # 0
    /\ sent.mid = want[sent.client] => sent.block = block_num[sent.client]

(* A client that only its own requests call back has one open, or has been *)
(* polled for it, or has none.                                             *)
Own(c) ==
  /\ c \in polled =>
       want[c] # 0 /\ (response[c] # NULL => response[c].mid = want[c])
  /\ \A t \in Open : slot[t].packet.client = c =>
       c \notin polled /\ want[c] # 0 /\ slot[t].packet.mid = want[c]

(* What a client finds in its response and in the shared variables.        *)
NextBlock(c) ==
  response[c] # NULL /\ response[c].num # NULL =>
    /\ LastBlock[c] # NULL
    /\ response[c].mid = want[c] => response[c].num = block_num[c]

Untouched(c) ==
  want[c] # 0 /\ Spared(c) => res_block = 0 /\ more = FALSE /\ block_num[c] = 0

RInv ==
  /\ DifferentIDs
  /\ loop.serving # NULL => slot[loop.serving].packet.client = NULL
  /\ \A t \in Open : Asks(t)
  /\ \A c \in Client : (c \notin misled => Own(c)) /\ NextBlock(c) /\ Untouched(c)

------------------------------------------------------------------------------
(* Lists. *)

LEMMA Least ==
  ASSUME NEW S \in SUBSET Nat, S # {}
  PROVE  \E m \in S : \A n \in S : m <= n
<1> DEFINE R == OpToRel(<, Nat)
<1>1. IsWellFoundedOn(R, Nat)
  BY NatLessThanWellFounded
<1>2. \A m, n \in Nat : <<n, m>> \in R <=> n < m
  BY DEF OpToRel
<1> HIDE DEF R
<1>3. PICK m \in S : \A n \in S : ~(<<n, m>> \in R)
  BY <1>1, WFMin
<1>4. ASSUME NEW n \in S PROVE m <= n
  <2>1. ~(n < m) /\ m \in Nat /\ n \in Nat
    BY <1>2, <1>3
  <2> QED
    BY <2>1
<1> QED
  BY <1>4

LEMMA RemoveAtIs ==
  ASSUME NEW S, NEW s \in Seq(S), NEW k \in 1 .. Len(s)
  PROVE  /\ RemoveAt(s, k) \in Seq(S) /\ Len(RemoveAt(s, k)) = Len(s) - 1
         /\ \A i \in 1 .. Len(s) - 1 :
              RemoveAt(s, k)[i] = IF i < k THEN s[i] ELSE s[i + 1]
<1> DEFINE a == SubSeq(s, 1, k - 1)
           b == SubSeq(s, k + 1, Len(s))
<1>1. /\ Len(s) \in Nat /\ k \in Int /\ k - 1 \in Int /\ k + 1 \in Int /\ 1 \in Int
      /\ \A i \in 1 .. Len(s) : s[i] \in S
  BY ElementOfSeq
<1>2. a \in Seq(S) /\ Len(a) = k - 1 /\ \A i \in 1 .. k - 1 : a[i] = s[i]
  <2>1. \A i \in 1 .. k - 1 : s[i] \in S
    BY <1>1
  <2>2. /\ a \in Seq(S) /\ Len(a) = IF 1 <= k - 1 THEN (k - 1) - 1 + 1 ELSE 0
        /\ \A i \in 1 .. (k - 1) - 1 + 1 : a[i] = s[1 + i - 1]
    BY <1>1, <2>1, SubSeqProperties
  <2> QED
    BY <1>1, <2>2
<1>3. b \in Seq(S) /\ Len(b) = Len(s) - k /\ \A i \in 1 .. Len(s) - k : b[i] = s[k + i]
  <2>1. \A i \in k + 1 .. Len(s) : s[i] \in S
    BY <1>1
  <2>2. /\ b \in Seq(S) /\ Len(b) = IF k + 1 <= Len(s) THEN Len(s) - (k + 1) + 1 ELSE 0
        /\ \A i \in 1 .. Len(s) - (k + 1) + 1 : b[i] = s[(k + 1) + i - 1]
    BY <1>1, <2>1, SubSeqProperties
  <2> QED
    BY <1>1, <2>2
<1> HIDE DEF a, b
<1>4. RemoveAt(s, k) = a \o b
  BY DEF RemoveAt, a, b
<1>5. /\ a \o b \in Seq(S) /\ Len(a \o b) = Len(a) + Len(b)
      /\ \A i \in 1 .. Len(a) + Len(b) :
           (a \o b)[i] = IF i <= Len(a) THEN a[i] ELSE b[i - Len(a)]
  BY <1>2, <1>3, ConcatProperties
<1>6. Len(a) + Len(b) = Len(s) - 1
  BY <1>1, <1>2, <1>3
<1>7. ASSUME NEW i \in 1 .. Len(s) - 1
      PROVE  (a \o b)[i] = IF i < k THEN s[i] ELSE s[i + 1]
  <2>1. (a \o b)[i] = IF i <= Len(a) THEN a[i] ELSE b[i - Len(a)]
    BY <1>5, <1>6
  <2>2. CASE i < k
    BY <1>1, <1>2, <2>1, <2>2
  <2>3. CASE ~(i < k)
    <3>1. ~(i <= Len(a)) /\ i - Len(a) \in 1 .. Len(s) - k /\ k + (i - Len(a)) = i + 1
      BY <1>1, <1>2, <2>3
    <3> QED
      BY <1>3, <2>1, <2>3, <3>1
  <2> QED
    BY <2>2, <2>3
<1> QED
  BY <1>4, <1>5, <1>6, <1>7

(* An element that is on a list once is not on it when it is taken away.   *)
LEMMA RemoveAtElements ==
  ASSUME NEW S, NEW s \in Seq(S), Distinct(s), NEW k \in 1 .. Len(s)
  PROVE  /\ RemoveAt(s, k) \in Seq(S) /\ Distinct(RemoveAt(s, k))
         /\ ToSet(RemoveAt(s, k)) = ToSet(s) \ {s[k]}
<1> DEFINE r == RemoveAt(s, k)
<1>1. /\ r \in Seq(S) /\ Len(r) = Len(s) - 1 /\ Len(s) \in Nat
      /\ \A i \in 1 .. Len(s) - 1 : r[i] = IF i < k THEN s[i] ELSE s[i + 1]
  BY RemoveAtIs
<1>2. DOMAIN r = 1 .. Len(s) - 1 /\ DOMAIN s = 1 .. Len(s)
  BY <1>1, LenProperties
<1> HIDE DEF r
<1>3. Distinct(r)
  BY SMTT(60), <1>1, <1>2 DEF Distinct
<1>4. ASSUME NEW i \in 1 .. Len(s) - 1 PROVE r[i] \in ToSet(s) /\ r[i] # s[k]
  <2>1. CASE i < k
    BY <1>1, <1>2, <2>1 DEF ToSet, Distinct
  <2>2. CASE ~(i < k)
    <3>1. i + 1 \in 1 .. Len(s) /\ i + 1 # k /\ r[i] = s[i + 1]
      BY <1>1, <2>2
    <3> QED
      BY <1>2, <3>1 DEF ToSet, Distinct
  <2> QED
    BY <2>1, <2>2
<1>5. ASSUME NEW i \in 1 .. Len(s), i # k PROVE s[i] \in ToSet(r)
  <2>1. CASE i < k
    <3>1. i \in 1 .. Len(s) - 1
      BY <1>1, <2>1
    <3> QED
      BY <1>1, <1>2, <2>1, <3>1 DEF ToSet
  <2>2. CASE ~(i < k)
    <3>1. i - 1 \in 1 .. Len(s) - 1 /\ ~(i - 1 < k) /\ (i - 1) + 1 = i
      BY <1>1, <1>5, <2>2
    <3> QED
      BY <1>1, <1>2, <3>1 DEF ToSet
  <2> QED
    BY <2>1, <2>2
<1>6. ToSet(r) = ToSet(s) \ {s[k]}
  BY <1>2, <1>4, <1>5 DEF ToSet
<1> QED
  BY <1>1, <1>3, <1>6 DEF r

LEMMA RemoveFirstElements ==
  ASSUME NEW S, NEW s \in Seq(S), Distinct(s), NEW e
  PROVE  /\ RemoveFirst(s, e) \in Seq(S) /\ Distinct(RemoveFirst(s, e))
         /\ ToSet(RemoveFirst(s, e)) = ToSet(s) \ {e}
<1>1. DOMAIN s = 1 .. Len(s) /\ Len(s) \in Nat
  BY LenProperties
<1>2. CASE \E i \in 1 .. Len(s) : s[i] = e
  <2> DEFINE I == {i \in 1 .. Len(s) : s[i] = e}
  <2>1. I \in SUBSET Nat /\ I # {}
    BY <1>1, <1>2
  <2>2. PICK k \in I : \A n \in I : k <= n
    BY <2>1, Least
  <2>3. Min(I) \in I
    BY <2>2 DEF Min
  <2>4. RemoveFirst(s, e) = RemoveAt(s, Min(I))
    BY <1>2, <2>1 DEF RemoveFirst, SelectInSeq
  <2> HIDE DEF I
  <2>5. Min(I) \in 1 .. Len(s) /\ s[Min(I)] = e
    BY <2>3 DEF I
  <2> QED
    BY <2>4, <2>5, RemoveAtElements
<1>3. CASE ~(\E i \in 1 .. Len(s) : s[i] = e)
  BY <1>1, <1>3 DEF RemoveFirst, ToSet
<1> QED
  BY <1>2, <1>3

(* The indices that a search of a list finds.                              *)
LEMMA FirstIs ==
  ASSUME NEW S, NEW s \in Seq(S), NEW I \in SUBSET DOMAIN s, I # {}
  PROVE  /\ Min(I) \in I /\ \A i \in I : Min(I) <= i
         /\ Min(I) \in 1 .. Len(s) /\ s[Min(I)] \in ToSet(s) /\ s[Min(I)] \in S
<1>1. DOMAIN s = 1 .. Len(s) /\ Len(s) \in Nat
  BY LenProperties
<1>2. I \in SUBSET Nat
  BY <1>1
<1>3. PICK k \in I : \A i \in I : k <= i
  BY <1>2, Least
<1>4. Min(I) \in I /\ \A i \in I : Min(I) <= i
  BY <1>3 DEF Min
<1>5. Min(I) \in 1 .. Len(s)
  BY <1>1, <1>4
<1>6. s[Min(I)] \in S
  BY <1>5, ElementOfSeq
<1> QED BY <1>1, <1>4, <1>5, <1>6 DEF ToSet

LEMMA CountIs ==
  ASSUME NEW S, NEW s \in Seq(S), Distinct(s)
  PROVE  /\ IsFiniteSet(ToSet(s)) /\ Cardinality(ToSet(s)) = Len(s)
         /\ ToSet(s) \subseteq S /\ Len(s) \in Nat
<1>1. DOMAIN s = 1 .. Len(s) /\ Len(s) \in Nat /\ s = [i \in 1 .. Len(s) |-> s[i]]
  BY LenProperties
<1>2. s \in Bijection(1 .. Len(s), ToSet(s))
  BY <1>1 DEF Bijection, Injection, IsInjective, Surjection, ToSet, Distinct
<1>3. ExistsBijection(1 .. Len(s), ToSet(s))
  BY <1>2 DEF ExistsBijection
<1>4. IsFiniteSet(1 .. Len(s)) /\ Cardinality(1 .. Len(s)) = Len(s)
  <2>1. 1 \in Int /\ Len(s) \in Int BY <1>1
  <2>2. /\ IsFiniteSet(1 .. Len(s))
        /\ Cardinality(1 .. Len(s)) = IF 1 > Len(s) THEN 0 ELSE Len(s) - 1 + 1
    BY <2>1, FS_Interval
  <2> QED BY <1>1, <2>2
<1>5. /\ IsFiniteSet(ToSet(s)) /\ Cardinality(ToSet(s)) = Cardinality(1 .. Len(s))
  BY <1>3, <1>4, FS_Bijection
<1>6. ToSet(s) \subseteq S
  BY <1>1, ElementOfSeq DEF ToSet
<1> QED BY <1>1, <1>4, <1>5, <1>6

LEMMA Appended ==
  ASSUME NEW S, NEW s \in Seq(S), NEW e \in S
  PROVE  /\ Append(s, e) \in Seq(S) /\ Len(Append(s, e)) = Len(s) + 1
         /\ Len(s) \in Nat /\ ToSet(Append(s, e)) = ToSet(s) \union {e}
         /\ Distinct(s) /\ e \notin ToSet(s) => Distinct(Append(s, e))
<1> DEFINE r == Append(s, e)
<1>1. /\ r \in Seq(S) /\ Len(r) = Len(s) + 1 /\ Len(s) \in Nat
      /\ r[Len(s) + 1] = e /\ \A i \in 1 .. Len(s) : r[i] = s[i]
  BY AppendProperties, LenProperties
<1>2. DOMAIN r = 1 .. Len(s) + 1 /\ DOMAIN s = 1 .. Len(s)
  BY <1>1, LenProperties
<1> HIDE DEF r
<1>3. \A i \in 1 .. Len(s) + 1 : i \in 1 .. Len(s) \/ i = Len(s) + 1
  BY <1>1
<1>4. \A i \in 1 .. Len(s) : i \in 1 .. Len(s) + 1 /\ s[i] \in ToSet(s)
  BY <1>1, <1>2 DEF ToSet
<1>5. ToSet(r) = ToSet(s) \union {e}
  <2>1. \A i \in DOMAIN r : r[i] \in ToSet(s) \union {e}
    BY <1>1, <1>2, <1>3, <1>4
  <2>2. \A i \in DOMAIN s : s[i] \in ToSet(r)
    BY <1>1, <1>2, <1>4 DEF ToSet
  <2>3. e \in ToSet(r)
    <3>1. Len(s) + 1 \in DOMAIN r BY <1>1, <1>2
    <3> QED BY <1>1, <3>1 DEF ToSet
  <2> QED BY <2>1, <2>2, <2>3 DEF ToSet
<1>6. ASSUME Distinct(s), e \notin ToSet(s)
      PROVE  Distinct(r)
  BY <1>1, <1>2, <1>3, <1>4, <1>6 DEF Distinct
<1> QED BY <1>1, <1>5, <1>6 DEF r

LEMMA Fewer ==
  ASSUME NEW S, IsFiniteSet(S), NEW n \in Nat, Cardinality(S) <= n, NEW T \in SUBSET S
  PROVE  Cardinality(T) <= n
<1>1. IsFiniteSet(T) /\ Cardinality(T) <= Cardinality(S)
  BY FS_Subset
<1>2. Cardinality(S) \in Nat /\ Cardinality(T) \in Nat
  BY <1>1, FS_CardinalityType
<1> QED BY <1>1, <1>2

------------------------------------------------------------------------------
(* Transactions. *)

LEMMA Types ==
  ASSUME Transactions
  PROVE  /\ Open \subseteq Blocks /\ Blocks \subseteq Nat /\ NULL \notin Blocks
         /\ IsFiniteSet(Open) /\ Cardinality(Open) = Len(open)
         /\ Cardinality(Open) <= MAX_OPEN /\ Cardinality(Open) \in Nat
         /\ IsFiniteSet(Expired) /\ Expired \subseteq Open
<1>1. Blocks \subseteq Nat /\ NULL \notin Blocks /\ MAX_OPEN \in Nat
  BY CoapAssumption DEF Blocks
<1>2. /\ IsFiniteSet(Open) /\ Cardinality(Open) = Len(open) /\ Open \subseteq Blocks
      /\ Len(open) \in Nat
  BY CountIs DEF Transactions, Open
<1>3. IsFiniteSet(Blocks) /\ Cardinality(Blocks) = MAX_OPEN
  <2>1. /\ IsFiniteSet(1 .. MAX_OPEN)
        /\ Cardinality(1 .. MAX_OPEN) = IF 1 > MAX_OPEN THEN 0 ELSE MAX_OPEN - 1 + 1
    BY <1>1, FS_Interval
  <2> QED BY <1>1, <2>1, CoapAssumption DEF Blocks
<1>4. Cardinality(Open) <= MAX_OPEN
  BY <1>2, <1>3, FS_Subset
<1>5. Expired \subseteq Open BY DEF Expired
<1>6. IsFiniteSet(Expired) BY <1>2, <1>5, FS_Subset
<1> QED BY <1>1, <1>2, <1>4, <1>5, <1>6

LEMMA FreeBlock ==
  ASSUME Transactions, Free # {}
  PROVE  FirstFree \in Free /\ FirstFree \in Blocks /\ FirstFree \notin Open
<1>1. Free \in SUBSET Nat BY Types DEF Free
<1>2. PICK m \in Free : \A n \in Free : m <= n BY <1>1, Least
<1>3. FirstFree \in Free BY <1>2 DEF FirstFree
<1> QED BY <1>3 DEF Free

(* There are more message IDs than messages that may be answered.          *)
LEMMA FreshMid ==
  ASSUME Transactions
  PROVE  /\ Fresh \in Mid /\ Fresh \in Nat /\ Fresh # 0
         /\ \A t \in Open : slot[t].packet.mid # Fresh
<1> DEFINE A == {slot[t].packet.mid : t \in Open}
           B == {o.last_mid : o \in ToSet(observers)}
           f == [t \in Open |-> slot[t].packet.mid]
           g == [i \in 1 .. Len(observers) |-> observers[i].last_mid]
<1>1. IsFiniteSet(A) /\ Cardinality(A) <= MAX_OPEN /\ Cardinality(A) \in Nat
  <2>1. f \in Surjection(Open, A) BY DEF Surjection
  <2>2. IsFiniteSet(A) /\ Cardinality(A) <= Cardinality(Open)
    BY <2>1, Types, FS_Surjection
  <2>3. Cardinality(A) \in Nat BY <2>2, FS_CardinalityType
  <2> QED BY <2>2, <2>3, Types, CoapAssumption
<1>2. IsFiniteSet(B) /\ Cardinality(B) <= MAX_OBSERVERS /\ Cardinality(B) \in Nat
  <2>1. DOMAIN observers = 1 .. Len(observers) /\ Len(observers) \in Nat
        /\ Len(observers) <= MAX_OBSERVERS
    BY LenProperties DEF Transactions
  <2>2. g \in Surjection(1 .. Len(observers), B) BY <2>1 DEF Surjection, ToSet
  <2>3. /\ IsFiniteSet(1 .. Len(observers))
        /\ Cardinality(1 .. Len(observers)) =
             IF 1 > Len(observers) THEN 0 ELSE Len(observers) - 1 + 1
    BY <2>1, FS_Interval
  <2>4. IsFiniteSet(B) /\ Cardinality(B) <= Cardinality(1 .. Len(observers))
    BY <2>2, <2>3, FS_Surjection
  <2>5. Cardinality(B) \in Nat BY <2>4, FS_CardinalityType
  <2> QED BY <2>1, <2>3, <2>4, <2>5, CoapAssumption
<1>3. InUse = A \union B BY DEF InUse
<1> HIDE DEF A, B
<1>4. /\ IsFiniteSet(InUse)
      /\ Cardinality(InUse) <= MAX_OPEN + MAX_OBSERVERS /\ Cardinality(InUse) \in Nat
  <2>1. /\ IsFiniteSet(A \union B)
        /\ Cardinality(A \union B) = Cardinality(A) + Cardinality(B) - Cardinality(A \cap B)
    BY <1>1, <1>2, FS_Union
  <2>2. Cardinality(A \union B) \in Nat BY <2>1, FS_CardinalityType
  <2>3. Cardinality(A \cap B) \in Nat
    BY <1>1, FS_Intersection, FS_CardinalityType
  <2> QED BY <1>1, <1>2, <1>3, <2>1, <2>2, <2>3, CoapAssumption
<1>5. Mid \ InUse # {}
  <2> SUFFICES ASSUME Mid \subseteq InUse PROVE FALSE
    OBVIOUS
  <2>1. Cardinality(Mid) <= Cardinality(InUse) BY <1>4, FS_Subset
  <2>2. Cardinality(Mid) \in Nat BY CoapAssumption, FS_CardinalityType
  <2> QED BY <1>4, <2>1, <2>2, CoapAssumption
<1>6. Mid \ InUse \in SUBSET Nat BY CoapAssumption
<1>7. PICK m \in Mid \ InUse : \A n \in Mid \ InUse : m <= n BY <1>5, <1>6, Least
<1>8. Fresh \in Mid \ InUse BY <1>7 DEF Fresh
<1> QED BY <1>3, <1>8, CoapAssumption DEF A

(* coap_get_transaction_by_mid finds one with the ID, if there is one.     *)
LEMMA ByMidIs ==
  ASSUME Transactions, NEW mid, NEW p
  PROVE  \/ /\ ByMid(mid, p) = NULL
            /\ \A t \in Open : slot[t].packet.mid # mid
         \/ /\ ByMid(mid, p) # NULL /\ ByMid(mid, p) \in Open
            /\ ByMid(mid, p) \in Blocks /\ slot[ByMid(mid, p)].packet.mid = mid
<1> DEFINE I == {i \in DOMAIN open : Matches(open[i], mid, p)}
<1>1. open \in Seq(Blocks) BY DEF Transactions
<1>2. CASE I = {}
  <2>1. ByMid(mid, p) = NULL BY <1>2 DEF ByMid
  <2>2. \A i \in DOMAIN open : slot[open[i]].packet.mid # mid BY <1>2 DEF Matches
  <2> QED BY <2>1, <2>2 DEF Open, ToSet
<1>3. CASE I # {}
  <2>1. ByMid(mid, p) = open[Min(I)] BY <1>3 DEF ByMid
  <2>2. I \in SUBSET DOMAIN open OBVIOUS
  <2>3. Min(I) \in I /\ open[Min(I)] \in Open
    BY <1>1, <1>3, <2>2, FirstIs DEF Open
  <2>4. slot[open[Min(I)]].packet.mid = mid BY <2>3 DEF Matches
  <2> QED BY <2>1, <2>3, <2>4, Types
<1> QED BY <1>2, <1>3

(* The transaction that times out is one with no retransmission left, and  *)
(* those that are retransmitted have one.                                  *)
LEMMA TimedOutIs ==
  ASSUME Transactions
  PROVE  /\ \/ TimedOut = NULL /\ Retransmitted = Expired
            \/ /\ TimedOut # NULL /\ TimedOut \in Expired /\ TimedOut \in Blocks
               /\ TimedOut \notin Retransmitted
         /\ Retransmitted \subseteq Expired
         /\ \A t \in Retransmitted : ~GivesUp(t)
<1> DEFINE I == {i \in DOMAIN open : open[i] \in Expired /\ GivesUp(open[i])}
<1>1. open \in Seq(Blocks) BY DEF Transactions
<1>2. CASE I = {}
  <2>1. TimedOut = NULL BY <1>2 DEF TimedOut
  <2>2. Retransmitted = Expired BY <2>1 DEF Retransmitted
  <2>3. \A i \in DOMAIN open : open[i] \in Expired => ~GivesUp(open[i]) BY <1>2
  <2>4. \A t \in Expired : \E i \in DOMAIN open : t = open[i]
    BY DEF Expired, Open, ToSet
  <2> QED BY <2>1, <2>2, <2>3, <2>4
<1>3. CASE I # {}
  <2>1. TimedOut = open[Min(I)] BY <1>3 DEF TimedOut
  <2>2. I \in SUBSET DOMAIN open OBVIOUS
  <2>3. Min(I) \in I /\ \A i \in I : Min(I) <= i
    BY <1>1, <1>3, <2>2, FirstIs
  <2>4. Min(I) \in DOMAIN open /\ TimedOut \in Expired BY <2>1, <2>3
  <2>5. TimedOut \in Blocks /\ TimedOut # NULL BY <2>4, Types
  <2>6. Retransmitted = Expired \intersect Before(TimedOut) BY <2>5 DEF Retransmitted
  <2>7. DOMAIN open = 1 .. Len(open) /\ Len(open) \in Nat
    BY <1>1, LenProperties
  <2>8. TimedOut \notin Before(TimedOut)
    <3> SUFFICES ASSUME TimedOut \in Before(TimedOut) PROVE FALSE
      OBVIOUS
    <3>1. Min(I) < Min(I) BY <2>1, <2>4 DEF Before
    <3> QED BY <2>4, <2>7, <3>1
  <2>9. ASSUME NEW t \in Expired, t \in Before(TimedOut), GivesUp(t)
        PROVE  FALSE
    <3>1. PICK i \in DOMAIN open : t = open[i] BY <2>9 DEF Expired, Open, ToSet
    <3>2. i < Min(I) BY <2>1, <2>4, <2>9, <3>1 DEF Before
    <3>3. i \in I BY <2>9, <3>1
    <3>4. Min(I) <= i BY <2>3, <3>3
    <3> QED BY <2>4, <2>7, <3>1, <3>2, <3>4
  <2> QED BY <2>4, <2>5, <2>6, <2>8, <2>9
<1> QED BY <1>2, <1>3

(* coap_clear_transaction.                                                 *)
LEMMA ClearIs ==
  ASSUME Transactions, NEW t \in Blocks, Clear(t)
  PROVE  /\ open' \in Seq(Blocks) /\ Distinct(open') /\ slot' \in [Blocks -> Slot]
         /\ Open' = Open \ {t} /\ armed' = armed \ {t} /\ Expired' = Expired \ {t}
         /\ \A u \in Blocks : u # t => slot'[u] = slot[u]
<1>1. open' = RemoveFirst(open, t) /\ slot' = [slot EXCEPT ![t] = Cleared(t)]
      /\ armed' = armed \ {t}
  BY DEF Clear, TimerOnClear
<1>2. open' \in Seq(Blocks) /\ Distinct(open') /\ ToSet(open') = ToSet(open) \ {t}
  BY <1>1, RemoveFirstElements DEF Transactions
<1>3. Open' = Open \ {t} BY <1>2 DEF Open
<1>4. slot \in [Blocks -> Slot] /\ slot[t] \in Slot BY DEF Transactions
<1>5. Cleared(t) \in Slot
  BY <1>4, CoapAssumption DEF Cleared, Blank, Message, Slot
<1>6. slot' \in [Blocks -> Slot] /\ \A u \in Blocks : u # t => slot'[u] = slot[u]
  BY <1>1, <1>4, <1>5
<1>7. Expired' = Open' \ armed' BY DEF Expired
<1>8. Expired' = Expired \ {t} BY <1>1, <1>3, <1>7 DEF Expired
<1> QED BY <1>1, <1>2, <1>3, <1>6, <1>8

(* coap_send_transaction with a confirmable message.                       *)
LEMMA ConfirmableIs ==
  ASSUME Transactions, NEW t \in Free, NEW packet, NEW c \in Client \union {NULL},
         packet \in [mid : Nat, peer : Peer, client : Client \union {NULL}, block : Nat],
         Confirmable(t, packet, c)
  PROVE  /\ open' \in Seq(Blocks) /\ Distinct(open') /\ slot' \in [Blocks -> Slot]
         /\ Open' = Open \union {t} /\ armed' = armed \union {t} /\ Expired' = Expired
         /\ \A u \in Blocks : u # t => slot'[u] = slot[u]
         /\ t \in Blocks /\ t \notin Open
         /\ slot'[t].packet = packet /\ slot'[t].callback = c
<1>1. /\ open' = Append(open, t) /\ armed' = armed \union {t}
      /\ slot' = [slot EXCEPT ![t] = [packet |-> packet, counter |-> 0, callback |-> c]]
  BY DEF Confirmable
<1>2. t \in Blocks /\ t \notin Open BY DEF Free
<1>3. /\ open' \in Seq(Blocks) /\ Distinct(open')
      /\ ToSet(open') = ToSet(open) \union {t}
  BY <1>1, <1>2, Appended DEF Transactions, Open
<1>4. Open' = Open \union {t} BY <1>3 DEF Open
<1>5. slot \in [Blocks -> Slot] BY DEF Transactions
<1>6. [packet |-> packet, counter |-> 0, callback |-> c] \in Slot
  BY CoapAssumption DEF Slot
<1>7. slot' \in [Blocks -> Slot] /\ \A u \in Blocks : u # t => slot'[u] = slot[u]
  BY <1>1, <1>5, <1>6
<1>8. slot'[t].packet = packet /\ slot'[t].callback = c
  BY <1>1, <1>2, <1>5
<1>9. Expired' = Open' \ armed' BY DEF Expired
<1>10. Expired' = Expired BY <1>1, <1>2, <1>4, <1>9 DEF Expired
<1> QED BY <1>1, <1>2, <1>3, <1>4, <1>7, <1>8, <1>10

(* coap_check_transactions.                                                *)
LEMMA CheckIs ==
  ASSUME Transactions, CheckTransactions
  PROVE  /\ open' \in Seq(Blocks) /\ Distinct(open') /\ slot' \in [Blocks -> Slot]
         /\ Open' = Open \ {TimedOut} /\ armed' \subseteq Open'
         /\ \A u \in Blocks : u # TimedOut =>
              slot'[u].packet = slot[u].packet /\ slot'[u].callback = slot[u].callback
         /\ TimedOut = NULL => Expired' = {}
         /\ TimedOut # NULL => TimedOut \in Expired /\ Expired' \subseteq Expired \ {TimedOut}
<1> DEFINE R == Retransmitted
<1>1. /\ open' = RemoveFirst(open, TimedOut) /\ armed' = armed \union R
      /\ slot' = [t \in Blocks |->
                    IF t = TimedOut THEN Cleared(t)
                    ELSE IF t \in R THEN [slot[t] EXCEPT !.counter = @ + 1]
                    ELSE slot[t]]
  BY DEF CheckTransactions, Rearmed
<1>2. /\ \/ TimedOut = NULL /\ R = Expired
         \/ /\ TimedOut # NULL /\ TimedOut \in Expired /\ TimedOut \in Blocks
            /\ TimedOut \notin R
      /\ R \subseteq Expired
      /\ \A t \in R : ~GivesUp(t)
  BY TimedOutIs
<1> HIDE DEF R
<1>3. /\ open' \in Seq(Blocks) /\ Distinct(open')
      /\ ToSet(open') = ToSet(open) \ {TimedOut}
  BY <1>1, RemoveFirstElements DEF Transactions
<1>4. Open' = Open \ {TimedOut} BY <1>3 DEF Open
<1>5. slot \in [Blocks -> Slot] /\ armed \subseteq Open BY DEF Transactions
<1>6. ASSUME NEW t \in Blocks
      PROVE  /\ slot'[t] \in Slot
             /\ t # TimedOut => slot'[t].packet = slot[t].packet
                                /\ slot'[t].callback = slot[t].callback
  <2>1. slot[t] \in Slot BY <1>5
  <2>2. CASE t = TimedOut
    <3>1. slot'[t] = Cleared(t) BY <1>1, <2>2
    <3> QED BY <2>1, <2>2, <3>1, CoapAssumption DEF Cleared, Blank, Message, Slot
  <2>3. CASE t # TimedOut /\ t \in R
    <3>1. slot'[t] = [slot[t] EXCEPT !.counter = @ + 1] BY <1>1, <2>3
    <3>2. slot[t].counter + 1 # MAX_RETRANSMIT BY <1>2, <2>3 DEF GivesUp
    <3>3. slot[t].counter \in 0 .. MAX_RETRANSMIT - 1 BY <2>1 DEF Slot
    <3>4. slot[t].counter + 1 \in 0 .. MAX_RETRANSMIT - 1
      BY <3>2, <3>3, CoapAssumption
    <3> QED BY <2>1, <3>1, <3>4 DEF Slot
  <2>4. CASE t # TimedOut /\ t \notin R
    <3>1. slot'[t] = slot[t] BY <1>1, <2>4
    <3> QED BY <2>1, <3>1
  <2> QED BY <2>2, <2>3, <2>4
<1>7. slot' \in [Blocks -> Slot] BY <1>1, <1>6
<1>8. Expired' = Open' \ armed' BY DEF Expired
<1>9. armed' \subseteq Open'
  <2>1. CASE TimedOut = NULL
    <3>1. NULL \notin Open BY Types
    <3> QED BY <1>1, <1>2, <1>4, <1>5, <2>1, <3>1 DEF Expired
  <2>2. CASE TimedOut # NULL
    BY <1>1, <1>2, <1>4, <1>5, <2>2 DEF Expired
  <2> QED BY <2>1, <2>2
<1>10. TimedOut = NULL => Expired' = {}
  BY <1>1, <1>2, <1>4, <1>8 DEF Expired
<1>11. TimedOut # NULL => TimedOut \in Expired /\ Expired' \subseteq Expired \ {TimedOut}
  BY <1>1, <1>2, <1>4, <1>8 DEF Expired
<1> QED BY <1>3, <1>4, <1>6, <1>7, <1>9, <1>10, <1>11

(* What these steps do to the invariant. *)

LEMMA Known ==
  ASSUME Transactions, NoRetransmissionForgotten, NEW T \in SUBSET (Expired \ {loop.serving})
  PROVE  Cardinality(T) <= events
<1>1. IsFiniteSet(Expired \ {loop.serving})
  BY Types, FS_Difference
<1>2. events \in Nat BY DEF Transactions
<1> QED BY <1>1, <1>2, Fewer DEF NoRetransmissionForgotten

(* An open transaction whose notifications are under way may be ended.     *)
LEMMA ClearSound ==
  ASSUME Transactions, NoRetransmissionForgotten, NEW t \in Blocks, Clear(t),
         events' = events,
         observers' \in Seq(Observer), Len(observers') <= MAX_OBSERVERS,
         \/ loop' = loop
         \/ loop'.serving = NULL /\ loop.serving \in {NULL, t}
  PROVE  Transactions' /\ NoRetransmissionForgotten'
<1>1. /\ open' \in Seq(Blocks) /\ Distinct(open') /\ slot' \in [Blocks -> Slot]
      /\ Open' = Open \ {t} /\ armed' = armed \ {t} /\ Expired' = Expired \ {t}
      /\ \A u \in Blocks : u # t => slot'[u] = slot[u]
  BY ClearIs
<1>2. \A u \in Open' : slot'[u].packet.peer \in Peer
  BY <1>1, Types DEF Transactions
<1>3. Transactions'
  BY <1>1, <1>2 DEF Transactions
<1>4. Expired' \ {loop'.serving} \subseteq Expired \ {loop.serving}
  BY <1>1
<1>5. NoRetransmissionForgotten'
  BY <1>4, Known DEF NoRetransmissionForgotten
<1> QED BY <1>3, <1>5

LEMMA SendSound ==
  ASSUME Transactions, NoRetransmissionForgotten,
         NEW t \in Free, NEW packet, NEW c \in Client \union {NULL},
         packet \in [mid : Nat, peer : Peer, client : Client \union {NULL}, block : Nat],
         Confirmable(t, packet, c), events' = events, loop'.serving = loop.serving,
         observers' \in Seq(Observer), Len(observers') <= MAX_OBSERVERS
  PROVE  Transactions' /\ NoRetransmissionForgotten' /\ Open \subseteq Open'
<1>1. /\ open' \in Seq(Blocks) /\ Distinct(open') /\ slot' \in [Blocks -> Slot]
      /\ Open' = Open \union {t} /\ armed' = armed \union {t} /\ Expired' = Expired
      /\ \A u \in Blocks : u # t => slot'[u] = slot[u]
      /\ slot'[t].packet = packet
  BY ConfirmableIs
<1>2. \A u \in Open' : slot'[u].packet.peer \in Peer
  BY <1>1, Types DEF Transactions
<1>3. Transactions'
  BY <1>1, <1>2 DEF Transactions
<1>4. NoRetransmissionForgotten'
  BY <1>1, Known DEF NoRetransmissionForgotten
<1> QED BY <1>1, <1>3, <1>4

LEMMA SameSound ==
  ASSUME Transactions, NoRetransmissionForgotten,
         UNCHANGED <<open, slot, armed, events>>, loop'.serving = loop.serving,
         observers' \in Seq(Observer), Len(observers') <= MAX_OBSERVERS
  PROVE  Transactions' /\ NoRetransmissionForgotten' /\ Open' = Open
<1>1. Open' = Open /\ Expired' = Expired BY DEF Open, Expired
<1>2. Transactions' BY <1>1 DEF Transactions
<1>3. NoRetransmissionForgotten' BY <1>1, Known DEF NoRetransmissionForgotten
<1> QED BY <1>1, <1>2, <1>3

LEMMA ExpiresSound ==
  ASSUME TInv, NEW t \in Blocks, TimerExpires(t)
  PROVE  TInv'
<1>1. /\ t \in armed /\ armed' = armed \ {t} /\ events' = events + 1 /\ loop = Idle
      /\ UNCHANGED <<open, slot, observers, evars, cvars, hvars>>
  BY DEF TimerExpires, Ready
<1>2. Open' = Open /\ Expired' = Expired \union {t}
  BY <1>1 DEF Open, Expired, TInv, Transactions
<1>3. loop.serving = NULL /\ NULL \notin Expired
  BY <1>1, Types DEF Idle, TInv
<1>4. Transactions' BY <1>1, <1>2 DEF TInv, Transactions
<1>5. Cardinality(Expired) <= events
  BY <1>3, Known DEF TInv
<1>6. IsFiniteSet(Expired) /\ Cardinality(Expired) \in Nat /\ events \in Nat
  BY Types, FS_CardinalityType DEF TInv, Transactions
<1>7. /\ IsFiniteSet(Expired \union {t})
      /\ Cardinality(Expired \union {t}) =
           IF t \in Expired THEN Cardinality(Expired) ELSE Cardinality(Expired) + 1
  BY <1>6, FS_AddElement
<1>8. Cardinality(Expired \union {t}) <= events + 1
  BY <1>5, <1>6, <1>7
<1>9. Cardinality((Expired \union {t}) \ {NULL}) <= events + 1
  BY <1>6, <1>7, <1>8, Fewer
<1>10. NoRetransmissionForgotten'
  BY <1>1, <1>2, <1>3, <1>9 DEF NoRetransmissionForgotten, evars
<1>11. Engine' BY <1>1, <1>2 DEF TInv, Engine, evars
<1>12. Clients' BY <1>1 DEF TInv, Clients, cvars, hvars
<1> QED BY <1>4, <1>10, <1>11, <1>12 DEF TInv

(* The observers that are left.                                            *)
LEMMA WithoutIs ==
  ASSUME Transactions, NEW I \in SUBSET DOMAIN observers
  PROVE  Without(I) \in Seq(Observer) /\ Len(Without(I)) <= MAX_OBSERVERS
<1>1. observers \in Seq(Observer) /\ Len(observers) <= MAX_OBSERVERS
      /\ Len(observers) \in Nat
  BY LenProperties DEF Transactions
<1>2. CASE I = {} BY <1>1, <1>2 DEF Without
<1>3. CASE I # {}
  <2>1. Min(I) \in 1 .. Len(observers) BY <1>1, <1>3, FirstIs
  <2>2. RemoveAt(observers, Min(I)) \in Seq(Observer)
        /\ Len(RemoveAt(observers, Min(I))) = Len(observers) - 1
    BY <1>1, <2>1, RemoveAtIs
  <2> QED BY <1>1, <1>3, <2>2, CoapAssumption DEF Without
<1> QED BY <1>2, <1>3

(* The callback of a transaction that ends.                                *)
LEMMA CallbackIs ==
  ASSUME Clients, NEW t, slot[t].callback \in Client \union {NULL},
         NEW m \in Response \union {NULL}, Callback(t, m)
  PROVE  /\ polled' \subseteq Client /\ misled' \subseteq Client
         /\ response' \in [Client -> Response \union {NULL}]
<1> DEFINE c == slot[t].callback
<1>1. CASE c = NULL BY <1>1 DEF Callback, NoCallback, Clients
<1>2. CASE c # NULL
  <2>1. c \in Client BY <1>2
  <2>2. /\ response' = [response EXCEPT ![c] = m] /\ polled' = polled \union {c}
        /\ misled' \in {misled, misled \union {c}}
    BY <1>2 DEF Callback, Poll
  <2> HIDE DEF c
  <2> QED BY <2>1, <2>2 DEF Clients
<1> QED BY <1>1, <1>2

LEMMA EventSound == ASSUME TInv, TimerEvent PROVE TInv'
<1>1. /\ loop = Idle /\ events > 0 /\ events' = events - 1 /\ CheckTransactions
      /\ IF TimedOut = NULL THEN NoCallback ELSE Callback(TimedOut, NULL)
      /\ UNCHANGED <<evars, want, block_num, more, res_block, block_error, disturbed>>
  BY DEF TimerEvent, Ready
<1>2. Transactions /\ NoRetransmissionForgotten /\ Engine /\ Clients BY DEF TInv
<1>3. /\ open' \in Seq(Blocks) /\ Distinct(open') /\ slot' \in [Blocks -> Slot]
      /\ Open' = Open \ {TimedOut} /\ armed' \subseteq Open'
      /\ \A u \in Blocks : u # TimedOut =>
           slot'[u].packet = slot[u].packet /\ slot'[u].callback = slot[u].callback
      /\ TimedOut = NULL => Expired' = {}
      /\ TimedOut # NULL => TimedOut \in Expired /\ Expired' \subseteq Expired \ {TimedOut}
  BY <1>1, <1>2, CheckIs
<1>4. observers' \in Seq(Observer) /\ Len(observers') <= MAX_OBSERVERS
  <2>1. observers' = IF TimedOut = NULL THEN observers
                     ELSE WithoutClient(slot[TimedOut].packet.peer)
    BY <1>1 DEF CheckTransactions
  <2>2. \A p : Observing(p) \in SUBSET DOMAIN observers BY DEF Observing
  <2>3. \A p : WithoutClient(p) \in Seq(Observer) /\ Len(WithoutClient(p)) <= MAX_OBSERVERS
    BY <1>2, <2>2, WithoutIs DEF WithoutClient
  <2> QED BY <1>2, <2>1, <2>3 DEF Transactions
<1>5. events \in Nat /\ events' \in Nat BY <1>1, <1>2 DEF Transactions
<1>6. \A u \in Open' : slot'[u].packet.peer \in Peer
  BY <1>2, <1>3, Types DEF Transactions
<1>7. Transactions' BY <1>3, <1>4, <1>5, <1>6 DEF Transactions
<1>8. loop.serving = NULL /\ loop'.serving = NULL /\ NULL \notin Expired
  BY <1>1, <1>2, Types DEF Idle, evars
<1>9. Cardinality(Expired) <= events
  BY <1>2, <1>8, Known
<1>10. IsFiniteSet(Expired) /\ Cardinality(Expired) \in Nat
  BY <1>2, Types, FS_CardinalityType
<1>11. Cardinality(Expired' \ {NULL}) <= events'
  <2>1. CASE TimedOut = NULL
    <3>1. Expired' \ {NULL} = {} BY <1>3, <2>1
    <3> QED BY <1>5, <3>1, FS_EmptySet
  <2>2. CASE TimedOut # NULL
    <3>1. /\ IsFiniteSet(Expired \ {TimedOut})
          /\ Cardinality(Expired \ {TimedOut}) =
               IF TimedOut \in Expired THEN Cardinality(Expired) - 1 ELSE Cardinality(Expired)
      BY <1>10, FS_RemoveElement
    <3>2. Cardinality(Expired \ {TimedOut}) <= events'
      BY <1>1, <1>3, <1>5, <1>9, <1>10, <2>2, <3>1
    <3>3. Expired' \ {NULL} \in SUBSET (Expired \ {TimedOut}) BY <1>3, <2>2
    <3> QED BY <1>5, <3>1, <3>2, <3>3, Fewer
  <2> QED BY <2>1, <2>2
<1>12. NoRetransmissionForgotten' BY <1>8, <1>11 DEF NoRetransmissionForgotten
<1>13. Engine' BY <1>1, <1>2, <1>8 DEF Engine, evars
<1>14. Clients'
  <2>1. CASE TimedOut = NULL BY <1>1, <1>2, <2>1 DEF Clients, NoCallback
  <2>2. CASE TimedOut # NULL
    <3>1. slot[TimedOut].callback \in Client \union {NULL}
      BY <1>2, <1>3, <2>2, Types DEF Transactions, Slot
    <3>2. Callback(TimedOut, NULL) BY <1>1, <2>2
    <3>3. /\ polled' \subseteq Client /\ misled' \subseteq Client
          /\ response' \in [Client -> Response \union {NULL}]
      BY <1>2, <3>1, <3>2, CallbackIs
    <3> QED BY <1>1, <1>2, <3>3 DEF Clients
  <2> QED BY <2>1, <2>2
<1> QED BY <1>7, <1>12, <1>13, <1>14 DEF TInv

LEMMA NotifySound == ASSUME TInv, NEW u \in Uri, Notify(u) PROVE TInv'
<1>1. /\ loop = Idle /\ loop' = [Idle EXCEPT !.uri = u, !.next = 1]
      /\ UNCHANGED <<open, slot, armed, events, observers, current, stored, cvars, hvars>>
  BY DEF Notify, Ready, tvars
<1>2. /\ loop'.serving = NULL /\ loop.serving = NULL /\ loop' \in Notification
  BY <1>1 DEF Idle, Notification
<1>3. Transactions' /\ NoRetransmissionForgotten' /\ Open' = Open
  BY <1>1, <1>2, SameSound DEF TInv, Transactions
<1>4. Engine' BY <1>1, <1>2 DEF TInv, Engine
<1>5. Clients' BY <1>1 DEF TInv, Clients, cvars, hvars
<1> QED BY <1>3, <1>4, <1>5 DEF TInv

(* An observer gets a notification of its own ID.                          *)
Notified(o, m) == [o EXCEPT !.last_mid = m, !.counter = (@ + 1) % REFRESH]

LEMMA NotifiedIs ==
  ASSUME NEW o \in Observer, NEW m \in Mid
  PROVE  /\ Notified(o, m) \in Observer /\ Notified(o, m).peer = o.peer
         /\ Notified(o, m).uri = o.uri
<1>1. o.counter \in Nat /\ REFRESH \in Nat \ {0} BY CoapAssumption DEF Observer
<1>2. (o.counter + 1) % REFRESH \in 0 .. REFRESH - 1 BY <1>1
<1> QED BY <1>2 DEF Observer, Notified

LEMMA NotifyNextIs ==
  ASSUME Transactions, NotifyNext
  PROVE  /\ loop.next \in DOMAIN observers /\ observers[loop.next] \in Observer
         /\ UNCHANGED <<events, current, stored, cvars, hvars>>
         /\ \/ /\ loop' = [loop EXCEPT !.next = @ + 1]
               /\ UNCHANGED <<open, slot, armed, observers>>
            \/ /\ Free # {}
               /\ observers' = [observers EXCEPT ![loop.next] =
                                  Notified(observers[loop.next], Fresh)]
               /\ \E con \in BOOLEAN : loop' = [loop EXCEPT !.next = @ + 1, !.con = con]
               /\ \/ UNCHANGED <<open, slot, armed>>
                  \/ Confirmable(FirstFree, Message(Fresh, observers[loop.next].peer, NULL, 0),
                                 slot[FirstFree].callback)
<1> DEFINE o == observers[loop.next]
           con == loop.con \/ Forced(o)
<1>1. loop.next \in DOMAIN observers /\ UNCHANGED <<events, current, stored, cvars, hvars>>
  BY DEF NotifyNext
<1>2. o \in Observer
  BY <1>1, ElementOfSeq, LenProperties DEF Transactions
<1>3. CASE Concerns(loop.uri, o) /\ Free # {}
  <2>1. /\ observers' = [observers EXCEPT ![loop.next] = Notified(o, Fresh)]
        /\ loop' = [loop EXCEPT !.next = @ + 1, !.con = con]
        /\ IF con THEN Confirmable(FirstFree, Message(Fresh, o.peer, NULL, 0),
                                   slot[FirstFree].callback)
                  ELSE UNCHANGED <<open, slot, armed>>
    <3>1. /\ observers' = [observers EXCEPT ![loop.next] =
                [o EXCEPT !.last_mid = Fresh, !.counter = (@ + 1) % REFRESH]]
          /\ loop' = [loop EXCEPT !.next = @ + 1, !.con = con]
          /\ IF con THEN Confirmable(FirstFree, Message(Fresh, o.peer, NULL, 0),
                                     slot[FirstFree].callback)
                    ELSE UNCHANGED <<open, slot, armed>>
      BY <1>3 DEF NotifyNext
    <3>2. observers' = [observers EXCEPT ![loop.next] = Notified(o, Fresh)]
      BY <1>1, <3>1 DEF Notified
    <3> QED BY <3>1, <3>2
  <2>2. con \in BOOLEAN BY DEF Forced
  <2> QED BY <1>1, <1>2, <1>3, <2>1, <2>2
<1>4. CASE ~(Concerns(loop.uri, o) /\ Free # {})
  <2>1. loop' = [loop EXCEPT !.next = @ + 1] /\ UNCHANGED <<open, slot, armed, observers>>
    BY <1>4 DEF NotifyNext
  <2> QED BY <1>1, <1>2, <2>1
<1> QED BY <1>3, <1>4

LEMMA NextObservers ==
  ASSUME Transactions, NotifyNext
  PROVE  observers' \in Seq(Observer) /\ Len(observers') <= MAX_OBSERVERS
<1>1. observers \in Seq(Observer) /\ Len(observers) <= MAX_OBSERVERS
  BY DEF Transactions
<1>2. CASE UNCHANGED observers BY <1>1, <1>2
<1>3. CASE observers' = [observers EXCEPT ![loop.next] = Notified(observers[loop.next], Fresh)]
  <2>1. loop.next \in 1 .. Len(observers) /\ observers[loop.next] \in Observer
    BY <1>1, NotifyNextIs, LenProperties
  <2>2. Notified(observers[loop.next], Fresh) \in Observer
    BY <2>1, FreshMid, NotifiedIs
  <2>3. observers' \in Seq(Observer) /\ Len(observers') = Len(observers)
    BY <1>1, <1>3, <2>1, <2>2, ExceptSeq
  <2> QED BY <1>1, <2>3
<1> QED BY <1>2, <1>3, NotifyNextIs

LEMMA NotifyNextSound == ASSUME TInv, NotifyNext PROVE TInv'
<1>1. Transactions /\ NoRetransmissionForgotten /\ Engine /\ Clients BY DEF TInv
<1>2. observers' \in Seq(Observer) /\ Len(observers') <= MAX_OBSERVERS
  BY <1>1, NextObservers
<1>3. events' = events /\ UNCHANGED <<current, stored, cvars, hvars>>
  BY <1>1, NotifyNextIs
<1>4. loop' \in Notification /\ loop'.serving = loop.serving
  <2>1. loop \in Notification /\ loop.next + 1 \in Nat BY <1>1 DEF Engine, Notification
  <2>2. \/ loop' = [loop EXCEPT !.next = @ + 1]
        \/ \E con \in BOOLEAN : loop' = [loop EXCEPT !.next = @ + 1, !.con = con]
    BY <1>1, NotifyNextIs
  <2> QED BY <2>1, <2>2 DEF Notification
<1>5. Transactions' /\ NoRetransmissionForgotten' /\ Open \subseteq Open'
  <2>1. CASE UNCHANGED <<open, slot, armed>>
    <3>1. UNCHANGED <<open, slot, armed, events>> BY <1>3, <2>1
    <3> QED BY <1>1, <1>2, <1>4, <3>1, SameSound
  <2>2. CASE Free # {} /\ Confirmable(FirstFree,
               Message(Fresh, observers[loop.next].peer, NULL, 0), slot[FirstFree].callback)
    <3> DEFINE m == Message(Fresh, observers[loop.next].peer, NULL, 0)
    <3>1. FirstFree \in Free /\ FirstFree \in Blocks BY <1>1, <2>2, FreeBlock
    <3>2. slot[FirstFree].callback \in Client \union {NULL}
      BY <1>1, <3>1 DEF Transactions, Slot
    <3>3. m \in [mid : Nat, peer : Peer, client : Client \union {NULL}, block : Nat]
      <4>1. observers[loop.next] \in Observer /\ Fresh \in Nat
        BY <1>1, NotifyNextIs, FreshMid
      <4> QED BY <4>1 DEF Message, Observer
    <3>4. Confirmable(FirstFree, m, slot[FirstFree].callback) BY <2>2
    <3> HIDE DEF m
    <3> QED BY <1>1, <1>2, <1>3, <1>4, <3>1, <3>2, <3>3, <3>4, SendSound
  <2> QED BY <1>1, <2>1, <2>2, NotifyNextIs
<1>6. Engine' BY <1>1, <1>3, <1>4, <1>5 DEF Engine
<1>7. Clients' BY <1>1, <1>3 DEF Clients, cvars, hvars
<1> QED BY <1>5, <1>6, <1>7 DEF TInv

LEMMA NotifyEndSound == ASSUME TInv, NotifyEnd PROVE TInv'
<1>1. /\ loop' = Idle
      /\ IF loop.serving = NULL THEN UNCHANGED <<open, slot, armed>> ELSE Clear(loop.serving)
      /\ UNCHANGED <<events, observers, current, stored, cvars, hvars>>
  BY DEF NotifyEnd
<1>2. Transactions /\ NoRetransmissionForgotten /\ Engine /\ Clients BY DEF TInv
<1>3. loop'.serving = NULL /\ loop' \in Notification
  BY <1>1 DEF Idle, Notification
<1>4. observers' \in Seq(Observer) /\ Len(observers') <= MAX_OBSERVERS
  BY <1>1, <1>2 DEF Transactions
<1>5. Transactions' /\ NoRetransmissionForgotten'
  <2>1. CASE loop.serving = NULL
    <3>1. UNCHANGED <<open, slot, armed, events>> /\ loop'.serving = loop.serving
      BY <1>1, <1>3, <2>1
    <3> QED BY <1>2, <1>4, <3>1, SameSound
  <2>2. CASE loop.serving # NULL
    <3>1. loop.serving \in Blocks BY <1>2, <2>2, Types DEF Engine
    <3>2. Clear(loop.serving) /\ events' = events BY <1>1, <2>2
    <3> QED BY <1>2, <1>3, <1>4, <3>1, <3>2, ClearSound
  <2> QED BY <2>1, <2>2
<1>6. Engine' BY <1>1, <1>2, <1>3 DEF Engine
<1>7. Clients' BY <1>1, <1>2 DEF Clients, cvars, hvars
<1> QED BY <1>5, <1>6, <1>7 DEF TInv

(* The engine does not notify while it receives a message.                 *)
LEMMA RequestSound ==
  ASSUME TInv, NEW kind, Request(kind)
  PROVE  /\ loop.serving = NULL /\ loop = Idle /\ current' \in Blocks \union {NULL}
<1>1. loop = Idle /\ current' = IF Free = {} THEN NULL ELSE FirstFree
  BY DEF Request, Receiving, Ready
<1>2. Free # {} => FirstFree \in Blocks BY FreeBlock DEF TInv
<1> QED BY <1>1, <1>2 DEF Idle

LEMMA GetSound ==
  ASSUME TInv, NEW p \in Peer, NEW m \in Theirs, NEW u \in Uri,
         Get(p, m, u) \/ Observe(p, m, u) \/ Cancel(p, m, u)
  PROVE  TInv'
<1>1. Transactions /\ NoRetransmissionForgotten /\ Engine /\ Clients BY DEF TInv
<1>2. /\ \E kind : Request(kind)
      /\ UNCHANGED <<open, slot, armed, events, loop, stored, cvars, hvars>>
  BY DEF Get, Observe, Cancel, tvars
<1>3. current' \in Blocks \union {NULL} BY <1>2, RequestSound
<1>4. \A I \in SUBSET DOMAIN observers :
        Without(I) \in Seq(Observer) /\ Len(Without(I)) <= MAX_OBSERVERS
  BY <1>1, WithoutIs
<1>5. observers' \in Seq(Observer) /\ Len(observers') <= MAX_OBSERVERS
  <2>1. CASE UNCHANGED observers BY <1>1, <2>1 DEF Transactions
  <2>2. CASE Cancel(p, m, u)
    <3>1. observers' = WithoutToken(p, u) BY <2>2 DEF Cancel
    <3>2. {i \in Observing(p) : observers[i].uri = u} \in SUBSET DOMAIN observers
      BY DEF Observing
    <3> QED BY <1>4, <3>1, <3>2 DEF WithoutToken
  <2>3. CASE Observe(p, m, u)
    <3>1. PICK k \in 0 .. REFRESH - 1 : observers' = WithObserver(p, u, k)
      BY <2>3 DEF Observe
    <3>2. {i \in Observing(p) : IsPrefix(observers[i].uri, u)} \in SUBSET DOMAIN observers
      BY DEF Observing
    <3>3. WithoutUri(p, u) \in Seq(Observer) /\ Len(WithoutUri(p, u)) <= MAX_OBSERVERS
      BY <1>4, <3>2 DEF WithoutUri
    <3> DEFINE o == [peer |-> p, uri |-> u, last_mid |-> 0, counter |-> k]
               w == WithoutUri(p, u)
    <3>4. o \in Observer BY DEF Observer
    <3>5. observers' = IF Len(w) < MAX_OBSERVERS THEN Append(w, o) ELSE w
      BY <3>1 DEF WithObserver
    <3>6. w \in Seq(Observer) /\ Len(w) <= MAX_OBSERVERS BY <3>3
    <3> HIDE DEF o, w
    <3>7. /\ Append(w, o) \in Seq(Observer) /\ Len(Append(w, o)) = Len(w) + 1
          /\ Len(w) \in Nat
      BY <3>4, <3>6, Appended
    <3> QED BY <3>5, <3>6, <3>7, CoapAssumption
  <2> QED BY <2>1, <2>2, <2>3 DEF Get, tvars
<1>6. Transactions' /\ NoRetransmissionForgotten' /\ Open' = Open
  BY <1>1, <1>2, <1>5, SameSound
<1>7. Engine' BY <1>1, <1>2, <1>3, <1>6 DEF Engine
<1>8. Clients' BY <1>1, <1>2 DEF Clients, cvars, hvars
<1> QED BY <1>6, <1>7, <1>8 DEF TInv

LEMMA AcceptSound ==
  ASSUME TInv, NEW p \in Peer, NEW m \in Theirs, NEW con \in BOOLEAN, Accept(p, m, con)
  PROVE  TInv'
<1>1. Transactions /\ NoRetransmissionForgotten /\ Engine /\ Clients BY DEF TInv
<1> DEFINE q == IF ByMid(m, p) = NULL THEN p ELSE slot[ByMid(m, p)].packet.peer
<1>2. /\ Request("separate") /\ stored' = [con |-> con, peer |-> q]
      /\ UNCHANGED <<tvars, loop, cvars, hvars>>
  BY DEF Accept
<1>3. current' \in Blocks \union {NULL} BY <1>2, RequestSound
<1>4. q \in Peer BY <1>1, ByMidIs DEF Transactions
<1> HIDE DEF q
<1>5. stored' \in [con : BOOLEAN, peer : Peer] BY <1>2, <1>4
<1>6. Transactions' /\ NoRetransmissionForgotten' /\ Open' = Open
  <2>1. observers' \in Seq(Observer) /\ Len(observers') <= MAX_OBSERVERS
    BY <1>1, <1>2 DEF Transactions, tvars
  <2> QED BY <1>1, <1>2, <2>1, SameSound DEF tvars
<1>7. Engine' BY <1>1, <1>2, <1>3, <1>5, <1>6 DEF Engine
<1>8. Clients' BY <1>1, <1>2 DEF Clients, cvars, hvars
<1> QED BY <1>6, <1>7, <1>8 DEF TInv

(* The transaction that the request opens is closed when the loop ends.    *)
LEMMA ChangeSound ==
  ASSUME TInv, NEW p \in Peer, NEW m \in Theirs, NEW u \in Uri, Change(p, m, u)
  PROVE  TInv'
<1>1. Transactions /\ NoRetransmissionForgotten /\ Engine /\ Clients BY DEF TInv
<1>2. /\ Free # {} /\ open' = Append(open, FirstFree)
      /\ slot' = [slot EXCEPT ![FirstFree].packet = Message(m, p, NULL, 0)]
      /\ loop' = [Idle EXCEPT !.uri = u, !.next = 1, !.serving = FirstFree]
      /\ UNCHANGED <<armed, events, observers, stored, cvars, hvars>>
  BY DEF Change
<1>3. loop.serving = NULL /\ current' \in Blocks \union {NULL}
  BY RequestSound DEF Change
<1> DEFINE t == FirstFree
<1>4. t \in Free /\ t \in Blocks /\ t \notin Open BY <1>1, <1>2, FreeBlock
<1>5. open' \in Seq(Blocks) /\ Distinct(open') /\ Open' = Open \union {t}
  BY <1>1, <1>2, <1>4, Appended DEF Transactions, Open
<1>6. slot' \in [Blocks -> Slot] /\ slot'[t].packet.peer = p
      /\ \A v \in Blocks : v # t => slot'[v] = slot[v]
  <2>1. slot \in [Blocks -> Slot] /\ slot[t] \in Slot BY <1>1, <1>4 DEF Transactions
  <2>2. Message(m, p, NULL, 0) \in
          [mid : Nat, peer : Peer \union {NULL}, client : Client \union {NULL}, block : Nat]
        /\ Message(m, p, NULL, 0).peer = p
    BY EngineAssumption DEF Message
  <2>3. slot' = [slot EXCEPT ![t] = [slot[t] EXCEPT !.packet = Message(m, p, NULL, 0)]]
    BY <1>2, <1>4, <2>1
  <2>4. [slot[t] EXCEPT !.packet = Message(m, p, NULL, 0)] \in Slot
        /\ [slot[t] EXCEPT !.packet = Message(m, p, NULL, 0)].packet = Message(m, p, NULL, 0)
    BY <2>1, <2>2 DEF Slot
  <2> QED BY <1>4, <2>1, <2>2, <2>3, <2>4
<1>7. /\ loop' \in Notification /\ loop'.serving = t
  BY <1>2, <1>4 DEF Idle, Notification
<1> HIDE DEF t
<1>8. Transactions'
  <2>1. \A v \in Open' : slot'[v].packet.peer \in Peer
    BY <1>1, <1>5, <1>6, Types DEF Transactions
  <2> QED BY <1>1, <1>2, <1>5, <1>6, <2>1 DEF Transactions
<1>9. NoRetransmissionForgotten'
  <2>1. Expired' = Open' \ armed' BY DEF Expired
  <2>2. Expired' \ {t} \subseteq Expired \ {NULL}
    BY <1>1, <1>2, <1>4, <1>5, <2>1, Types DEF Expired
  <2> QED BY <1>1, <1>2, <1>3, <1>7, <2>2, Known DEF NoRetransmissionForgotten
<1>10. Engine' BY <1>1, <1>2, <1>3, <1>5, <1>7 DEF Engine
<1>11. Clients' BY <1>1, <1>2 DEF Clients, cvars, hvars
<1> QED BY <1>8, <1>9, <1>10, <1>11 DEF TInv

LEMMA ResumeSound == ASSUME TInv, Resume PROVE TInv'
<1>1. Transactions /\ NoRetransmissionForgotten /\ Engine /\ Clients BY DEF TInv
<1> DEFINE m == Message(Fresh, stored.peer, NULL, 0)
<1>2. /\ stored # NULL /\ Free # {} /\ stored' = NULL
      /\ IF stored.con THEN Confirmable(FirstFree, m, slot[FirstFree].callback)
                       ELSE UNCHANGED <<open, slot, armed>>
      /\ UNCHANGED <<events, observers, current, loop, cvars, hvars>>
  BY DEF Resume
<1>3. m \in [mid : Nat, peer : Peer, client : Client \union {NULL}, block : Nat]
  BY <1>1, <1>2, FreshMid DEF Message, Engine
<1>4. FirstFree \in Free /\ slot[FirstFree].callback \in Client \union {NULL}
  BY <1>1, <1>2, FreeBlock DEF Transactions, Slot
<1>5. observers' \in Seq(Observer) /\ Len(observers') <= MAX_OBSERVERS
  BY <1>1, <1>2 DEF Transactions
<1> HIDE DEF m
<1>6. Transactions' /\ NoRetransmissionForgotten' /\ Open \subseteq Open'
  <2>1. CASE ~stored.con
    <3>1. UNCHANGED <<open, slot, armed, events>> BY <1>2, <2>1
    <3> QED BY <1>1, <1>2, <1>5, <3>1, SameSound
  <2>2. CASE stored.con
    <3>1. Confirmable(FirstFree, m, slot[FirstFree].callback) BY <1>2, <2>2
    <3> QED BY <1>1, <1>2, <1>3, <1>4, <1>5, <3>1, SendSound
  <2> QED BY <2>1, <2>2
<1>7. Engine' BY <1>1, <1>2, <1>6 DEF Engine
<1>8. Clients' BY <1>1, <1>2 DEF Clients, cvars, hvars
<1> QED BY <1>6, <1>7, <1>8 DEF TInv

(* A message that ends a transaction, if there is one with its ID.         *)
LEMMA EndsSound ==
  ASSUME TInv, Receiving, NEW mid, NEW m \in Response, Ends(mid, m),
         observers' \in Seq(Observer), Len(observers') <= MAX_OBSERVERS
  PROVE  TInv'
<1>1. Transactions /\ NoRetransmissionForgotten /\ Engine /\ Clients BY DEF TInv
<1> DEFINE t == ByMid(mid, m.peer)
<1>2. /\ current' = NULL
      /\ IF t = NULL THEN UNCHANGED <<open, slot, armed>> /\ NoCallback
                     ELSE Clear(t) /\ Callback(t, m)
      /\ UNCHANGED <<events, loop, stored, want, block_num, more, res_block, block_error, disturbed>>
  BY DEF Ends
<1>3. loop.serving = NULL /\ loop' = loop
  BY <1>2 DEF Receiving, Ready, Idle
<1>4. t # NULL => t \in Open /\ t \in Blocks
  BY <1>1, ByMidIs
<1> HIDE DEF t
<1>5. Transactions' /\ NoRetransmissionForgotten'
  <2>1. CASE t = NULL
    <3>1. UNCHANGED <<open, slot, armed, events>> BY <1>2, <2>1
    <3> QED BY <1>1, <1>3, <3>1, SameSound
  <2>2. CASE t # NULL
    <3>1. Clear(t) /\ events' = events BY <1>2, <2>2
    <3> QED BY <1>1, <1>3, <1>4, <2>2, <3>1, ClearSound
  <2> QED BY <2>1, <2>2
<1>6. Engine' BY <1>1, <1>2, <1>3 DEF Engine
<1>7. Clients'
  <2>1. CASE t = NULL BY <1>1, <1>2, <2>1 DEF Clients, NoCallback
  <2>2. CASE t # NULL
    <3>1. slot[t].callback \in Client \union {NULL}
      BY <1>1, <1>4, <2>2 DEF Transactions, Slot
    <3>2. Callback(t, m) BY <1>2, <2>2
    <3>3. /\ polled' \subseteq Client /\ misled' \subseteq Client
          /\ response' \in [Client -> Response \union {NULL}]
      BY <1>1, <3>1, <3>2, CallbackIs
    <3> QED BY <1>1, <1>2, <3>3 DEF Clients
  <2> QED BY <2>1, <2>2
<1> QED BY <1>5, <1>6, <1>7 DEF TInv

LEMMA AnswerIs ==
  ASSUME NEW mid \in Nat, NEW p \in Peer, NEW num \in Nat \union {NULL}, NEW last
  PROVE  /\ Answer(mid, p, num, last) \in Response
         /\ Answer(mid, p, num, last).mid = mid /\ Answer(mid, p, num, last).peer = p
         /\ Answer(mid, p, num, last).num = num
BY DEF Answer, Response

LEMMA ReceivedSound ==
  ASSUME TInv, \/ \E t \in Blocks : Acknowledge(t)
               \/ \E p \in Peer, m \in Mid : Reset(p, m)
               \/ \E p \in Peer, m \in Theirs : Other(p, m)
  PROVE  TInv'
<1>1. Transactions /\ NoRetransmissionForgotten /\ Engine /\ Clients BY DEF TInv
<1>2. observers \in Seq(Observer) /\ Len(observers) <= MAX_OBSERVERS
  BY <1>1 DEF Transactions
<1>3. CASE \E t \in Blocks : Acknowledge(t)
  <2>1. PICK t \in Blocks : Acknowledge(t) BY <1>3
  <2> DEFINE sent == slot[t].packet
             last == IF sent.client = NULL THEN NULL ELSE LastBlock[sent.client]
             num == IF last # NULL /\ sent.block <= last THEN sent.block ELSE NULL
             r == Answer(sent.mid, sent.peer, num, last)
  <2>2. Receiving /\ t \in Open /\ Ends(sent.mid, r) /\ observers' = observers
    BY <2>1 DEF Acknowledge
  <2>3. sent.mid \in Nat /\ sent.peer \in Peer /\ num \in Nat \union {NULL}
    BY <1>1, <2>2, Types DEF Transactions, Slot
  <2> HIDE DEF num, last, sent
  <2>4. r \in Response BY <2>3, AnswerIs
  <2> HIDE DEF r
  <2> QED BY <1>2, <2>2, <2>4, EndsSound
<1>4. CASE \E p \in Peer, m \in Mid : Reset(p, m)
  <2>1. PICK p \in Peer, m \in Mid : Reset(p, m) BY <1>4
  <2> DEFINE r == Answer(m, p, NULL, NULL)
  <2>2. Receiving /\ Ends(m, r) /\ observers' = WithoutMid(p, m)
    BY <2>1 DEF Reset
  <2>3. r \in Response BY CoapAssumption, AnswerIs
  <2>4. {i \in Observing(p) : observers[i].last_mid = m} \in SUBSET DOMAIN observers
    BY DEF Observing
  <2>5. observers' \in Seq(Observer) /\ Len(observers') <= MAX_OBSERVERS
    BY <1>1, <2>2, <2>4, WithoutIs DEF WithoutMid
  <2> HIDE DEF r
  <2> QED BY <2>2, <2>3, <2>5, EndsSound
<1>5. CASE \E p \in Peer, m \in Theirs : Other(p, m)
  <2>1. PICK p \in Peer, m \in Theirs : Other(p, m) BY <1>5
  <2> DEFINE r == Answer(m, p, NULL, NULL)
  <2>2. Receiving /\ Ends(m, r) /\ observers' = observers
    BY <2>1 DEF Other
  <2>3. r \in Response BY EngineAssumption, AnswerIs
  <2> HIDE DEF r
  <2> QED BY <1>2, <2>2, <2>3, EndsSound
<1> QED BY <1>3, <1>4, <1>5

LEMMA GarbleSound == ASSUME TInv, Garble PROVE TInv'
<1>1. Transactions /\ NoRetransmissionForgotten /\ Engine /\ Clients BY DEF TInv
<1>2. /\ loop.serving = NULL
      /\ IF current = NULL THEN UNCHANGED <<open, slot, armed>> ELSE Clear(current)
      /\ events' = events /\ observers' = observers /\ UNCHANGED <<evars, cvars, hvars>>
      /\ loop' = loop /\ current' = current /\ stored' = stored
  BY DEF Garble, Receiving, Ready, Idle, evars
<1>3. observers' \in Seq(Observer) /\ Len(observers') <= MAX_OBSERVERS
  BY <1>1, <1>2 DEF Transactions
<1>4. Transactions' /\ NoRetransmissionForgotten'
  <2>1. CASE current = NULL
    <3>1. UNCHANGED <<open, slot, armed, events>> BY <1>2, <2>1
    <3> QED BY <1>1, <1>2, <1>3, <3>1, SameSound
  <2>2. CASE current # NULL
    <3>1. current \in Blocks /\ Clear(current) BY <1>1, <1>2, <2>2 DEF Engine
    <3> QED BY <1>1, <1>2, <1>3, <3>1, ClearSound
  <2> QED BY <2>1, <2>2
<1>5. Engine' BY <1>1, <1>2 DEF Engine
<1>6. Clients' BY <1>1, <1>2 DEF Clients, cvars, hvars
<1> QED BY <1>4, <1>5, <1>6 DEF TInv

(* The request of a client, or the end of its requests.                    *)
LEMMA AskSound ==
  ASSUME TInv, NEW c \in Client, NEW block \in Nat,
         Ended(c) \/ RequestBlock(c, block), UNCHANGED <<events, observers, evars>>
  PROVE  /\ Transactions' /\ NoRetransmissionForgotten' /\ Engine'
         /\ want' \in [Client -> Mid \union {0}]
<1>1. Transactions /\ NoRetransmissionForgotten /\ Engine /\ Clients BY DEF TInv
<1>2. observers' \in Seq(Observer) /\ Len(observers') <= MAX_OBSERVERS
      /\ events' = events /\ loop' = loop /\ loop'.serving = loop.serving
      /\ current' = current /\ stored' = stored
  BY <1>1 DEF Transactions, evars
<1>3. CASE Ended(c)
  <2>1. UNCHANGED <<open, slot, armed, events>> /\ want' = [want EXCEPT ![c] = 0]
    BY <1>2, <1>3 DEF Ended
  <2>2. Transactions' /\ NoRetransmissionForgotten' /\ Open' = Open
    BY <1>1, <1>2, <2>1, SameSound
  <2> QED BY <1>1, <1>2, <2>1, <2>2 DEF Clients, Engine
<1>4. CASE RequestBlock(c, block) /\ ~Ended(c)
  <2> DEFINE m == Message(Fresh, Server, c, block)
  <2>1. Free # {} /\ Confirmable(FirstFree, m, c) /\ want' = [want EXCEPT ![c] = Fresh]
    BY <1>4 DEF RequestBlock
  <2>2. Fresh \in Mid /\ Fresh \in Nat BY <1>1, FreshMid
  <2>3. m \in [mid : Nat, peer : Peer, client : Client \union {NULL}, block : Nat]
    BY <2>2, EngineAssumption DEF Message
  <2>4. FirstFree \in Free /\ c \in Client \union {NULL} BY <1>1, <2>1, FreeBlock
  <2> HIDE DEF m
  <2>5. Transactions' /\ NoRetransmissionForgotten' /\ Open \subseteq Open'
    BY <1>1, <1>2, <2>1, <2>3, <2>4, SendSound
  <2> QED BY <1>1, <1>2, <2>1, <2>2, <2>5 DEF Clients, Engine
<1> QED BY <1>3, <1>4

LEMMA StartSound ==
  ASSUME TInv, NEW c \in Client, StartRequest(c)
  PROVE  TInv'
<1>1. Clients BY DEF TInv
<1>2. /\ block_num' = [block_num EXCEPT ![c] = 0]
      /\ response' = [response EXCEPT ![c] = NULL]
      /\ more' = FALSE /\ res_block' = 0 /\ block_error' = 0 /\ polled' = polled
      /\ misled' \in {misled, misled \ {c}} /\ disturbed' = disturbed \ {c}
      /\ RequestBlock(c, 0) /\ UNCHANGED <<events, observers, evars>>
  BY DEF StartRequest, ResBlockAtStart
<1>3. /\ Transactions' /\ NoRetransmissionForgotten' /\ Engine'
      /\ want' \in [Client -> Mid \union {0}]
  <2>1. 0 \in Nat OBVIOUS
  <2> QED BY <1>2, <2>1, AskSound
<1>4. Clients' BY <1>1, <1>2, <1>3 DEF Clients
<1> QED BY <1>3, <1>4 DEF TInv

(* What a client does with a response, and with none.                      *)
LEMMA ClientIs ==
  ASSUME Clients, NEW c \in Client, ClientRuns(c)
  PROVE  /\ loop = Idle /\ c \in polled /\ polled' = polled \ {c}
         /\ response' = [response EXCEPT ![c] = NULL]
         /\ UNCHANGED <<events, observers, evars>>
         /\ \/ Ended(c) /\ UNCHANGED block_num
            \/ /\ want[c] # 0 /\ response[c] \in Response
               /\ res_block' \in Nat /\ more' \in BOOLEAN
               /\ (response[c].num # NULL => res_block' = response[c].num)
               /\ block_num' = [block_num EXCEPT ![c] = IF InTurn(c) THEN @ + 1 ELSE @]
               /\ block_num'[c] \in Nat
               /\ Ended(c) \/ RequestBlock(c, block_num'[c])
         /\ block_num' \in [Client -> Nat] /\ more' \in BOOLEAN
         /\ res_block' \in Nat /\ block_error' \in Nat
         /\ misled' = misled /\ disturbed' \subseteq Client
<1> DEFINE r == response[c]
<1>1. /\ loop = Idle /\ c \in polled /\ polled' = polled \ {c}
      /\ response' = [response EXCEPT ![c] = NULL]
      /\ UNCHANGED <<events, observers, evars, misled>>
  BY DEF ClientRuns, Ready
<1>2. CASE want[c] = 0 \/ r = NULL
  <2>1. Ended(c) /\ UNCHANGED <<block_num, more, res_block, block_error, disturbed>>
    BY <1>2 DEF ClientRuns
  <2> QED BY <1>1, <2>1 DEF Clients
<1>3. CASE ~(want[c] = 0 \/ r = NULL)
  <2>1. /\ disturbed' \in {disturbed, disturbed \union (Waiting \ {c})}
        /\ more' = IF r.num = NULL THEN more ELSE r.more
        /\ res_block' = IF r.num = NULL THEN res_block ELSE r.num
        /\ block_num' = [block_num EXCEPT ![c] = IF InTurn(c) THEN @ + 1 ELSE @]
        /\ block_error' = IF InTurn(c) THEN block_error ELSE block_error + 1
        /\ IF more' /\ block_error' < MAX_ATTEMPTS
           THEN RequestBlock(c, block_num'[c]) ELSE Ended(c)
    BY <1>3 DEF ClientRuns
  <2>2. r \in Response BY <1>3 DEF Clients
  <2>3. more' \in BOOLEAN /\ res_block' \in Nat /\ (r.num # NULL => res_block' = r.num)
    BY <2>1, <2>2 DEF Clients, Response
  <2>4. block_num' \in [Client -> Nat] /\ block_num'[c] \in Nat
    BY <2>1 DEF Clients
  <2>5. block_error' \in Nat BY <2>1 DEF Clients
  <2>6. Ended(c) \/ RequestBlock(c, block_num'[c]) BY <2>1
  <2>7. disturbed' \subseteq Client BY <2>1 DEF Clients, Waiting
  <2> QED BY <1>1, <1>3, <2>1, <2>2, <2>3, <2>4, <2>5, <2>6, <2>7
<1> QED BY <1>2, <1>3

LEMMA RunsSound ==
  ASSUME TInv, NEW c \in Client, ClientRuns(c)
  PROVE  TInv'
<1>1. Clients BY DEF TInv
<1>2. /\ c \in polled /\ polled' = polled \ {c}
      /\ response' = [response EXCEPT ![c] = NULL]
      /\ UNCHANGED <<events, observers, evars>>
      /\ Ended(c) \/ (block_num'[c] \in Nat /\ RequestBlock(c, block_num'[c]))
      /\ block_num' \in [Client -> Nat] /\ more' \in BOOLEAN
      /\ res_block' \in Nat /\ block_error' \in Nat
      /\ misled' = misled /\ disturbed' \subseteq Client
  BY <1>1, ClientIs
<1>3. block_num'[c] \in Nat BY <1>2
<1> DEFINE block == block_num'[c]
<1>4. Ended(c) \/ RequestBlock(c, block) BY <1>2
<1> HIDE DEF block
<1>5. /\ Transactions' /\ NoRetransmissionForgotten' /\ Engine'
      /\ want' \in [Client -> Mid \union {0}]
  <2>1. block \in Nat BY <1>3 DEF block
  <2> QED BY <1>2, <1>4, <2>1, AskSound
<1>6. Clients' BY <1>1, <1>2, <1>5 DEF Clients
<1> QED BY <1>5, <1>6 DEF TInv

LEMMA InitSound == Init => TInv
<1> SUFFICES ASSUME Init PROVE TInv
  OBVIOUS
<1>1. Open = {} /\ Expired = {} BY DEF Init, Open, Expired, ToSet
<1>2. Transactions
  <2>1. Distinct(open) BY DEF Init, Distinct
  <2>2. open \in Seq(Blocks) /\ observers \in Seq(Observer) /\ Len(observers) = 0
    BY DEF Init
  <2>3. Blank \in Slot BY CoapAssumption DEF Blank, Message, Slot
  <2>4. slot \in [Blocks -> Slot] BY <2>3 DEF Init
  <2> QED BY <1>1, <2>1, <2>2, <2>4, CoapAssumption DEF Transactions, Init
<1>3. Engine BY DEF Init, Engine, Idle, Notification
<1>4. Clients BY DEF Init, Clients
<1>5. NoRetransmissionForgotten
  <2>1. Expired \ {loop.serving} = {} BY <1>1
  <2>2. Cardinality({}) = 0 BY FS_EmptySet
  <2>3. events = 0 BY DEF Init
  <2> QED BY <2>1, <2>2, <2>3 DEF NoRetransmissionForgotten
<1> QED BY <1>2, <1>3, <1>4, <1>5 DEF TInv

LEMMA NextSound == TInv /\ [Next]_vars => TInv'
<1> SUFFICES ASSUME TInv, [Next]_vars PROVE TInv'
  OBVIOUS
<1>1. CASE UNCHANGED vars
  BY <1>1 DEF vars, tvars, evars, cvars, hvars, TInv, Transactions, Engine, Clients,
     NoRetransmissionForgotten, Open, Expired
<1>2. CASE Receive
  <2>1. \/ \E p \in Peer, m \in Theirs : Other(p, m)
        \/ \E p \in Peer, m \in Theirs, u \in Uri :
             Get(p, m, u) \/ Observe(p, m, u) \/ Cancel(p, m, u)
        \/ \E p \in Peer, m \in Theirs : \E con \in BOOLEAN : Accept(p, m, con)
        \/ \E p \in Peer, m \in Theirs, u \in Uri : Change(p, m, u)
        \/ \E t \in Blocks : Acknowledge(t)
        \/ \E p \in Peer, m \in Mid : Reset(p, m)
        \/ Garble
    BY <1>2 DEF Receive
  <2> QED BY <2>1, GetSound, AcceptSound, ChangeSound, ReceivedSound, GarbleSound
<1>3. CASE \E t \in Blocks : TimerExpires(t) BY <1>3, ExpiresSound
<1>4. CASE TimerEvent BY <1>4, EventSound
<1>5. CASE \E u \in Uri : Notify(u) BY <1>5, NotifySound
<1>6. CASE NotifyNext BY <1>6, NotifyNextSound
<1>7. CASE NotifyEnd BY <1>7, NotifyEndSound
<1>8. CASE Resume BY <1>8, ResumeSound
<1>9. CASE \E c \in Client : StartRequest(c) \/ ClientRuns(c)
  BY <1>9, StartSound, RunsSound
<1> QED BY <1>1, <1>2, <1>3, <1>4, <1>5, <1>6, <1>7, <1>8, <1>9 DEF Next

LEMMA Sound == Spec => []TInv
<1> QED BY InitSound, NextSound, PTL DEF Spec

(* Nothing is overlooked: each open transaction whose timer has expired    *)
(* has a timer event in the queue, so that it is retransmitted or ended,   *)
(* however its timer is stopped and its block is used again.               *)
THEOREM TransactionsCorrect == Spec => []TransactionsSound
<1>1. TInv => TransactionsSound
  <2> SUFFICES ASSUME TInv PROVE TransactionsSound
    OBVIOUS
  <2>1. Transactions /\ Engine /\ Clients BY DEF TInv
  <2>2. Len(open) = Cardinality(Open) /\ Open \subseteq Blocks BY <2>1, Types
  <2>3. TTypeOK BY <2>1, <2>2 DEF Transactions, TTypeOK, Slot, Open
  <2>4. TypeOK BY <2>1, <2>3 DEF TypeOK, Engine, Clients, Notification, Response
  <2> QED BY <2>4 DEF TInv, TransactionsSound
<1> QED BY <1>1, Sound, PTL

------------------------------------------------------------------------------
(* Observers. *)

Once(s) ==
  \A i, j \in DOMAIN s : s[i].peer = s[j].peer /\ s[i].uri = s[j].uri => i = j

LEMMA RemovedOnce ==
  ASSUME NEW s \in Seq(Observer), Once(s), NEW k \in 1 .. Len(s)
  PROVE  /\ Once(RemoveAt(s, k))
         /\ \A i \in DOMAIN RemoveAt(s, k) :
              ~(RemoveAt(s, k)[i].peer = s[k].peer /\ RemoveAt(s, k)[i].uri = s[k].uri)
<1> DEFINE r == RemoveAt(s, k)
           f == [i \in 1 .. Len(s) - 1 |-> IF i < k THEN i ELSE i + 1]
<1>1. Len(s) \in Nat /\ DOMAIN s = 1 .. Len(s) BY LenProperties
<1>2. /\ r \in Seq(Observer) /\ Len(r) = Len(s) - 1
      /\ \A i \in 1 .. Len(s) - 1 : r[i] = IF i < k THEN s[i] ELSE s[i + 1]
  BY RemoveAtIs
<1>3. DOMAIN r = 1 .. Len(s) - 1 BY <1>2, LenProperties
<1> HIDE DEF r
<1>4. \A i \in 1 .. Len(s) - 1 : r[i] = s[f[i]] BY <1>1, <1>2
<1>5. \A i, j \in 1 .. Len(s) - 1 :
        f[i] \in 1 .. Len(s) /\ f[i] # k /\ (f[i] = f[j] => i = j)
  BY <1>1
<1> HIDE DEF f
<1>6. k \in DOMAIN s /\ \A i \in DOMAIN r : f[i] \in DOMAIN s BY <1>1, <1>3, <1>5
<1>7. Once(r) BY <1>3, <1>4, <1>5, <1>6 DEF Once
<1>8. \A i \in DOMAIN r : ~(r[i].peer = s[k].peer /\ r[i].uri = s[k].uri)
  BY <1>3, <1>4, <1>5, <1>6 DEF Once
<1> QED BY <1>7, <1>8 DEF r

LEMMA WithoutOnce ==
  ASSUME Transactions, Once(observers), NEW I \in SUBSET DOMAIN observers
  PROVE  Once(Without(I))
<1>1. observers \in Seq(Observer) BY DEF Transactions
<1>2. CASE I = {} BY <1>2 DEF Without
<1>3. CASE I # {}
  <2>1. Min(I) \in 1 .. Len(observers) BY <1>1, <1>3, FirstIs, LenProperties
  <2> QED BY <1>1, <1>3, <2>1, RemovedOnce DEF Without
<1> QED BY <1>2, <1>3

(* An observer that registers again replaces its registration.             *)
LEMMA ReplacedOnce ==
  ASSUME Transactions, Once(observers), PrefixFree, NEW p \in Peer, NEW u \in Uri
  PROVE  /\ Once(WithoutUri(p, u))
         /\ \A i \in DOMAIN WithoutUri(p, u) :
              ~(WithoutUri(p, u)[i].peer = p /\ WithoutUri(p, u)[i].uri = u)
<1> DEFINE I == {i \in Observing(p) : IsPrefix(observers[i].uri, u)}
<1>1. observers \in Seq(Observer) /\ DOMAIN observers = 1 .. Len(observers)
  BY LenProperties DEF Transactions
<1>2. \A i \in DOMAIN observers : observers[i] \in Observer
  BY <1>1, ElementOfSeq
<1>3. I \in SUBSET DOMAIN observers BY DEF Observing
<1>4. Once(WithoutUri(p, u)) BY <1>3, WithoutOnce DEF WithoutUri
<1>5. CASE I = {}
  <2>1. IsPrefix(u, u)
    <3>1. Len(u) \in Nat BY CoapAssumption, LenProperties
    <3> QED BY <3>1 DEF IsPrefix
  <2>2. WithoutUri(p, u) = observers BY <1>5 DEF WithoutUri, Without
  <2>3. \A i \in DOMAIN observers : ~(observers[i].peer = p /\ observers[i].uri = u)
    BY <1>5, <2>1 DEF Observing
  <2> QED BY <1>4, <2>2, <2>3
<1>6. CASE I # {}
  <2>1. Min(I) \in I /\ Min(I) \in 1 .. Len(observers)
    BY <1>1, <1>3, <1>6, FirstIs
  <2>2. observers[Min(I)].peer = p /\ observers[Min(I)].uri = u
    BY <1>1, <1>2, <2>1 DEF Observing, PrefixFree, Observer
  <2>3. WithoutUri(p, u) = RemoveAt(observers, Min(I))
    BY <1>6 DEF WithoutUri, Without
  <2> QED BY <1>1, <1>4, <2>1, <2>2, <2>3, RemovedOnce
<1> QED BY <1>5, <1>6

LEMMA RegisteredOnce ==
  ASSUME Transactions, Once(observers), PrefixFree, NEW p \in Peer, NEW u \in Uri,
         NEW k \in 0 .. REFRESH - 1
  PROVE  Once(WithObserver(p, u, k))
<1> DEFINE w == WithoutUri(p, u)
           o == [peer |-> p, uri |-> u, last_mid |-> 0, counter |-> k]
           r == Append(w, o)
<1>1. Once(w) /\ \A i \in DOMAIN w : ~(w[i].peer = p /\ w[i].uri = u)
  BY ReplacedOnce
<1>2. w \in Seq(Observer)
  <2>1. {i \in Observing(p) : IsPrefix(observers[i].uri, u)} \in SUBSET DOMAIN observers
    BY DEF Observing
  <2> QED BY <2>1, WithoutIs DEF WithoutUri
<1>3. o \in Observer /\ o.peer = p /\ o.uri = u BY DEF Observer
<1>4. WithObserver(p, u, k) = IF Len(w) < MAX_OBSERVERS THEN r ELSE w
  BY DEF WithObserver
<1> HIDE DEF w, o
<1>5. /\ r \in Seq(Observer) /\ Len(r) = Len(w) + 1 /\ Len(w) \in Nat
      /\ r[Len(w) + 1] = o /\ \A i \in 1 .. Len(w) : r[i] = w[i]
  BY <1>2, <1>3, AppendProperties, LenProperties
<1>6. DOMAIN r = 1 .. Len(w) + 1 /\ DOMAIN w = 1 .. Len(w)
  BY <1>2, <1>5, LenProperties
<1> HIDE DEF r
<1>7. \A i \in DOMAIN r : i = Len(w) + 1 \/ i \in DOMAIN w
  BY <1>5, <1>6
<1>8. Once(r)
  BY <1>1, <1>3, <1>5, <1>6, <1>7 DEF Once
<1> QED BY <1>1, <1>4, <1>8

LEMMA NextOnce ==
  ASSUME TInv, Once(observers), PrefixFree, [Next]_vars
  PROVE  Once(observers)'
<1>1. Transactions BY DEF TInv
<1>2. \A I \in SUBSET DOMAIN observers : Once(Without(I)) BY <1>1, WithoutOnce
<1>3. \A p : Observing(p) \in SUBSET DOMAIN observers BY DEF Observing
<1>4. CASE UNCHANGED observers BY <1>4 DEF Once
<1>5. CASE TimerEvent
  <2>1. observers' = IF TimedOut = NULL THEN observers
                     ELSE WithoutClient(slot[TimedOut].packet.peer)
    BY <1>5 DEF TimerEvent, CheckTransactions
  <2>2. \A p : Once(WithoutClient(p)) BY <1>2, <1>3 DEF WithoutClient
  <2> QED BY <2>1, <2>2
<1>6. CASE NotifyNext
  <2>1. CASE observers' =
               [observers EXCEPT ![loop.next] = Notified(observers[loop.next], Fresh)]
    <3> DEFINE o == observers[loop.next]
    <3>1. o \in Observer /\ loop.next \in DOMAIN observers
      BY <1>1, <1>6, NotifyNextIs
    <3>2. Notified(o, Fresh).peer = o.peer /\ Notified(o, Fresh).uri = o.uri
      BY <1>1, <3>1, FreshMid, NotifiedIs
    <3>3. DOMAIN observers' = DOMAIN observers BY <2>1
    <3>4. \A i \in DOMAIN observers : observers'[i].peer = observers[i].peer
                                      /\ observers'[i].uri = observers[i].uri
      BY <2>1, <3>1, <3>2
    <3> QED BY <3>3, <3>4 DEF Once
  <2> QED BY <1>1, <1>4, <1>6, <2>1, NotifyNextIs
<1>7. CASE \E p \in Peer, m \in Theirs, u \in Uri : Observe(p, m, u)
  BY <1>1, <1>7, RegisteredOnce DEF Observe
<1>8. CASE \E p \in Peer, m \in Theirs, u \in Uri : Cancel(p, m, u)
  <2>1. PICK p \in Peer, u \in Uri : observers' = WithoutToken(p, u)
    BY <1>8 DEF Cancel
  <2>2. {i \in Observing(p) : observers[i].uri = u} \in SUBSET DOMAIN observers
    BY <1>3
  <2> QED BY <1>2, <2>1, <2>2 DEF WithoutToken
<1>9. CASE \E p \in Peer, m \in Mid : Reset(p, m)
  <2>1. PICK p \in Peer, m \in Mid : observers' = WithoutMid(p, m)
    BY <1>9 DEF Reset
  <2>2. {i \in Observing(p) : observers[i].last_mid = m} \in SUBSET DOMAIN observers
    BY <1>3
  <2> QED BY <1>2, <2>1, <2>2 DEF WithoutMid
<1>10. CASE \/ \E p \in Peer, m \in Theirs, u \in Uri : Get(p, m, u) \/ Change(p, m, u)
            \/ \E p \in Peer, m \in Theirs :
                 Other(p, m) \/ \E con \in BOOLEAN : Accept(p, m, con)
            \/ \E t \in Blocks : Acknowledge(t) \/ TimerExpires(t)
            \/ Garble
            \/ \E u \in Uri : Notify(u)
            \/ NotifyEnd \/ Resume
            \/ \E c \in Client : StartRequest(c) \/ ClientRuns(c)
            \/ UNCHANGED vars
  <2>1. UNCHANGED observers
    BY <1>10 DEF Get, Change, Accept, Other, Acknowledge, TimerExpires, Garble, Notify,
       NotifyEnd, Resume, StartRequest, ClientRuns, vars, tvars
  <2> QED BY <1>4, <2>1
<1> QED BY <1>5, <1>6, <1>7, <1>8, <1>9, <1>10 DEF Next, Receive

(* If no resource's name is a prefix of another's, no client is registered *)
(* twice as an observer of a resource: registering again replaces the      *)
(* first registration, and notifications and time-outs keep it so.         *)
THEOREM ObservedOnlyOnce == PrefixFree => (Spec => []ObservedOnce)
<1> SUFFICES ASSUME PrefixFree PROVE Spec => []ObservedOnce
  OBVIOUS
<1>1. Init => Once(observers) BY DEF Init, Once
<1>2. TInv /\ Once(observers) /\ [Next]_vars => Once(observers)' BY NextOnce
<1>3. Once(observers) => ObservedOnce BY DEF Once, ObservedOnce
<1> QED BY <1>1, <1>2, <1>3, Sound, PTL DEF Spec

------------------------------------------------------------------------------
(* Clients. *)

LEMMA StillWaiting ==
  ASSUME CInv, NEW c \in Client, want'[c] = want[c], c \in polled => c \in polled',
         \A t \in Open : Asking(t, c) =>
           \/ c \in polled'
           \/ /\ t \in Open' /\ slot'[t].packet = slot[t].packet
              /\ slot'[t].callback = slot[t].callback
  PROVE  want'[c] # 0 => c \in polled' \/ \E t \in Open' : Asking(t, c)'
<1> SUFFICES ASSUME want'[c] # 0, c \notin polled'
             PROVE  \E t \in Open' : Asking(t, c)'
  OBVIOUS
<1>1. PICK t \in Open : Asking(t, c) BY DEF CInv
<1>2. t \in Open' /\ Asking(t, c)' BY <1>1 DEF Asking
<1> QED BY <1>2

(* A step that leaves all transactions open, and all clients as they are.  *)
Keeps == \A t \in Open : t \in Open' /\ slot'[t] = slot[t]

LEMMA ConfirmableKeeps ==
  ASSUME Transactions, Free # {}, NEW packet, NEW c, Confirmable(FirstFree, packet, c)
  PROVE  /\ Keeps /\ Open' = Open \union {FirstFree} /\ FirstFree \notin Open
         /\ FirstFree \in Blocks
         /\ slot'[FirstFree].packet = packet /\ slot'[FirstFree].callback = c
         /\ \A t \in Open : slot'[t] = slot[t]
<1> DEFINE t == FirstFree
<1>1. t \in Blocks /\ t \notin Open BY FreeBlock
<1>2. /\ open' = Append(open, t)
      /\ slot' = [slot EXCEPT ![t] = [packet |-> packet, counter |-> 0, callback |-> c]]
  BY DEF Confirmable
<1>3. Open' = Open \union {t} BY <1>1, <1>2, Appended DEF Transactions, Open
<1>4. slot'[t].packet = packet /\ slot'[t].callback = c
      /\ \A u \in Open : slot'[u] = slot[u]
  BY <1>1, <1>2, Types DEF Transactions
<1> QED BY <1>1, <1>3, <1>4 DEF Keeps

LEMMA KeptServes ==
  ASSUME TInv, CInv, Keeps, UNCHANGED <<want, polled>>,
         loop'.serving \in {NULL, loop.serving}, Requests = {} => current' = NULL
  PROVE  CInv'
<1>1. \A c \in Client : want'[c] # 0 => c \in polled' \/ \E t \in Open' : Asking(t, c)'
  BY StillWaiting DEF Keeps
<1>2. loop'.serving # NULL => slot'[loop'.serving].packet.client = NULL
  BY DEF TInv, Engine, Keeps, CInv
<1> QED BY <1>1, <1>2 DEF CInv

(* The callback of a transaction that ends polls the process.              *)
LEMMA CallbackServes ==
  ASSUME TInv, CInv, NEW e, NEW m,
         IF e = NULL THEN UNCHANGED polled ELSE Callback(e, m),
         \A t \in Open : t # e => /\ t \in Open' /\ slot'[t].packet = slot[t].packet
                                  /\ slot'[t].callback = slot[t].callback,
         want' = want, loop' = Idle, Requests = {} => current' = NULL
  PROVE  CInv'
<1>1. NULL \notin Client /\ NULL \notin Open BY CoapAssumption, Types DEF TInv
<1>2. polled \subseteq polled' /\ (e # NULL /\ slot[e].callback # NULL =>
                                     slot[e].callback \in polled')
  BY DEF Callback, NoCallback, Poll
<1>3. ASSUME NEW c \in Client
      PROVE  want'[c] # 0 => c \in polled' \/ \E t \in Open' : Asking(t, c)'
  <2>1. \A t \in Open : Asking(t, c) =>
          \/ c \in polled'
          \/ /\ t \in Open' /\ slot'[t].packet = slot[t].packet
             /\ slot'[t].callback = slot[t].callback
    BY <1>1, <1>2 DEF Asking
  <2> QED BY <1>2, <2>1, StillWaiting
<1>4. loop'.serving = NULL BY DEF Idle
<1> QED BY <1>3, <1>4 DEF CInv

LEMMA EventServes == ASSUME TInv, CInv, TimerEvent PROVE CInv'
<1>1. /\ loop = Idle /\ CheckTransactions
      /\ IF TimedOut = NULL THEN NoCallback ELSE Callback(TimedOut, NULL)
      /\ want' = want /\ loop' = loop /\ current' = current
  BY DEF TimerEvent, Ready, evars
<1>2. \A t \in Open : t # TimedOut =>
        /\ t \in Open' /\ slot'[t].packet = slot[t].packet
        /\ slot'[t].callback = slot[t].callback
  BY <1>1, CheckIs, Types DEF TInv
<1>3. Requests = {} => current' = NULL BY <1>1 DEF CInv
<1>4. IF TimedOut = NULL THEN UNCHANGED polled ELSE Callback(TimedOut, NULL)
  BY <1>1 DEF NoCallback
<1>5. loop' = Idle BY <1>1
<1>6. want' = want BY <1>1
<1> DEFINE e == TimedOut
<1> HIDE DEF e
<1>7. /\ \A t \in Open : t # e =>
           /\ t \in Open' /\ slot'[t].packet = slot[t].packet
           /\ slot'[t].callback = slot[t].callback
      /\ IF e = NULL THEN UNCHANGED polled ELSE Callback(e, NULL)
  BY <1>2, <1>4 DEF e
<1> QED BY <1>3, <1>5, <1>6, <1>7, CallbackServes

LEMMA EndsServes ==
  ASSUME TInv, CInv, Receiving, NEW mid, NEW m, Ends(mid, m)
  PROVE  CInv'
<1> DEFINE t == ByMid(mid, m.peer)
<1>1. /\ current' = NULL /\ loop' = Idle /\ want' = want
      /\ IF t = NULL THEN UNCHANGED <<open, slot, armed>> /\ NoCallback
                     ELSE Clear(t) /\ Callback(t, m)
  BY DEF Ends, Receiving, Ready
<1>2. t # NULL => t \in Open /\ t \in Blocks
  BY ByMidIs DEF TInv
<1> HIDE DEF t
<1>3. \A u \in Open : u # t => /\ u \in Open' /\ slot'[u].packet = slot[u].packet
                               /\ slot'[u].callback = slot[u].callback
  <2>1. CASE t = NULL BY <1>1, <2>1 DEF Open
  <2>2. CASE t # NULL BY <1>1, <1>2, <2>2, ClearIs, Types DEF TInv
  <2> QED BY <2>1, <2>2
<1>4. IF t = NULL THEN UNCHANGED polled ELSE Callback(t, m)
  BY <1>1 DEF NoCallback
<1> QED BY <1>1, <1>3, <1>4, CallbackServes

LEMMA NotifyNextServes == ASSUME TInv, CInv, NotifyNext PROVE CInv'
<1>1. Transactions BY DEF TInv
<1>2. UNCHANGED <<events, current, stored, cvars, hvars>> BY <1>1, NotifyNextIs
<1>3. loop'.serving = loop.serving
  <2>1. loop \in Notification BY DEF TInv, Engine
  <2>2. \/ loop' = [loop EXCEPT !.next = @ + 1]
        \/ \E con \in BOOLEAN : loop' = [loop EXCEPT !.next = @ + 1, !.con = con]
    BY <1>1, NotifyNextIs
  <2> QED BY <2>1, <2>2 DEF Notification
<1>4. Keeps
  <2>1. CASE UNCHANGED <<open, slot, armed>> BY <2>1 DEF Keeps, Open
  <2>2. CASE Free # {} /\ Confirmable(FirstFree,
               Message(Fresh, observers[loop.next].peer, NULL, 0), slot[FirstFree].callback)
    BY <1>1, <2>2, ConfirmableKeeps
  <2> QED BY <1>1, <2>1, <2>2, NotifyNextIs
<1>5. UNCHANGED <<want, polled>> /\ (Requests = {} => current' = NULL)
  BY <1>2 DEF cvars, CInv
<1> QED BY <1>3, <1>4, <1>5, KeptServes

LEMMA NotifyEndServes == ASSUME TInv, CInv, NotifyEnd PROVE CInv'
<1>1. /\ loop' = Idle
      /\ IF loop.serving = NULL THEN UNCHANGED <<open, slot, armed>> ELSE Clear(loop.serving)
      /\ UNCHANGED <<current, want, polled>>
  BY DEF NotifyEnd, cvars, hvars
<1>2. loop'.serving = NULL /\ (Requests = {} => current' = NULL) BY <1>1 DEF Idle, CInv
<1>3. CASE loop.serving = NULL
  <2>1. Keeps BY <1>1, <1>3 DEF Keeps, Open
  <2> QED BY <1>1, <1>2, <2>1, KeptServes
<1>4. CASE loop.serving # NULL
  <2> DEFINE t == loop.serving
  <2>1. t \in Blocks /\ Clear(t) /\ slot[t].packet.client = NULL
    BY <1>1, <1>4, Types DEF TInv, Engine, CInv
  <2>2. \A u \in Open : u # t => u \in Open' /\ slot'[u] = slot[u]
    BY <2>1, ClearIs, Types DEF TInv
  <2> HIDE DEF t
  <2>3. ASSUME NEW c \in Client
        PROVE  want'[c] # 0 => c \in polled' \/ \E u \in Open' : Asking(u, c)'
    <3>1. ~Asking(t, c) BY <2>1, CoapAssumption DEF Asking
    <3> QED BY <1>1, <2>2, <3>1, StillWaiting
  <2> QED BY <1>2, <2>3 DEF CInv
<1> QED BY <1>3, <1>4

LEMMA ChangeServes ==
  ASSUME TInv, CInv, NEW p \in Peer, NEW m \in Theirs, NEW u \in Uri, Change(p, m, u)
  PROVE  CInv'
<1> DEFINE t == FirstFree
<1>1. /\ Requests # {} /\ Free # {} /\ open' = Append(open, t)
      /\ slot' = [slot EXCEPT ![t].packet = Message(m, p, NULL, 0)]
      /\ loop' = [Idle EXCEPT !.uri = u, !.next = 1, !.serving = t]
      /\ UNCHANGED <<want, polled>>
  BY DEF Change, Request, cvars, hvars
<1>2. Transactions /\ t \in Blocks /\ t \notin Open BY <1>1, FreeBlock DEF TInv
<1>3. Open' = Open \union {t} BY <1>1, <1>2, Appended DEF Transactions, Open
<1>4. \A v \in Open : slot'[v] = slot[v] BY <1>1, <1>2, Types DEF Transactions
<1>5. slot'[t].packet.client = NULL
  <2>1. slot \in [Blocks -> Slot] /\ slot[t] \in Slot BY <1>2 DEF Transactions
  <2>2. slot'[t].packet = Message(m, p, NULL, 0) BY <1>1, <1>2, <2>1 DEF Slot
  <2> QED BY <2>2 DEF Message
<1>6. loop'.serving = t BY <1>1 DEF Idle
<1> HIDE DEF t
<1>7. \A c \in Client : want'[c] # 0 => c \in polled' \/ \E v \in Open' : Asking(v, c)'
  BY <1>1, <1>3, <1>4, StillWaiting
<1> QED BY <1>1, <1>5, <1>6, <1>7 DEF CInv

LEMMA AskServes ==
  ASSUME TInv, CInv, NEW c \in Client, NEW block, Ended(c) \/ RequestBlock(c, block),
         loop = Idle, UNCHANGED evars, polled \subseteq polled' \union {c}
  PROVE  CInv'
<1>1. Transactions /\ want \in [Client -> Mid \union {0}] BY DEF TInv, Clients
<1>2. /\ loop'.serving = NULL /\ (Requests = {} => current' = NULL)
      /\ NULL \notin Client
  BY CoapAssumption DEF Idle, CInv, evars
<1>3. CASE Ended(c)
  <2>1. Keeps /\ want' = [want EXCEPT ![c] = 0]
    BY <1>3 DEF Ended, Keeps, Open
  <2>2. ASSUME NEW d \in Client
        PROVE  want'[d] # 0 => d \in polled' \/ \E t \in Open' : Asking(t, d)'
    <3>1. CASE d = c BY <1>1, <2>1, <3>1
    <3>2. CASE d # c
      <4>1. want'[d] = want[d] /\ (d \in polled => d \in polled')
        BY <1>1, <2>1, <3>2
      <4> QED BY <2>1, <4>1, StillWaiting DEF Keeps
    <3> QED BY <3>1, <3>2
  <2> QED BY <1>2, <2>2 DEF CInv
<1>4. CASE RequestBlock(c, block) /\ ~Ended(c)
  <2> DEFINE m == Message(Fresh, Server, c, block)
             t == FirstFree
  <2>1. Free # {} /\ Confirmable(FirstFree, m, c) /\ want' = [want EXCEPT ![c] = Fresh]
    BY <1>4 DEF RequestBlock
  <2>2. /\ Keeps /\ Open' = Open \union {t}
        /\ slot'[t].packet = m /\ slot'[t].callback = c
    BY <1>1, <2>1, ConfirmableKeeps
  <2>3. m.mid = Fresh /\ m.client = c BY DEF Message
  <2> HIDE DEF m, t
  <2>4. ASSUME NEW d \in Client
        PROVE  want'[d] # 0 => d \in polled' \/ \E u \in Open' : Asking(u, d)'
    <3>1. CASE d = c
      <4>1. /\ slot'[t].packet.mid = want'[d] /\ slot'[t].packet.client = d
            /\ slot'[t].callback = d /\ t \in Open'
        BY <1>1, <2>1, <2>2, <2>3, <3>1
      <4> QED BY <4>1 DEF Asking
    <3>2. CASE d # c
      <4>1. want'[d] = want[d] /\ (d \in polled => d \in polled')
        BY <1>1, <2>1, <3>2
      <4> QED BY <2>2, <4>1, StillWaiting DEF Keeps
    <3> QED BY <3>1, <3>2
  <2> QED BY <1>2, <2>4 DEF CInv
<1> QED BY <1>3, <1>4

LEMMA NextServes == TInv /\ CInv /\ Unharmed /\ [Next]_vars => CInv'
<1> SUFFICES ASSUME TInv, CInv, Unharmed, [Next]_vars PROVE CInv'
  OBVIOUS
<1>1. Transactions /\ Clients BY DEF TInv
<1>2. loop = Idle => loop.serving = NULL BY DEF Idle
<1>3. CASE UNCHANGED vars
  BY <1>3, KeptServes DEF vars, tvars, evars, cvars, Keeps, Open, CInv
<1>4. CASE \/ \E t \in Blocks : TimerExpires(t)
           \/ \E p \in Peer, m \in Theirs, u \in Uri :
                Get(p, m, u) \/ Observe(p, m, u) \/ Cancel(p, m, u)
           \/ \E p \in Peer, m \in Theirs : \E con \in BOOLEAN : Accept(p, m, con)
           \/ \E u \in Uri : Notify(u)
  <2>1. UNCHANGED <<open, slot>> /\ UNCHANGED <<want, polled>>
    BY <1>4 DEF TimerExpires, Get, Observe, Cancel, Accept, Notify, tvars, cvars, hvars
  <2>2. loop'.serving \in {NULL, loop.serving}
    BY <1>4 DEF TimerExpires, Get, Observe, Cancel, Accept, Notify, evars, Idle
  <2>3. Requests = {} => current' = NULL
    BY <1>4 DEF TimerExpires, Get, Observe, Cancel, Accept, Notify, evars, CInv, Request
  <2>4. Keeps BY <2>1 DEF Keeps, Open
  <2> QED BY <2>1, <2>2, <2>3, <2>4, KeptServes
<1>5. CASE Resume
  <2>1. UNCHANGED <<want, polled, loop, current>> BY <1>5 DEF Resume, cvars, hvars
  <2>2. Keeps
    <3>1. CASE UNCHANGED <<open, slot, armed>> BY <3>1 DEF Keeps, Open
    <3>2. CASE Free # {} /\ Confirmable(FirstFree,
                 Message(Fresh, stored.peer, NULL, 0), slot[FirstFree].callback)
      BY <1>1, <3>2, ConfirmableKeeps
    <3> QED BY <1>5, <3>1, <3>2 DEF Resume
  <2> QED BY <2>1, <2>2, KeptServes DEF CInv
<1>6. CASE Garble
  <2>1. current = NULL BY <1>6 DEF Garble, Unharmed, CInv
  <2>2. UNCHANGED <<open, slot, armed, evars, cvars, hvars>> BY <1>6, <2>1 DEF Garble
  <2>3. Keeps BY <2>2 DEF Keeps, Open
  <2> QED BY <2>1, <2>2, <2>3, KeptServes DEF evars, cvars, hvars
<1>7. CASE \/ \E t \in Blocks : Acknowledge(t)
           \/ \E p \in Peer, m \in Mid : Reset(p, m)
           \/ \E p \in Peer, m \in Theirs : Other(p, m)
  <2>1. Receiving BY <1>7 DEF Acknowledge, Reset, Other
  <2>2. \E mid, m : Ends(mid, m) BY <1>7 DEF Acknowledge, Reset, Other
  <2> QED BY <2>1, <2>2, EndsServes
<1>8. CASE \E c \in Client : StartRequest(c) \/ ClientRuns(c)
  <2>1. PICK c \in Client : StartRequest(c) \/ ClientRuns(c) BY <1>8
  <2>2. \E block : Ended(c) \/ RequestBlock(c, block)
    <3>1. CASE StartRequest(c) BY <3>1 DEF StartRequest
    <3>2. CASE ClientRuns(c) BY <1>1, <3>2, ClientIs
    <3> QED BY <2>1, <3>1, <3>2
  <2>3. loop = Idle /\ UNCHANGED evars /\ polled \subseteq polled' \union {c}
    BY <2>1 DEF StartRequest, ClientRuns, Ready
  <2> QED BY <2>2, <2>3, AskServes
<1>9. CASE \E p \in Peer, m \in Theirs, u \in Uri : Change(p, m, u)
  BY <1>9, ChangeServes
<1>10. CASE TimerEvent BY <1>10, EventServes
<1>11. CASE NotifyNext BY <1>11, NotifyNextServes
<1>12. CASE NotifyEnd BY <1>12, NotifyEndServes
<1> QED BY <1>3, <1>4, <1>5, <1>6, <1>7, <1>8, <1>9, <1>10, <1>11, <1>12
        DEF Next, Receive

(* If no message is garbled, or none is a request, a process that waits    *)
(* in coap_blocking_request is one that has been polled, or that the       *)
(* transaction of its request will poll: a transaction ends with its       *)
(* callback, whatever message, time-out or reused block ends it.           *)
THEOREM NobodyStranded == Unharmed => (Spec => []ClientsSound)
<1> SUFFICES ASSUME Unharmed PROVE Spec => []ClientsSound
  OBVIOUS
<1>1. Init => CInv BY DEF Init, CInv, Idle
<1>2. TInv /\ CInv /\ [Next]_vars => CInv' BY NextServes
<1>3. TransactionsSound /\ CInv => ClientsSound
  BY DEF CInv, Asking, TransactionsSound, ClientsSound, NoClientStranded
<1> QED BY <1>1, <1>2, <1>3, Sound, TransactionsCorrect, PTL DEF Spec

------------------------------------------------------------------------------
(* Responses. *)

(* A step that opens no request, ends some transactions without a callback *)
(* and leaves the clients as they are.                                     *)
LEMMA QuietKeeps ==
  ASSUME RInv, UNCHANGED <<cvars, hvars>>,
         \A t \in Open' :
           \/ /\ t \in Open /\ slot'[t].packet = slot[t].packet
              /\ slot'[t].callback = slot[t].callback
           \/ slot'[t].packet.client = NULL,
         DifferentIDs',
         loop'.serving # NULL => slot'[loop'.serving].packet.client = NULL
  PROVE  RInv'
<1>1. /\ polled' = polled /\ want' = want /\ response' = response
      /\ block_num' = block_num /\ more' = more /\ res_block' = res_block
      /\ misled' = misled /\ disturbed' = disturbed /\ NULL \notin Client
  BY CoapAssumption DEF cvars, hvars
<1>2. \A t \in Open' : Asks(t)' BY <1>1 DEF RInv, Asks
<1>3. ASSUME NEW c \in Client, c \notin misled' PROVE Own(c)'
  <2>1. Own(c) BY <1>1, <1>3 DEF RInv
  <2> QED BY <1>1, <2>1 DEF Own
<1>4. \A c \in Client : NextBlock(c)' /\ Untouched(c)'
  BY <1>1 DEF RInv, NextBlock, Untouched, Spared
<1> QED BY <1>2, <1>3, <1>4 DEF RInv

LEMMA SameKeeps ==
  ASSUME RInv, UNCHANGED <<open, slot, cvars, hvars>>, loop'.serving = loop.serving
  PROVE  RInv'
<1>1. Open' = Open BY DEF Open
<1>2. DifferentIDs' BY <1>1 DEF RInv, DifferentIDs
<1> QED BY <1>1, <1>2, QuietKeeps DEF RInv

(* A message of the node itself gets an ID that no other one has.          *)
LEMMA MessageKeeps ==
  ASSUME Transactions, RInv, Free # {}, NEW packet, NEW c, Confirmable(FirstFree, packet, c),
         packet.client = NULL, packet.mid = Fresh, loop.serving \in Open \union {NULL},
         loop'.serving = loop.serving, UNCHANGED <<cvars, hvars>>
  PROVE  RInv'
<1> DEFINE e == FirstFree
<1>1. /\ Open' = Open \union {e} /\ \A t \in Open : slot'[t] = slot[t]
      /\ e \notin Open /\ slot'[e].packet = packet
  BY ConfirmableKeeps
<1>2. \A t \in Open : slot[t].packet.mid # Fresh BY FreshMid
<1> HIDE DEF e
<1>3. DifferentIDs' BY <1>1, <1>2 DEF RInv, DifferentIDs
<1>4. loop'.serving # NULL => slot'[loop'.serving].packet.client = NULL
  BY <1>1 DEF RInv
<1> QED BY <1>1, <1>3, <1>4, QuietKeeps

LEMMA ClearKeeps ==
  ASSUME Transactions, RInv, NEW t \in Blocks, Clear(t), UNCHANGED <<cvars, hvars>>,
         loop'.serving = NULL, loop.serving \in {NULL, t}
  PROVE  RInv'
<1>1. Open' = Open \ {t} /\ \A u \in Blocks : u # t => slot'[u] = slot[u]
  BY ClearIs
<1>2. Open \subseteq Blocks BY Types
<1>3. DifferentIDs' BY <1>1, <1>2 DEF RInv, DifferentIDs
<1> QED BY <1>1, <1>2, <1>3, QuietKeeps

(* A transaction ends with its callback: m is the response, or NULL.       *)
LEMMA CallbackKeeps ==
  ASSUME TInv, RInv, NEW e \in Open, NEW m, Callback(e, m),
         m # NULL => /\ m.mid = slot[e].packet.mid
                     /\ m.num # NULL =>
                          /\ slot[e].packet.client # NULL
                          /\ LastBlock[slot[e].packet.client] # NULL
                          /\ m.num = slot[e].packet.block,
         Open' = Open \ {e},
         \A t \in Open : t # e => /\ slot'[t].packet = slot[t].packet
                                  /\ slot'[t].callback = slot[t].callback,
         loop.serving = NULL, loop'.serving = NULL,
         UNCHANGED <<want, block_num, more, res_block, disturbed>>
  PROVE  RInv'
<1> DEFINE c == slot[e].callback
<1>1. DifferentIDs' BY DEF RInv, DifferentIDs
<1>2. \A t \in Open' : Asks(t)' BY DEF RInv, Asks
<1>3. \A d \in Client : Untouched(d)' BY DEF RInv, Untouched, Spared
<1>4. Clients /\ c \in Client \union {NULL} /\ NULL \notin Client
  BY Types, CoapAssumption DEF TInv, Transactions, Slot
<1>5. CASE c = NULL
  <2>1. UNCHANGED <<response, polled, misled>> BY <1>5 DEF Callback, NoCallback
  <2>2. ASSUME NEW d \in Client, d \notin misled' PROVE Own(d)'
    <3>1. Own(d) BY <2>1, <2>2 DEF RInv
    <3> QED BY <2>1, <3>1 DEF Own
  <2>3. \A d \in Client : NextBlock(d)' BY <2>1 DEF RInv, NextBlock
  <2> QED BY <1>1, <1>2, <1>3, <2>2, <2>3 DEF RInv
<1>6. CASE c # NULL
  <2> DEFINE sent == slot[e].packet
  <2>1. /\ c \in Client /\ response' = [response EXCEPT ![c] = m]
        /\ polled' = polled \union {c}
        /\ misled' = IF sent.client = NULL THEN misled \union {c} ELSE misled
    BY <1>4, <1>6 DEF Callback, Poll
  <2>2. response'[c] = m /\ \A d \in Client : d # c => response'[d] = response[d]
    BY <1>4, <2>1 DEF Clients
  <2>3. sent.client # NULL =>
          /\ sent.client = c /\ (sent.mid = want[c] => sent.block = block_num[c])
    BY DEF RInv, Asks
  <2>4. ASSUME NEW d \in Client, d \notin misled' PROVE Own(d)'
    <3>1. d \notin misled /\ Own(d) BY <2>1, <2>4 DEF RInv
    <3>2. CASE d # c BY <2>1, <2>2, <3>1, <3>2 DEF Own
    <3>3. CASE d = c
      <4>1. sent.client = c BY <2>1, <2>3, <2>4, <3>3
      <4>2. want[c] # 0 /\ sent.mid = want[c] BY <3>1, <3>3, <4>1 DEF Own
      <4>3. \A t \in Open' : slot'[t].packet.client # c
        <5> SUFFICES ASSUME NEW t \in Open', slot'[t].packet.client = c PROVE FALSE
          OBVIOUS
        <5>1. t \in Open /\ t # e /\ slot[t].packet.client = c OBVIOUS
        <5>2. slot[t].packet.mid = want[c] BY <3>1, <3>3, <5>1 DEF Own
        <5>3. NULL \notin Open BY Types DEF TInv
        <5> QED BY <4>2, <5>1, <5>2, <5>3 DEF RInv, DifferentIDs
      <4> QED BY <2>2, <3>3, <4>2, <4>3 DEF Own
    <3> QED BY <3>2, <3>3
  <2>5. ASSUME NEW d \in Client PROVE NextBlock(d)'
    <3>1. CASE d # c
      <4>1. NextBlock(d) BY DEF RInv
      <4> QED BY <2>2, <3>1, <4>1 DEF NextBlock
    <3>2. CASE d = c BY <2>2, <2>3, <3>2 DEF NextBlock
    <3> QED BY <3>1, <3>2
  <2> QED BY <1>1, <1>2, <1>3, <2>4, <2>5 DEF RInv
<1> QED BY <1>5, <1>6

LEMMA EventKeeps == ASSUME TInv, RInv, TimerEvent PROVE RInv'
<1>1. /\ CheckTransactions /\ loop = Idle
      /\ IF TimedOut = NULL THEN NoCallback ELSE Callback(TimedOut, NULL)
      /\ UNCHANGED <<evars, want, block_num, more, res_block, block_error, disturbed>>
  BY DEF TimerEvent, Ready
<1>2. loop.serving = NULL /\ loop'.serving = NULL BY <1>1 DEF evars, Idle
<1>3. /\ Open' = Open \ {TimedOut}
      /\ \A u \in Open : u # TimedOut =>
           slot'[u].packet = slot[u].packet /\ slot'[u].callback = slot[u].callback
      /\ TimedOut # NULL => TimedOut \in Open
  BY <1>1, CheckIs, Types DEF TInv
<1> DEFINE e == TimedOut
<1>4. /\ Open' = Open \ {e} /\ (e # NULL => e \in Open)
      /\ \A u \in Open : u # e =>
           slot'[u].packet = slot[u].packet /\ slot'[u].callback = slot[u].callback
      /\ IF e = NULL THEN NoCallback ELSE Callback(e, NULL)
  BY <1>1, <1>3
<1> HIDE DEF e
<1>5. CASE e = NULL
  <2>1. NULL \notin Open /\ Open' = Open BY <1>4, <1>5, Types DEF TInv
  <2>2. UNCHANGED <<cvars, hvars>> BY <1>1, <1>4, <1>5 DEF NoCallback, cvars, hvars
  <2>3. DifferentIDs' BY <1>2, <1>4, <1>5, <2>1 DEF RInv, DifferentIDs
  <2> QED BY <1>2, <1>4, <1>5, <2>1, <2>2, <2>3, QuietKeeps
<1>6. CASE e # NULL
  <2>1. e \in Open /\ Callback(e, NULL) BY <1>4, <1>6
  <2> QED BY <1>1, <1>2, <1>4, <2>1, CallbackKeeps
<1> QED BY <1>5, <1>6

(* A message that is received calls back the client that has sent the      *)
(* message with its ID, if it was the message of a client.                 *)
LEMMA EndsKeeps ==
  ASSUME TInv, RInv, Receiving, NEW mid, NEW m \in Response, Ends(mid, m), m.mid = mid,
         m.num # NULL =>
           \A t \in Open : slot[t].packet.mid = mid =>
             /\ slot[t].packet.client # NULL
             /\ LastBlock[slot[t].packet.client] # NULL
             /\ m.num = slot[t].packet.block
  PROVE  RInv'
<1> DEFINE t == ByMid(mid, m.peer)
<1>1. /\ IF t = NULL THEN UNCHANGED <<open, slot, armed>> /\ NoCallback
                     ELSE Clear(t) /\ Callback(t, m)
      /\ UNCHANGED <<loop, want, block_num, more, res_block, block_error, disturbed>>
  BY DEF Ends
<1>2. loop.serving = NULL /\ loop'.serving = NULL
  BY <1>1 DEF Receiving, Ready, Idle
<1>3. t # NULL => t \in Open /\ t \in Blocks /\ slot[t].packet.mid = mid
  BY ByMidIs DEF TInv
<1> HIDE DEF t
<1>4. CASE t = NULL
  <2>1. UNCHANGED <<open, slot, cvars, hvars>>
    BY <1>1, <1>4 DEF NoCallback, cvars, hvars
  <2> QED BY <1>2, <2>1, SameKeeps
<1>5. CASE t # NULL
  <2>1. t \in Open /\ t \in Blocks /\ slot[t].packet.mid = mid /\ Clear(t) /\ Callback(t, m)
    BY <1>1, <1>3, <1>5
  <2>2. Open' = Open \ {t} /\ \A u \in Open : u # t => slot'[u] = slot[u]
    BY <2>1, ClearIs, Types DEF TInv
  <2>3. /\ m.mid = slot[t].packet.mid
        /\ m.num # NULL =>
             /\ slot[t].packet.client # NULL
             /\ LastBlock[slot[t].packet.client] # NULL
             /\ m.num = slot[t].packet.block
    BY <2>1
  <2> QED BY <1>1, <1>2, <2>1, <2>2, <2>3, CallbackKeeps
<1> QED BY <1>4, <1>5

LEMMA ReceivedKeeps ==
  ASSUME TInv, RInv, \/ \E t \in Blocks : Acknowledge(t)
                     \/ \E p \in Peer, m \in Mid : Reset(p, m)
                     \/ \E p \in Peer, m \in Theirs : Other(p, m)
  PROVE  RInv'
<1>1. CASE \E t \in Blocks : Acknowledge(t)
  <2>1. PICK t \in Blocks : Acknowledge(t) BY <1>1
  <2> DEFINE sent == slot[t].packet
             last == IF sent.client = NULL THEN NULL ELSE LastBlock[sent.client]
             num == IF last # NULL /\ sent.block <= last THEN sent.block ELSE NULL
             r == Answer(sent.mid, sent.peer, num, last)
  <2>2. Receiving /\ t \in Open /\ Ends(sent.mid, r)
    BY <2>1 DEF Acknowledge
  <2>3. num # NULL => /\ sent.client # NULL /\ LastBlock[sent.client] # NULL
                      /\ num = sent.block
    OBVIOUS
  <2>4. sent.mid \in Nat /\ sent.peer \in Peer /\ num \in Nat \union {NULL}
    BY <2>2, Types DEF TInv, Transactions, Slot
  <2> HIDE DEF num, last
  <2>5. r \in Response /\ r.mid = sent.mid /\ r.num = num
    <3> HIDE DEF last, num, sent
    <3>1. \A a \in Nat, b \in Peer, n \in Nat \union {NULL} :
            LET z == Answer(a, b, n, last) IN z \in Response /\ z.mid = a /\ z.num = n
      BY AnswerIs
    <3> QED BY <2>4, <3>1 DEF sent
  <2>6. \A u \in Open : slot[u].packet.mid = sent.mid => u = t
    <3>1. loop.serving = NULL /\ NULL \notin Open
      BY <2>2, Types DEF Receiving, Ready, Idle, TInv
    <3> QED BY <2>2, <3>1 DEF RInv, DifferentIDs
  <2> HIDE DEF r
  <2> QED BY <2>2, <2>3, <2>5, <2>6, EndsKeeps
<1>2. CASE \/ \E p \in Peer, m \in Mid : Reset(p, m)
           \/ \E p \in Peer, m \in Theirs : Other(p, m)
  <2>1. PICK p \in Peer, m \in Nat : Receiving /\ Ends(m, Answer(m, p, NULL, NULL))
    BY <1>2, CoapAssumption, EngineAssumption DEF Reset, Other
  <2> DEFINE r == Answer(m, p, NULL, NULL)
  <2>2. r \in Response /\ r.mid = m /\ r.num = NULL
    <3>1. NULL \in Nat \union {NULL} OBVIOUS
    <3> QED BY <3>1 DEF Answer, Response
  <2> HIDE DEF r
  <2>3. Ends(m, r) BY <2>1 DEF r
  <2> QED BY <2>1, <2>2, <2>3, EndsKeeps
<1> QED BY <1>1, <1>2

(* A client sends its next request, or ends.                               *)
LEMMA AskKeeps ==
  ASSUME TInv, RInv, NEW c \in Client, Ended(c) \/ RequestBlock(c, block_num'[c]),
         loop = Idle, UNCHANGED evars, polled' \in {polled, polled \ {c}}, response'[c] = NULL,
         \A d \in Client : d # c => /\ block_num'[d] = block_num[d]
                                    /\ response'[d] = response[d]
                                    /\ d \notin misled' => d \notin misled,
         c \notin misled' => c \notin polled' /\ \A t \in Open : slot[t].packet.client # c,
         \A d \in Client : Untouched(d)'
  PROVE  RInv'
<1>1. Transactions /\ want \in [Client -> Mid \union {0}] /\ polled \subseteq Client
  BY DEF TInv, Clients
<1>2. loop.serving = NULL /\ loop'.serving = NULL BY DEF Idle, evars
<1>3. (\A d \in Client : d # c => want'[d] = want[d]) => \A d \in Client : NextBlock(d)'
  BY DEF RInv, NextBlock
<1>4. CASE Ended(c)
  <2>1. Open' = Open /\ slot' = slot /\ want' = [want EXCEPT ![c] = 0]
    BY <1>4 DEF Ended, Open
  <2>2. want'[c] = 0 /\ \A d \in Client : d # c => want'[d] = want[d] BY <1>1, <2>1
  <2>3. DifferentIDs' BY <1>2, <2>1 DEF RInv, DifferentIDs
  <2>4. ASSUME NEW t \in Open' PROVE Asks(t)'
    <3>1. Asks(t) /\ slot[t].packet.client \in Client \union {NULL}
      BY <1>1, <2>1, <2>4, Types DEF RInv, Transactions, Slot
    <3> QED BY <2>1, <2>2, <3>1 DEF Asks
  <2>5. ASSUME NEW d \in Client, d \notin misled' PROVE Own(d)'
    <3>1. CASE d = c BY <2>1, <2>5, <3>1 DEF Own
    <3>2. CASE d # c
      <4>1. Own(d) BY <2>5, <3>2 DEF RInv
      <4> QED BY <2>1, <2>2, <3>2, <4>1 DEF Own
    <3> QED BY <3>1, <3>2
  <2> QED BY <1>2, <1>3, <2>2, <2>3, <2>4, <2>5 DEF RInv
<1>5. CASE RequestBlock(c, block_num'[c]) /\ ~Ended(c)
  <2> DEFINE m == Message(Fresh, Server, c, block_num'[c])
             e == FirstFree
  <2>1. Free # {} /\ Confirmable(FirstFree, m, c) /\ want' = [want EXCEPT ![c] = Fresh]
    BY <1>5 DEF RequestBlock
  <2>2. /\ Open' = Open \union {e} /\ \A t \in Open : slot'[t] = slot[t]
        /\ slot'[e].packet = m /\ slot'[e].callback = c /\ e \notin Open
    BY <1>1, <2>1, ConfirmableKeeps
  <2>3. m.mid = Fresh /\ m.client = c /\ m.block = block_num'[c] BY DEF Message
  <2>4. Fresh # 0 /\ \A t \in Open : slot[t].packet.mid # Fresh BY <1>1, FreshMid
  <2>5. want'[c] = Fresh /\ \A d \in Client : d # c => want'[d] = want[d]
    BY <1>1, <2>1
  <2> HIDE DEF m, e
  <2>6. DifferentIDs' BY <1>2, <2>2, <2>3, <2>4 DEF RInv, DifferentIDs
  <2>7. ASSUME NEW t \in Open' PROVE Asks(t)'
    <3>1. CASE t = e BY <2>2, <2>3, <2>4, <3>1 DEF Asks
    <3>2. CASE t \in Open
      <4>1. Asks(t) /\ slot[t].packet.client \in Client \union {NULL}
        BY <1>1, <3>2, Types DEF RInv, Transactions, Slot
      <4> QED BY <2>2, <2>4, <2>5, <3>2, <4>1 DEF Asks
    <3> QED BY <2>2, <3>1, <3>2
  <2>8. ASSUME NEW d \in Client, d \notin misled' PROVE Own(d)'
    <3>1. CASE d = c BY <2>2, <2>3, <2>4, <2>5, <2>8, <3>1 DEF Own
    <3>2. CASE d # c
      <4>1. Own(d) BY <2>8, <3>2 DEF RInv
      <4> QED BY <2>2, <2>3, <2>5, <3>2, <4>1 DEF Own
    <3> QED BY <3>1, <3>2
  <2> QED BY <1>2, <1>3, <2>5, <2>6, <2>7, <2>8 DEF RInv
<1> QED BY <1>4, <1>5

(* A client that starts anew finds the shared variables reset.             *)
LEMMA StartKeeps ==
  ASSUME TInv, RInv, NEW c \in Client, StartRequest(c)
  PROVE  RInv'
<1>1. /\ loop = Idle /\ want[c] = 0 /\ block_num' = [block_num EXCEPT ![c] = 0]
      /\ response' = [response EXCEPT ![c] = NULL]
      /\ more' = FALSE /\ res_block' = 0 /\ RequestBlock(c, 0)
      /\ misled' = IF StartsAnew(c) THEN misled \ {c} ELSE misled
      /\ disturbed' = disturbed \ {c} /\ UNCHANGED evars /\ polled' = polled
  BY DEF StartRequest, ResBlockAtStart, Ready
<1>2. Clients BY DEF TInv
<1>3. /\ block_num'[c] = 0 /\ response'[c] = NULL
      /\ \A d \in Client : d # c => /\ block_num'[d] = block_num[d]
                                    /\ response'[d] = response[d]
                                    /\ d \notin misled' => d \notin misled
                                    /\ d \notin disturbed' => d \notin disturbed
  BY <1>1, <1>2 DEF Clients
<1>4. \A d \in Client : d # c => want'[d] = want[d]
  BY <1>1, <1>2 DEF RequestBlock, Ended, Clients
<1>5. \A d \in Client : Untouched(d)'
  BY <1>1, <1>3, <1>4 DEF RInv, Untouched, Spared
<1>6. RequestBlock(c, block_num'[c]) BY <1>1, <1>3
<1>7. c \notin misled' => c \notin polled' /\ \A t \in Open : slot[t].packet.client # c
  <2>1. CASE StartsAnew(c) BY <1>1, <2>1 DEF StartsAnew
  <2>2. CASE ~StartsAnew(c)
    <3>1. c \notin misled => Own(c) BY DEF RInv
    <3> QED BY <1>1, <2>2, <3>1 DEF Own
  <2> QED BY <2>1, <2>2
<1>8. polled' \in {polled, polled \ {c}} BY <1>1
<1> QED BY <1>1, <1>3, <1>5, <1>6, <1>7, <1>8, AskKeeps

(* A client that is polled goes on, and says so to the others if it has    *)
(* received a block.                                                       *)
LEMMA RunsKeeps ==
  ASSUME TInv, RInv, NEW c \in Client, ClientRuns(c)
  PROVE  RInv'
<1> DEFINE r == response[c]
<1>1. Clients BY DEF TInv
<1>2. /\ loop = Idle /\ c \in polled /\ polled' = polled \ {c}
      /\ response' = [response EXCEPT ![c] = NULL] /\ UNCHANGED evars /\ misled' = misled
  BY DEF ClientRuns, Ready
<1>3. Ended(c) \/ RequestBlock(c, block_num'[c])
  BY <1>1, ClientIs
<1>4. /\ response'[c] = NULL
      /\ \A d \in Client : d # c => /\ response'[d] = response[d]
                                    /\ block_num'[d] = block_num[d]
                                    /\ want'[d] = want[d]
                                    /\ d \notin misled' => d \notin misled
  <2>1. \A d \in Client : d # c => block_num'[d] = block_num[d]
    BY <1>1, ClientIs DEF Clients
  <2>2. \A d \in Client : d # c => want'[d] = want[d]
    BY <1>1, <1>3 DEF Ended, RequestBlock, Clients
  <2> QED BY <1>1, <1>2, <2>1, <2>2 DEF Clients
<1>5. c \notin misled' => c \notin polled' /\ \A t \in Open : slot[t].packet.client # c
  <2>1. c \notin misled => Own(c) BY DEF RInv
  <2> QED BY <1>2, <2>1 DEF Own
<1>6. ASSUME NEW d \in Client PROVE Untouched(d)'
  <2>1. CASE want[c] = 0 \/ r = NULL
    <3>1. Ended(c) /\ UNCHANGED <<block_num, more, res_block, block_error, disturbed>>
      BY <2>1 DEF ClientRuns
    <3>2. want'[c] = 0 BY <1>1, <3>1 DEF Ended, Clients
    <3>3. Untouched(d) BY DEF RInv
    <3> QED BY <1>4, <3>1, <3>2, <3>3 DEF Untouched, Spared
  <2>2. CASE ~(want[c] = 0 \/ r = NULL)
    <3>1. /\ more' = IF r.num = NULL THEN more ELSE r.more
          /\ res_block' = IF r.num = NULL THEN res_block ELSE r.num
          /\ disturbed' = IF r.num = NULL THEN disturbed
                          ELSE disturbed \union (Waiting \ {c})
          /\ IF more' /\ block_error' < MAX_ATTEMPTS
             THEN RequestBlock(c, block_num'[c]) ELSE Ended(c)
      BY <2>2 DEF ClientRuns
    <3>2. Untouched(d) /\ Untouched(c) /\ NextBlock(c) BY DEF RInv
    <3>3. CASE d # c
      BY <1>4, <3>1, <3>2, <3>3 DEF Untouched, Spared, Waiting
    <3>4. CASE d = c
      <4> SUFFICES ASSUME want'[c] # 0, Spared(c)' PROVE FALSE
        BY <3>4 DEF Untouched
      <4>1. LastBlock[c] = NULL /\ r.num = NULL /\ c \notin disturbed
        BY <2>2, <3>1, <3>2 DEF Spared, NextBlock
      <4>2. more' = FALSE BY <2>2, <3>1, <3>2, <4>1 DEF Untouched, Spared
      <4>3. want'[c] = 0 BY <1>1, <3>1, <4>2 DEF Ended, Clients
      <4> QED BY <4>3
    <3> QED BY <3>3, <3>4
  <2> QED BY <2>1, <2>2
<1>7. polled' \in {polled, polled \ {c}} BY <1>2
<1> QED BY <1>2, <1>3, <1>4, <1>5, <1>6, <1>7, AskKeeps

LEMMA NotifyNextKeeps == ASSUME TInv, RInv, NotifyNext PROVE RInv'
<1>1. Transactions /\ loop \in Notification /\ loop.serving \in Open \union {NULL}
  BY DEF TInv, Engine
<1>2. UNCHANGED <<cvars, hvars>> BY <1>1, NotifyNextIs
<1>3. loop'.serving = loop.serving
  <2>1. \/ loop' = [loop EXCEPT !.next = @ + 1]
        \/ \E con \in BOOLEAN : loop' = [loop EXCEPT !.next = @ + 1, !.con = con]
    BY <1>1, NotifyNextIs
  <2> QED BY <1>1, <2>1 DEF Notification
<1>4. CASE UNCHANGED <<open, slot, armed>> BY <1>2, <1>3, <1>4, SameKeeps
<1>5. CASE Free # {} /\ Confirmable(FirstFree,
             Message(Fresh, observers[loop.next].peer, NULL, 0), slot[FirstFree].callback)
  <2> DEFINE m == Message(Fresh, observers[loop.next].peer, NULL, 0)
             x == slot[FirstFree].callback
  <2>1. m.client = NULL /\ m.mid = Fresh BY DEF Message
  <2>2. Free # {} /\ Confirmable(FirstFree, m, x) BY <1>5
  <2> HIDE DEF m, x
  <2> QED BY <1>1, <1>2, <1>3, <2>1, <2>2, MessageKeeps
<1> QED BY <1>1, <1>4, <1>5, NotifyNextIs

LEMMA ResumeKeeps == ASSUME TInv, RInv, Resume PROVE RInv'
<1>1. Transactions /\ loop.serving \in Open \union {NULL} BY DEF TInv, Engine
<1> DEFINE m == Message(Fresh, stored.peer, NULL, 0)
           x == slot[FirstFree].callback
<1>2. /\ Free # {} /\ loop' = loop /\ UNCHANGED <<cvars, hvars>>
      /\ IF stored.con THEN Confirmable(FirstFree, m, x) ELSE UNCHANGED <<open, slot, armed>>
  BY DEF Resume
<1>3. m.client = NULL /\ m.mid = Fresh BY DEF Message
<1>4. loop'.serving = loop.serving BY <1>2
<1> HIDE DEF m, x
<1>5. CASE stored.con BY <1>1, <1>2, <1>3, <1>4, <1>5, MessageKeeps
<1>6. CASE ~stored.con BY <1>2, <1>4, <1>6, SameKeeps
<1> QED BY <1>5, <1>6

LEMMA ChangeKeeps ==
  ASSUME TInv, RInv, NEW p \in Peer, NEW m \in Theirs, NEW u \in Uri, Change(p, m, u)
  PROVE  RInv'
<1> DEFINE e == FirstFree
<1>1. /\ Free # {} /\ open' = Append(open, e) /\ loop = Idle
      /\ slot' = [slot EXCEPT ![e].packet = Message(m, p, NULL, 0)]
      /\ loop' = [Idle EXCEPT !.uri = u, !.next = 1, !.serving = e]
      /\ UNCHANGED <<cvars, hvars>>
  BY DEF Change, Request, Receiving, Ready
<1>2. Transactions /\ e \in Blocks /\ e \notin Open BY <1>1, FreeBlock DEF TInv
<1>3. Open' = Open \union {e} BY <1>1, <1>2, Appended DEF Transactions, Open
<1>4. \A v \in Open : slot'[v] = slot[v] BY <1>1, <1>2, Types DEF Transactions
<1>5. slot'[e].packet.client = NULL
  <2>1. slot \in [Blocks -> Slot] /\ slot[e] \in Slot BY <1>2 DEF Transactions
  <2>2. slot'[e].packet = Message(m, p, NULL, 0) BY <1>1, <1>2, <2>1 DEF Slot
  <2> QED BY <2>2 DEF Message
<1>6. loop.serving = NULL /\ loop'.serving = e /\ NULL \notin Open
  BY <1>1, <1>2, Types DEF Idle
<1>7. UNCHANGED <<cvars, hvars>> BY <1>1
<1> HIDE DEF e
<1>8. DifferentIDs' BY <1>3, <1>4, <1>6 DEF RInv, DifferentIDs
<1> QED BY <1>3, <1>4, <1>5, <1>6, <1>7, <1>8, QuietKeeps

LEMMA NextKeeps == TInv /\ RInv /\ [Next]_vars => RInv'
<1> SUFFICES ASSUME TInv, RInv, [Next]_vars PROVE RInv'
  OBVIOUS
<1>1. Transactions /\ Engine BY DEF TInv
<1>2. CASE \/ UNCHANGED vars \/ \E t \in Blocks : TimerExpires(t)
           \/ \E p \in Peer, m \in Theirs, u \in Uri :
                Get(p, m, u) \/ Observe(p, m, u) \/ Cancel(p, m, u)
           \/ \E p \in Peer, m \in Theirs : \E con \in BOOLEAN : Accept(p, m, con)
           \/ \E u \in Uri : Notify(u)
  <2>1. UNCHANGED <<open, slot, cvars, hvars>>
    BY <1>2 DEF vars, tvars, TimerExpires, Get, Observe, Cancel, Accept, Notify
  <2>2. loop'.serving = loop.serving
    BY <1>2 DEF vars, evars, TimerExpires, Get, Observe, Cancel, Accept, Notify, Ready, Idle
  <2> QED BY <2>1, <2>2, SameKeeps
<1>3. CASE \/ \E t \in Blocks : Acknowledge(t)
           \/ \E p \in Peer, m \in Mid : Reset(p, m)
           \/ \E p \in Peer, m \in Theirs : Other(p, m)
  BY <1>3, ReceivedKeeps
<1>4. CASE Garble
  <2>1. /\ loop.serving = NULL /\ loop'.serving = NULL /\ UNCHANGED <<cvars, hvars>>
        /\ IF current = NULL THEN UNCHANGED <<open, slot, armed>> ELSE Clear(current)
    BY <1>4 DEF Garble, Receiving, Ready, Idle, evars
  <2>2. CASE current = NULL BY <2>1, <2>2, SameKeeps
  <2>3. CASE current # NULL
    <3>1. current \in Blocks BY <1>1, <2>3 DEF Engine
    <3> QED BY <1>1, <2>1, <2>3, <3>1, ClearKeeps
  <2> QED BY <2>2, <2>3
<1>5. CASE NotifyEnd
  <2>1. /\ loop'.serving = NULL /\ UNCHANGED <<cvars, hvars>>
        /\ IF loop.serving = NULL THEN UNCHANGED <<open, slot, armed>>
                                  ELSE Clear(loop.serving)
    BY <1>5 DEF NotifyEnd, Idle
  <2>2. CASE loop.serving = NULL BY <2>1, <2>2, SameKeeps
  <2>3. CASE loop.serving # NULL
    <3>1. loop.serving \in Blocks BY <1>1, <2>3, Types DEF Engine
    <3> QED BY <1>1, <2>1, <2>3, <3>1, ClearKeeps
  <2> QED BY <2>2, <2>3
<1>6. CASE \E p \in Peer, m \in Theirs, u \in Uri : Change(p, m, u)
  BY <1>6, ChangeKeeps
<1>7. CASE TimerEvent BY <1>7, EventKeeps
<1>8. CASE NotifyNext BY <1>8, NotifyNextKeeps
<1>9. CASE Resume BY <1>9, ResumeKeeps
<1>10. CASE \E c \in Client : StartRequest(c) \/ ClientRuns(c)
  BY <1>10, StartKeeps, RunsKeeps
<1> QED BY <1>2, <1>3, <1>4, <1>5, <1>6, <1>7, <1>8, <1>9, <1>10 DEF Next, Receive

LEMMA Kept == Spec => []RInv
<1>1. Init => RInv
  BY DEF Init, RInv, DifferentIDs, Own, NextBlock, Untouched, Open, ToSet, Idle
<1>2. TInv /\ RInv /\ [Next]_vars => RInv' BY NextKeeps
<1> QED BY <1>1, <1>2, Sound, PTL DEF Spec

(* What a client takes for the response answers the message it waits for,  *)
(* whatever messages arrive, how late or often, from whom and with which   *)
(* IDs, and whatever the other clients do; unless a message of the node    *)
(* itself has called it, with a callback that was left in a block.         *)
THEOREM OwnResponses == Spec => []OwnResponse
<1>1. RInv => OwnResponse BY DEF RInv, Own, OwnResponse
<1> QED BY <1>1, Kept, PTL

(* A client hands over each block of its response and counts it, although  *)
(* the number of the block that arrives and the flag that more are to come *)
(* are shared by all clients.  A response without block option is handed   *)
(* over once, unless another client has received a block meanwhile.        *)
THEOREM BlocksInTurn == Spec => HandedOver
<1> DEFINE Handed ==
      \A c \in Client : LET r == response[c] IN
        (/\ want[c] # 0 /\ c \in polled /\ c \notin polled'
         /\ r # NULL /\ r.mid = want[c] /\ (r.num = NULL => Spared(c)))
          => /\ block_num'[c] = block_num[c] + 1
             /\ r.num = NULL => want'[c] = 0
<1>1. TInv /\ RInv /\ Next => Handed
  <2> SUFFICES ASSUME TInv, RInv, Next, NEW c \in Client,
                      want[c] # 0, c \in polled, c \notin polled', response[c] # NULL,
                      response[c].mid = want[c], response[c].num = NULL => Spared(c)
               PROVE  /\ block_num'[c] = block_num[c] + 1
                      /\ response[c].num = NULL => want'[c] = 0
    OBVIOUS
  <2>1. Clients BY DEF TInv
  <2>2. ClientRuns(c)
    <3>1. CASE \E d \in Client : ClientRuns(d)
      BY <3>1 DEF ClientRuns
    <3>2. CASE ~\E d \in Client : ClientRuns(d)
      <4>1. polled \subseteq polled'
        BY ZenonT(60), <3>2 DEF Next, Receive, Get, Observe, Cancel, Change, Accept, Other,
           Acknowledge, Reset, Ends, Garble, TimerExpires, TimerEvent, Notify, NotifyNext,
           NotifyEnd, Resume, StartRequest, Callback, NoCallback, Poll, cvars
      <4> QED BY <4>1
    <3> QED BY <3>1, <3>2
  <2>3. /\ more' = IF response[c].num = NULL THEN more ELSE response[c].more
        /\ res_block' = IF response[c].num = NULL THEN res_block ELSE response[c].num
        /\ block_num' = [block_num EXCEPT ![c] = IF InTurn(c) THEN @ + 1 ELSE @]
        /\ IF more' /\ block_error' < MAX_ATTEMPTS
           THEN RequestBlock(c, block_num'[c]) ELSE Ended(c)
    BY <2>2 DEF ClientRuns
  <2>4. NextBlock(c) /\ Untouched(c) BY DEF RInv
  <2>5. CASE response[c].num = NULL
    <3>1. res_block' = block_num[c] /\ more' = FALSE BY <2>3, <2>4, <2>5 DEF Untouched
    <3>2. Ended(c) /\ InTurn(c) BY <2>3, <3>1 DEF InTurn
    <3> QED BY <2>1, <2>3, <3>2 DEF Ended, Clients
  <2>6. CASE response[c].num # NULL
    <3>1. InTurn(c) BY <2>3, <2>4, <2>6 DEF NextBlock, InTurn
    <3> QED BY <2>1, <2>3, <2>6, <3>1 DEF Clients
  <2> QED BY <2>5, <2>6
<1>2. TInv /\ RInv /\ [Next]_vars => [Handed]_vars BY <1>1
<1>3. Spec => [][Handed]_vars BY <1>2, Sound, Kept, PTL DEF Spec
<1> QED BY <1>3 DEF HandedOver

==============================================================================
