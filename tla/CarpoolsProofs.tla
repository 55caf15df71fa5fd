--------------------------- MODULE CarpoolsProofs ---------------------------
(***************************************************************************)
(* Theorems about Carpools for any finite set of users, any carpools and   *)
(* any number of taps, refreshes and restarts: types, and that a deleted   *)
(* carpool stays deleted.                                                  *)
(***************************************************************************)
EXTENDS Carpools, SequenceTheorems, FiniteSetTheorems, WellFoundedInduction, TLAPS

-----------------------------------------------------------------------------
(* Sequences.                                                               *)

LEMMA SeqElement ==
    ASSUME NEW S, NEW s \in Seq(S)
    PROVE  /\ Len(s) \in Nat /\ DOMAIN s = 1 .. Len(s)
           /\ \A i \in DOMAIN s : s[i] \in S
BY LenProperties, ElementOfSeq

LEMMA FunctionIsSeq ==
    ASSUME NEW S, NEW n \in Nat, NEW s \in [1 .. n -> S]
    PROVE  s \in Seq(S) /\ Len(s) = n
OBVIOUS

LEMMA ConcatElement ==
    ASSUME NEW S, NEW s \in Seq(S), NEW t \in Seq(S)
    PROVE  /\ s \o t \in Seq(S) /\ DOMAIN (s \o t) = 1 .. Len(s) + Len(t)
           /\ \A i \in DOMAIN s : i \in DOMAIN (s \o t) /\ (s \o t)[i] = s[i]
           /\ \A j \in DOMAIN t : Len(s) + j \in DOMAIN (s \o t) /\ (s \o t)[Len(s) + j] = t[j]
           /\ \A i \in DOMAIN (s \o t) :
                 \/ i \in DOMAIN s
                 \/ i > Len(s) /\ i - Len(s) \in DOMAIN t /\ (s \o t)[i] = t[i - Len(s)]
<1>1. /\ Len(s) \in Nat /\ DOMAIN s = 1 .. Len(s) /\ Len(t) \in Nat /\ DOMAIN t = 1 .. Len(t)
  BY LenProperties
<1>2. /\ s \o t \in Seq(S) /\ Len(s \o t) = Len(s) + Len(t)
      /\ \A i \in 1 .. Len(s) + Len(t) : (s \o t)[i] = IF i <= Len(s) THEN s[i] ELSE t[i - Len(s)]
  BY ConcatProperties
<1>3. DOMAIN (s \o t) = 1 .. Len(s) + Len(t)
  BY <1>2, LenProperties
<1>4. \A i \in DOMAIN s : i \in 1 .. Len(s) + Len(t) /\ (s \o t)[i] = s[i]
  BY <1>1, <1>2
<1>5. \A j \in DOMAIN t : Len(s) + j \in 1 .. Len(s) + Len(t) /\ (s \o t)[Len(s) + j] = t[j]
  <2>1. ASSUME NEW j \in 1 .. Len(t)
        PROVE  /\ Len(s) + j \in 1 .. Len(s) + Len(t) /\ ~ (Len(s) + j <= Len(s))
               /\ Len(s) + j - Len(s) = j
    BY <1>1
  <2> QED  BY <1>1, <1>2, <2>1
<1>6. ASSUME NEW i \in 1 .. Len(s) + Len(t), i \notin DOMAIN s
      PROVE  i > Len(s) /\ i - Len(s) \in DOMAIN t /\ (s \o t)[i] = t[i - Len(s)]
  <2>1. i > Len(s) /\ ~ (i <= Len(s)) /\ i - Len(s) \in 1 .. Len(t)
    BY <1>1, <1>6
  <2> QED  BY <1>1, <1>2, <2>1
<1> QED  BY <1>2, <1>3, <1>4, <1>5, <1>6

LEMMA MinExists ==
    ASSUME NEW S \in SUBSET Nat, NEW x \in S
    PROVE  \E k \in S : \A i \in S : k <= i
<1> DEFINE T == {0 .. k : k \in S}
           R == StrictSubsetOrdering(Nat)
<1>1. T \subseteq FiniteSubsetsOf(Nat)
  <2>1. ASSUME NEW k \in S PROVE 0 .. k \in FiniteSubsetsOf(Nat)
    <3>1. IsFiniteSet(0 .. k)
      BY FS_Interval
    <3> QED  BY <3>1 DEF FiniteSubsetsOf
  <2> QED  BY <2>1
<1>2. T # {}
  OBVIOUS
<1>3. IsWellFoundedOn(R, FiniteSubsetsOf(Nat))
  BY FS_StrictSubsetOrderingWellFounded
<1>4. PICK s \in T : \A t \in T : ~ (<<t, s>> \in R)
  <2> HIDE DEF T, R
  <2> QED  BY <1>1, <1>2, <1>3, WFMin
<1>5. PICK k \in S : s = 0 .. k
  OBVIOUS
<1>6. \A j \in S : k <= j
  <2> SUFFICES ASSUME NEW j \in S, j < k PROVE FALSE
    OBVIOUS
  <2>1. 0 .. j \subseteq 0 .. k /\ 0 .. j # 0 .. k /\ 0 .. j \in SUBSET Nat /\ 0 .. k \in SUBSET Nat
    <3>1. k \in 0 .. k /\ k \notin 0 .. j
      OBVIOUS
    <3> QED  BY <3>1
  <2>2. <<0 .. j, 0 .. k>> \in R
    BY <2>1 DEF StrictSubsetOrdering
  <2> QED  BY <1>4, <1>5, <2>2
<1> QED  BY <1>6

\* One element less.
LEMMA RemoveAtForm ==
    ASSUME NEW S, NEW s \in Seq(S), NEW k \in 1 .. Len(s)
    PROVE  /\ RemoveAt(s, k) \in Seq(S)
           /\ \A i \in DOMAIN RemoveAt(s, k) :
                 \E j \in DOMAIN s : j # k /\ RemoveAt(s, k)[i] = s[j]
           /\ \A j \in DOMAIN s :
                 j # k => \E i \in DOMAIN RemoveAt(s, k) : RemoveAt(s, k)[i] = s[j]
<1> DEFINE a == SubSeq(s, 1, k - 1)
           b == SubSeq(s, k + 1, Len(s))
<1>1. Len(s) \in Nat /\ DOMAIN s = 1 .. Len(s) /\ k \in Nat
  BY LenProperties
<1>2. \A i \in 1 .. Len(s) : s[i] \in S
  BY <1>1, ElementOfSeq
<1>3. /\ a \in Seq(S) /\ Len(a) = k - 1
      /\ \A i \in 1 .. k - 1 : a[i] = s[i]
  <2>1. /\ 1 \in Int /\ k - 1 \in Int
        /\ \A i \in 1 .. k - 1 : s[i] \in S
        /\ (IF 1 <= k - 1 THEN k - 1 - 1 + 1 ELSE 0) = k - 1
        /\ k - 1 - 1 + 1 = k - 1
        /\ \A i \in 1 .. k - 1 : 1 + i - 1 = i
    BY <1>1, <1>2
  <2> HIDE DEF a
  <2>2. /\ a \in Seq(S) /\ Len(a) = (IF 1 <= k - 1 THEN k - 1 - 1 + 1 ELSE 0)
        /\ \A i \in 1 .. k - 1 - 1 + 1 : a[i] = s[1 + i - 1]
    BY <1>2, <2>1, SubSeqProperties DEF a
  <2> QED  BY <2>1, <2>2
<1>4. /\ b \in Seq(S) /\ Len(b) = Len(s) - k
      /\ \A i \in 1 .. Len(s) - k : b[i] = s[k + i]
  <2>1. /\ k + 1 \in Int /\ Len(s) \in Int
        /\ \A i \in k + 1 .. Len(s) : s[i] \in S
        /\ Len(s) - (k + 1) + 1 = Len(s) - k
        /\ \A i \in 1 .. Len(s) - k : k + 1 + i - 1 = k + i
    BY <1>1, <1>2
  <2>2. (IF k + 1 <= Len(s) THEN Len(s) - (k + 1) + 1 ELSE 0) = Len(s) - k
    <3>1. k <= Len(s)
      BY <1>1
    <3>2. CASE k + 1 <= Len(s)
      BY <2>1, <3>2
    <3>3. CASE ~ (k + 1 <= Len(s))
      <4>1. Len(s) = k
        <5>1. \A m, n \in Nat : n <= m /\ ~ (n + 1 <= m) => m = n
          OBVIOUS
        <5> QED  BY <1>1, <3>1, <3>3, <5>1
      <4>2. Len(s) - k = 0
        BY <1>1, <4>1
      <4> QED  BY <3>3, <4>2
    <3> QED  BY <3>2, <3>3
  <2> HIDE DEF b
  <2>3. /\ b \in Seq(S) /\ Len(b) = (IF k + 1 <= Len(s) THEN Len(s) - (k + 1) + 1 ELSE 0)
        /\ \A i \in 1 .. Len(s) - (k + 1) + 1 : b[i] = s[k + 1 + i - 1]
    BY <1>2, <2>1, SubSeqProperties DEF b
  <2> QED  BY <2>1, <2>2, <2>3
<1>5. RemoveAt(s, k) = a \o b
  BY DEF RemoveAt
<1> HIDE DEF a, b
<1>6. DOMAIN a = 1 .. k - 1 /\ DOMAIN b = 1 .. Len(s) - k
  BY <1>3, <1>4, LenProperties
<1>7. ASSUME NEW i \in DOMAIN (a \o b) PROVE \E j \in DOMAIN s : j # k /\ (a \o b)[i] = s[j]
  <2>1. CASE i \in DOMAIN a
    <3>1. (a \o b)[i] = a[i]
      BY <1>3, <1>4, <2>1, ConcatElement
    <3>2. a[i] = s[i] /\ i \in DOMAIN s /\ i # k
      BY <1>1, <1>3, <1>6, <2>1
    <3> QED  BY <3>1, <3>2
  <2>2. CASE i \notin DOMAIN a
    <3>1. i - Len(a) \in DOMAIN b /\ (a \o b)[i] = b[i - Len(a)]
      BY <1>3, <1>4, <2>2, ConcatElement
    <3> DEFINE n == i - Len(a)
    <3>2. n \in 1 .. Len(s) - k /\ (a \o b)[i] = b[n]
      BY <1>6, <3>1
    <3> HIDE DEF n
    <3>3. k + n \in DOMAIN s /\ k + n # k /\ b[n] = s[k + n]
      BY <1>1, <1>4, <3>2
    <3> QED  BY <3>2, <3>3
  <2> QED  BY <2>1, <2>2
<1>8. ASSUME NEW j \in DOMAIN s, j # k PROVE \E i \in DOMAIN (a \o b) : (a \o b)[i] = s[j]
  <2>1. CASE j < k
    <3>1. j \in DOMAIN a /\ a[j] = s[j]
      BY <1>1, <1>3, <1>6, <2>1
    <3> QED  BY <1>3, <1>4, <3>1, ConcatElement
  <2>2. CASE ~ (j < k)
    <3>1. j - k \in 1 .. Len(s) - k /\ k + (j - k) = j
      BY <1>1, <1>8, <2>2
    <3> DEFINE n == j - k
    <3>2. n \in DOMAIN b /\ b[n] = s[j]
      BY <1>4, <1>6, <3>1
    <3> HIDE DEF n
    <3>3. Len(a) + n \in DOMAIN (a \o b) /\ (a \o b)[Len(a) + n] = b[n]
      BY <1>3, <1>4, <3>2, ConcatElement
    <3> QED  BY <3>2, <3>3
  <2> QED  BY <2>1, <2>2
<1>9. a \o b \in Seq(S)
  BY <1>3, <1>4, ConcatElement
<1> DEFINE r == a \o b
<1>10. RemoveAt(s, k) = r /\ r \in Seq(S)
  BY <1>5, <1>9
<1>11. /\ \A i \in DOMAIN r : \E j \in DOMAIN s : j # k /\ r[i] = s[j]
       /\ \A j \in DOMAIN s : j # k => \E i \in DOMAIN r : r[i] = s[j]
  BY <1>7, <1>8
<1> HIDE DEF r
<1> QED  BY <1>10, <1>11

\* Array.remove(at:) of the first index found.
LEMMA WithoutFirstForm ==
    ASSUME NEW list \in Seq(CarpoolObject), NEW c, c \in Uuids(list)
    PROVE  /\ WithoutFirst(list, c) \in Seq(CarpoolObject)
           /\ \A d \in ToSet(WithoutFirst(list, c)) : d \in ToSet(list)
           /\ \A d \in ToSet(list) : d.uuid # c => d \in ToSet(WithoutFirst(list, c))
<1> DEFINE I == {i \in 1 .. Len(list) : list[i].uuid = c}
           k == Min(I)
<1>1. Len(list) \in Nat /\ DOMAIN list = 1 .. Len(list)
  BY LenProperties
<1>2. PICK x \in I : TRUE
  BY <1>1 DEF Uuids
<1>3. k \in I
  <2>1. I \in SUBSET Nat
    BY <1>1
  <2>2. \E m \in I : \A i \in I : m <= i
    <3> HIDE DEF I
    <3> QED  BY <1>2, <2>1, MinExists
  <2>3. k = CHOOSE m \in I : \A i \in I : m <= i
    BY DEF Min
  <2> QED  BY <2>2, <2>3
<1>4. WithoutFirst(list, c) = RemoveAt(list, k)
  <2>1. \E i \in 1 .. Len(list) : list[i].uuid = c
    BY <1>2
  <2>2. I # {}
    BY <1>2
  <2> QED  BY <2>1, <2>2 DEF WithoutFirst, RemoveFirstMatch, SelectInSeq
<1>5. k \in 1 .. Len(list) /\ list[k].uuid = c
  BY <1>3
<1> DEFINE r == RemoveAt(list, k)
<1> HIDE DEF I, k, r
<1>6. /\ r \in Seq(CarpoolObject)
      /\ \A i \in DOMAIN r : \E j \in DOMAIN list : j # k /\ r[i] = list[j]
      /\ \A j \in DOMAIN list : j # k => \E i \in DOMAIN r : r[i] = list[j]
  BY <1>5, RemoveAtForm DEF r
<1>7. WithoutFirst(list, c) = r
  BY <1>4 DEF r
<1> QED  BY <1>5, <1>6, <1>7 DEF ToSet

\* The order in which the driver's phone works through the passengers.
LEMMA OrderOfPassengers ==
    ASSUME NEW S \in SUBSET User, NEW ps \in SetToSeqs(S)
    PROVE  ps \in Seq(User) /\ ToSet(ps) = S
<1> DEFINE n == Cardinality(S)
<1>1. IsFiniteSet(S)
  BY CarpoolConstantsAssumption, FS_Subset
<1>2. n \in Nat
  BY <1>1, FS_CardinalityType
<1>3. ps \in [1 .. n -> S] /\ \A i, j \in 1 .. n : i # j => ps[i] # ps[j]
  BY DEF SetToSeqs
<1> HIDE DEF n
<1>4. ps \in Seq(User)
  <2>1. ps \in [1 .. n -> User]
    BY <1>3
  <2> QED  BY <1>2, <2>1, FunctionIsSeq
<1>5. ps \in Injection(1 .. n, S)
  BY <1>3 DEF Injection, IsInjective
<1>6. Cardinality(1 .. n) = Cardinality(S)
  <2>1. Cardinality(1 .. n) = (IF 1 > n THEN 0 ELSE n - 1 + 1)
    BY <1>2, FS_Interval
  <2> QED  BY <1>2, <2>1 DEF n
<1>7. ps \in Surjection(1 .. n, S)
  BY <1>1, <1>5, <1>6, FS_Injection
<1> QED  BY <1>3, <1>4, <1>7 DEF Surjection, ToSet
-----------------------------------------------------------------------------
(* Types.                                                                   *)

LEMMA QueuedWriteFields ==
    ASSUME NEW w \in QueuedWrite
    PROVE  /\ w.op \in {"create", "delete", "dropPassenger", "enter", "leave"}
           /\ w.carpool \in Carpool /\ w.user \in User /\ w.riders \in SUBSET User
           /\ w.completes \in BOOLEAN
BY DEF QueuedWrite

LEMMA WriteTyped ==
    ASSUME NEW c \in Carpool, NEW p \in User, NEW op \in {"delete", "dropPassenger", "enter", "leave"}
    PROVE  /\ write(op, c, p) \in QueuedWrite
           /\ write(op, c, p).op = op /\ write(op, c, p).carpool = c /\ write(op, c, p).user = p
BY DEF write, QueuedWrite

LEMMA QueueElements ==
    ASSUME TypeOK, NEW u \in User
    PROVE  /\ pending[u] \in Seq(QueuedWrite)
           /\ Len(pending[u]) \in Nat /\ DOMAIN pending[u] = 1 .. Len(pending[u])
           /\ \A i \in DOMAIN pending[u] : pending[u][i] \in QueuedWrite
<1>1. pending[u] \in Seq(QueuedWrite)
  BY DEF TypeOK
<1> QED  BY <1>1, SeqElement

\* A queue to which writes are added: the old ones stay in place, the new ones follow.
LEMMA Enqueued ==
    ASSUME TypeOK, NEW u \in User, NEW ws \in Seq(QueuedWrite), Enqueue(u, ws)
    PROVE  /\ pending' \in [User -> Seq(QueuedWrite)]
           /\ \A v \in User : v # u => pending'[v] = pending[v]
           /\ \A i \in DOMAIN pending[u] : i \in DOMAIN pending'[u] /\ pending'[u][i] = pending[u][i]
           /\ \A j \in DOMAIN ws : /\ Len(pending[u]) + j \in DOMAIN pending'[u]
                                   /\ pending'[u][Len(pending[u]) + j] = ws[j]
           /\ \A i \in DOMAIN pending'[u] :
                 \/ i \in DOMAIN pending[u]
                 \/ /\ i > Len(pending[u])
                    /\ i - Len(pending[u]) \in DOMAIN ws /\ pending'[u][i] = ws[i - Len(pending[u])]
<1>1. pending[u] \in Seq(QueuedWrite) /\ pending \in [User -> Seq(QueuedWrite)]
  BY DEF TypeOK
<1> DEFINE q == pending[u] \o ws
<1>2. pending' = [pending EXCEPT ![u] = q]
  BY DEF Enqueue
<1>3. /\ q \in Seq(QueuedWrite)
      /\ \A i \in DOMAIN pending[u] : i \in DOMAIN q /\ q[i] = pending[u][i]
      /\ \A j \in DOMAIN ws : Len(pending[u]) + j \in DOMAIN q /\ q[Len(pending[u]) + j] = ws[j]
      /\ \A i \in DOMAIN q :
            \/ i \in DOMAIN pending[u]
            \/ /\ i > Len(pending[u])
               /\ i - Len(pending[u]) \in DOMAIN ws /\ q[i] = ws[i - Len(pending[u])]
  BY <1>1, ConcatElement
<1> HIDE DEF q
<1>4. pending'[u] = q
  BY <1>1, <1>2
<1> QED  BY <1>1, <1>2, <1>3, <1>4

LEMMA LeaveAllTyped ==
    ASSUME NEW u \in User, NEW c \in Carpool, NEW ps \in Seq(User)
    PROVE  /\ leaveAll(u, ps, c) \in Seq(QueuedWrite)
           /\ \A i \in DOMAIN leaveAll(u, ps, c) :
                 \E p \in {u} \cup ToSet(ps) : leaveAll(u, ps, c)[i] = leaveGroup(c, p)
           /\ \A p \in {u} \cup ToSet(ps) :
                 \E i \in DOMAIN leaveAll(u, ps, c) : leaveAll(u, ps, c)[i] = leaveGroup(c, p)
<1> DEFINE a == << leaveGroup(c, u) >>
           b == [i \in DOMAIN ps |-> leaveGroup(c, ps[i])]
<1>1. Len(ps) \in Nat /\ DOMAIN ps = 1 .. Len(ps) /\ \A i \in DOMAIN ps : ps[i] \in User
  BY SeqElement
<1>2. \A p \in User : leaveGroup(c, p) \in QueuedWrite
  BY WriteTyped DEF leaveGroup
<1>3. a \in Seq(QueuedWrite) /\ DOMAIN a = {1} /\ a[1] = leaveGroup(c, u)
  BY <1>2
<1>4. b \in Seq(QueuedWrite) /\ DOMAIN b = DOMAIN ps /\ \A i \in DOMAIN ps : b[i] = leaveGroup(c, ps[i])
  <2>1. b \in [1 .. Len(ps) -> QueuedWrite]
    BY <1>1, <1>2
  <2>2. b \in Seq(QueuedWrite)
    BY <1>1, <2>1, FunctionIsSeq
  <2> QED  BY <2>2
<1> DEFINE r == a \o b
<1>5. leaveAll(u, ps, c) = r
  BY DEF leaveAll
<1> HIDE DEF a, b
<1>6. /\ r \in Seq(QueuedWrite)
      /\ \A i \in DOMAIN a : i \in DOMAIN r /\ r[i] = a[i]
      /\ \A j \in DOMAIN b : Len(a) + j \in DOMAIN r /\ r[Len(a) + j] = b[j]
      /\ \A i \in DOMAIN r : \/ i \in DOMAIN a
                             \/ i > Len(a) /\ i - Len(a) \in DOMAIN b /\ r[i] = b[i - Len(a)]
  BY <1>3, <1>4, ConcatElement
<1> HIDE DEF r
<1>7. ASSUME NEW i \in DOMAIN r PROVE \E p \in {u} \cup ToSet(ps) : r[i] = leaveGroup(c, p)
  <2>1. CASE i \in DOMAIN a
    BY <1>3, <1>6, <2>1
  <2>2. CASE i \notin DOMAIN a
    BY <1>4, <1>6, <2>2 DEF ToSet
  <2> QED  BY <2>1, <2>2
<1>8. ASSUME NEW p \in {u} \cup ToSet(ps) PROVE \E i \in DOMAIN r : r[i] = leaveGroup(c, p)
  <2>1. CASE p = u
    BY <1>3, <1>6, <2>1
  <2>2. CASE p \in ToSet(ps)
    <3>1. PICK j \in DOMAIN ps : p = ps[j]
      BY <2>2 DEF ToSet
    <3> QED  BY <1>4, <1>6, <3>1
  <2> QED  BY <2>1, <2>2
<1> QED  BY <1>5, <1>6, <1>7, <1>8

LEMMA EnterAllTyped ==
    ASSUME NEW u \in User, NEW c \in Carpool, NEW ps \in Seq(User)
    PROVE  /\ addCarpoolToGroups(u, c, ps) \in Seq(QueuedWrite)
           /\ DOMAIN addCarpoolToGroups(u, c, ps) = 1 .. Len(ps) + 1
           /\ \A i \in DOMAIN addCarpoolToGroups(u, c, ps) :
                 \/ i = 1 /\ addCarpoolToGroups(u, c, ps)[i] = enterGroup(c, u)
                 \/ i - 1 \in DOMAIN ps /\ addCarpoolToGroups(u, c, ps)[i] = enterGroup(c, ps[i - 1])
<1> DEFINE a == << enterGroup(c, u) >>
           b == [i \in DOMAIN ps |-> enterGroup(c, ps[i])]
<1>1. Len(ps) \in Nat /\ DOMAIN ps = 1 .. Len(ps) /\ \A i \in DOMAIN ps : ps[i] \in User
  BY SeqElement
<1>2. \A p \in User : enterGroup(c, p) \in QueuedWrite
  BY WriteTyped DEF enterGroup
<1>3. a \in Seq(QueuedWrite) /\ Len(a) = 1 /\ DOMAIN a = {1} /\ a[1] = enterGroup(c, u)
  BY <1>2
<1>4. b \in Seq(QueuedWrite) /\ Len(b) = Len(ps) /\ \A i \in DOMAIN ps : b[i] = enterGroup(c, ps[i])
  <2>1. b \in [1 .. Len(ps) -> QueuedWrite]
    BY <1>1, <1>2
  <2>2. b \in Seq(QueuedWrite) /\ Len(b) = Len(ps)
    BY <1>1, <2>1, FunctionIsSeq
  <2> QED  BY <2>2
<1>5. DOMAIN b = DOMAIN ps
  OBVIOUS
<1> DEFINE r == a \o b
<1>6. addCarpoolToGroups(u, c, ps) = r
  BY DEF addCarpoolToGroups
<1> HIDE DEF a, b
<1>7. /\ r \in Seq(QueuedWrite) /\ DOMAIN r = 1 .. Len(a) + Len(b)
      /\ \A i \in DOMAIN a : i \in DOMAIN r /\ r[i] = a[i]
      /\ \A i \in DOMAIN r : \/ i \in DOMAIN a
                             \/ i > Len(a) /\ i - Len(a) \in DOMAIN b /\ r[i] = b[i - Len(a)]
  BY <1>3, <1>4, ConcatElement
<1> HIDE DEF r
<1>8. DOMAIN r = 1 .. Len(ps) + 1
  <2>1. 1 + Len(ps) = Len(ps) + 1
    BY <1>1
  <2> QED  BY <1>3, <1>4, <1>7, <2>1
<1>9. \A i \in DOMAIN r : \/ i = 1 /\ r[i] = enterGroup(c, u)
                          \/ i - 1 \in DOMAIN ps /\ r[i] = enterGroup(c, ps[i - 1])
  BY <1>3, <1>4, <1>5, <1>7
<1> QED  BY <1>6, <1>7, <1>8, <1>9

LEMMA SeenTyped ==
    ASSUME TypeOK, NEW u \in User, NEW c \in Carpool
    PROVE  CarpoolSeenBy(u, c) \in CarpoolObject \cup {NoCarpool}
<1>1. carpoolCollection[c] \in CarpoolObject \cup {NoCarpool}
  BY DEF TypeOK
<1>2. \A i \in DOMAIN pending[u] : pending[u][i].riders \in SUBSET User
  BY QueueElements, QueuedWriteFields
<1>3. \A doc \in CarpoolObject \cup {NoCarpool} : \A ps :
          WithoutPassengers(doc, ps) \in CarpoolObject \cup {NoCarpool}
  BY DEF WithoutPassengers, CarpoolObject
<1> DEFINE created == QueuedFor(u, c, {"create"})
           dropped == {pending[u][i].user : i \in QueuedFor(u, c, {"dropPassenger"})}
           riders == UNION {pending[u][i].riders : i \in created} \ dropped
<1>4. riders \in SUBSET User
  BY <1>2 DEF QueuedFor
<1>5. \/ CarpoolSeenBy(u, c) = NoCarpool
      \/ CarpoolSeenBy(u, c) = WithoutPassengers(carpoolCollection[c], dropped)
      \/ CarpoolSeenBy(u, c) = [uuid |-> c, driver |-> u, passengers |-> riders]
  BY DEF CarpoolSeenBy
<1> HIDE DEF riders, dropped
<1> QED  BY <1>1, <1>3, <1>4, <1>5 DEF CarpoolObject

LEMMA CleanUpTyped ==
    ASSUME NEW u \in User, NEW v \in User, NEW doc \in CarpoolObject \cup {NoCarpool}
    PROVE  /\ cleanUpWrites(u, v, doc) \in Seq(QueuedWrite)
           /\ \/ cleanUpWrites(u, v, doc) = << >>
              \/ /\ doc # NoCarpool
                 /\ \E p \in {u, v} :
                       /\ p # u => doc.driver = u
                       /\ cleanUpWrites(u, v, doc) =
                             << leaveGroup(doc.uuid, p), dropPassenger(doc.uuid, p) >>
<1>1. CASE doc = NoCarpool
  BY <1>1 DEF cleanUpWrites
<1>2. CASE doc # NoCarpool
  <2>1. doc.uuid \in Carpool
    BY <1>2 DEF CarpoolObject
  <2>2. \A p \in User : << leaveGroup(doc.uuid, p), dropPassenger(doc.uuid, p) >> \in Seq(QueuedWrite)
    <3>1. \A p \in User : leaveGroup(doc.uuid, p) \in QueuedWrite /\ dropPassenger(doc.uuid, p) \in QueuedWrite
      BY <2>1, WriteTyped DEF leaveGroup, dropPassenger
    <3> QED  BY <3>1
  <2>3. \/ cleanUpWrites(u, v, doc) = << >>
        \/ /\ cleanUpWrites(u, v, doc) = << leaveGroup(doc.uuid, v), dropPassenger(doc.uuid, v) >>
           /\ doc.driver = u
        \/ cleanUpWrites(u, v, doc) = << leaveGroup(doc.uuid, u), dropPassenger(doc.uuid, u) >>
    BY <1>2 DEF cleanUpWrites
  <2>4. CASE cleanUpWrites(u, v, doc) = << >>
    BY <2>4
  <2>5. CASE /\ cleanUpWrites(u, v, doc) = << leaveGroup(doc.uuid, v), dropPassenger(doc.uuid, v) >>
             /\ doc.driver = u
    BY <1>2, <2>2, <2>5, Zenon
  <2>6. CASE cleanUpWrites(u, v, doc) = << leaveGroup(doc.uuid, u), dropPassenger(doc.uuid, u) >>
    BY <1>2, <2>2, <2>6, Zenon
  <2> QED  BY <2>3, <2>4, <2>5, <2>6
<1> QED  BY <1>1, <1>2

LEMMA RefreshesTyped ==
    ASSUME TypeOK, NEW u \in User, NEW list \in Seq(CarpoolObject), NEW todo \in Seq(SUBSET Carpool),
           NEW notifies, Refreshes(u, list, todo, notifies)
    PROVE  /\ carpools' \in [User -> Seq(CarpoolObject)]
           /\ rows' \in [User -> SUBSET CarpoolObject]
           /\ refreshing' \in [User -> Seq(SUBSET Carpool)]
<1>1. ToSet(list) \in SUBSET CarpoolObject
  BY SeqElement DEF ToSet
<1> QED  BY <1>1 DEF Refreshes, TypeOK

\* The list after the answer about c, and what is missed.
FetchLeaves(u, k, c, list) ==
    LET doc == CarpoolSeenBy(u, c)
    IN  /\ Leaves(u, k, c, list)
        /\ \/ /\ list = IF doc = NoCarpool THEN carpools[u] ELSE Append(carpools[u], doc)
              /\ missed' = missed \ {<<u, c>>}
           \/ /\ list = carpools[u]
              /\ missed' = IF c \in Uuids(carpools[u]) THEN missed ELSE missed \cup {<<u, c>>}

LEMMA FetchLists ==
    ASSUME NEW u, NEW k, NEW c, fetchCarpool(u, k, c)
    PROVE  \E list : FetchLeaves(u, k, c, list)
BY DEF fetchCarpool, FetchLeaves

\* The first write of a queue is sent and its completion may add others.
LEMMA DeliverTyped ==
    ASSUME TypeOK, NEW u \in User, Deliver(u)
    PROVE  TypeOK'
<1> DEFINE w == Head(pending[u])
           made == w.op = "create" /\ w.completes
           ws == IF made THEN addCarpoolToGroups(u, w.carpool, passengers[u]) ELSE << >>
           rest == Tail(pending[u])
<1>1. pending[u] \in Seq(QueuedWrite) /\ pending[u] # << >>
  BY DEF TypeOK, Deliver
<1>2. w \in QueuedWrite /\ rest \in Seq(QueuedWrite)
  BY <1>1, HeadTailProperties
<1>3. /\ w.op \in {"create", "delete", "dropPassenger", "enter", "leave"}
      /\ w.carpool \in Carpool /\ w.user \in User /\ w.riders \in SUBSET User
  BY <1>2, QueuedWriteFields
<1>4. passengers[u] \in Seq(User)
  BY DEF TypeOK
<1>5. ws \in Seq(QueuedWrite)
  <2>1. addCarpoolToGroups(u, w.carpool, passengers[u]) \in Seq(QueuedWrite)
    BY <1>3, <1>4, EnterAllTyped
  <2> QED  BY <2>1
<1> DEFINE q == rest \o ws
<1>6. q \in Seq(QueuedWrite)
  BY <1>2, <1>5, ConcatElement
<1>7. pending' = [pending EXCEPT ![u] = q]
  BY DEF Deliver
<1>8. pending' \in [User -> Seq(QueuedWrite)]
  <2> HIDE DEF q
  <2> QED  BY <1>6, <1>7 DEF TypeOK
<1>9. /\ carpoolCollection' = ApplyToCarpools(carpoolCollection, w)
      /\ groups' = ApplyToGroups(groups, w)
      /\ strays' = IF made THEN strays \cup ((ToSet(passengers[u]) \ w.riders) \X {w.carpool})
                   ELSE strays
      /\ \/ carpools' = carpools
         \/ /\ w.carpool \in Uuids(carpools[u])
            /\ carpools' = [carpools EXCEPT ![u] = WithoutFirst(@, w.carpool)]
  BY DEF Deliver
<1>10. UNCHANGED <<destination, passengers, rows, listening, snapshot, refreshing, cleanups,
                   taps, used, orphaned, departed, separated, missed>>
  BY DEF Deliver
<1> HIDE DEF w, ws, rest, q
<1>11. carpoolCollection' \in [Carpool -> CarpoolObject \cup {NoCarpool}]
  <2>1. carpoolCollection \in [Carpool -> CarpoolObject \cup {NoCarpool}]
    BY DEF TypeOK
  <2>2. CASE w.op = "create"
    <3>1. [uuid |-> w.carpool, driver |-> w.user, passengers |-> w.riders] \in CarpoolObject
      BY <1>3 DEF CarpoolObject
    <3> QED  BY <1>3, <1>9, <2>1, <2>2, <3>1 DEF ApplyToCarpools
  <2>3. CASE w.op = "delete"
    BY <1>3, <1>9, <2>1, <2>3 DEF ApplyToCarpools
  <2>4. CASE w.op = "dropPassenger"
    <3>1. WithoutPassengers(carpoolCollection[w.carpool], {w.user}) \in CarpoolObject \cup {NoCarpool}
      BY <1>3, <2>1 DEF WithoutPassengers, CarpoolObject
    <3> QED  BY <1>3, <1>9, <2>1, <2>4, <3>1 DEF ApplyToCarpools
  <2>5. CASE w.op \in {"enter", "leave"}
    BY <1>9, <2>1, <2>5 DEF ApplyToCarpools
  <2> QED  BY <1>3, <2>2, <2>3, <2>4, <2>5
<1>12. groups' \in [User -> SUBSET Carpool]
  BY <1>3, <1>9 DEF TypeOK, ApplyToGroups
<1>13. strays' \in SUBSET (User \X Carpool)
  <2>1. ToSet(passengers[u]) \in SUBSET User
    BY <1>4, SeqElement DEF ToSet
  <2> HIDE DEF made
  <2> QED  BY <1>3, <1>9, <2>1 DEF TypeOK
<1>14. carpools' \in [User -> Seq(CarpoolObject)]
  <2>1. CASE carpools' = carpools
    BY <2>1 DEF TypeOK
  <2>2. CASE w.carpool \in Uuids(carpools[u]) /\ carpools' = [carpools EXCEPT ![u] = WithoutFirst(@, w.carpool)]
    <3>1. carpools[u] \in Seq(CarpoolObject)
      BY DEF TypeOK
    <3>2. WithoutFirst(carpools[u], w.carpool) \in Seq(CarpoolObject)
      BY <2>2, <3>1, WithoutFirstForm
    <3> QED  BY <2>2, <3>2 DEF TypeOK
  <2> QED  BY <1>9, <2>1, <2>2
<1> QED  BY <1>8, <1>10, <1>11, <1>12, <1>13, <1>14 DEF TypeOK

\* A restart changes nothing in a queue but the completions.
LEMMA RelaunchQueue ==
    ASSUME TypeOK, NEW u \in User, Relaunch(u)
    PROVE  /\ pending' \in [User -> Seq(QueuedWrite)]
           /\ \A v \in User :
                 /\ DOMAIN pending'[v] = DOMAIN pending[v]
                 /\ \A i \in DOMAIN pending[v] :
                       /\ pending'[v][i].op = pending[v][i].op
                       /\ pending'[v][i].carpool = pending[v][i].carpool
                       /\ pending'[v][i].user = pending[v][i].user
                       /\ pending'[v][i].riders = pending[v][i].riders
<1> DEFINE q == [i \in DOMAIN pending[u] |-> [pending[u][i] EXCEPT !.completes = FALSE]]
<1>1. pending \in [User -> Seq(QueuedWrite)]
  BY DEF TypeOK
<1>2. /\ Len(pending[u]) \in Nat /\ DOMAIN pending[u] = 1 .. Len(pending[u])
      /\ \A i \in DOMAIN pending[u] : pending[u][i] \in QueuedWrite
  BY QueueElements
<1>3. \A w \in QueuedWrite :
         LET x == [w EXCEPT !.completes = FALSE]
         IN  /\ x \in QueuedWrite
             /\ x.op = w.op /\ x.carpool = w.carpool /\ x.user = w.user /\ x.riders = w.riders
  BY DEF QueuedWrite
<1>4. pending' = [pending EXCEPT ![u] = q]
  BY <1>1 DEF Relaunch
<1>5. q \in Seq(QueuedWrite)
  <2>1. q \in [1 .. Len(pending[u]) -> QueuedWrite]
    BY <1>2, <1>3
  <2> HIDE DEF q
  <2> QED  BY <1>2, <2>1, FunctionIsSeq
<1>6. /\ DOMAIN q = DOMAIN pending[u]
      /\ \A i \in DOMAIN pending[u] :
            /\ q[i].op = pending[u][i].op /\ q[i].carpool = pending[u][i].carpool
            /\ q[i].user = pending[u][i].user /\ q[i].riders = pending[u][i].riders
  BY <1>2, <1>3
<1> HIDE DEF q
<1>7. pending'[u] = q /\ \A v \in User : v # u => pending'[v] = pending[v]
  BY <1>1, <1>4
<1>8. pending' \in [User -> Seq(QueuedWrite)]
  BY <1>1, <1>4, <1>5
<1> QED  BY <1>6, <1>7, <1>8

LEMMA TypeStep == TypeOK /\ [Next]_vars => TypeOK'
<1> SUFFICES ASSUME TypeOK, [Next]_vars PROVE TypeOK'
  OBVIOUS
<1>1. ASSUME NEW u \in User, selectDestination(u) PROVE TypeOK'
  BY <1>1 DEF selectDestination, historyVars, TypeOK
<1>2. ASSUME NEW u \in User, NEW p \in User, selectPassenger(u, p) PROVE TypeOK'
  <2>1. passengers' \in [User -> Seq(User)]
    BY <1>2 DEF selectPassenger, TypeOK
  <2> QED  BY <1>2, <2>1 DEF selectPassenger, historyVars, TypeOK
<1>3. ASSUME NEW u \in User, NEW c \in Carpool, createCarpool(u, c) PROVE TypeOK'
  <2> DEFINE w == [op |-> "create", carpool |-> c, user |-> u,
                   riders |-> ToSet(passengers[u]), completes |-> TRUE]
  <2>1. ToSet(passengers[u]) \in SUBSET User
    <3>1. passengers[u] \in Seq(User)
      BY DEF TypeOK
    <3> QED  BY <3>1, SeqElement DEF ToSet
  <2>2. w \in QueuedWrite
    BY <2>1 DEF QueuedWrite
  <2>3. << w >> \in Seq(QueuedWrite)
    BY <2>2
  <2>4. Enqueue(u, << w >>)
    BY <1>3 DEF createCarpool
  <2>5. pending' \in [User -> Seq(QueuedWrite)]
    BY <2>3, <2>4, Enqueued
  <2> QED  BY <1>3, <2>5 DEF createCarpool, TypeOK
<1>4. ASSUME NEW u \in User, fetchGroupsForCurrentUser(u) PROVE TypeOK'
  <2>1. OwnGroups(u) \in SUBSET Carpool
    BY DEF OwnGroups
  <2> DEFINE todo == IF OwnGroups(u) = {} THEN refreshing[u] ELSE Append(refreshing[u], OwnGroups(u))
  <2>2. refreshing[u] \in Seq(SUBSET Carpool)
    BY DEF TypeOK
  <2>3. todo \in Seq(SUBSET Carpool)
    BY <2>1, <2>2
  <2>4. << >> \in Seq(CarpoolObject)
    OBVIOUS
  <2>5. Refreshes(u, << >>, todo, OwnGroups(u) = {}) /\ missed' \subseteq missed
    BY <1>4 DEF fetchGroupsForCurrentUser, StartsRefresh, Others
  <2> HIDE DEF todo
  <2>6. /\ carpools' \in [User -> Seq(CarpoolObject)]
        /\ rows' \in [User -> SUBSET CarpoolObject]
        /\ refreshing' \in [User -> Seq(SUBSET Carpool)]
    BY <2>3, <2>4, <2>5, RefreshesTyped
  <2> QED  BY <1>4, <2>1, <2>5, <2>6 DEF fetchGroupsForCurrentUser, TypeOK
<1>5. ASSUME NEW u \in User, NEW k \in DOMAIN refreshing[u], NEW c \in refreshing[u][k],
             fetchCarpool(u, k, c)
      PROVE  TypeOK'
  <2>1. /\ refreshing[u] \in Seq(SUBSET Carpool) /\ k \in 1 .. Len(refreshing[u])
        /\ carpools[u] \in Seq(CarpoolObject)
    BY LenProperties DEF TypeOK
  <2>2. c \in Carpool
    BY <2>1, ElementOfSeq
  <2>3. CarpoolSeenBy(u, c) \in CarpoolObject \cup {NoCarpool}
    BY <2>2, SeenTyped
  <2> DEFINE doc == CarpoolSeenBy(u, c)
             last == refreshing[u][k] = {c}
             todo == IF last THEN RemoveAt(refreshing[u], k)
                     ELSE [refreshing[u] EXCEPT ![k] = @ \ {c}]
  <2>0. PICK list : FetchLeaves(u, k, c, list)
    BY <1>5, FetchLists
  <2>4. Refreshes(u, list, todo, last)
    BY <2>0 DEF FetchLeaves, Leaves
  <2>5. list \in Seq(CarpoolObject)
    <3>1. list = carpools[u] \/ (doc # NoCarpool /\ list = Append(carpools[u], doc))
      BY <2>0 DEF FetchLeaves
    <3> HIDE DEF doc
    <3>2. CASE list = carpools[u]
      BY <2>1, <3>2
    <3>3. CASE doc # NoCarpool /\ list = Append(carpools[u], doc)
      <4>1. doc \in CarpoolObject
        BY <2>3, <3>3 DEF doc
      <4> QED  BY <2>1, <3>3, <4>1, AppendProperties
    <3> QED  BY <3>1, <3>2, <3>3
  <2>6. todo \in Seq(SUBSET Carpool)
    <3>1. RemoveAt(refreshing[u], k) \in Seq(SUBSET Carpool)
      BY <2>1, RemoveAtForm
    <3>2. [refreshing[u] EXCEPT ![k] = @ \ {c}] \in Seq(SUBSET Carpool)
      BY <2>1, ElementOfSeq, ExceptSeq
    <3> QED  BY <3>1, <3>2
  <2> HIDE DEF todo, last
  <2>7. /\ carpools' \in [User -> Seq(CarpoolObject)]
        /\ rows' \in [User -> SUBSET CarpoolObject]
        /\ refreshing' \in [User -> Seq(SUBSET Carpool)]
    BY <2>4, <2>5, <2>6, RefreshesTyped
  <2>8. missed' \in SUBSET (User \X Carpool)
    BY <2>0, <2>2 DEF FetchLeaves, TypeOK
  <2> QED  BY <1>5, <2>7, <2>8 DEF fetchCarpool, TypeOK
<1>6. ASSUME NEW u \in User, NEW row \in rows[u], deleteAsDriver(u, row) PROVE TypeOK'
  <2>1. row \in CarpoolObject
    BY DEF TypeOK
  <2>2. row.uuid \in Carpool /\ row.passengers \in SUBSET User
    BY <2>1 DEF CarpoolObject
  <2> DEFINE w == [write("delete", row.uuid, u) EXCEPT !.completes = TRUE]
  <2>3. PICK ps \in SetToSeqs(row.passengers) : Enqueue(u, << w >> \o leaveAll(u, ps, row.uuid))
    BY <1>6 DEF deleteAsDriver
  <2>4. w \in QueuedWrite
    BY <2>2 DEF write, QueuedWrite
  <2>5. leaveAll(u, ps, row.uuid) \in Seq(QueuedWrite)
    BY <2>2, OrderOfPassengers, LeaveAllTyped
  <2>6. << w >> \o leaveAll(u, ps, row.uuid) \in Seq(QueuedWrite)
    <3>1. << w >> \in Seq(QueuedWrite)
      BY <2>4
    <3> QED  BY <2>5, <3>1, ConcatElement
  <2>7. pending' \in [User -> Seq(QueuedWrite)]
    BY <2>3, <2>6, Enqueued
  <2>8. /\ UNCHANGED <<carpoolCollection, groups, phoneVars, historyVars>>
        /\ taps' = taps + 1
    BY <1>6 DEF deleteAsDriver, Tap
  <2>9. taps' \in Nat
    BY <2>8 DEF TypeOK
  <2>10. UNCHANGED <<carpoolCollection, groups, destination, passengers, carpools, rows,
                     listening, snapshot, refreshing, cleanups, used, strays, orphaned,
                     departed, separated, missed>>
    BY <2>8 DEF phoneVars, historyVars
  <2> QED  BY <2>7, <2>9, <2>10 DEF TypeOK
<1>7. ASSUME NEW u \in User, NEW row \in rows[u], deleteAsPassenger(u, row) PROVE TypeOK'
  <2>1. row \in CarpoolObject /\ carpools[u] \in Seq(CarpoolObject)
    BY DEF TypeOK
  <2>2. row.uuid \in Carpool
    BY <2>1 DEF CarpoolObject
  <2>3. leaveGroup(row.uuid, u) \in QueuedWrite
    BY <2>2, WriteTyped DEF leaveGroup
  <2>4. << leaveGroup(row.uuid, u) >> \in Seq(QueuedWrite)
    BY <2>3
  <2>5. pending' \in [User -> Seq(QueuedWrite)]
    BY <1>7, <2>4, Enqueued DEF deleteAsPassenger
  <2>6. WithoutFirst(carpools[u], row.uuid) \in Seq(CarpoolObject)
    BY <1>7, <2>1, WithoutFirstForm DEF deleteAsPassenger
  <2>7. carpools' \in [User -> Seq(CarpoolObject)]
    BY <1>7, <2>6 DEF deleteAsPassenger, TypeOK
  <2>8. departed' \in SUBSET (User \X Carpool)
    BY <1>7, <2>2 DEF deleteAsPassenger, TypeOK
  <2>9. /\ UNCHANGED <<carpoolCollection, groups, destination, passengers, rows, listening,
                        snapshot, refreshing, cleanups, used, strays, orphaned, separated,
                        missed>>
        /\ taps' = taps + 1
    BY <1>7 DEF deleteAsPassenger, Tap
  <2>10. taps' \in Nat
    BY <2>9 DEF TypeOK
  <2> QED  BY <2>5, <2>7, <2>8, <2>9, <2>10 DEF TypeOK
<1>8. ASSUME NEW u \in User, NEW v \in User, separate(u, v) PROVE TypeOK'
  <2>1. CleanUp(v, FALSE, {}) \in [user : User, read : BOOLEAN, ids : SUBSET Carpool]
    BY DEF CleanUp
  <2>2. cleanups' \in [User -> SUBSET [user : User, read : BOOLEAN, ids : SUBSET Carpool]]
    BY <1>8, <2>1 DEF separate, TypeOK
  <2>3. separated' \in SUBSET (User \X User)
    BY <1>8 DEF separate, TypeOK
  <2>4. UNCHANGED <<carpoolCollection, groups, pending, destination, passengers, carpools,
                    rows, listening, snapshot, refreshing, used, strays, orphaned, departed,
                    missed>>
    BY <1>8 DEF separate
  <2>5. taps' \in Nat
    BY <1>8 DEF separate, Tap, TypeOK
  <2>6. /\ carpoolCollection' \in [Carpool -> CarpoolObject \cup {NoCarpool}]
        /\ groups' \in [User -> SUBSET Carpool] /\ pending' \in [User -> Seq(QueuedWrite)]
        /\ destination' \in [User -> BOOLEAN] /\ passengers' \in [User -> Seq(User)]
        /\ carpools' \in [User -> Seq(CarpoolObject)] /\ rows' \in [User -> SUBSET CarpoolObject]
        /\ snapshot' \in [User -> SUBSET Carpool] /\ refreshing' \in [User -> Seq(SUBSET Carpool)]
        /\ listening' \in [User -> BOOLEAN] /\ missed' \in SUBSET (User \X Carpool)
        /\ used' \in SUBSET Carpool /\ strays' \in SUBSET (User \X Carpool)
        /\ orphaned' \in SUBSET Carpool /\ departed' \in SUBSET (User \X Carpool)
    BY <2>4 DEF TypeOK
  <2> QED  BY <2>2, <2>3, <2>5, <2>6 DEF TypeOK
<1>9. ASSUME NEW u \in User, NEW v \in User, readGroups(u, v) PROVE TypeOK'
  <2>1. OwnGroups(u) \in SUBSET Carpool
    BY DEF OwnGroups
  <2>2. CleanUp(v, TRUE, OwnGroups(u)) \in [user : User, read : BOOLEAN, ids : SUBSET Carpool]
    BY <2>1 DEF CleanUp
  <2> DEFINE others == cleanups[u] \ {CleanUp(v, FALSE, {})}
  <2>3. others \in SUBSET [user : User, read : BOOLEAN, ids : SUBSET Carpool]
    BY DEF TypeOK
  <2>4. PICK ks \in SUBSET [user : User, read : BOOLEAN, ids : SUBSET Carpool] :
            cleanups' = [cleanups EXCEPT ![u] = ks]
    <3>1. CASE cleanups' = [cleanups EXCEPT ![u] = others]
      BY <2>3, <3>1
    <3>2. CASE cleanups' = [cleanups EXCEPT ![u] =
                               others \cup {CleanUp(v, TRUE, OwnGroups(u))}]
      BY <2>2, <2>3, <3>2
    <3> QED  BY <1>9, <3>1, <3>2 DEF readGroups
  <2>5. cleanups' \in [User -> SUBSET [user : User, read : BOOLEAN, ids : SUBSET Carpool]]
    BY <2>4 DEF TypeOK
  <2> QED  BY <1>9, <2>5 DEF readGroups, historyVars, TypeOK
<1>10. ASSUME NEW u \in User, NEW k \in cleanups[u], NEW c \in k.ids, cleanUpCarpool(u, k, c)
       PROVE  TypeOK'
  <2>1. k \in [user : User, read : BOOLEAN, ids : SUBSET Carpool]
    BY DEF TypeOK
  <2>2. k.user \in User /\ c \in Carpool /\ [k EXCEPT !.ids = @ \ {c}] \in [user : User, read : BOOLEAN, ids : SUBSET Carpool]
    BY <2>1
  <2>3. CarpoolSeenBy(u, c) \in CarpoolObject \cup {NoCarpool}
    BY <2>2, SeenTyped
  <2>4. cleanUpWrites(u, k.user, CarpoolSeenBy(u, c)) \in Seq(QueuedWrite)
    BY <2>2, <2>3, CleanUpTyped
  <2>5. pending' \in [User -> Seq(QueuedWrite)]
    <3>1. CASE Enqueue(u, cleanUpWrites(u, k.user, CarpoolSeenBy(u, c)))
      BY <2>4, <3>1, Enqueued
    <3>2. CASE UNCHANGED pending
      BY <3>2 DEF TypeOK
    <3> QED  BY <1>10, <3>1, <3>2 DEF cleanUpCarpool
  <2>6. cleanups' \in [User -> SUBSET [user : User, read : BOOLEAN, ids : SUBSET Carpool]]
    BY <1>10, <2>2 DEF cleanUpCarpool, TypeOK
  <2> QED  BY <1>10, <2>5, <2>6 DEF cleanUpCarpool, historyVars, TypeOK
<1>11. ASSUME NEW u \in User, Deliver(u) PROVE TypeOK'
  BY <1>11, DeliverTyped
<1>12. ASSUME NEW u \in User, Relaunch(u) PROVE TypeOK'
  <2>1. pending' \in [User -> Seq(QueuedWrite)]
    BY <1>12, RelaunchQueue
  <2>2. \A i \in DOMAIN pending[u] : pending[u][i].carpool \in Carpool
    BY QueueElements, QueuedWriteFields
  <2>3. orphaned' \in SUBSET Carpool
    BY <1>12, <2>2 DEF Relaunch, TypeOK
  <2>4. /\ destination' \in [User -> BOOLEAN]
        /\ passengers' \in [User -> Seq(User)]
        /\ carpools' \in [User -> Seq(CarpoolObject)]
        /\ rows' \in [User -> SUBSET CarpoolObject]
        /\ snapshot' \in [User -> SUBSET Carpool]
        /\ listening' \in [User -> BOOLEAN]
    BY <1>12 DEF Relaunch, TypeOK
  <2>6. missed' \in SUBSET (User \X Carpool)
    BY <1>12 DEF Relaunch, Others, TypeOK
  <2>7. UNCHANGED <<carpoolCollection, groups, used, strays, departed, separated>>
    BY <1>12 DEF Relaunch
  <2>8. taps' \in Nat
    BY <1>12 DEF Relaunch, Tap, TypeOK
  <2>5. /\ refreshing' \in [User -> Seq(SUBSET Carpool)]
        /\ cleanups' \in [User -> SUBSET [user : User, read : BOOLEAN, ids : SUBSET Carpool]]
    <3>1. refreshing' \in [User -> Seq(SUBSET Carpool)]
      <4>1. << >> \in Seq(SUBSET Carpool)
        OBVIOUS
      <4> QED  BY <1>12, <4>1 DEF Relaunch, TypeOK
    <3>2. cleanups' \in [User -> SUBSET [user : User, read : BOOLEAN, ids : SUBSET Carpool]]
      <4> DEFINE K == [user : User, read : BOOLEAN, ids : SUBSET Carpool]
      <4>1. cleanups \in [User -> SUBSET K] /\ cleanups' = [cleanups EXCEPT ![u] = {}]
        BY <1>12 DEF Relaunch, TypeOK
      <4> HIDE DEF K
      <4>2. cleanups' \in [User -> SUBSET K]
        BY <4>1
      <4> QED  BY <4>2 DEF K
    <3> QED  BY <3>1, <3>2
  <2>9. /\ carpoolCollection' \in [Carpool -> CarpoolObject \cup {NoCarpool}]
        /\ groups' \in [User -> SUBSET Carpool]
        /\ used' \in SUBSET Carpool /\ strays' \in SUBSET (User \X Carpool)
        /\ departed' \in SUBSET (User \X Carpool) /\ separated' \in SUBSET (User \X User)
    BY <2>7 DEF TypeOK
  <2> QED  BY <2>1, <2>3, <2>4, <2>5, <2>6, <2>8, <2>9 DEF TypeOK
<1>13. ASSUME NEW u \in User, listenerFails(u) PROVE TypeOK'
  BY <1>13 DEF listenerFails, historyVars, TypeOK
<1>14. CASE UNCHANGED vars
  BY <1>14 DEF vars, TypeOK
<1> QED  BY <1>1, <1>2, <1>3, <1>4, <1>5, <1>6, <1>7, <1>8, <1>9, <1>10, <1>11, <1>12, <1>13,
            <1>14 DEF Next

LEMMA TypeInit == Init => TypeOK
BY DEF Init, TypeOK

\* The variables of Carpools have their types.
THEOREM TypeCorrect == Spec => []TypeOK
<1>1. Init => TypeOK
  BY TypeInit
<1>2. TypeOK /\ [Next]_vars => TypeOK'
  BY TypeStep
<1> QED  BY <1>1, <1>2, PTL DEF Spec
-----------------------------------------------------------------------------
(* A deleted carpool stays deleted.                                         *)

LEMMA NeverReturnStep == TypeOK /\ [Next]_vars =>
    \A c \in used :
        /\ \A u \in User : QueuedFor(u, c, {"create"}) = {}
        /\ carpoolCollection'[c] # NoCarpool
        => /\ carpoolCollection[c] # NoCarpool
           /\ carpoolCollection'[c].driver = carpoolCollection[c].driver
           /\ carpoolCollection'[c].passengers \subseteq carpoolCollection[c].passengers
<1> SUFFICES ASSUME TypeOK, [Next]_vars, NEW c \in used,
                    \A u \in User : QueuedFor(u, c, {"create"}) = {},
                    carpoolCollection'[c] # NoCarpool
             PROVE  /\ carpoolCollection[c] # NoCarpool
                    /\ carpoolCollection'[c].driver = carpoolCollection[c].driver
                    /\ carpoolCollection'[c].passengers \subseteq carpoolCollection[c].passengers
  OBVIOUS
<1>1. CASE UNCHANGED carpoolCollection
  BY <1>1
<1>2. ASSUME NEW u \in User, Deliver(u)
      PROVE  /\ carpoolCollection[c] # NoCarpool
             /\ carpoolCollection'[c].driver = carpoolCollection[c].driver
             /\ carpoolCollection'[c].passengers \subseteq carpoolCollection[c].passengers
  <2> DEFINE w == Head(pending[u])
  <2>1. pending[u] \in Seq(QueuedWrite) /\ pending[u] # << >>
    BY <1>2 DEF TypeOK, Deliver
  <2>2. w = pending[u][1] /\ 1 \in DOMAIN pending[u] /\ w \in QueuedWrite
    BY <2>1, HeadTailProperties, LenProperties, EmptySeq
  <2>3. ~ (w.op = "create" /\ w.carpool = c)
    BY <2>2 DEF QueuedFor
  <2>4. carpoolCollection' = ApplyToCarpools(carpoolCollection, w)
    BY <1>2 DEF Deliver
  <2>5. c \in Carpool /\ carpoolCollection \in [Carpool -> CarpoolObject \cup {NoCarpool}]
    BY DEF TypeOK
  <2> HIDE DEF w
  <2>6. CASE w.carpool # c \/ w.op \in {"enter", "leave"}
    <3>1. carpoolCollection'[c] = carpoolCollection[c]
      BY <2>2, <2>4, <2>5, <2>6, QueuedWriteFields DEF ApplyToCarpools
    <3> QED  BY <3>1
  <2>7. CASE w.carpool = c /\ w.op = "delete"
    BY <2>4, <2>5, <2>7 DEF ApplyToCarpools
  <2>8. CASE w.carpool = c /\ w.op = "dropPassenger"
    <3>1. carpoolCollection'[c] = WithoutPassengers(carpoolCollection[c], {w.user})
      BY <2>4, <2>5, <2>8 DEF ApplyToCarpools
    <3>2. carpoolCollection[c] # NoCarpool
      BY <3>1 DEF WithoutPassengers
    <3> QED  BY <2>5, <3>1, <3>2 DEF WithoutPassengers, CarpoolObject
  <2> QED  BY <2>2, <2>3, <2>6, <2>7, <2>8, QueuedWriteFields
<1>3. ASSUME NEW u \in User, ~ Deliver(u),
             \/ selectDestination(u)
             \/ \E p \in User : selectPassenger(u, p)
             \/ \E d \in Carpool : createCarpool(u, d)
             \/ fetchGroupsForCurrentUser(u)
             \/ listenerFails(u)
             \/ \E k \in DOMAIN refreshing[u] : \E d \in refreshing[u][k] : fetchCarpool(u, k, d)
             \/ \E row \in rows[u] : deleteAsDriver(u, row)
             \/ \E row \in rows[u] : deleteAsPassenger(u, row)
             \/ \E v \in User : separate(u, v)
             \/ \E v \in User : readGroups(u, v)
             \/ \E k \in cleanups[u] : \E d \in k.ids : cleanUpCarpool(u, k, d)
             \/ Relaunch(u)
      PROVE  UNCHANGED carpoolCollection
  BY <1>3 DEF selectDestination, selectPassenger, createCarpool, fetchGroupsForCurrentUser,
              listenerFails, fetchCarpool, deleteAsDriver, deleteAsPassenger, separate, readGroups,
              cleanUpCarpool, Relaunch
<1>4. CASE UNCHANGED vars
  BY <1>1, <1>4 DEF vars
<1> QED  BY <1>1, <1>2, <1>3, <1>4 DEF Next

\* Of a carpool once created and never to be created again no write makes a
\* document that is gone come back, or puts anybody on its list: the updates of
\* a clean-up that comes late are refused.
THEOREM DeletedForGood == Spec => CarpoolsNeverReturn
<1>1. Init => TypeOK
  BY TypeInit
<1>2. TypeOK /\ [Next]_vars => TypeOK'
  BY TypeStep
<1> QED  BY <1>1, <1>2, NeverReturnStep, PTL DEF Spec, CarpoolsNeverReturn
=============================================================================
