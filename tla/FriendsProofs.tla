---------------------------- MODULE FriendsProofs ----------------------------
(***************************************************************************)
(* Theorems about Friends for any set of users, any settled start and any  *)
(* number of operations.                                                   *)
(***************************************************************************)
EXTENDS Friends, WellFoundedInduction, TLAPS

USE DEF friendsKey, friendsRequestSentKey, friendsRequestReceivedKey,
        blockedUsersKey, blockedUsersByCurrentUserKey

-----------------------------------------------------------------------------
(* Type correctness.                                                        *)

LEMMA WriteTypes ==
    ASSUME NEW d \in User, NEW f \in Field, NEW v \in User
    PROVE  /\ arrayUnion(d, f, v) \in QueuedWrite
           /\ arrayRemove(d, f, v) \in QueuedWrite
           /\ [arrayRemove(d, f, v) EXCEPT !.drops = v] \in QueuedWrite
           /\ [arrayRemove(d, f, v) EXCEPT !.drops = d] \in QueuedWrite
BY DEF arrayUnion, arrayRemove, QueuedWrite, WriteOp

LEMMA SeqElement ==
    ASSUME NEW S, NEW s \in Seq(S)
    PROVE  /\ Len(s) \in Nat
           /\ DOMAIN s = 1 .. Len(s)
           /\ \A i \in DOMAIN s : s[i] \in S
OBVIOUS

LEMMA IsASeq ==
    ASSUME NEW S, NEW n \in Nat, NEW s \in [1 .. n -> S]
    PROVE  s \in Seq(S)
OBVIOUS

\* Tables of arrays (the documents, the screens) and one change in them.
LEMMA TableUpdate ==
    ASSUME NEW A, NEW B, NEW C, NEW t \in [A -> [B -> SUBSET C]],
           NEW a \in A, NEW b \in B, NEW s \in SUBSET C
    PROVE  [t EXCEPT ![a][b] = s] \in [A -> [B -> SUBSET C]]
OBVIOUS

LEMMA OwnArrayType ==
    ASSUME TypeOK, NEW u \in User, NEW f \in Field
    PROVE  OwnArray(u, f) \in SUBSET User
<1>1. users[u][f] \in SUBSET User
  BY DEF TypeOK, Document
<1>2. \A i \in DOMAIN pending[u] : pending[u][i].id \in User
  <2>1. pending[u] \in Seq(QueuedWrite)
    BY DEF TypeOK
  <2>2. \A i \in DOMAIN pending[u] : pending[u][i] \in QueuedWrite
    BY <2>1, SeqElement
  <2> QED  BY <2>2 DEF QueuedWrite
<1> QED  BY <1>1, <1>2 DEF OwnArray, SeenBy

LEMMA ApplyWriteType ==
    ASSUME users \in [User -> Document], NEW w \in QueuedWrite
    PROVE  ApplyWrite(users, w) \in [User -> Document]
<1>1. w.doc \in User /\ w.field \in Field /\ w.id \in User
  BY DEF QueuedWrite
<1>2. users[w.doc][w.field] \in SUBSET User
  BY <1>1 DEF Document
<1>3. Transform(w, users[w.doc][w.field]) \in SUBSET User
  BY <1>1, <1>2 DEF Transform
<1>4. ApplyWrite(users, w) =
        [users EXCEPT ![w.doc][w.field] = Transform(w, users[w.doc][w.field])]
  BY DEF ApplyWrite
<1> QED  BY <1>1, <1>3, <1>4, TableUpdate DEF Document

\* An operation queues writes and leaves everything it does not name alone.
LEMMA StartType ==
    ASSUME TypeOK, NEW u \in User, NEW ws \in Seq(QueuedWrite), Start(u, ws)
    PROVE  /\ users' \in [User -> Document]
           /\ pending' \in [User -> Seq(QueuedWrite)]
           /\ currentUser' \in [User -> CachedUser \cup {NoUser}]
           /\ taps' \in Nat
           /\ raced' \in SUBSET Cell
<1>1. pending[u] \o ws \in Seq(QueuedWrite)
  BY DEF TypeOK
<1>2. Clashes(u, ws) \in SUBSET Cell
  BY DEF Clashes
<1> QED  BY <1>1, <1>2 DEF TypeOK, Start

LEMMA DropRowType ==
    ASSUME TypeOK, NEW u \in User, NEW f \in ShownField, NEW v, DropRow(u, f, v)
    PROVE  shown' \in [User -> [ShownField -> SUBSET User]]
<1>1. shown[u][f] \ {v} \in SUBSET User
  BY DEF TypeOK
<1>2. shown' = [shown EXCEPT ![u][f] = shown[u][f] \ {v}]
  BY DEF TypeOK, DropRow
<1> QED  BY <1>1, <1>2, TableUpdate DEF TypeOK

LEMMA OperationWrites ==
    ASSUME NEW u \in User, NEW v \in User
    PROVE  /\ sendFriendRequestWrites(u, v) \in Seq(QueuedWrite)
           /\ acceptFriendRequestWrites(u, v) \in Seq(QueuedWrite)
           /\ cancelFriendRequestWrites(u, v) \in Seq(QueuedWrite)
           /\ blockUserWrites(u, v) \in Seq(QueuedWrite)
           /\ unfriendUserWrites(u, v) \in Seq(QueuedWrite)
           /\ unblockedUserWrites(u, v) \in Seq(QueuedWrite)
<1>1. \A f \in Field : /\ arrayUnion(u, f, v) \in QueuedWrite
                       /\ arrayUnion(v, f, u) \in QueuedWrite
                       /\ arrayRemove(u, f, v) \in QueuedWrite
                       /\ arrayRemove(v, f, u) \in QueuedWrite
                       /\ [arrayRemove(u, f, v) EXCEPT !.drops = v] \in QueuedWrite
                       /\ [arrayRemove(v, f, u) EXCEPT !.drops = v] \in QueuedWrite
  BY WriteTypes
<1>2. Field = {friendsKey, friendsRequestSentKey, friendsRequestReceivedKey,
               blockedUsersKey, blockedUsersByCurrentUserKey}
  BY DEF Field
<1>3. \A S : /\ \A a, b \in S : <<a, b>> \in Seq(S)
             /\ \A a, b, c \in S : <<a, b, c>> \in Seq(S)
             /\ \A a, b, c, d \in S : <<a, b, c, d>> \in Seq(S)
             /\ \A a, b, c, d, e \in S : <<a, b, c, d, e>> \in Seq(S)
  OBVIOUS
<1>4. sendFriendRequestWrites(u, v) \in Seq(QueuedWrite)
  BY <1>1, <1>2, <1>3, Zenon DEF sendFriendRequestWrites
<1>5. acceptFriendRequestWrites(u, v) \in Seq(QueuedWrite)
  BY <1>1, <1>2, <1>3, Zenon DEF acceptFriendRequestWrites
<1>6. cancelFriendRequestWrites(u, v) \in Seq(QueuedWrite)
  BY <1>1, <1>2, <1>3, Zenon DEF cancelFriendRequestWrites
<1>7. blockUserWrites(u, v) \in Seq(QueuedWrite)
  BY <1>1, <1>2, <1>3, Zenon DEF blockUserWrites
<1>8. unfriendUserWrites(u, v) \in Seq(QueuedWrite)
  BY <1>1, <1>2, <1>3, Zenon DEF unfriendUserWrites
<1>9. unblockedUserWrites(u, v) \in Seq(QueuedWrite)
  BY <1>1, <1>2, <1>3, Zenon DEF unblockedUserWrites
<1> QED  BY <1>4, <1>5, <1>6, <1>7, <1>8, <1>9

LEMMA TypeInit == Init => TypeOK
<1> SUFFICES ASSUME Init PROVE TypeOK  OBVIOUS
<1>1. \A d \in User, f \in Field : InitialArray(d, f) \in SUBSET User
  BY DEF InitialArray
<1>2. users \in [User -> Document]
  BY <1>1 DEF Init, Document
<1>3. pending \in [User -> Seq(QueuedWrite)]
  BY DEF Init
<1> QED  BY <1>2, <1>3, StartAssumption DEF Init, TypeOK

LEMMA TypeStep == TypeOK /\ [Next]_vars => TypeOK'
<1> SUFFICES ASSUME TypeOK, [Next]_vars PROVE TypeOK'  OBVIOUS
<1>1. ASSUME NEW u \in User, NEW v \in User, sendFriendRequest(u, v) PROVE TypeOK'
  <2>1. Start(u, sendFriendRequestWrites(u, v))
    BY <1>1 DEF sendFriendRequest
  <2>2. sendFriendRequestWrites(u, v) \in Seq(QueuedWrite)
    BY OperationWrites
  <2>3. asked' \in SUBSET (User \X User)
    BY <1>1 DEF sendFriendRequest, TypeOK
  <2>4. /\ users' \in [User -> Document]
        /\ pending' \in [User -> Seq(QueuedWrite)]
        /\ currentUser' \in [User -> CachedUser \cup {NoUser}]
        /\ taps' \in Nat
        /\ raced' \in SUBSET Cell
    BY <2>1, <2>2, StartType
  <2> QED  BY <1>1, <2>3, <2>4 DEF sendFriendRequest, TypeOK
<1>2. ASSUME NEW u \in User, NEW v \in User, acceptFriendRequest(u, v) PROVE TypeOK'
  <2>1. Start(u, acceptFriendRequestWrites(u, v))
    BY <1>2 DEF acceptFriendRequest
  <2>2. acceptFriendRequestWrites(u, v) \in Seq(QueuedWrite)
    BY OperationWrites
  <2>3. shown' \in [User -> [ShownField -> SUBSET User]]
    BY <1>2, DropRowType DEF acceptFriendRequest, ShownField, Field
  <2> QED  BY <1>2, <2>1, <2>2, <2>3, StartType DEF acceptFriendRequest, TypeOK
<1>3. ASSUME NEW u \in User, NEW v \in User, cancelFriendRequest(u, v) PROVE TypeOK'
  BY <1>3, StartType, OperationWrites DEF cancelFriendRequest, TypeOK
<1>4. ASSUME NEW u \in User, NEW v \in User, blockUser(u, v) PROVE TypeOK'
  BY <1>4, StartType, OperationWrites, DropRowType DEF blockUser, TypeOK, ShownField, Field
<1>5. ASSUME NEW u \in User, NEW v \in User, unfriendUser(u, v) PROVE TypeOK'
  BY <1>5, StartType, OperationWrites, DropRowType DEF unfriendUser, TypeOK, ShownField, Field
<1>6. ASSUME NEW u \in User, NEW v \in User, unblockedUser(u, v) PROVE TypeOK'
  <2>1. shown' \in [User -> [ShownField -> SUBSET User]]
    BY <1>6, DropRowType DEF unblockedUser, ShownField, Field
  <2>2. OwnArray(u, blockedUsersByCurrentUserKey) \in SUBSET User
    BY OwnArrayType DEF Field
  <2>3. loads' \in [User -> SUBSET LoadRecord]
    BY <1>6, <2>2 DEF unblockedUser, TypeOK, Load, LoadRecord, ShownField, Field
  <2> QED  BY <1>6, <2>1, <2>3, StartType, OperationWrites DEF unblockedUser, TypeOK
<1>7. ASSUME NEW u \in User, fetchCurrentUser(u) PROVE TypeOK'
  <2>1. [f \in CachedField |-> OwnArray(u, f)] \in CachedUser
    BY OwnArrayType DEF CachedUser, CachedField, Field
  <2> QED  BY <1>7, <2>1 DEF fetchCurrentUser, TypeOK, historyVars
<1>8. ASSUME NEW u \in User, NEW f \in ShownField, fetchList(u, f) PROVE TypeOK'
  <2>1. OwnArray(u, f) \in SUBSET User
    BY OwnArrayType DEF ShownField
  <2>2. loads' \in [User -> SUBSET LoadRecord]
    BY <1>8, <2>1 DEF fetchList, TypeOK, Load, LoadRecord
  <2> QED  BY <1>8, <2>2 DEF fetchList, TypeOK, historyVars
<1>9. ASSUME NEW u \in User, NEW l \in loads[u], NEW v \in l.ids, fetchListMember(u, l, v)
      PROVE  TypeOK'
  <2>1. l \in LoadRecord
    BY DEF TypeOK
  <2>2. l.got \cup {v} \in SUBSET User
    BY <2>1 DEF LoadRecord
  <2>3. [l EXCEPT !.got = l.got \cup {v}] \in LoadRecord
    BY <2>1, <2>2 DEF LoadRecord
  <2>4. loads' \in [User -> SUBSET LoadRecord]
    BY <1>9, <2>3 DEF fetchListMember, TypeOK
  <2>5. shown' \in [User -> [ShownField -> SUBSET User]]
    <3>1. shown' = [shown EXCEPT ![u][l.field] = l.got \cup {v}]
      BY <1>9 DEF fetchListMember
    <3>2. l.field \in ShownField
      BY <2>1 DEF LoadRecord
    <3> QED  BY <2>2, <3>1, <3>2, TableUpdate DEF TypeOK
  <2> QED  BY <1>9, <2>4, <2>5 DEF fetchListMember, TypeOK, historyVars
<1>10. ASSUME NEW u \in User, Deliver(u) PROVE TypeOK'
  <2>1. Head(pending[u]) \in QueuedWrite /\ Tail(pending[u]) \in Seq(QueuedWrite)
    BY <1>10 DEF Deliver, TypeOK
  <2>2. users' \in [User -> Document]
    BY <1>10, <2>1, ApplyWriteType DEF Deliver, TypeOK
  <2>3. pending' \in [User -> Seq(QueuedWrite)]
    BY <1>10, <2>1 DEF Deliver, TypeOK
  <2>4. shown' \in [User -> [ShownField -> SUBSET User]]
    BY <1>10 DEF Deliver, TypeOK, ShownField, Field
  <2> QED  BY <1>10, <2>2, <2>3, <2>4 DEF Deliver, TypeOK, historyVars
<1>11. ASSUME NEW u \in User, Relaunch(u) PROVE TypeOK'
  <2> DEFINE kept == [i \in DOMAIN pending[u] |-> [pending[u][i] EXCEPT !.drops = NoUser]]
  <2>1. kept \in Seq(QueuedWrite)
    <3>1. pending[u] \in Seq(QueuedWrite)
      BY DEF TypeOK
    <3>2. \A i \in 1 .. Len(pending[u]) : [pending[u][i] EXCEPT !.drops = NoUser] \in QueuedWrite
      <4>1. \A i \in 1 .. Len(pending[u]) : pending[u][i] \in QueuedWrite
        BY <3>1, SeqElement
      <4>2. \A w \in QueuedWrite : [w EXCEPT !.drops = NoUser] \in QueuedWrite
        BY DEF QueuedWrite
      <4> QED  BY <4>1, <4>2
    <3>3. DOMAIN pending[u] = 1 .. Len(pending[u]) /\ Len(pending[u]) \in Nat
      BY <3>1, SeqElement
    <3>4. kept \in [1 .. Len(pending[u]) -> QueuedWrite]
      BY <3>2, <3>3
    <3> QED  BY <3>3, <3>4, IsASeq
  <2>2. pending' \in [User -> Seq(QueuedWrite)]
    BY <1>11, <2>1 DEF Relaunch, TypeOK
  <2> QED  BY <1>11, <2>2 DEF Relaunch, TypeOK, historyVars
<1>12. CASE UNCHANGED vars
  BY <1>12 DEF vars, TypeOK
<1> QED
  BY <1>1, <1>2, <1>3, <1>4, <1>5, <1>6, <1>7, <1>8, <1>9, <1>10, <1>11, <1>12 DEF Next

\* Every variable keeps its type in every behaviour.
THEOREM TypeCorrect == Spec => []TypeOK
BY TypeInit, TypeStep, PTL DEF Spec
-----------------------------------------------------------------------------
(* Queues.                                                                  *)

\* After an operation every queued write was there before, at the same place,
\* or is one of the operation's own.
LEMMA StartQueue ==
    ASSUME TypeOK, NEW u \in User, NEW ws \in Seq(QueuedWrite), Start(u, ws),
           NEW x \in User, NEW i \in DOMAIN pending'[x]
    PROVE  \/ i \in DOMAIN pending[x] /\ pending'[x][i] = pending[x][i]
           \/ x = u /\ \E j \in DOMAIN ws : pending'[x][i] = ws[j]
<1>1. pending[x] \in Seq(QueuedWrite)
  BY DEF TypeOK
<1>2. CASE x # u
  BY <1>2 DEF Start, TypeOK
<1>3. CASE x = u
  <2>1. pending'[x] = pending[x] \o ws
    BY <1>3 DEF Start, TypeOK
  <2>2. DOMAIN pending[x] = 1 .. Len(pending[x]) /\ DOMAIN ws = 1 .. Len(ws)
    BY <1>1, SeqElement
  <2>3. DOMAIN (pending[x] \o ws) = 1 .. (Len(pending[x]) + Len(ws))
    BY <1>1
  <2>4. CASE i \in 1 .. Len(pending[x])
    BY <1>1, <2>1, <2>2, <2>4
  <2>5. CASE i \notin 1 .. Len(pending[x])
    <3>1. i - Len(pending[x]) \in 1 .. Len(ws)
      BY <1>1, <2>1, <2>3, <2>5
    <3>2. pending'[x][i] = ws[i - Len(pending[x])]
      BY <1>1, <2>1, <3>1
    <3> QED  BY <1>3, <2>2, <3>1, <3>2
  <2> QED  BY <2>4, <2>5
<1> QED  BY <1>2, <1>3

\* A delivery removes the first write and moves the others up by one.
LEMMA DeliverQueue ==
    ASSUME TypeOK, NEW u \in User, Deliver(u)
    PROVE  /\ Len(pending[u]) \in Nat \ {0}
           /\ DOMAIN pending[u] = 1 .. Len(pending[u])
           /\ Head(pending[u]) = pending[u][1]
           /\ DOMAIN pending'[u] = 1 .. (Len(pending[u]) - 1)
           /\ \A i \in DOMAIN pending'[u] :
                 i + 1 \in DOMAIN pending[u] /\ pending'[u][i] = pending[u][i + 1]
           /\ \A x \in User \ {u} : pending'[x] = pending[x]
<1>1. pending[u] \in Seq(QueuedWrite) /\ pending[u] # << >>
  BY DEF TypeOK, Deliver
<1>2. pending'[u] = Tail(pending[u]) /\ \A x \in User \ {u} : pending'[x] = pending[x]
  BY DEF TypeOK, Deliver
<1> QED  BY <1>1, <1>2

LEMMA DeliverWrites ==
    ASSUME TypeOK, NEW u \in User, Deliver(u), NEW d \in User, NEW f \in Field
    PROVE  /\ Head(pending[u]) \in QueuedWrite
           /\ users'[d][f] = IF d = Head(pending[u]).doc /\ f = Head(pending[u]).field
                             THEN Transform(Head(pending[u]), users[d][f])
                             ELSE users[d][f]
<1>1. Head(pending[u]) \in QueuedWrite
  BY DeliverQueue DEF TypeOK
<1>2. users' = ApplyWrite(users, Head(pending[u]))
  BY DEF Deliver
<1> QED  BY <1>1, <1>2 DEF ApplyWrite, TypeOK, Document, QueuedWrite

\* A restart keeps what each queued write does.
LEMMA RelaunchQueue ==
    ASSUME TypeOK, NEW u \in User, Relaunch(u), NEW x \in User
    PROVE  /\ DOMAIN pending'[x] = DOMAIN pending[x]
           /\ \A i \in DOMAIN pending[x] :
                 /\ pending'[x][i].doc = pending[x][i].doc
                 /\ pending'[x][i].field = pending[x][i].field
                 /\ pending'[x][i].op = pending[x][i].op
                 /\ pending'[x][i].id = pending[x][i].id
<1>1. \A i \in DOMAIN pending[x] : pending[x][i] \in QueuedWrite
  <2>1. pending[x] \in Seq(QueuedWrite)
    BY DEF TypeOK
  <2> QED  BY <2>1, SeqElement
<1>2. CASE x # u
  BY <1>2 DEF Relaunch, TypeOK
<1>3. CASE x = u
  <2>1. pending'[x] = [i \in DOMAIN pending[x] |-> [pending[x][i] EXCEPT !.drops = NoUser]]
    BY <1>3 DEF Relaunch, TypeOK
  <2> QED  BY <1>1, <2>1 DEF QueuedWrite
<1> QED  BY <1>2, <1>3
-----------------------------------------------------------------------------
(* Own reads.                                                               *)

\* Where x's phone has queued writes of element v of array f of document d, and
\* whether it reads v there.
Queued(x, d, f, v) == WritesTo(pending[x], d, f, v)

View(x, d, f, v) == HoldsAfter(users, pending[x], d, f, v)

\* The same of the own document.
Holds(u, f, v) == View(u, u, f, v)

LEMMA OwnArrayHolds ==
    ASSUME NEW u, NEW f, NEW v
    PROVE  v \in OwnArray(u, f) <=> Holds(u, f, v)
<1>1. Holds(u, f, v) => v \in users[u][f] \/ \E i \in DOMAIN pending[u] : pending[u][i].id = v
  BY DEF Holds, View, HoldsAfter, WritesTo
<1> QED  BY <1>1 DEF OwnArray, SeenBy, Holds, View

\* An operation changes what its phone reads only where it writes, and there
\* its last write counts.
LEMMA StartView ==
    ASSUME TypeOK, NEW u \in User, NEW ws \in Seq(QueuedWrite), Start(u, ws),
           NEW d \in User, NEW f \in Field, NEW v \in User
    PROVE  /\ WritesTo(ws, d, f, v) = {} => (View(u, d, f, v)' <=> View(u, d, f, v))
           /\ \A k \in WritesTo(ws, d, f, v) :
                 (\A j \in WritesTo(ws, d, f, v) : j <= k) =>
                     (View(u, d, f, v)' <=> ws[k].op = "union")
<1> DEFINE q == pending[u]
           n == Len(pending[u])
<1>1. q \in Seq(QueuedWrite) /\ n \in Nat /\ DOMAIN q = 1 .. n /\ Len(ws) \in Nat
        /\ DOMAIN ws = 1 .. Len(ws)
  BY SeqElement DEF TypeOK
<1>2. pending'[u] = q \o ws /\ users' = users
  BY DEF Start, TypeOK
<1>3. /\ DOMAIN (q \o ws) = 1 .. (n + Len(ws))
      /\ \A i \in 1 .. n : (q \o ws)[i] = q[i]
      /\ \A i \in 1 .. Len(ws) : (q \o ws)[n + i] = ws[i]
  BY <1>1
<1>4. \A i : i \in Queued(u, d, f, v)' <=>
         i \in Queued(u, d, f, v) \/ \E k \in WritesTo(ws, d, f, v) : i = n + k
  <2>1. Queued(u, d, f, v)' = WritesTo(q \o ws, d, f, v)
    BY <1>2 DEF Queued
  <2>2. Queued(u, d, f, v) = WritesTo(q, d, f, v)
    BY DEF Queued
  <2> HIDE DEF q, n
  <2>3. ASSUME NEW i \in WritesTo(q \o ws, d, f, v)
        PROVE  i \in WritesTo(q, d, f, v) \/ \E k \in WritesTo(ws, d, f, v) : i = n + k
    <3>1. CASE i \in 1 .. n
      BY <1>1, <1>3, <2>3, <3>1 DEF WritesTo
    <3>2. CASE i \notin 1 .. n
      <4>0. i \in 1 .. (n + Len(ws))
        BY <1>3, <2>3 DEF WritesTo
      <4>1. i - n \in 1 .. Len(ws) /\ i = n + (i - n)
        BY <1>1, <3>2, <4>0
      <4>2. (q \o ws)[i] = ws[i - n]
        BY <1>3, <4>1
      <4> QED  BY <1>1, <2>3, <4>1, <4>2 DEF WritesTo
    <3> QED  BY <3>1, <3>2
  <2>4. WritesTo(q, d, f, v) \subseteq WritesTo(q \o ws, d, f, v)
    BY <1>1, <1>3 DEF WritesTo
  <2>5. ASSUME NEW k \in WritesTo(ws, d, f, v)
        PROVE  n + k \in WritesTo(q \o ws, d, f, v)
    BY <1>1, <1>3, <2>5 DEF WritesTo
  <2> QED  BY <2>1, <2>2, <2>3, <2>4, <2>5
<1>5. \A i \in Queued(u, d, f, v) : i \in 1 .. n /\ (q \o ws)[i] = q[i]
  BY <1>1, <1>3 DEF Queued, WritesTo
<1>6. \A k \in WritesTo(ws, d, f, v) : k \in 1 .. Len(ws) /\ (q \o ws)[n + k] = ws[k]
  BY <1>1, <1>3 DEF WritesTo
<1>7. View(u, d, f, v) <=>
         \/ Queued(u, d, f, v) = {} /\ v \in users[d][f]
         \/ \E i \in Queued(u, d, f, v) : q[i].op = "union" /\ \A j \in Queued(u, d, f, v) : j <= i
  BY DEF View, HoldsAfter, Queued
<1>8. View(u, d, f, v)' <=>
         \/ Queued(u, d, f, v)' = {} /\ v \in users[d][f]
         \/ \E i \in Queued(u, d, f, v)' :
               (q \o ws)[i].op = "union" /\ \A j \in Queued(u, d, f, v)' : j <= i
  BY <1>2 DEF View, HoldsAfter, Queued
<1> HIDE DEF q, n
<1>9. CASE WritesTo(ws, d, f, v) = {}
  <2>1. Queued(u, d, f, v)' = Queued(u, d, f, v)
    BY <1>4, <1>9
  <2> QED  BY <1>5, <1>7, <1>8, <1>9, <2>1
<1>10. ASSUME NEW k \in WritesTo(ws, d, f, v), \A j \in WritesTo(ws, d, f, v) : j <= k
       PROVE  View(u, d, f, v)' <=> ws[k].op = "union"
  <2>1. n + k \in Queued(u, d, f, v)'
    BY <1>4
  <2>2. \A j \in Queued(u, d, f, v)' : j <= n + k
    BY <1>1, <1>4, <1>5, <1>6, <1>10
  <2>3. \A i \in Queued(u, d, f, v)' : (\A j \in Queued(u, d, f, v)' : j <= i) => i = n + k
    <3>1. \A i \in Queued(u, d, f, v)' : i \in Nat
      BY <1>1, <1>4, <1>5, <1>6
    <3> QED  BY <2>1, <2>2, <3>1
  <2> QED  BY <1>6, <1>8, <2>1, <2>2, <2>3
<1> QED  BY <1>9, <1>10

\* Delivering a write changes nothing of what its own phone reads.
LEMMA DeliverView ==
    ASSUME TypeOK, NEW u \in User, Deliver(u), NEW d \in User, NEW f \in Field, NEW v \in User
    PROVE  View(u, d, f, v)' <=> View(u, d, f, v)
<1> DEFINE q == pending[u]
           r == pending'[u]
           n == Len(pending[u])
           W == WritesTo(q, d, f, v)
           R == WritesTo(r, d, f, v)
<1>1. /\ n \in Nat \ {0} /\ DOMAIN q = 1 .. n /\ Head(q) = q[1]
      /\ DOMAIN r = 1 .. (n - 1)
      /\ \A i \in DOMAIN r : r[i] = q[i + 1]
  BY DeliverQueue
<1>2. \A i \in R : i + 1 \in W /\ i \in Nat
  BY <1>1 DEF WritesTo
<1>3. \A i \in W : i # 1 => i - 1 \in R
  BY <1>1 DEF WritesTo
<1>4. W \subseteq 1 .. n /\ R \subseteq 1 .. (n - 1)
  BY <1>1 DEF WritesTo
<1>5. users'[d][f] = IF d = q[1].doc /\ f = q[1].field THEN Transform(q[1], users[d][f])
                     ELSE users[d][f]
  BY <1>1, DeliverWrites
<1>6. View(u, d, f, v) <=>
         \/ W = {} /\ v \in users[d][f]
         \/ \E i \in W : q[i].op = "union" /\ \A j \in W : j <= i
  BY DEF View, HoldsAfter
<1>7. View(u, d, f, v)' <=>
         \/ R = {} /\ v \in users'[d][f]
         \/ \E i \in R : r[i].op = "union" /\ \A j \in R : j <= i
  BY DEF View, HoldsAfter, WritesTo
<1>8. 1 \in W <=> q[1].doc = d /\ q[1].field = f /\ q[1].id = v
  BY <1>1 DEF WritesTo
<1>9. \A i \in R : r[i] = q[i + 1]
  BY <1>1, <1>4
<1>10. 1 \notin W => (v \in users'[d][f] <=> v \in users[d][f])
  BY <1>5, <1>8 DEF Transform
<1>11. 1 \in W => (v \in users'[d][f] <=> q[1].op = "union")
  BY <1>5, <1>8 DEF Transform
<1> HIDE DEF q, r, n, W, R
<1>12. CASE R = {}
  <2>1. \A i \in W : i = 1
    BY <1>3, <1>12
  <2>2. CASE 1 \in W
    BY <1>6, <1>7, <1>11, <1>12, <2>1, <2>2
  <2>3. CASE 1 \notin W
    BY <1>6, <1>7, <1>10, <1>12, <2>1, <2>3
  <2> QED  BY <2>2, <2>3
<1>13. CASE R # {}
  <2>0. /\ \A j \in W : j \in Nat /\ j >= 1
        /\ \A j \in R : j \in Nat /\ j >= 1
    <3>1. n \in Nat
      BY <1>1
    <3>2. /\ \A j \in 1 .. n : j \in Nat /\ j >= 1
          /\ \A j \in 1 .. (n - 1) : j \in Nat /\ j >= 1
      BY <3>1
    <3> QED  BY <1>4, <3>2
  <2>1. ASSUME NEW i \in R, \A j \in R : j <= i
        PROVE  \A j \in W : j <= i + 1
    <3> TAKE j \in W
    <3>1. j = 1 \/ j - 1 <= i
      BY <1>3, <2>1
    <3> QED  BY <2>0, <3>1
  <2>2. ASSUME NEW i \in W, \A j \in W : j <= i
        PROVE  i - 1 \in R /\ \A j \in R : j <= i - 1
    <3>1. i # 1
      <4>1. PICK j \in R : TRUE
        BY <1>13
      <4>2. j \in Nat /\ j >= 1 /\ j + 1 <= i
        BY <1>2, <2>0, <2>2
      <4> QED  BY <2>0, <4>2
    <3>2. \A j \in R : j + 1 <= i
      BY <1>2, <2>2
    <3> QED  BY <1>1, <1>3, <1>4, <3>1, <3>2
  <2>3. View(u, d, f, v)' => View(u, d, f, v)
    BY <1>2, <1>6, <1>7, <1>9, <1>13, <2>1
  <2>4. View(u, d, f, v) => View(u, d, f, v)'
    <3>1. SUFFICES ASSUME NEW i \in W, q[i].op = "union", \A j \in W : j <= i
                   PROVE  View(u, d, f, v)'
      BY <1>2, <1>6, <1>13
    <3>2. i - 1 \in R /\ \A j \in R : j <= i - 1
      BY <2>2, <3>1
    <3>3. r[i - 1] = q[i]
      BY <1>4, <1>9, <3>2
    <3> QED  BY <1>7, <3>1, <3>2, <3>3
  <2> QED  BY <2>3, <2>4
<1> QED  BY <1>12, <1>13

\* Another phone's delivery, if it does not write the array, changes nothing.
LEMMA ForeignDeliverView ==
    ASSUME TypeOK, NEW x \in User, Deliver(x), NEW u \in User, u # x,
           NEW d \in User, NEW f \in Field, NEW v \in User,
           CellOf(Head(pending[x])) # <<d, f, v>>
    PROVE  View(u, d, f, v)' <=> View(u, d, f, v)
<1>1. pending'[u] = pending[u]
  BY DeliverQueue
<1>2. v \in users'[d][f] <=> v \in users[d][f]
  <2> DEFINE w == Head(pending[x])
  <2>1. users'[d][f] = IF d = w.doc /\ f = w.field THEN Transform(w, users[d][f])
                       ELSE users[d][f]
    BY DeliverWrites
  <2>2. d = w.doc /\ f = w.field => v # w.id
    BY DEF CellOf
  <2> HIDE DEF w
  <2> QED  BY <2>1, <2>2 DEF Transform
<1> QED  BY <1>1, <1>2 DEF View, HoldsAfter, WritesTo

LEMMA RelaunchView ==
    ASSUME TypeOK, NEW x \in User, Relaunch(x), NEW u \in User, NEW d, NEW f, NEW v
    PROVE  View(u, d, f, v)' <=> View(u, d, f, v)
<1>1. users' = users
  BY DEF Relaunch
<1>2. WritesTo(pending'[u], d, f, v) = WritesTo(pending[u], d, f, v)
  BY RelaunchQueue DEF WritesTo
<1>3. \A i \in WritesTo(pending[u], d, f, v) : pending'[u][i].op = pending[u][i].op
  BY RelaunchQueue DEF WritesTo
<1> QED  BY <1>1, <1>2, <1>3 DEF View, HoldsAfter, WritesTo
-----------------------------------------------------------------------------
(* The invariant.                                                           *)

\* Only its owner's phone writes the list of a user's blocked users ...
OnlyOwners ==
    \A x \in User : \A i \in DOMAIN pending[x] :
        pending[x][i].field = blockedUsersByCurrentUserKey => pending[x][i].doc = x

\* ... and that phone reads of it what the owner decided.
Decided ==
    \A u, v \in User : Holds(u, blockedUsersByCurrentUserKey, v) <=> v \in blocking[u]

BlocksInv == OnlyOwners /\ Decided

LEMMA BlocksInit == Init => BlocksInv
<1> SUFFICES ASSUME Init PROVE BlocksInv  OBVIOUS
<1>1. OnlyOwners
  BY DEF Init, OnlyOwners
<1>2. ASSUME NEW u \in User, NEW v \in User
      PROVE  Holds(u, blockedUsersByCurrentUserKey, v) <=> v \in blocking[u]
  <2>1. users[u][blockedUsersByCurrentUserKey] = {} /\ blocking[u] = {}
    BY DEF Init, InitialArray, Field
  <2>2. DOMAIN pending[u] = {}
    BY DEF Init
  <2> QED  BY <2>1, <2>2 DEF Holds, View, HoldsAfter, WritesTo
<1> QED  BY <1>1, <1>2 DEF BlocksInv, Decided

\* The phones that do not take part in an operation read what they read before.
LEMMA StartElsewhere ==
    ASSUME TypeOK, NEW u \in User, NEW ws, Start(u, ws), NEW x \in User \ {u}, NEW f, NEW v
    PROVE  Holds(x, f, v)' <=> Holds(x, f, v)
<1>1. pending'[x] = pending[x] /\ users' = users
  BY DEF Start, TypeOK
<1> QED  BY <1>1 DEF Holds, View, HoldsAfter, WritesTo

LEMMA OtherOperation ==
    ASSUME TypeOK, BlocksInv, NEW u \in User, NEW ws \in Seq(QueuedWrite), Start(u, ws),
           \A k \in DOMAIN ws : ws[k].field # blockedUsersByCurrentUserKey,
           blocking' = blocking
    PROVE  BlocksInv'
<1>1. OnlyOwners'
  BY StartQueue DEF BlocksInv, OnlyOwners
<1>2. ASSUME NEW x \in User, NEW v \in User
      PROVE  Holds(x, blockedUsersByCurrentUserKey, v)'
                 <=> Holds(x, blockedUsersByCurrentUserKey, v)
  <2>1. CASE x = u
    <3>1. WritesTo(ws, u, blockedUsersByCurrentUserKey, v) = {}
      BY DEF WritesTo
    <3> QED  BY <2>1, <3>1, StartView DEF Holds, Field
  <2> QED  BY <2>1, StartElsewhere
<1> QED  BY <1>1, <1>2 DEF BlocksInv, Decided

LEMMA OwnOperation ==
    ASSUME TypeOK, BlocksInv, NEW u \in User, NEW v \in User,
           NEW ws \in Seq(QueuedWrite), Start(u, ws),
           NEW k \in DOMAIN ws, ws[k].doc = u, ws[k].id = v,
           ws[k].field = blockedUsersByCurrentUserKey,
           \A j \in DOMAIN ws \ {k} : ws[j].field # blockedUsersByCurrentUserKey,
           blocking' = [blocking EXCEPT ![u] = IF ws[k].op = "union" THEN @ \cup {v}
                                               ELSE @ \ {v}]
    PROVE  BlocksInv'
<1>1. OnlyOwners'
  BY StartQueue DEF BlocksInv, OnlyOwners
<1>2. ASSUME NEW x \in User \ {u}, NEW y \in User
      PROVE  Holds(x, blockedUsersByCurrentUserKey, y)' <=> y \in blocking'[x]
  <2>1. blocking'[x] = blocking[x]
    BY DEF TypeOK
  <2> QED  BY <2>1, StartElsewhere DEF BlocksInv, Decided
<1>3. ASSUME NEW y \in User \ {v}
      PROVE  Holds(u, blockedUsersByCurrentUserKey, y)' <=> y \in blocking'[u]
  <2>1. WritesTo(ws, u, blockedUsersByCurrentUserKey, y) = {}
    BY DEF WritesTo
  <2>2. Holds(u, blockedUsersByCurrentUserKey, y)'
            <=> Holds(u, blockedUsersByCurrentUserKey, y)
    BY <2>1, StartView DEF Holds, Field
  <2>3. y \in blocking'[u] <=> y \in blocking[u]
    BY DEF TypeOK
  <2> QED  BY <2>2, <2>3 DEF BlocksInv, Decided
<1>4. Holds(u, blockedUsersByCurrentUserKey, v)' <=> v \in blocking'[u]
  <2>1. WritesTo(ws, u, blockedUsersByCurrentUserKey, v) = {k}
    BY DEF WritesTo
  <2>2. k \in Nat
    BY SeqElement
  <2>3. \A j \in WritesTo(ws, u, blockedUsersByCurrentUserKey, v) : j <= k
    BY <2>1, <2>2
  <2>4. Holds(u, blockedUsersByCurrentUserKey, v)' <=> ws[k].op = "union"
    BY <2>1, <2>3, StartView DEF Holds, Field
  <2>5. v \in blocking'[u] <=> ws[k].op = "union"
    BY DEF TypeOK
  <2> QED  BY <2>4, <2>5
<1> QED  BY <1>1, <1>2, <1>3, <1>4 DEF BlocksInv, Decided

LEMMA NeutralWrites ==
    ASSUME NEW u, NEW v
    PROVE  \A ws \in {sendFriendRequestWrites(u, v), acceptFriendRequestWrites(u, v),
                      cancelFriendRequestWrites(u, v), unfriendUserWrites(u, v)} :
              \A k \in DOMAIN ws : ws[k].field # blockedUsersByCurrentUserKey
BY DEF sendFriendRequestWrites, acceptFriendRequestWrites, cancelFriendRequestWrites,
       unfriendUserWrites, arrayUnion, arrayRemove

LEMMA BlocksStep == TypeOK /\ BlocksInv /\ [Next]_vars => BlocksInv'
<1> SUFFICES ASSUME TypeOK, BlocksInv, [Next]_vars PROVE BlocksInv'  OBVIOUS
<1> USE DEF arrayUnion, arrayRemove
<1>1. ASSUME NEW u \in User, NEW v \in User, sendFriendRequest(u, v) PROVE BlocksInv'
  <2>1. Start(u, sendFriendRequestWrites(u, v)) /\ blocking' = blocking
    BY <1>1 DEF sendFriendRequest
  <2> QED  BY <2>1, NeutralWrites, OperationWrites, OtherOperation
<1>2. ASSUME NEW u \in User, NEW v \in User, acceptFriendRequest(u, v) PROVE BlocksInv'
  <2>1. Start(u, acceptFriendRequestWrites(u, v)) /\ blocking' = blocking
    BY <1>2 DEF acceptFriendRequest
  <2> QED  BY <2>1, NeutralWrites, OperationWrites, OtherOperation
<1>3. ASSUME NEW u \in User, NEW v \in User, cancelFriendRequest(u, v) PROVE BlocksInv'
  <2>1. Start(u, cancelFriendRequestWrites(u, v)) /\ blocking' = blocking
    BY <1>3 DEF cancelFriendRequest
  <2> QED  BY <2>1, NeutralWrites, OperationWrites, OtherOperation
<1>4. ASSUME NEW u \in User, NEW v \in User, blockUser(u, v) PROVE BlocksInv'
  <2> DEFINE ws == blockUserWrites(u, v)
  <2>1. /\ 3 \in DOMAIN ws
        /\ ws[3].doc = u /\ ws[3].id = v /\ ws[3].op = "union"
        /\ ws[3].field = blockedUsersByCurrentUserKey
        /\ \A j \in DOMAIN ws \ {3} : ws[j].field # blockedUsersByCurrentUserKey
    BY DEF blockUserWrites
  <2>2. ws \in Seq(QueuedWrite)
    BY OperationWrites
  <2>3. Start(u, ws) /\ blocking' = [blocking EXCEPT ![u] = @ \cup {v}]
    BY <1>4 DEF blockUser
  <2> HIDE DEF ws
  <2> QED  BY <2>1, <2>2, <2>3, OwnOperation
<1>5. ASSUME NEW u \in User, NEW v \in User, unfriendUser(u, v) PROVE BlocksInv'
  <2>1. Start(u, unfriendUserWrites(u, v)) /\ blocking' = blocking
    BY <1>5 DEF unfriendUser
  <2> QED  BY <2>1, NeutralWrites, OperationWrites, OtherOperation
<1>6. ASSUME NEW u \in User, NEW v \in User, unblockedUser(u, v) PROVE BlocksInv'
  <2> DEFINE ws == unblockedUserWrites(u, v)
  <2>1. /\ 1 \in DOMAIN ws
        /\ ws[1].doc = u /\ ws[1].id = v /\ ws[1].op # "union"
        /\ ws[1].field = blockedUsersByCurrentUserKey
        /\ \A j \in DOMAIN ws \ {1} : ws[j].field # blockedUsersByCurrentUserKey
    BY DEF unblockedUserWrites
  <2>2. ws \in Seq(QueuedWrite)
    BY OperationWrites
  <2>3. Start(u, ws) /\ blocking' = [blocking EXCEPT ![u] = @ \ {v}]
    BY <1>6 DEF unblockedUser
  <2> HIDE DEF ws
  <2> QED  BY <2>1, <2>2, <2>3, OwnOperation
<1>7. ASSUME UNCHANGED <<users, pending, blocking>> PROVE BlocksInv'
  BY <1>7 DEF BlocksInv, OnlyOwners, Decided, Holds, View, HoldsAfter, WritesTo
<1>8. ASSUME NEW u \in User, Deliver(u) PROVE BlocksInv'
  <2>1. OnlyOwners'
    BY <1>8, DeliverQueue DEF BlocksInv, OnlyOwners
  <2>2. \/ Head(pending[u]).field # blockedUsersByCurrentUserKey
        \/ Head(pending[u]).doc = u
    BY <1>8, DeliverQueue DEF BlocksInv, OnlyOwners
  <2>3. ASSUME NEW x \in User, NEW v \in User
        PROVE  Holds(x, blockedUsersByCurrentUserKey, v)'
                   <=> Holds(x, blockedUsersByCurrentUserKey, v)
    <3>1. CASE x = u
      BY <1>8, <3>1, DeliverView DEF Holds, Field
    <3>2. CASE x # u
      BY <1>8, <2>2, <3>2, ForeignDeliverView DEF Holds, CellOf, Field
    <3> QED  BY <3>1, <3>2
  <2>4. blocking' = blocking
    BY <1>8 DEF Deliver, historyVars
  <2> QED  BY <2>1, <2>3, <2>4 DEF BlocksInv, Decided
<1>9. ASSUME NEW u \in User, Relaunch(u) PROVE BlocksInv'
  <2>1. OnlyOwners'
    BY <1>9, RelaunchQueue DEF BlocksInv, OnlyOwners
  <2>2. \A x, v \in User : Holds(x, blockedUsersByCurrentUserKey, v)'
                               <=> Holds(x, blockedUsersByCurrentUserKey, v)
    BY <1>9, RelaunchView DEF Holds
  <2>3. blocking' = blocking
    BY <1>9 DEF Relaunch, historyVars
  <2> QED  BY <2>1, <2>2, <2>3 DEF BlocksInv, Decided
<1>10. ASSUME NEW u \in User, fetchCurrentUser(u) PROVE BlocksInv'
  BY <1>7, <1>10 DEF fetchCurrentUser, historyVars
<1>11. ASSUME NEW u \in User, NEW f \in ShownField, fetchList(u, f) PROVE BlocksInv'
  BY <1>7, <1>11 DEF fetchList, historyVars
<1>12. ASSUME NEW u \in User, NEW l \in loads[u], NEW v \in l.ids, fetchListMember(u, l, v)
       PROVE  BlocksInv'
  BY <1>7, <1>12 DEF fetchListMember, historyVars
<1>13. CASE UNCHANGED vars
  BY <1>7, <1>13 DEF vars
<1> QED
  BY <1>1, <1>2, <1>3, <1>4, <1>5, <1>6, <1>8, <1>9, <1>10, <1>11, <1>12, <1>13 DEF Next

LEMMA BlocksMeanList == TypeOK /\ BlocksInv => BlockListIsOwn
<1> SUFFICES ASSUME TypeOK, BlocksInv, NEW u \in User
             PROVE  OwnArray(u, blockedUsersByCurrentUserKey) = blocking[u]
  BY DEF BlockListIsOwn
<1>1. OwnArray(u, blockedUsersByCurrentUserKey) \in SUBSET User
  BY OwnArrayType DEF Field
<1>2. blocking[u] \in SUBSET User
  BY DEF TypeOK
<1>3. \A v \in User : v \in OwnArray(u, blockedUsersByCurrentUserKey) <=> v \in blocking[u]
  BY OwnArrayHolds DEF BlocksInv, Decided
<1> QED  BY <1>1, <1>2, <1>3

\* The list behind the blocked users screen is, in its owner's reads at every
\* moment of every behaviour, what the owner last decided about each user:
\* blockUser, unblockedUser, the delivery of their writes in queue order and
\* the queue's survival of a restart leave no room for anything else.
THEOREM OwnersDecide == Spec => []BlockListIsOwn
<1>1. Spec => []BlocksInv
  BY BlocksInit, BlocksStep, TypeCorrect, PTL DEF Spec
<1> QED  BY <1>1, TypeCorrect, BlocksMeanList, PTL
-----------------------------------------------------------------------------
(***************************************************************************)
(* Friends implements Consent.  The argument follows a request from the    *)
(* tap that sends it to the friendship it may lead to: whoever stands in a *)
(* "received" array, in a queued write of one, in a download of the list   *)
(* or in a row of it has really asked; an accept therefore answers a       *)
(* request; and whoever stands in a "friends" array, or in a queued write  *)
(* of one, has been agreed upon.                                           *)
(***************************************************************************)

Asked(u, v) == <<u, v>> \in asked
Agreed(u, v) == <<u, v>> \in accepted \/ <<v, u>> \in accepted

AcceptedAsked == \A u, v \in User : <<u, v>> \in accepted => Asked(v, u)

DocumentsJustified ==
    \A u, v \in User :
        /\ v \in users[u][friendsRequestReceivedKey] => Asked(v, u)
        /\ v \in users[u][friendsKey] => Agreed(u, v)

Justified(w) ==
    w.op = "union" =>
        /\ w.field = friendsRequestReceivedKey => Asked(w.id, w.doc)
        /\ w.field = friendsKey => Agreed(w.doc, w.id)

WritesJustified == \A u \in User : \A i \in DOMAIN pending[u] : Justified(pending[u][i])

DownloadsAsked ==
    \A u \in User : \A l \in loads[u] :
        /\ l.got \subseteq l.ids
        /\ l.field = friendsRequestReceivedKey => \A v \in l.ids : Asked(v, u)

RowsAsked == \A u, v \in User : v \in shown[u][friendsRequestReceivedKey] => Asked(v, u)

ConsentInv ==
    /\ AcceptedAsked
    /\ DocumentsJustified
    /\ WritesJustified
    /\ DownloadsAsked
    /\ RowsAsked

LEMMA ConsentInit == Init => ConsentInv
<1> SUFFICES ASSUME Init PROVE ConsentInv  OBVIOUS
<1>1. AcceptedAsked
  BY StartAssumption DEF Init, AcceptedAsked, Asked
<1>2. DocumentsJustified
  BY DEF Init, InitialArray, Field, DocumentsJustified, Asked, Agreed
<1>3. WritesJustified
  BY DEF Init, WritesJustified
<1>4. DownloadsAsked /\ RowsAsked
  BY DEF Init, ShownField, Field, DownloadsAsked, RowsAsked
<1> QED  BY <1>1, <1>2, <1>3, <1>4 DEF ConsentInv

\* What u reads in its own "received" array has asked.
LEMMA OwnReceivedAsked ==
    ASSUME TypeOK, ConsentInv, NEW u \in User,
           NEW v \in OwnArray(u, friendsRequestReceivedKey)
    PROVE  Asked(v, u)
<1>1. v \in User
  BY OwnArrayType DEF Field
<1>2. CASE v \in users[u][friendsRequestReceivedKey]
  BY <1>1, <1>2 DEF ConsentInv, DocumentsJustified
<1>3. CASE v \notin users[u][friendsRequestReceivedKey]
  <2>1. PICK i \in WritesTo(pending[u], u, friendsRequestReceivedKey, v) : pending[u][i].op = "union"
    BY <1>3 DEF OwnArray, SeenBy, HoldsAfter
  <2> QED  BY <2>1 DEF WritesTo, ConsentInv, WritesJustified, Justified
<1> QED  BY <1>2, <1>3

\* An operation keeps the invariant if its own writes, rows and downloads do.
LEMMA ConsentStart ==
    ASSUME TypeOK, ConsentInv, NEW u \in User, NEW ws \in Seq(QueuedWrite), Start(u, ws),
           asked \subseteq asked', accepted \subseteq accepted',
           AcceptedAsked', RowsAsked', DownloadsAsked',
           \A j \in DOMAIN ws : Justified(ws[j])'
    PROVE  ConsentInv'
<1>1. DocumentsJustified'
  BY DEF Start, ConsentInv, DocumentsJustified, Asked, Agreed
<1>2. ASSUME NEW x \in User, NEW i \in DOMAIN pending'[x] PROVE Justified(pending[x][i])'
  <2>1. CASE i \in DOMAIN pending[x] /\ pending'[x][i] = pending[x][i]
    BY <2>1 DEF ConsentInv, WritesJustified, Justified, Asked, Agreed
  <2>2. CASE x = u /\ \E j \in DOMAIN ws : pending'[x][i] = ws[j]
    BY <2>2 DEF Justified, Asked, Agreed
  <2> QED  BY <1>2, <2>1, <2>2, StartQueue
<1> QED  BY <1>1, <1>2 DEF ConsentInv, WritesJustified

LEMMA ConsentStep == TypeOK /\ ConsentInv /\ [Next]_vars => ConsentInv'
<1> SUFFICES ASSUME TypeOK, ConsentInv, [Next]_vars PROVE ConsentInv'  OBVIOUS
<1> USE DEF Asked, Agreed
<1>1. ASSUME NEW u \in User, NEW v \in User, sendFriendRequest(u, v) PROVE ConsentInv'
  <2> DEFINE ws == sendFriendRequestWrites(u, v)
  <2>1. \A j \in DOMAIN ws : Justified(ws[j])'
    BY <1>1 DEF sendFriendRequest, sendFriendRequestWrites, arrayUnion, Justified
  <2>2. AcceptedAsked' /\ RowsAsked' /\ DownloadsAsked'
    BY <1>1 DEF sendFriendRequest, ConsentInv, AcceptedAsked, RowsAsked, DownloadsAsked
  <2>3. Start(u, ws) /\ asked \subseteq asked' /\ accepted \subseteq accepted'
    BY <1>1 DEF sendFriendRequest
  <2>4. ws \in Seq(QueuedWrite)
    BY OperationWrites
  <2> HIDE DEF ws
  <2> QED  BY <2>1, <2>2, <2>3, <2>4, ConsentStart
<1>2. ASSUME NEW u \in User, NEW v \in User, acceptFriendRequest(u, v) PROVE ConsentInv'
  <2> DEFINE ws == acceptFriendRequestWrites(u, v)
  <2>1. <<v, u>> \in asked
    BY <1>2 DEF acceptFriendRequest, ConsentInv, RowsAsked
  <2>2. <<u, v>> \in accepted'
    BY <1>2 DEF acceptFriendRequest
  <2>3. \A j \in DOMAIN ws : Justified(ws[j])'
    BY <2>2 DEF acceptFriendRequestWrites, arrayUnion, arrayRemove, Justified
  <2>4. AcceptedAsked' /\ DownloadsAsked'
    BY <1>2, <2>1 DEF acceptFriendRequest, ConsentInv, AcceptedAsked, DownloadsAsked
  <2>5. RowsAsked'
    BY <1>2 DEF acceptFriendRequest, ConsentInv, RowsAsked, DropRow, TypeOK, ShownField, Field
  <2>6. Start(u, ws) /\ asked \subseteq asked' /\ accepted \subseteq accepted'
    BY <1>2 DEF acceptFriendRequest
  <2>7. ws \in Seq(QueuedWrite)
    BY OperationWrites
  <2> HIDE DEF ws
  <2> QED  BY <2>3, <2>4, <2>5, <2>6, <2>7, ConsentStart
<1>3. ASSUME NEW u \in User, NEW v \in User, cancelFriendRequest(u, v) PROVE ConsentInv'
  <2> DEFINE ws == cancelFriendRequestWrites(u, v)
  <2>1. \A j \in DOMAIN ws : Justified(ws[j])'
    BY DEF cancelFriendRequestWrites, arrayRemove, Justified
  <2>2. AcceptedAsked' /\ RowsAsked' /\ DownloadsAsked'
    BY <1>3 DEF cancelFriendRequest, ConsentInv, AcceptedAsked, RowsAsked, DownloadsAsked
  <2>3. Start(u, ws) /\ asked \subseteq asked' /\ accepted \subseteq accepted'
    BY <1>3 DEF cancelFriendRequest
  <2>4. ws \in Seq(QueuedWrite)
    BY OperationWrites
  <2> HIDE DEF ws
  <2> QED  BY <2>1, <2>2, <2>3, <2>4, ConsentStart
<1>4. ASSUME NEW u \in User, NEW v \in User, blockUser(u, v) PROVE ConsentInv'
  <2> DEFINE ws == blockUserWrites(u, v)
  <2>1. \A j \in DOMAIN ws : Justified(ws[j])'
    BY DEF blockUserWrites, arrayUnion, arrayRemove, Justified
  <2>2. AcceptedAsked' /\ DownloadsAsked'
    BY <1>4 DEF blockUser, ConsentInv, AcceptedAsked, DownloadsAsked
  <2>3. RowsAsked'
    BY <1>4 DEF blockUser, ConsentInv, RowsAsked, DropRow, TypeOK, ShownField, Field
  <2>4. Start(u, ws) /\ asked \subseteq asked' /\ accepted \subseteq accepted'
    BY <1>4 DEF blockUser
  <2>5. ws \in Seq(QueuedWrite)
    BY OperationWrites
  <2> HIDE DEF ws
  <2> QED  BY <2>1, <2>2, <2>3, <2>4, <2>5, ConsentStart
<1>5. ASSUME NEW u \in User, NEW v \in User, unfriendUser(u, v) PROVE ConsentInv'
  <2> DEFINE ws == unfriendUserWrites(u, v)
  <2>1. \A j \in DOMAIN ws : Justified(ws[j])'
    BY DEF unfriendUserWrites, arrayRemove, Justified
  <2>2. AcceptedAsked' /\ DownloadsAsked'
    BY <1>5 DEF unfriendUser, ConsentInv, AcceptedAsked, DownloadsAsked
  <2>3. RowsAsked'
    BY <1>5 DEF unfriendUser, ConsentInv, RowsAsked, DropRow, TypeOK, ShownField, Field
  <2>4. Start(u, ws) /\ asked \subseteq asked' /\ accepted \subseteq accepted'
    BY <1>5 DEF unfriendUser
  <2>5. ws \in Seq(QueuedWrite)
    BY OperationWrites
  <2> HIDE DEF ws
  <2> QED  BY <2>1, <2>2, <2>3, <2>4, <2>5, ConsentStart
<1>6. ASSUME NEW u \in User, NEW v \in User, unblockedUser(u, v) PROVE ConsentInv'
  <2> DEFINE ws == unblockedUserWrites(u, v)
  <2>1. \A j \in DOMAIN ws : Justified(ws[j])'
    BY DEF unblockedUserWrites, arrayRemove, Justified
  <2>2. AcceptedAsked'
    BY <1>6 DEF unblockedUser, ConsentInv, AcceptedAsked
  <2>3. RowsAsked'
    BY <1>6 DEF unblockedUser, ConsentInv, RowsAsked, DropRow, TypeOK, ShownField, Field
  <2>4. DownloadsAsked'
    <3> DEFINE left == OwnArray(u, blockedUsersByCurrentUserKey) \ {v}
    <3>1. asked' = asked
      BY <1>6 DEF unblockedUser
    <3>2. \A x \in User : \A l \in loads'[x] :
             l \in loads[x] \/ l = Load(blockedUsersByCurrentUserKey, left)
      BY <1>6 DEF unblockedUser, TypeOK
    <3> HIDE DEF left
    <3> QED  BY <3>1, <3>2 DEF ConsentInv, DownloadsAsked, Load
  <2>5. Start(u, ws) /\ asked \subseteq asked' /\ accepted \subseteq accepted'
    BY <1>6 DEF unblockedUser
  <2>6. ws \in Seq(QueuedWrite)
    BY OperationWrites
  <2> HIDE DEF ws
  <2> QED  BY <2>1, <2>2, <2>3, <2>4, <2>5, <2>6, ConsentStart
<1>7. ASSUME NEW u \in User, fetchCurrentUser(u) PROVE ConsentInv'
  BY <1>7 DEF fetchCurrentUser, historyVars, ConsentInv, AcceptedAsked, DocumentsJustified,
     WritesJustified, Justified, DownloadsAsked, RowsAsked
<1>8. ASSUME NEW u \in User, NEW f \in ShownField, fetchList(u, f) PROVE ConsentInv'
  <2>1. \A x \in User : \A l \in loads'[x] : l \in loads[x] \/ (x = u /\ l = Load(f, OwnArray(u, f)))
    BY <1>8 DEF fetchList, TypeOK
  <2>2. DownloadsAsked'
    BY <1>8, <2>1, OwnReceivedAsked
       DEF fetchList, historyVars, ConsentInv, DownloadsAsked, Load
  <2> QED
    BY <1>8, <2>2 DEF fetchList, historyVars, ConsentInv, AcceptedAsked, DocumentsJustified,
       WritesJustified, Justified, RowsAsked
<1>9. ASSUME NEW u \in User, NEW l \in loads[u], NEW v \in l.ids, fetchListMember(u, l, v)
      PROVE  ConsentInv'
  <2> DEFINE got == l.got \cup {v}
  <2>1. l \in LoadRecord /\ l.field \in ShownField
    BY DEF TypeOK, LoadRecord
  <2>2. got \subseteq l.ids
    BY DEF ConsentInv, DownloadsAsked
  <2>3. DownloadsAsked'
    <3>1. \A x \in User : \A k \in loads'[x] :
             k \in loads[x] \/ (x = u /\ k = [l EXCEPT !.got = got])
      BY <1>9 DEF fetchListMember, TypeOK
    <3>2. [l EXCEPT !.got = got].ids = l.ids /\ [l EXCEPT !.got = got].field = l.field
            /\ [l EXCEPT !.got = got].got = got
      BY <2>1 DEF LoadRecord
    <3> HIDE DEF got
    <3> QED  BY <1>9, <2>2, <3>1, <3>2
             DEF fetchListMember, historyVars, ConsentInv, DownloadsAsked
  <2>4. RowsAsked'
    <3>1. shown' = [shown EXCEPT ![u][l.field] = got]
      BY <1>9 DEF fetchListMember
    <3>2. l.field = friendsRequestReceivedKey => \A x \in got : Asked(x, u)
      BY <2>2 DEF ConsentInv, DownloadsAsked
    <3> HIDE DEF got
    <3> QED  BY <1>9, <2>1, <3>1, <3>2
             DEF fetchListMember, historyVars, ConsentInv, RowsAsked, TypeOK
  <2> HIDE DEF got
  <2> QED
    BY <1>9, <2>3, <2>4 DEF fetchListMember, historyVars, ConsentInv, AcceptedAsked,
       DocumentsJustified, WritesJustified, Justified
<1>10. ASSUME NEW u \in User, Deliver(u) PROVE ConsentInv'
  <2> DEFINE w == Head(pending[u])
  <2>1. asked' = asked /\ accepted' = accepted /\ loads' = loads
    BY <1>10 DEF Deliver, historyVars
  <2>2. Justified(w)
    BY <1>10, DeliverQueue DEF ConsentInv, WritesJustified
  <2>3. DocumentsJustified'
    <3> SUFFICES ASSUME NEW d \in User, NEW f \in Field, NEW v \in User, v \in users'[d][f]
                 PROVE  /\ f = friendsRequestReceivedKey => Asked(v, d)
                        /\ f = friendsKey => Agreed(d, v)
      BY <2>1 DEF DocumentsJustified, Field
    <3>1. CASE v \in users[d][f]
      BY <3>1 DEF ConsentInv, DocumentsJustified
    <3>2. CASE v \notin users[d][f]
      <4>1. d = w.doc /\ f = w.field /\ v = w.id /\ w.op = "union"
        <5>1. users'[d][f] = IF d = w.doc /\ f = w.field THEN Transform(w, users[d][f])
                             ELSE users[d][f]
          BY <1>10, DeliverWrites
        <5> HIDE DEF w
        <5> QED  BY <3>2, <5>1 DEF Transform
      <4> QED  BY <2>2, <4>1 DEF Justified
    <3> QED  BY <3>1, <3>2
  <2>4. WritesJustified'
    <3> SUFFICES ASSUME NEW x \in User, NEW i \in DOMAIN pending'[x]
                 PROVE  Justified(pending'[x][i])
      BY <2>1 DEF WritesJustified, Justified
    <3>1. \E k \in DOMAIN pending[x] : pending'[x][i] = pending[x][k]
      BY <1>10, DeliverQueue
    <3> QED  BY <3>1 DEF ConsentInv, WritesJustified
  <2>5. RowsAsked'
    <3>1. \A x \in User : shown'[x][friendsRequestReceivedKey] = shown[x][friendsRequestReceivedKey]
      BY <1>10 DEF Deliver, TypeOK, ShownField, Field
    <3> QED  BY <2>1, <3>1 DEF ConsentInv, RowsAsked
  <2> QED  BY <2>1, <2>3, <2>4, <2>5 DEF ConsentInv, AcceptedAsked, DownloadsAsked
<1>11. ASSUME NEW u \in User, Relaunch(u) PROVE ConsentInv'
  <2>1. asked' = asked /\ accepted' = accepted /\ users' = users
    BY <1>11 DEF Relaunch, historyVars
  <2>2. WritesJustified'
    BY <1>11, <2>1, RelaunchQueue DEF ConsentInv, WritesJustified, Justified
  <2>3. DownloadsAsked' /\ RowsAsked'
    BY <1>11, <2>1 DEF Relaunch, ConsentInv, DownloadsAsked, RowsAsked, TypeOK, ShownField, Field
  <2> QED  BY <2>1, <2>2, <2>3 DEF ConsentInv, AcceptedAsked, DocumentsJustified
<1>12. CASE UNCHANGED vars
  BY <1>12 DEF vars, ConsentInv, AcceptedAsked, DocumentsJustified, WritesJustified,
     Justified, DownloadsAsked, RowsAsked
<1> QED
  BY <1>1, <1>2, <1>3, <1>4, <1>5, <1>6, <1>7, <1>8, <1>9, <1>10, <1>11, <1>12 DEF Next

\* The inductive invariant: the whole trail of every request.
THEOREM ConsentTrail == Spec => []ConsentInv
<1>1. TypeOK /\ ConsentInv /\ [Next]_vars => ConsentInv'
  BY ConsentStep
<1> QED  BY <1>1, ConsentInit, TypeCorrect, PTL DEF Spec
-----------------------------------------------------------------------------
(* The refinement.                                                          *)

friendships == [u \in User |-> users[u][friendsKey]]

LEMMA PromiseInit == Init => Promise!Init
<1> SUFFICES ASSUME Init PROVE Promise!Init  OBVIOUS
<1>1. TypeOK /\ ConsentInv
  BY TypeInit, ConsentInit
<1>2. friendships \in [User -> SUBSET User]
  BY <1>1 DEF friendships, TypeOK, Document, Field
<1> QED
  BY <1>1, <1>2 DEF friendships, Promise!Init, Promise!Agreed, TypeOK, ConsentInv,
     AcceptedAsked, DocumentsJustified, Asked, Agreed

LEMMA PromiseStep == TypeOK /\ ConsentInv /\ [Next]_vars => [Promise!Next]_(Promise!vars)
<1> SUFFICES ASSUME TypeOK, ConsentInv, [Next]_vars PROVE [Promise!Next]_(Promise!vars)
  OBVIOUS
<1> USE DEF Promise!Next, Promise!vars
<1>1. ASSUME NEW u \in User, NEW v \in User, sendFriendRequest(u, v) PROVE Promise!Next
  BY <1>1 DEF sendFriendRequest, Start, Promise!Ask
<1>2. ASSUME NEW u \in User, NEW v \in User, acceptFriendRequest(u, v) PROVE Promise!Next
  BY <1>2 DEF acceptFriendRequest, Start, Promise!Accept, ConsentInv, RowsAsked, Asked
<1>3. ASSUME NEW u \in User, NEW v \in User,
             \/ cancelFriendRequest(u, v)
             \/ blockUser(u, v)
             \/ unfriendUser(u, v)
             \/ unblockedUser(u, v)
      PROVE  UNCHANGED Promise!vars
  BY <1>3 DEF cancelFriendRequest, blockUser, unfriendUser, unblockedUser, Start
<1>4. ASSUME NEW u \in User, Deliver(u) PROVE [Promise!Next]_(Promise!vars)
  <2> DEFINE w == Head(pending[u])
  <2>1. asked' = asked /\ accepted' = accepted
    BY <1>4 DEF Deliver, historyVars
  <2>2. Justified(w)
    BY <1>4, DeliverQueue DEF ConsentInv, WritesJustified
  <2>3. w \in QueuedWrite
    BY <1>4, DeliverWrites DEF Field
  <2>4. \A d \in User : users'[d][friendsKey] =
           IF d = w.doc /\ w.field = friendsKey THEN Transform(w, users[d][friendsKey])
           ELSE users[d][friendsKey]
    BY <1>4, DeliverWrites DEF Field
  <2> HIDE DEF w
  <2>5. w.doc \in User /\ w.id \in User /\ w.op \in {"union", "remove"}
    BY <2>3 DEF QueuedWrite, WriteOp
  <2>6. CASE w.field # friendsKey
    <3>1. friendships' = friendships
      BY <2>4, <2>6 DEF friendships
    <3> QED  BY <2>1, <3>1 DEF friendships
  <2>7. PICK a \in User, b \in User : a = w.doc /\ b = w.id
    BY <2>5
  <2>8. CASE w.field = friendsKey /\ w.op = "union"
    <3>1. friendships' = [friendships EXCEPT ![a] = @ \cup {b}]
      BY <2>4, <2>7, <2>8 DEF friendships, Transform
    <3>2. Promise!Agreed(a, b)
      BY <2>2, <2>7, <2>8 DEF Justified, Agreed, Promise!Agreed
    <3>3. Promise!Befriend(a, b)
      BY <2>1, <3>1, <3>2 DEF friendships, Promise!Befriend
    <3> QED  BY <3>3
  <2>9. CASE w.field = friendsKey /\ w.op = "remove"
    <3>1. friendships' = [friendships EXCEPT ![a] = @ \ {b}]
      BY <2>4, <2>7, <2>9 DEF friendships, Transform
    <3>2. Promise!Part(a, b)
      BY <2>1, <3>1 DEF friendships, Promise!Part
    <3> QED  BY <3>2
  <2> QED  BY <2>5, <2>6, <2>8, <2>9
<1>5. ASSUME NEW u \in User, fetchCurrentUser(u) PROVE UNCHANGED Promise!vars
  BY <1>5 DEF fetchCurrentUser, historyVars
<1>6. ASSUME NEW u \in User, NEW f \in ShownField, fetchList(u, f) PROVE UNCHANGED Promise!vars
  BY <1>6 DEF fetchList, historyVars
<1>7. ASSUME NEW u \in User, NEW l \in loads[u], NEW v \in l.ids, fetchListMember(u, l, v)
      PROVE  UNCHANGED Promise!vars
  BY <1>7 DEF fetchListMember, historyVars
<1>8. ASSUME NEW u \in User, Relaunch(u) PROVE UNCHANGED Promise!vars
  BY <1>8 DEF Relaunch, historyVars
<1>9. CASE UNCHANGED vars
  BY <1>9 DEF vars
<1> QED
  BY <1>1, <1>2, <1>3, <1>4, <1>5, <1>6, <1>7, <1>8, <1>9 DEF Next

\* acceptFriendRequest and its siblings implement Consent: whatever is lost,
\* late or stale, nobody becomes a friend of somebody unless one of the two
\* asked and the other accepted after that.
THEOREM FriendshipNeedsConsent == Spec => FriendsConsented
BY PromiseInit, PromiseStep, TypeCorrect, ConsentTrail, PTL
   DEF Spec, FriendsConsented, Promise!Spec
-----------------------------------------------------------------------------
(***************************************************************************)
(* The two ends of a relation.  Every operation writes an element and its  *)
(* mirror alike, so its phone reads the same at both ends as soon as it is *)
(* tapped; the writes others have in flight say the same as its own, or    *)
(* the element has been raced for.  What a phone reads of an element it    *)
(* has writes of survives every delivery: its own writes take effect in    *)
(* the order it reads them, and those of others only repeat them.          *)
(***************************************************************************)

Pair(c) == {c, Mirror(c)}

\* x's phone has a write of c or of its mirror to send.
Touches(x, c) == \E i \in DOMAIN pending[x] : CellOf(pending[x][i]) \in Pair(c)

Sees(x, c) == View(x, c[1], c[2], c[3])

\* Two phones never have contradicting writes of the pair in flight.
OneOp(c) ==
    \A x, y \in User : \A i \in DOMAIN pending[x], j \in DOMAIN pending[y] :
        /\ x # y
        /\ CellOf(pending[x][i]) \in Pair(c)
        /\ CellOf(pending[y][j]) \in Pair(c)
        => pending[x][i].op = pending[y][j].op

SameStory(c) ==
    /\ \A x \in User : Touches(x, c) => (Sees(x, c) <=> Sees(x, Mirror(c)))
    /\ Settled(c) => (In(c) <=> In(Mirror(c)))

EndsInv == \A c \in MirroredCell \ raced : OneOp(c) /\ SameStory(c)

LEMMA MirrorTwice ==
    ASSUME NEW c \in Cell
    PROVE  /\ c = <<c[1], c[2], c[3]>>
           /\ c[1] \in User /\ c[2] \in Field /\ c[3] \in User
           /\ Mirror(c) \in Cell
           /\ Mirror(Mirror(c)) = c
<1>1. c = <<c[1], c[2], c[3]>> /\ c[1] \in User /\ c[2] \in Field /\ c[3] \in User
  BY DEF Cell
<1>2. MirrorField(c[2]) \in Field /\ MirrorField(MirrorField(c[2])) = c[2]
  BY <1>1 DEF MirrorField, Field
<1>3. Mirror(c) = <<c[3], MirrorField(c[2]), c[1]>>
  BY DEF Mirror
<1>4. Mirror(Mirror(c)) = <<c[1], MirrorField(MirrorField(c[2])), c[3]>>
  BY <1>3 DEF Mirror
<1> QED  BY <1>1, <1>2, <1>3, <1>4 DEF Cell

LEMMA WriteCell ==
    ASSUME NEW w \in QueuedWrite
    PROVE  CellOf(w) \in Cell
BY DEF QueuedWrite, CellOf, Cell

\* Whoever has no write of an element queued reads what the backend holds.
LEMMA UnwrittenView ==
    ASSUME TypeOK, NEW x \in User, NEW c \in Cell,
           \A i \in DOMAIN pending[x] : CellOf(pending[x][i]) # c
    PROVE  Sees(x, c) <=> In(c)
<1>1. WritesTo(pending[x], c[1], c[2], c[3]) = {}
  BY MirrorTwice DEF WritesTo, CellOf
<1> QED  BY <1>1 DEF Sees, View, HoldsAfter, In

\* The last of some places in a queue.
LEMMA LeastNatural ==
    ASSUME NEW T \in SUBSET Nat, T # {}
    PROVE  \E m \in T : \A l \in T : m <= l
<1> DEFINE R == OpToRel(<, Nat)
<1>1. IsWellFoundedOn(R, Nat)
  BY NatLessThanWellFounded
<1>2. \A x, y \in Nat : <<x, y>> \in R <=> x < y
  BY DEF OpToRel
<1> HIDE DEF R
<1>3. PICK m \in T : \A l \in T : ~(<<l, m>> \in R)
  BY <1>1, WFMin
<1>4. m \in Nat /\ \A l \in T : l \in Nat /\ ~(l < m)
  BY <1>2, <1>3
<1> QED  BY <1>4

LEMMA LastOf ==
    ASSUME NEW n \in Nat, NEW S \in SUBSET (1 .. n), S # {}
    PROVE  \E k \in S : \A j \in S : j <= k
<1> DEFINE T == {m \in Nat : \A j \in S : j <= m}
<1>1. n \in T
  OBVIOUS
<1>2. T \in SUBSET Nat /\ \A m \in Nat : m \in T <=> \A j \in S : j <= m
  OBVIOUS
<1> HIDE DEF T
<1>3. PICK m \in T : \A l \in T : m <= l
  BY <1>1, <1>2, LeastNatural
<1>4. m \in Nat /\ \A j \in S : j <= m
  BY <1>2
<1>5. m \in S
  <2>1. SUFFICES ASSUME m \notin S PROVE FALSE
    OBVIOUS
  <2>2. PICK i \in S : TRUE
    OBVIOUS
  <2>3. i \in Nat /\ i >= 1 /\ i <= m
    BY <1>4
  <2>4. m - 1 \in Nat
    BY <1>4, <2>3
  <2>5. \A j \in S : j \in Nat /\ j # m /\ j <= m
    BY <1>4, <2>1
  <2>6. \A j \in S : j <= m - 1
    BY <1>4, <2>5
  <2>7. m - 1 \in T
    BY <1>2, <2>4, <2>6
  <2> QED  BY <1>3, <1>4, <2>7
<1> QED  BY <1>4, <1>5

\* Whoever has just queued writes of an element, all with one operation, reads
\* what that operation says.
LEMMA StartSees ==
    ASSUME TypeOK, NEW u \in User, NEW ws \in Seq(QueuedWrite), Start(u, ws),
           NEW c \in Cell, NEW k \in DOMAIN ws, CellOf(ws[k]) = c,
           \A j \in DOMAIN ws : CellOf(ws[j]) = c => ws[j].op = ws[k].op
    PROVE  Sees(u, c)' <=> ws[k].op = "union"
<1> DEFINE S == WritesTo(ws, c[1], c[2], c[3])
<1>1. \A j \in S : j \in DOMAIN ws /\ CellOf(ws[j]) = c
  BY MirrorTwice DEF WritesTo, CellOf
<1>2. k \in S
  BY DEF WritesTo, CellOf
<1>3. Len(ws) \in Nat /\ S \in SUBSET (1 .. Len(ws))
  BY <1>1, SeqElement
<1>4. PICK m \in S : \A j \in S : j <= m
  BY <1>2, <1>3, LastOf
<1>5. View(u, c[1], c[2], c[3])' <=> ws[m].op = "union"
  BY <1>4, MirrorTwice, StartView
<1>6. ws[m].op = ws[k].op
  BY <1>1, <1>4
<1> QED  BY <1>5, <1>6 DEF Sees

\* What each row of writes is made of: one operation for an element and its
\* mirror, and both of them written.
BothEnds(ws) ==
    /\ \A k \in DOMAIN ws :
          ws[k].field # blockedUsersByCurrentUserKey =>
              \E j \in DOMAIN ws : CellOf(ws[j]) = Mirror(CellOf(ws[k]))
    /\ \A j, k \in DOMAIN ws :
          CellOf(ws[j]) \in Pair(CellOf(ws[k])) => ws[j].op = ws[k].op

LEMMA RowsWriteBothEnds ==
    ASSUME NEW u \in User, NEW v \in User
    PROVE  /\ BothEnds(sendFriendRequestWrites(u, v))
           /\ BothEnds(acceptFriendRequestWrites(u, v))
           /\ BothEnds(cancelFriendRequestWrites(u, v))
           /\ BothEnds(blockUserWrites(u, v))
           /\ BothEnds(unfriendUserWrites(u, v))
           /\ BothEnds(unblockedUserWrites(u, v))
<1> USE DEF BothEnds, Pair, Mirror, MirrorField, CellOf, arrayUnion, arrayRemove
<1>1. BothEnds(sendFriendRequestWrites(u, v))
  BY DEF sendFriendRequestWrites
<1>2. BothEnds(acceptFriendRequestWrites(u, v))
  BY DEF acceptFriendRequestWrites
<1>3. BothEnds(cancelFriendRequestWrites(u, v))
  BY DEF cancelFriendRequestWrites
<1>4. BothEnds(blockUserWrites(u, v))
  BY DEF blockUserWrites
<1>5. BothEnds(unfriendUserWrites(u, v))
  BY DEF unfriendUserWrites
<1>6. BothEnds(unblockedUserWrites(u, v))
  BY DEF unblockedUserWrites
<1> QED  BY <1>1, <1>2, <1>3, <1>4, <1>5, <1>6
-----------------------------------------------------------------------------
LEMMA EndsInit == Init => EndsInv
<1> SUFFICES ASSUME Init, NEW c \in MirroredCell PROVE OneOp(c) /\ SameStory(c)
  BY DEF EndsInv
<1>1. \A x \in User : DOMAIN pending[x] = {}
  BY DEF Init
<1>2. OneOp(c) /\ \A x \in User : ~Touches(x, c)
  BY <1>1 DEF OneOp, Touches
<1>3. c \in Cell /\ c[2] \in Field
  BY MirrorTwice DEF MirroredCell
<1>4. In(c) <=> c[3] \in InitialArray(c[1], c[2])
  BY <1>3, MirrorTwice DEF Init, In
<1>5. Mirror(c) = <<c[3], MirrorField(c[2]), c[1]>> /\ MirrorField(c[2]) \in Field
  BY <1>3 DEF Mirror, MirrorField, Field
<1>6. In(Mirror(c)) <=> c[1] \in InitialArray(c[3], MirrorField(c[2]))
  BY <1>3, <1>5, MirrorTwice DEF Init, In
<1>7. c[3] \in InitialArray(c[1], c[2]) <=> c[1] \in InitialArray(c[3], MirrorField(c[2]))
  BY <1>3, MirrorTwice DEF InitialArray, MirrorField, Field
<1> QED  BY <1>2, <1>4, <1>6, <1>7 DEF SameStory

\* What an operation writes of a pair, and what it leaves alone.
LEMMA RowOnPair ==
    ASSUME NEW ws \in Seq(QueuedWrite), BothEnds(ws), NEW c \in MirroredCell,
           NEW k \in DOMAIN ws, CellOf(ws[k]) \in Pair(c)
    PROVE  /\ \A j \in DOMAIN ws : CellOf(ws[j]) \in Pair(c) => ws[j].op = ws[k].op
           /\ \E j \in DOMAIN ws : CellOf(ws[j]) = c
           /\ \E j \in DOMAIN ws : CellOf(ws[j]) = Mirror(c)
<1>1. c \in Cell /\ c[2] # blockedUsersByCurrentUserKey
  BY DEF MirroredCell
<1>2. Pair(Mirror(c)) = Pair(c)
  BY <1>1, MirrorTwice DEF Pair
<1>3. Pair(CellOf(ws[k])) = Pair(c)
  BY <1>2 DEF Pair
<1>4. ws[k].field # blockedUsersByCurrentUserKey
  <2>1. Mirror(c)[2] = MirrorField(c[2])
    BY DEF Mirror
  <2>2. MirrorField(c[2]) # blockedUsersByCurrentUserKey
    BY <1>1 DEF MirrorField
  <2>3. CellOf(ws[k])[2] = ws[k].field
    BY DEF CellOf
  <2> QED  BY <1>1, <2>1, <2>2, <2>3 DEF Pair
<1>5. PICK j \in DOMAIN ws : CellOf(ws[j]) = Mirror(CellOf(ws[k]))
  BY <1>4 DEF BothEnds
<1>6. \A l \in DOMAIN ws : CellOf(ws[l]) \in Pair(c) => ws[l].op = ws[k].op
  BY <1>3 DEF BothEnds
<1> QED  BY <1>1, <1>5, <1>6, MirrorTwice DEF Pair
LEMMA StartKeeps ==
    ASSUME TypeOK, NEW u \in User, NEW ws \in Seq(QueuedWrite), Start(u, ws)
    PROVE  /\ \A x \in User : \A i \in DOMAIN pending[x] :
                 i \in DOMAIN pending'[x] /\ pending'[x][i] = pending[x][i]
           /\ \A k \in DOMAIN ws : \E i \in DOMAIN pending'[u] : pending'[u][i] = ws[k]
<1>1. pending[u] \in Seq(QueuedWrite) /\ pending'[u] = pending[u] \o ws
  BY DEF TypeOK, Start
<1>2. \A x \in User \ {u} : pending'[x] = pending[x]
  BY DEF TypeOK, Start
<1>3. \A i \in DOMAIN pending[u] : i \in DOMAIN pending'[u] /\ pending'[u][i] = pending[u][i]
  BY <1>1
<1>4. ASSUME NEW k \in DOMAIN ws
      PROVE  \E i \in DOMAIN pending'[u] : pending'[u][i] = ws[k]
  <2>1. /\ Len(pending[u]) + k \in DOMAIN pending'[u]
        /\ pending'[u][Len(pending[u]) + k] = ws[k]
    BY <1>1
  <2> QED  BY <2>1
<1> QED  BY <1>2, <1>3, <1>4

LEMMA EndsStart ==
    ASSUME TypeOK, EndsInv, NEW u \in User, NEW ws \in Seq(QueuedWrite), BothEnds(ws),
           Start(u, ws)
    PROVE  EndsInv'
<1> SUFFICES ASSUME NEW c \in MirroredCell, c \notin raced' PROVE OneOp(c)' /\ SameStory(c)'
  BY DEF EndsInv
<1>1. c \in Cell /\ Mirror(c) \in Cell
  BY MirrorTwice DEF MirroredCell
<1>2. OneOp(c) /\ SameStory(c) /\ c \notin Clashes(u, ws)
  BY DEF EndsInv, Start
<1>3. \A k \in DOMAIN ws : \A x \in User \ {u} : \A i \in DOMAIN pending[x] :
         CellOf(ws[k]) \in Pair(c) /\ CellOf(pending[x][i]) \in Pair(c)
             => pending[x][i].op = ws[k].op
  BY <1>1, <1>2 DEF Clashes, Pair
<1>4. OneOp(c)'
  <2> SUFFICES ASSUME NEW x \in User, NEW y \in User, x # y,
                      NEW i \in DOMAIN pending'[x], NEW j \in DOMAIN pending'[y],
                      CellOf(pending'[x][i]) \in Pair(c), CellOf(pending'[y][j]) \in Pair(c)
               PROVE  pending'[x][i].op = pending'[y][j].op
    BY DEF OneOp
  <2>1. \/ i \in DOMAIN pending[x] /\ pending'[x][i] = pending[x][i]
        \/ x = u /\ \E k \in DOMAIN ws : pending'[x][i] = ws[k]
    BY StartQueue
  <2>2. \/ j \in DOMAIN pending[y] /\ pending'[y][j] = pending[y][j]
        \/ y = u /\ \E k \in DOMAIN ws : pending'[y][j] = ws[k]
    BY StartQueue
  <2>3. CASE x # u /\ y # u
    BY <1>2, <2>1, <2>2, <2>3 DEF OneOp
  <2>4. CASE x = u
    <3>1. j \in DOMAIN pending[y] /\ pending'[y][j] = pending[y][j]
      BY <2>2, <2>4
    <3> QED  BY <1>2, <1>3, <2>1, <2>4, <3>1 DEF OneOp
  <2>5. CASE y = u
    <3>1. i \in DOMAIN pending[x] /\ pending'[x][i] = pending[x][i]
      BY <2>1, <2>5
    <3> QED  BY <1>2, <1>3, <2>2, <2>5, <3>1 DEF OneOp
  <2> QED  BY <2>3, <2>4, <2>5
<1>5. /\ users' = users
      /\ \A x \in User \ {u} : pending'[x] = pending[x]
  BY DEF Start, TypeOK
<1>6. /\ In(c)' <=> In(c)
      /\ In(Mirror(c))' <=> In(Mirror(c))
  BY <1>5 DEF In
<1>7. ASSUME NEW x \in User \ {u}
      PROVE  /\ Touches(x, c)' <=> Touches(x, c)
             /\ Sees(x, c)' <=> Sees(x, c)
             /\ Sees(x, Mirror(c))' <=> Sees(x, Mirror(c))
  BY <1>5 DEF Touches, Sees, View, HoldsAfter, WritesTo
<1>8. CASE \A k \in DOMAIN ws : CellOf(ws[k]) \notin Pair(c)
  <2>1. ASSUME NEW a \in Pair(c) PROVE Sees(u, a)' <=> Sees(u, a)
    <3>1. a \in Cell
      BY <1>1 DEF Pair
    <3>2. WritesTo(ws, a[1], a[2], a[3]) = {}
      BY <1>8, <3>1, MirrorTwice DEF WritesTo, CellOf
    <3> QED  BY <3>1, <3>2, MirrorTwice, StartView DEF Sees
  <2>2. Touches(u, c)' => Touches(u, c)
    BY <1>8, StartQueue DEF Touches
  <2>3. Settled(c)' => Settled(c)
    BY StartKeeps DEF Settled
  <2>4. /\ Sees(u, c)' <=> Sees(u, c)
        /\ Sees(u, Mirror(c))' <=> Sees(u, Mirror(c))
    BY <2>1 DEF Pair
  <2>5. ASSUME NEW x \in User, Touches(x, c)'
        PROVE  Sees(x, c)' <=> Sees(x, Mirror(c))'
    <3>1. CASE x = u
      BY <1>2, <2>2, <2>4, <2>5, <3>1 DEF SameStory
    <3>2. CASE x # u
      BY <1>2, <1>7, <2>5, <3>2 DEF SameStory
    <3> QED  BY <3>1, <3>2
  <2>6. Settled(c)' => (In(c)' <=> In(Mirror(c))')
    BY <1>2, <1>6, <2>3 DEF SameStory
  <2> QED  BY <1>4, <2>5, <2>6 DEF SameStory
<1>9. ASSUME NEW k \in DOMAIN ws, CellOf(ws[k]) \in Pair(c)
      PROVE  SameStory(c)'
  <2>1. /\ \A j \in DOMAIN ws : CellOf(ws[j]) \in Pair(c) => ws[j].op = ws[k].op
        /\ \E j \in DOMAIN ws : CellOf(ws[j]) = c
        /\ \E j \in DOMAIN ws : CellOf(ws[j]) = Mirror(c)
    BY <1>9, RowOnPair
  <2>2. ASSUME NEW a \in Pair(c) PROVE Sees(u, a)' <=> ws[k].op = "union"
    <3>1. a \in Cell
      BY <1>1 DEF Pair
    <3>2. PICK j \in DOMAIN ws : CellOf(ws[j]) = a
      BY <2>1 DEF Pair
    <3>3. \A l \in DOMAIN ws : CellOf(ws[l]) = a => ws[l].op = ws[j].op
      BY <2>1, <3>2
    <3>4. Sees(u, a)' <=> ws[j].op = "union"
      BY <3>1, <3>2, <3>3, StartSees
    <3> QED  BY <2>1, <3>2, <3>4
  <2>3. Sees(u, c)' <=> Sees(u, Mirror(c))'
    BY <2>2 DEF Pair
  <2>4. ~Settled(c)'
    <3>1. \E i \in DOMAIN pending'[u] : pending'[u][i] = ws[k]
      BY StartKeeps
    <3> QED  BY <1>9, <3>1 DEF Settled, Pair
  <2>5. ASSUME NEW x \in User, Touches(x, c)'
        PROVE  Sees(x, c)' <=> Sees(x, Mirror(c))'
    <3>1. CASE x = u
      BY <2>3, <3>1
    <3>2. CASE x # u
      BY <1>2, <1>7, <2>5, <3>2 DEF SameStory
    <3> QED  BY <3>1, <3>2
  <2> QED  BY <2>4, <2>5 DEF SameStory
<1> QED  BY <1>4, <1>8, <1>9
\* The queue after a delivery holds nothing new.
LEMMA DeliverFrom ==
    ASSUME TypeOK, NEW u \in User, Deliver(u), NEW x \in User
    PROVE  \A i \in DOMAIN pending'[x] :
               \E j \in DOMAIN pending[x] : pending'[x][i] = pending[x][j]
<1>1. CASE x = u
  BY <1>1, DeliverQueue
<1>2. CASE x # u
  BY <1>2, DeliverQueue
<1> QED  BY <1>1, <1>2

\* Whoever has writes of an element queued, and all with one operation, reads
\* what that operation says.
LEMMA UniformView ==
    ASSUME TypeOK, NEW x \in User, NEW c \in Cell,
           NEW k \in DOMAIN pending[x], CellOf(pending[x][k]) = c,
           \A i \in DOMAIN pending[x] : CellOf(pending[x][i]) = c
               => pending[x][i].op = pending[x][k].op
    PROVE  Sees(x, c) <=> pending[x][k].op = "union"
<1> DEFINE S == WritesTo(pending[x], c[1], c[2], c[3])
<1>1. \A j \in S : j \in DOMAIN pending[x] /\ CellOf(pending[x][j]) = c
  BY MirrorTwice DEF WritesTo, CellOf
<1>2. k \in S
  BY DEF WritesTo, CellOf
<1>3. Len(pending[x]) \in Nat /\ S \in SUBSET (1 .. Len(pending[x]))
  BY <1>1, SeqElement DEF TypeOK
<1>4. PICK m \in S : \A j \in S : j <= m
  BY <1>2, <1>3, LastOf
<1>5. \A j \in S : pending[x][j].op = pending[x][k].op
  BY <1>1
<1>6. Sees(x, c) <=> \E i \in S : pending[x][i].op = "union" /\ \A j \in S : j <= i
  BY <1>2 DEF Sees, View, HoldsAfter
<1> HIDE DEF S
<1> QED  BY <1>4, <1>5, <1>6

LEMMA EndsDeliver ==
    ASSUME TypeOK, EndsInv, NEW u \in User, Deliver(u)
    PROVE  EndsInv'
<1> DEFINE w == Head(pending[u])
<1> SUFFICES ASSUME NEW c \in MirroredCell, c \notin raced PROVE OneOp(c)' /\ SameStory(c)'
  <2>1. raced' = raced
    BY DEF Deliver, historyVars
  <2> QED  BY <2>1 DEF EndsInv
<1>1. c \in Cell /\ Mirror(c) \in Cell
  BY MirrorTwice DEF MirroredCell
<1>2. OneOp(c) /\ SameStory(c)
  BY DEF EndsInv
<1>3. OneOp(c)'
  BY <1>2, DeliverFrom DEF OneOp
<1>4. \A x \in User : Touches(x, c)' => Touches(x, c)
  BY DeliverFrom DEF Touches
<1>5. \A a \in Pair(c) : Sees(u, a)' <=> Sees(u, a)
  BY <1>1, MirrorTwice, DeliverView DEF Sees, Pair
<1>6. /\ 1 \in DOMAIN pending[u] /\ pending[u][1] = w
      /\ \A x \in User \ {u} : pending'[x] = pending[x]
  BY DeliverQueue
<1>7. \A i \in DOMAIN pending[u] : i # 1 =>
         \E j \in DOMAIN pending'[u] : pending'[u][j] = pending[u][i]
  <2> TAKE i \in DOMAIN pending[u]
  <2> HAVE i # 1
  <2>1. i - 1 \in DOMAIN pending'[u] /\ pending'[u][i - 1] = pending[u][i]
    BY DeliverQueue
  <2> QED  BY <2>1
<1>8. /\ Sees(u, c)' <=> Sees(u, c)
      /\ Sees(u, Mirror(c))' <=> Sees(u, Mirror(c))
  BY <1>5 DEF Pair
<1>9. CASE CellOf(w) \notin Pair(c)
  <2>1. ASSUME NEW x \in User \ {u}, NEW a \in Pair(c)
        PROVE  Sees(x, a)' <=> Sees(x, a)
    BY <1>1, <1>9, MirrorTwice, ForeignDeliverView DEF Sees, Pair
  <2>2. ASSUME NEW a \in Pair(c) PROVE In(a)' <=> In(a)
    <3>1. a \in Cell /\ CellOf(w) # a
      BY <1>1, <1>9 DEF Pair
    <3>2. users'[a[1]][a[2]] = IF a[1] = w.doc /\ a[2] = w.field
                               THEN Transform(w, users[a[1]][a[2]]) ELSE users[a[1]][a[2]]
      BY <3>1, MirrorTwice, DeliverWrites
    <3>3. a[1] = w.doc /\ a[2] = w.field => a[3] # w.id
      BY <3>1, MirrorTwice DEF CellOf
    <3> QED  BY <3>2, <3>3 DEF In, Transform
  <2>3. Settled(c)' => Settled(c)
    <3> SUFFICES ASSUME Settled(c)', NEW x \in User, NEW i \in DOMAIN pending[x]
                 PROVE  CellOf(pending[x][i]) \notin Pair(c)
      BY DEF Settled, Pair
    <3>1. CASE x # u
      BY <1>6, <3>1 DEF Settled, Pair
    <3>2. CASE x = u /\ i = 1
      BY <1>6, <1>9, <3>2
    <3>3. CASE x = u /\ i # 1
      BY <1>7, <3>3 DEF Settled, Pair
    <3> QED  BY <3>1, <3>2, <3>3
  <2>4. ASSUME NEW x \in User, Touches(x, c)'
        PROVE  Sees(x, c)' <=> Sees(x, Mirror(c))'
    <3>1. Sees(x, c) <=> Sees(x, Mirror(c))
      BY <1>2, <1>4, <2>4 DEF SameStory
    <3>2. /\ Sees(x, c)' <=> Sees(x, c)
          /\ Sees(x, Mirror(c))' <=> Sees(x, Mirror(c))
      BY <1>8, <2>1 DEF Pair
    <3> QED  BY <3>1, <3>2
  <2>5. Settled(c)' => (In(c)' <=> In(Mirror(c))')
    BY <1>2, <2>2, <2>3 DEF SameStory, Pair
  <2> QED  BY <1>3, <2>4, <2>5 DEF SameStory
<1>10. CASE CellOf(w) \in Pair(c)
  <2>1. Touches(u, c)
    BY <1>6, <1>10 DEF Touches
  <2>2. Sees(u, c)' <=> Sees(u, Mirror(c))'
    BY <1>2, <1>8, <2>1 DEF SameStory
  <2>3. ASSUME NEW x \in User \ {u}, Touches(x, c)'
        PROVE  Sees(x, c)' <=> Sees(x, Mirror(c))'
    <3>1. \A i \in DOMAIN pending[x] :
             CellOf(pending[x][i]) \in Pair(c) => pending[x][i].op = w.op
      BY <1>2, <1>6, <1>10 DEF OneOp
    <3>2. Sees(x, c) <=> Sees(x, Mirror(c))
      BY <1>2, <1>4, <2>3 DEF SameStory
    <3>3. ASSUME NEW a \in Pair(c), NEW k \in DOMAIN pending[x], CellOf(pending[x][k]) = a
          PROVE  (Sees(x, a) <=> w.op = "union") /\ (Sees(x, a)' <=> w.op = "union")
      <4>1. a \in Cell
        BY <1>1 DEF Pair
      <4>2. /\ pending[x][k].op = w.op
            /\ \A i \in DOMAIN pending[x] : CellOf(pending[x][i]) = a
                   => pending[x][i].op = pending[x][k].op
        BY <3>1, <3>3
      <4>3. Sees(x, a) <=> w.op = "union"
        BY <3>3, <4>1, <4>2, UniformView
      <4>4. k \in WritesTo(pending[x], a[1], a[2], a[3])
        BY <3>3 DEF WritesTo, CellOf
      <4>5. Sees(x, a)' <=> Sees(x, a)
        BY <1>6, <4>4 DEF Sees, View, HoldsAfter
      <4> QED  BY <4>3, <4>5
    <3>4. ASSUME NEW a \in Pair(c),
                 \A k \in DOMAIN pending[x] : CellOf(pending[x][k]) # a
          PROVE  Sees(x, a)' <=> IF CellOf(w) = a THEN w.op = "union" ELSE Sees(x, a)
      <4>1. a \in Cell
        BY <1>1 DEF Pair
      <4>2. CASE CellOf(w) # a
        BY <4>1, <4>2, MirrorTwice, ForeignDeliverView DEF Sees
      <4>3. CASE CellOf(w) = a
        <5>1. a[1] = w.doc /\ a[2] = w.field /\ a[3] = w.id
          BY <4>3 DEF CellOf
        <5>2. users'[a[1]][a[2]] = Transform(w, users[a[1]][a[2]])
          BY <4>1, <5>1, MirrorTwice, DeliverWrites
        <5>3. In(a)' <=> w.op = "union"
          BY <5>1, <5>2 DEF In, Transform
        <5>4. WritesTo(pending'[x], a[1], a[2], a[3]) = {}
          <6> SUFFICES ASSUME NEW i \in WritesTo(pending'[x], a[1], a[2], a[3]) PROVE FALSE
            OBVIOUS
          <6>1. i \in DOMAIN pending[x] /\ CellOf(pending[x][i]) = <<a[1], a[2], a[3]>>
            BY <1>6 DEF WritesTo, CellOf
          <6> QED  BY <3>4, <4>1, <6>1, MirrorTwice
        <5>5. Sees(x, a)' <=> In(a)'
          BY <5>4 DEF Sees, View, HoldsAfter, In
        <5> QED  BY <4>3, <5>3, <5>5
      <4> QED  BY <4>2, <4>3
    <3>5. PICK i \in DOMAIN pending[x] : CellOf(pending[x][i]) \in Pair(c)
      BY <1>4, <2>3 DEF Touches
    <3>6. \A a \in Pair(c) : Sees(x, a) <=> w.op = "union"
      BY <3>2, <3>3, <3>5 DEF Pair
    <3>7. \A a \in Pair(c) : Sees(x, a)' <=> w.op = "union"
      BY <3>3, <3>4, <3>6
    <3> QED  BY <3>7 DEF Pair
  <2>4. ASSUME Settled(c)'
        PROVE  In(c)' <=> In(Mirror(c))'
    <3>1. \A a \in Pair(c) : WritesTo(pending'[u], a[1], a[2], a[3]) = {}
      <4> SUFFICES ASSUME NEW a \in Pair(c), NEW i \in WritesTo(pending'[u], a[1], a[2], a[3])
                   PROVE  FALSE
        OBVIOUS
      <4>1. i \in DOMAIN pending'[u] /\ CellOf(pending'[u][i]) = a
        BY <1>1, MirrorTwice DEF WritesTo, CellOf, Pair
      <4> QED  BY <2>4, <4>1 DEF Settled, Pair
    <3>2. \A a \in Pair(c) : Sees(u, a)' <=> In(a)'
      BY <3>1 DEF Sees, View, HoldsAfter, In
    <3> QED  BY <2>2, <3>2 DEF Pair
  <2> QED  BY <1>3, <2>2, <2>3, <2>4 DEF SameStory
<1> QED  BY <1>9, <1>10
LEMMA EndsRelaunch ==
    ASSUME TypeOK, EndsInv, NEW u \in User, Relaunch(u)
    PROVE  EndsInv'
<1> SUFFICES ASSUME NEW c \in MirroredCell, c \notin raced PROVE OneOp(c)' /\ SameStory(c)'
  <2>1. raced' = raced
    BY DEF Relaunch, historyVars
  <2> QED  BY <2>1 DEF EndsInv
<1>1. OneOp(c) /\ SameStory(c)
  BY DEF EndsInv
<1>2. \A x \in User : /\ DOMAIN pending'[x] = DOMAIN pending[x]
                       /\ \A i \in DOMAIN pending[x] :
                             /\ CellOf(pending'[x][i]) = CellOf(pending[x][i])
                             /\ pending'[x][i].op = pending[x][i].op
  BY RelaunchQueue DEF CellOf
<1>3. OneOp(c)'
  BY <1>1, <1>2 DEF OneOp
<1>4. /\ \A x \in User : Touches(x, c)' => Touches(x, c)
      /\ Settled(c)' => Settled(c)
  BY <1>2 DEF Touches, Settled
<1>5. ASSUME NEW x \in User, NEW a PROVE Sees(x, a)' <=> Sees(x, a)
  BY RelaunchView DEF Sees
<1>6. ASSUME NEW a PROVE In(a)' <=> In(a)
  BY DEF Relaunch, In
<1> QED  BY <1>1, <1>3, <1>4, <1>5, <1>6 DEF SameStory

LEMMA EndsStep == TypeOK /\ EndsInv /\ [Next]_vars => EndsInv'
<1> SUFFICES ASSUME TypeOK, EndsInv, [Next]_vars PROVE EndsInv'  OBVIOUS
<1>1. ASSUME NEW u \in User, NEW v \in User, sendFriendRequest(u, v) PROVE EndsInv'
  <2>1. Start(u, sendFriendRequestWrites(u, v))
    BY <1>1 DEF sendFriendRequest
  <2> QED  BY <2>1, OperationWrites, RowsWriteBothEnds, EndsStart
<1>2. ASSUME NEW u \in User, NEW v \in User, acceptFriendRequest(u, v) PROVE EndsInv'
  <2>1. Start(u, acceptFriendRequestWrites(u, v))
    BY <1>2 DEF acceptFriendRequest
  <2> QED  BY <2>1, OperationWrites, RowsWriteBothEnds, EndsStart
<1>3. ASSUME NEW u \in User, NEW v \in User, cancelFriendRequest(u, v) PROVE EndsInv'
  <2>1. Start(u, cancelFriendRequestWrites(u, v))
    BY <1>3 DEF cancelFriendRequest
  <2> QED  BY <2>1, OperationWrites, RowsWriteBothEnds, EndsStart
<1>4. ASSUME NEW u \in User, NEW v \in User, blockUser(u, v) PROVE EndsInv'
  <2>1. Start(u, blockUserWrites(u, v))
    BY <1>4 DEF blockUser
  <2> QED  BY <2>1, OperationWrites, RowsWriteBothEnds, EndsStart
<1>5. ASSUME NEW u \in User, NEW v \in User, unfriendUser(u, v) PROVE EndsInv'
  <2>1. Start(u, unfriendUserWrites(u, v))
    BY <1>5 DEF unfriendUser
  <2> QED  BY <2>1, OperationWrites, RowsWriteBothEnds, EndsStart
<1>6. ASSUME NEW u \in User, NEW v \in User, unblockedUser(u, v) PROVE EndsInv'
  <2>1. Start(u, unblockedUserWrites(u, v))
    BY <1>6 DEF unblockedUser
  <2> QED  BY <2>1, OperationWrites, RowsWriteBothEnds, EndsStart
<1>7. ASSUME UNCHANGED <<users, pending, raced>> PROVE EndsInv'
  BY <1>7 DEF EndsInv, OneOp, SameStory, Settled, Touches, In, Sees, View, HoldsAfter, WritesTo
<1>8. ASSUME NEW u \in User, Deliver(u) PROVE EndsInv'
  BY <1>8, EndsDeliver
<1>9. ASSUME NEW u \in User, Relaunch(u) PROVE EndsInv'
  BY <1>9, EndsRelaunch
<1>10. ASSUME NEW u \in User, fetchCurrentUser(u) PROVE EndsInv'
  BY <1>7, <1>10 DEF fetchCurrentUser, historyVars
<1>11. ASSUME NEW u \in User, NEW f \in ShownField, fetchList(u, f) PROVE EndsInv'
  BY <1>7, <1>11 DEF fetchList, historyVars
<1>12. ASSUME NEW u \in User, NEW l \in loads[u], NEW v \in l.ids, fetchListMember(u, l, v)
       PROVE  EndsInv'
  BY <1>7, <1>12 DEF fetchListMember, historyVars
<1>13. CASE UNCHANGED vars
  BY <1>7, <1>13 DEF vars
<1> QED
  BY <1>1, <1>2, <1>3, <1>4, <1>5, <1>6, <1>8, <1>9, <1>10, <1>11, <1>12, <1>13 DEF Next

\* The two documents of a pair of users tell the same story (friends on both
\* sides, a request sent here and received there, a block on both sides) as
\* soon as no write of it is in flight, unless both phones had contradicting
\* writes of it in flight at once: whatever the order of the deliveries, the
\* lists read before and the restarts in between.
THEOREM EndsMeet == Spec => []EndsAgree
<1>1. Spec => []EndsInv
  BY EndsInit, EndsStep, TypeCorrect, PTL DEF Spec
<1>2. EndsInv => EndsAgree
  BY DEF EndsInv, EndsAgree, SameStory
<1> QED  BY <1>1, <1>2, PTL
=============================================================================
