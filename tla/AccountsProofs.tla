--------------------------- MODULE AccountsProofs ---------------------------
(***************************************************************************)
(* Theorems about Accounts for any accounts, carpools and places and any   *)
(* number of taps.                                                         *)
(***************************************************************************)
EXTENDS Accounts, SequenceTheorems, TLAPS

-----------------------------------------------------------------------------
(* Values.                                                                  *)

\* Whose queues the phone keeps.
Owner == Account \cup {Nobody}

LEMMA SeqElement ==
    ASSUME NEW S, NEW s \in Seq(S)
    PROVE  /\ Len(s) \in Nat /\ DOMAIN s = 1 .. Len(s)
           /\ \A i \in DOMAIN s : s[i] \in S
BY LenProperties, ElementOfSeq

LEMMA LocationFacts ==
    /\ Coordinate \subseteq Nat
    /\ \A l \in Location : /\ l \in Seq(Coordinate) /\ Len(l) = 2 /\ l # << >>
                           /\ l[1] \in Coordinate /\ l[2] \in Coordinate
                           /\ l = << l[1], l[2] >>
<1>1. ASSUME NEW l \in Location
      PROVE  l \in Seq(Nat) /\ Len(l) = 2 /\ DOMAIN l = {1, 2} /\ ToSet(l) = {l[1], l[2]}
  <2>1. l \in Seq(Nat) /\ Len(l) = 2
    BY AccountsConstantsAssumption
  <2>2. DOMAIN l = {1, 2}
    BY <2>1, SeqElement
  <2> QED  BY <2>1, <2>2 DEF ToSet
<1>2. Coordinate \subseteq Nat
  BY <1>1, SeqElement DEF Coordinate
<1>3. ASSUME NEW l \in Location
      PROVE  /\ l[1] \in Coordinate /\ l[2] \in Coordinate
             /\ l = << l[1], l[2] >>
  <2>1. l[1] \in Coordinate /\ l[2] \in Coordinate
    BY <1>1 DEF Coordinate
  <2>2. l = << l[1], l[2] >>
    BY <1>1
  <2> QED  BY <2>1, <2>2
<1>4. ASSUME NEW l \in Location
      PROVE  l \in Seq(Coordinate) /\ l # << >>
  <2>1. << l[1], l[2] >> \in Seq(Coordinate)
    BY <1>3
  <2>2. Len(l) # 0
    BY <1>1
  <2> QED  BY <1>3, <2>1, <2>2
<1> QED  BY <1>1, <1>2, <1>3, <1>4

\* A stored location is neither of the marks for a missing one.
LEMMA StoredIsNoMark ==
    ASSUME NEW s \in Seq(Coordinate)
    PROVE  s # NoUser /\ s # NoField
BY LocationFacts, SeqMonotonic, AccountsConstantsAssumption

LEMMA WriteTyped ==
    ASSUME NEW b \in Account, NEW l \in Seq(Coordinate), NEW c \in Carpool,
           NEW op \in LocationOp \cup {"create", "profile", "copy", "remove"},
           NEW cop \in {"deleteCarpool", "leaveCarpool"}
    PROVE  /\ write(op, b, l) \in QueuedWrite
           /\ carpoolWrite(cop, b, c) \in QueuedWrite
BY DEF write, carpoolWrite, QueuedWrite

LEMMA UnionTyped ==
    ASSUME NEW field \in Seq(Coordinate) \cup {NoField}, NEW x \in Coordinate
    PROVE  Union(field, x) \in Seq(Coordinate)
<1>1. << x >> \in Seq(Coordinate)
  OBVIOUS
<1>2. CASE field = NoField
  BY <1>1, <1>2 DEF Union
<1>3. CASE field # NoField
  BY <1>3 DEF Union
<1> QED  BY <1>2, <1>3
-----------------------------------------------------------------------------
(* Queues.                                                                  *)

\* Writes that do the same.
Alike(w, v) == w.op = v.op /\ w.account = v.account /\ w.location = v.location
                   /\ w.carpool = v.carpool

LEMMA QueueFacts ==
    ASSUME TypeOK, NEW x \in Owner
    PROVE  /\ queue[x] \in Seq(QueuedWrite)
           /\ Len(queue[x]) \in Nat /\ DOMAIN queue[x] = 1 .. Len(queue[x])
           /\ \A i \in DOMAIN queue[x] : queue[x][i] \in QueuedWrite
           /\ DOMAIN queue = Owner
<1>1. queue[x] \in Seq(QueuedWrite) /\ DOMAIN queue = Owner
  BY DEF TypeOK, Owner
<1> QED  BY <1>1, SeqElement

LEMMA TailElement ==
    ASSUME NEW S, NEW s \in Seq(S), s # << >>
    PROVE  /\ Head(s) = s[1] /\ 1 \in DOMAIN s /\ Head(s) \in S
           /\ Tail(s) \in Seq(S) /\ Len(Tail(s)) = Len(s) - 1
           /\ \A i \in DOMAIN Tail(s) : i + 1 \in DOMAIN s /\ Tail(s)[i] = s[i + 1]
           /\ \A j \in DOMAIN s \ {1} : j - 1 \in DOMAIN Tail(s) /\ Tail(s)[j - 1] = s[j]
<1>1. /\ Len(s) \in Nat \ {0} /\ DOMAIN s = 1 .. Len(s)
      /\ \A i \in DOMAIN s : s[i] \in S
  BY SeqElement, EmptySeq
<1>2. /\ Head(s) = s[1] /\ Tail(s) \in Seq(S) /\ Len(Tail(s)) = Len(s) - 1
      /\ \A i \in 1 .. (Len(s) - 1) : Tail(s)[i] = s[i + 1]
  BY HeadTailProperties
<1>3. DOMAIN Tail(s) = 1 .. (Len(s) - 1)
  BY <1>2, SeqElement
<1> QED  BY <1>1, <1>2, <1>3

LEMMA ConcatElement ==
    ASSUME NEW S, NEW s \in Seq(S), NEW t \in Seq(S)
    PROVE  /\ s \o t \in Seq(S) /\ Len(s \o t) = Len(s) + Len(t)
           /\ \A i \in DOMAIN s : i \in DOMAIN (s \o t) /\ (s \o t)[i] = s[i]
           /\ \A j \in DOMAIN t : Len(s) + j \in DOMAIN (s \o t) /\ (s \o t)[Len(s) + j] = t[j]
           /\ \A i \in DOMAIN (s \o t) :
                 \/ i \in DOMAIN s
                 \/ i > Len(s) /\ i - Len(s) \in DOMAIN t /\ (s \o t)[i] = t[i - Len(s)]
<1>1. /\ Len(s) \in Nat /\ DOMAIN s = 1 .. Len(s) /\ Len(t) \in Nat /\ DOMAIN t = 1 .. Len(t)
  BY LenProperties
<1>2. /\ s \o t \in Seq(S) /\ Len(s \o t) = Len(s) + Len(t)
      /\ \A i \in 1 .. Len(s) + Len(t) : (s \o t)[i] = IF i <= Len(s) THEN s[i] ELSE t[i - Len(s)]
  BY ConcatProperties
<1>3. DOMAIN (s \o t) = 1 .. Len(s) + Len(t)
  BY <1>2, LenProperties
<1>4. \A i \in DOMAIN s : i \in 1 .. Len(s) + Len(t) /\ (s \o t)[i] = s[i]
  BY <1>1, <1>2
<1>5. \A j \in DOMAIN t : Len(s) + j \in 1 .. Len(s) + Len(t) /\ (s \o t)[Len(s) + j] = t[j]
  BY <1>1, <1>2
<1>6. \A i \in 1 .. Len(s) + Len(t) :
         \/ i \in DOMAIN s
         \/ i > Len(s) /\ i - Len(s) \in DOMAIN t /\ (s \o t)[i] = t[i - Len(s)]
  BY <1>1, <1>2
<1> QED  BY <1>2, <1>3, <1>4, <1>5, <1>6

\* Some writes are queued by y.
LEMMA Enqueued ==
    ASSUME TypeOK, NEW y \in Owner, NEW ws \in Seq(QueuedWrite),
           queue' = [queue EXCEPT ![y] = @ \o ws]
    PROVE  /\ queue' \in [Owner -> Seq(QueuedWrite)]
           /\ \A x \in Owner : \A i \in DOMAIN queue'[x] :
                 \/ i \in DOMAIN queue[x] /\ queue'[x][i] = queue[x][i]
                 \/ /\ x = y /\ i > Len(queue[x])
                    /\ \E k \in DOMAIN ws : queue'[x][i] = ws[k]
<1>1. queue \in [Owner -> Seq(QueuedWrite)] /\ queue[y] \in Seq(QueuedWrite)
  BY DEF TypeOK, Owner
<1>2. queue'[y] = queue[y] \o ws /\ \A x \in Owner \ {y} : queue'[x] = queue[x]
  BY <1>1
<1>3. queue' \in [Owner -> Seq(QueuedWrite)]
  <2>1. queue[y] \o ws \in Seq(QueuedWrite)
    BY <1>1, ConcatElement
  <2> QED  BY <1>1, <2>1
<1>4. \A i \in DOMAIN queue'[y] :
         \/ i \in DOMAIN queue[y] /\ queue'[y][i] = queue[y][i]
         \/ i > Len(queue[y]) /\ \E k \in DOMAIN ws : queue'[y][i] = ws[k]
  <2> DEFINE s == queue[y]
  <2>1. /\ \A i \in DOMAIN s : i \in DOMAIN (s \o ws) /\ (s \o ws)[i] = s[i]
        /\ \A i \in DOMAIN (s \o ws) :
              \/ i \in DOMAIN s
              \/ /\ i > Len(s) /\ i - Len(s) \in DOMAIN ws
                 /\ (s \o ws)[i] = ws[i - Len(s)]
    BY <1>1, ConcatElement
  <2>2. queue'[y] = s \o ws
    BY <1>2
  <2> QED  BY <2>1, <2>2
<1>5. ASSUME NEW x \in Owner, NEW i \in DOMAIN queue'[x]
      PROVE  \/ i \in DOMAIN queue[x] /\ queue'[x][i] = queue[x][i]
             \/ /\ x = y /\ i > Len(queue[x])
                /\ \E k \in DOMAIN ws : queue'[x][i] = ws[k]
  BY <1>2, <1>4
<1> QED  BY <1>3, <1>5

LEMMA EnqueuedAre ==
    ASSUME TypeOK, NEW y \in Owner, NEW ws \in Seq(QueuedWrite),
           queue' = [queue EXCEPT ![y] = @ \o ws]
    PROVE  /\ \A x \in Owner : \A i \in DOMAIN queue[x] :
                 i \in DOMAIN queue'[x] /\ queue'[x][i] = queue[x][i]
           /\ \A k \in DOMAIN ws : \E i \in DOMAIN queue'[y] : queue'[y][i] = ws[k]
<1>1. queue \in [Owner -> Seq(QueuedWrite)] /\ queue[y] \in Seq(QueuedWrite)
  BY DEF TypeOK, Owner
<1>2. queue'[y] = queue[y] \o ws /\ \A x \in Owner \ {y} : queue'[x] = queue[x]
  BY <1>1
<1>3. /\ \A i \in DOMAIN queue[y] : i \in DOMAIN queue'[y] /\ queue'[y][i] = queue[y][i]
      /\ \A j \in DOMAIN ws : /\ Len(queue[y]) + j \in DOMAIN queue'[y]
                              /\ queue'[y][Len(queue[y]) + j] = ws[j]
  BY <1>1, <1>2, ConcatElement
<1> QED  BY <1>2, <1>3

\* The oldest write of y is gone, and what it leads to is queued.
LEMMA Answered ==
    ASSUME TypeOK, NEW y \in Owner, queue[y] # << >>, NEW ws \in Seq(QueuedWrite),
           queue' = [queue EXCEPT ![y] = Tail(queue[y]) \o ws]
    PROVE  /\ queue' \in [Owner -> Seq(QueuedWrite)]
           /\ \A x \in Owner : \A i \in DOMAIN queue'[x] :
                 \/ x # y /\ i \in DOMAIN queue[x] /\ queue'[x][i] = queue[x][i]
                 \/ x = y /\ i + 1 \in DOMAIN queue[x] /\ queue'[x][i] = queue[x][i + 1]
                 \/ x = y /\ \E k \in DOMAIN ws : queue'[x][i] = ws[k]
           /\ \A x \in Owner \ {y} : \A i \in DOMAIN queue[x] :
                 i \in DOMAIN queue'[x] /\ queue'[x][i] = queue[x][i]
           /\ \A i \in DOMAIN queue[y] \ {1} :
                 i - 1 \in DOMAIN queue'[y] /\ queue'[y][i - 1] = queue[y][i]
<1> DEFINE rest == Tail(queue[y])
<1>1. queue \in [Owner -> Seq(QueuedWrite)] /\ queue[y] \in Seq(QueuedWrite)
  BY DEF TypeOK, Owner
<1>2. queue'[y] = rest \o ws /\ \A x \in Owner \ {y} : queue'[x] = queue[x]
  BY <1>1
<1>3. /\ rest \in Seq(QueuedWrite)
      /\ \A i \in DOMAIN rest : i + 1 \in DOMAIN queue[y] /\ rest[i] = queue[y][i + 1]
      /\ \A j \in DOMAIN queue[y] \ {1} : j - 1 \in DOMAIN rest /\ rest[j - 1] = queue[y][j]
  BY <1>1, TailElement
<1> HIDE DEF rest
<1>4. queue' \in [Owner -> Seq(QueuedWrite)]
  <2>1. rest \o ws \in Seq(QueuedWrite)
    BY <1>3, ConcatElement
  <2> QED  BY <1>1, <2>1 DEF rest
<1>5. /\ \A i \in DOMAIN rest : i \in DOMAIN queue'[y] /\ queue'[y][i] = rest[i]
      /\ \A i \in DOMAIN queue'[y] :
            \/ i \in DOMAIN rest
            \/ i - Len(rest) \in DOMAIN ws /\ queue'[y][i] = ws[i - Len(rest)]
  <2>1. /\ \A i \in DOMAIN rest : i \in DOMAIN (rest \o ws) /\ (rest \o ws)[i] = rest[i]
        /\ \A i \in DOMAIN (rest \o ws) :
              \/ i \in DOMAIN rest
              \/ i - Len(rest) \in DOMAIN ws /\ (rest \o ws)[i] = ws[i - Len(rest)]
    BY <1>3, ConcatElement
  <2>2. queue'[y] = rest \o ws
    BY <1>2
  <2> QED  BY <2>1, <2>2
<1>6. \A i \in DOMAIN queue'[y] :
         \/ i + 1 \in DOMAIN queue[y] /\ queue'[y][i] = queue[y][i + 1]
         \/ \E k \in DOMAIN ws : queue'[y][i] = ws[k]
  BY <1>3, <1>5, Zenon
<1>7. \A i \in DOMAIN queue[y] \ {1} :
         i - 1 \in DOMAIN queue'[y] /\ queue'[y][i - 1] = queue[y][i]
  BY <1>3, <1>5, Zenon
<1>8. ASSUME NEW x \in Owner, NEW i \in DOMAIN queue'[x]
      PROVE  \/ x # y /\ i \in DOMAIN queue[x] /\ queue'[x][i] = queue[x][i]
             \/ x = y /\ i + 1 \in DOMAIN queue[x] /\ queue'[x][i] = queue[x][i + 1]
             \/ x = y /\ \E k \in DOMAIN ws : queue'[x][i] = ws[k]
  BY <1>2, <1>6
<1>9. ASSUME NEW x \in Owner \ {y}, NEW i \in DOMAIN queue[x]
      PROVE  i \in DOMAIN queue'[x] /\ queue'[x][i] = queue[x][i]
  BY <1>2
<1> QED  BY <1>4, <1>7, <1>8, <1>9

LEMMA ForgottenForm ==
    ASSUME NEW ws \in Seq(QueuedWrite)
    PROVE  /\ Forgotten(ws) \in Seq(QueuedWrite)
           /\ DOMAIN Forgotten(ws) = DOMAIN ws
           /\ \A i \in DOMAIN ws : Alike(Forgotten(ws)[i], ws[i])
<1>1. Len(ws) \in Nat /\ DOMAIN ws = 1 .. Len(ws) /\ \A i \in DOMAIN ws : ws[i] \in QueuedWrite
  BY SeqElement
<1>2. \A i \in DOMAIN ws : /\ [ws[i] EXCEPT !.completes = FALSE] \in QueuedWrite
                           /\ Alike([ws[i] EXCEPT !.completes = FALSE], ws[i])
  BY <1>1 DEF QueuedWrite, Alike
<1>3. Forgotten(ws) \in [1 .. Len(ws) -> QueuedWrite]
  BY <1>1, <1>2 DEF Forgotten
<1>4. Forgotten(ws) \in Seq(QueuedWrite)
  BY <1>1, <1>3, SeqDef
<1> QED  BY <1>1, <1>2, <1>4 DEF Forgotten
-----------------------------------------------------------------------------
(* A delivery.                                                              *)

\* The completion of w runs ...
Fires(w) == w.completes /\ ~Refused(w)

\* ... and stops the app, for want of a location.
Stops(w) == Fires(w) /\ w.op \in {"clear", "addFirst"} /\ lastCurrentLocation = << >>

\* What it queues.
Follow(w) ==
    IF ~Fires(w) \/ Stops(w) THEN << >>
    ELSE CASE w.op = "clear" -> << write("addFirst", w.account, << lastCurrentLocation[1] >>) >>
           [] w.op = "addFirst" -> << write("addSecond", w.account, << lastCurrentLocation[2] >>) >>
           [] w.op = "copy" -> << write("remove", w.account, << >>) >>
           [] OTHER -> << >>

LEMMA FollowForm ==
    ASSUME TypeOK, NEW w \in QueuedWrite
    PROVE  /\ Follow(w) \in Seq(QueuedWrite)
           /\ \A k \in DOMAIN Follow(w) :
                 LET v == Follow(w)[k]
                 IN  /\ v.account = w.account /\ v.completes /\ v.carpool = NoCarpool
                     /\ Fires(w) /\ ~Stops(w)
                     /\ \/ /\ w.op = "clear" /\ v.op = "addFirst"
                           /\ lastCurrentLocation \in Location
                           /\ v.location = << lastCurrentLocation[1] >>
                        \/ /\ w.op = "addFirst" /\ v.op = "addSecond"
                           /\ lastCurrentLocation \in Location
                           /\ v.location = << lastCurrentLocation[2] >>
                        \/ w.op = "copy" /\ v.op = "remove"
<1>0. w.account \in Account
  BY DEF QueuedWrite
<1>1. CASE Follow(w) = << >>
  BY <1>1
<1>2. CASE Fires(w) /\ ~Stops(w) /\ w.op \in {"clear", "addFirst"}
  <2>1. lastCurrentLocation \in Location
    BY <1>2 DEF TypeOK, Stops
  <2>2. /\ << lastCurrentLocation[1] >> \in Seq(Coordinate)
        /\ << lastCurrentLocation[2] >> \in Seq(Coordinate)
    <3>1. lastCurrentLocation[1] \in Coordinate /\ lastCurrentLocation[2] \in Coordinate
      BY <2>1, LocationFacts
    <3> QED  BY <3>1
  <2> DEFINE v == IF w.op = "clear" THEN write("addFirst", w.account, << lastCurrentLocation[1] >>)
                  ELSE write("addSecond", w.account, << lastCurrentLocation[2] >>)
  <2>3. v \in QueuedWrite
    BY <1>0, <2>2 DEF write, QueuedWrite, LocationOp
  <2>4. Follow(w) = << v >>
    BY <1>2 DEF Follow
  <2>5. /\ v.account = w.account /\ v.completes /\ v.carpool = NoCarpool
        /\ \/ /\ w.op = "clear" /\ v.op = "addFirst"
              /\ v.location = << lastCurrentLocation[1] >>
           \/ /\ w.op = "addFirst" /\ v.op = "addSecond"
              /\ v.location = << lastCurrentLocation[2] >>
    BY <1>2 DEF write
  <2> HIDE DEF v
  <2> QED  BY <1>2, <2>1, <2>3, <2>4, <2>5
<1>3. CASE Fires(w) /\ ~Stops(w) /\ w.op = "copy"
  <2> DEFINE v == write("remove", w.account, << >>)
  <2>1. Follow(w) = << v >>
    BY <1>3 DEF Follow
  <2>2. << >> \in Seq(Coordinate)
    OBVIOUS
  <2>3. v \in QueuedWrite
    BY <1>0, <2>2 DEF write, QueuedWrite, LocationOp
  <2>4. v.account = w.account /\ v.completes /\ v.carpool = NoCarpool /\ v.op = "remove"
    BY DEF write
  <2> HIDE DEF v
  <2> QED  BY <1>3, <2>1, <2>3, <2>4
<1> QED  BY <1>1, <1>2, <1>3 DEF Follow

\* What a delivery does, by cases of its completion.
LEMMA DeliverForm ==
    ASSUME TypeOK, Deliver
    PROVE  LET w == Head(queue[authUser])
           IN  /\ queue[authUser] # << >>
               /\ queue' = IF Stops(w)
                           THEN [x \in Owner |-> Forgotten(IF x = authUser
                                                           THEN Tail(queue[authUser])
                                                           ELSE queue[x])]
                           ELSE [queue EXCEPT ![authUser] = Tail(queue[authUser]) \o Follow(w)]
               /\ IF Stops(w) THEN Restarts
                  ELSE UNCHANGED <<lastCurrentLocation, meant, killed>>
               /\ ~Stops(w) => authUser' = IF Fires(w) /\ w.op = "remove" THEN Nobody ELSE authUser
               /\ ~Stops(w) => deleting' = IF Fires(w) /\ w.op = "copy"
                                           THEN deleting \cup ({authUser} \ {Nobody}) ELSE deleting
               /\ ~Stops(w) => IF Fires(w) /\ w.op = "copy" THEN autoLogin(authUser)
                               ELSE reads' = reads
               /\ ~Stops(w) /\ Fires(w) /\ w.op = "create"
                     => currentUser' = w.account /\ screen' = "tabs"
               /\ ~Stops(w) /\ ~(Fires(w) /\ w.op = "create") => currentUser' = currentUser
               /\ ~Stops(w) /\ ~(Fires(w) /\ w.op \in {"create", "copy"}) => screen' = screen
<1> DEFINE w == Head(queue[authUser])
           rest == Tail(queue[authUser])
<1>0. authUser \in Owner
  BY DEF TypeOK, Owner
<1>1. queue[authUser] # << >>
  BY DEF Deliver
<1>2. rest \in Seq(QueuedWrite) /\ w \in QueuedWrite
  BY <1>0, <1>1, QueueFacts, TailElement
<1>3. /\ rest \o << >> = rest
      /\ \A v \in QueuedWrite : Append(rest, v) = rest \o << v >>
  BY <1>2, ConcatEmptySeq, AppendIsConcat
<1>4. DOMAIN queue = Owner
  BY <1>0, QueueFacts
<1>5. IF Fires(w) THEN Completion(w, rest) ELSE Settled(rest)
  BY DEF Deliver, Fires
<1>6. Follow(w) \in Seq(QueuedWrite)
  BY <1>2, FollowForm
<1> HIDE DEF w, rest
<1>7. CASE Settled(rest) /\ (~Fires(w) \/ w.op \in {"profile", "addSecond"})
  <2>1. Follow(w) = << >> /\ ~Stops(w)
    BY <1>7 DEF Follow, Stops
  <2> QED  BY <1>1, <1>3, <1>7, <2>1 DEF Settled, sessionVars, w, rest
<1>8. CASE Fires(w) /\ w.op = "create" /\ SignedUp(w, rest)
  <2>1. Follow(w) = << >> /\ ~Stops(w)
    BY <1>8 DEF Follow, Stops
  <2> QED  BY <1>1, <1>3, <1>8, <2>1 DEF SignedUp, w, rest
<1>9. CASE Fires(w) /\ w.op \in {"clear", "addFirst"} /\ NextCoordinate(w, rest)
  <2>1. CASE lastCurrentLocation = << >>
    <3>1. Stops(w)
      BY <1>9, <2>1 DEF Stops
    <3>2. Restarts /\ queue' = [x \in Owner |-> Forgotten(IF x = authUser THEN rest ELSE queue[x])]
      BY <1>4, <1>9, <2>1 DEF NextCoordinate
    <3> QED  BY <1>1, <3>1, <3>2 DEF w, rest
  <2>2. CASE lastCurrentLocation # << >>
    <3> DEFINE v == IF w.op = "clear"
                    THEN write("addFirst", w.account, << lastCurrentLocation[1] >>)
                    ELSE write("addSecond", w.account, << lastCurrentLocation[2] >>)
    <3>1. ~Stops(w) /\ Follow(w) = << v >>
      BY <1>9, <2>2 DEF Stops, Follow
    <3>2. /\ queue' = [queue EXCEPT ![authUser] = Append(rest, v)]
          /\ UNCHANGED <<sessionVars, lastCurrentLocation, reads, deleting, meant, killed>>
      BY <1>9, <2>2 DEF NextCoordinate
    <3>3. Append(rest, v) = rest \o Follow(w)
      <4>1. << v >> \in Seq(QueuedWrite)
        BY <1>6, <3>1
      <4>2. v \in QueuedWrite
        BY <4>1
      <4> QED  BY <1>3, <3>1, <4>2
    <3> HIDE DEF v
    <3> QED  BY <1>1, <1>9, <3>1, <3>2, <3>3 DEF sessionVars, w, rest
  <2> QED  BY <2>1, <2>2
<1>10. CASE Fires(w) /\ w.op = "copy" /\ DocumentCopied(w, rest)
  <2> DEFINE v == write("remove", w.account, << >>)
  <2>1. ~Stops(w) /\ Follow(w) = << v >>
    BY <1>10 DEF Stops, Follow
  <2>2. Append(rest, v) = rest \o Follow(w)
    <3>1. << v >> \in Seq(QueuedWrite)
      BY <1>6, <2>1
    <3>2. v \in QueuedWrite
      BY <3>1
    <3> QED  BY <1>3, <2>1, <3>2
  <2>3. /\ queue' = [queue EXCEPT ![authUser] = Append(rest, v)]
        /\ deleting' = deleting \cup ({authUser} \ {Nobody})
        /\ autoLogin(authUser)
        /\ UNCHANGED <<authUser, currentUser, lastCurrentLocation, meant, killed>>
    BY <1>10 DEF DocumentCopied
  <2> HIDE DEF v
  <2> QED  BY <1>1, <1>10, <2>1, <2>2, <2>3 DEF w, rest
<1>11. CASE Fires(w) /\ w.op = "remove" /\ DocumentRemoved(w, rest)
  <2>1. Follow(w) = << >> /\ ~Stops(w)
    BY <1>11 DEF Follow, Stops
  <2> QED  BY <1>1, <1>3, <1>11, <2>1 DEF DocumentRemoved, w, rest
<1> QED  BY <1>5, <1>7, <1>8, <1>9, <1>10, <1>11 DEF Completion
\* Where the writes queued after it come from, and where those before it are.
LEMMA DeliverEntries ==
    ASSUME TypeOK, Deliver
    PROVE  LET w == Head(queue[authUser])
           IN  /\ authUser \in Owner /\ w \in QueuedWrite
               /\ 1 \in DOMAIN queue[authUser] /\ w = queue[authUser][1]
               /\ queue' \in [Owner -> Seq(QueuedWrite)]
               /\ \A x \in Owner : \A i \in DOMAIN queue'[x] :
                     \/ /\ x # authUser /\ i \in DOMAIN queue[x]
                        /\ Alike(queue'[x][i], queue[x][i])
                        /\ ~Stops(w) => queue'[x][i] = queue[x][i]
                     \/ /\ x = authUser /\ i + 1 \in DOMAIN queue[x]
                        /\ Alike(queue'[x][i], queue[x][i + 1])
                        /\ ~Stops(w) => queue'[x][i] = queue[x][i + 1]
                     \/ x = authUser /\ \E k \in DOMAIN Follow(w) : queue'[x][i] = Follow(w)[k]
               /\ \A x \in Owner \ {authUser} : \A i \in DOMAIN queue[x] :
                     i \in DOMAIN queue'[x] /\ Alike(queue'[x][i], queue[x][i])
               /\ \A i \in DOMAIN queue[authUser] \ {1} :
                     /\ i - 1 \in DOMAIN queue'[authUser]
                     /\ Alike(queue'[authUser][i - 1], queue[authUser][i])
<1> DEFINE y == authUser
           w == Head(queue[y])
           rest == Tail(queue[y])
<1>1. y \in Owner
  BY DEF TypeOK, Owner
<1>2. queue[y] # << >>
  BY DEF Deliver
<1>3. queue[y] \in Seq(QueuedWrite)
  BY <1>1, QueueFacts
<1>4. /\ w = queue[y][1] /\ 1 \in DOMAIN queue[y] /\ w \in QueuedWrite
      /\ rest \in Seq(QueuedWrite)
      /\ \A i \in DOMAIN rest : i + 1 \in DOMAIN queue[y] /\ rest[i] = queue[y][i + 1]
      /\ \A j \in DOMAIN queue[y] \ {1} : j - 1 \in DOMAIN rest /\ rest[j - 1] = queue[y][j]
  BY <1>2, <1>3, TailElement
<1>5. queue' = IF Stops(w) THEN [x \in Owner |-> Forgotten(IF x = y THEN rest ELSE queue[x])]
               ELSE [queue EXCEPT ![y] = rest \o Follow(w)]
  BY DeliverForm
<1>6. Follow(w) \in Seq(QueuedWrite)
  BY <1>4, FollowForm
<1>7. \A v : Alike(v, v)
  BY DEF Alike
<1>8. CASE Stops(w)
  <2> DEFINE old(x) == IF x = y THEN rest ELSE queue[x]
  <2>1. \A x \in Owner : queue'[x] = Forgotten(old(x)) /\ old(x) \in Seq(QueuedWrite)
    BY <1>4, <1>5, <1>8, QueueFacts
  <2>2. \A x \in Owner : /\ queue'[x] \in Seq(QueuedWrite)
                         /\ DOMAIN queue'[x] = DOMAIN old(x)
                         /\ \A i \in DOMAIN old(x) : Alike(queue'[x][i], old(x)[i])
    BY <2>1, ForgottenForm
  <2>3. queue' \in [Owner -> Seq(QueuedWrite)]
    BY <1>5, <1>8, <2>2
  <2>4. /\ DOMAIN queue'[y] = DOMAIN rest
        /\ \A i \in DOMAIN rest : Alike(queue'[y][i], rest[i])
        /\ \A x \in Owner \ {y} : /\ DOMAIN queue'[x] = DOMAIN queue[x]
                                  /\ \A i \in DOMAIN queue[x] : Alike(queue'[x][i], queue[x][i])
    BY <1>1, <2>2
  <2> HIDE DEF old, y, w, rest
  <2>5. ASSUME NEW x \in Owner, NEW i \in DOMAIN queue'[x]
        PROVE  \/ x # y /\ i \in DOMAIN queue[x] /\ Alike(queue'[x][i], queue[x][i])
               \/ x = y /\ i + 1 \in DOMAIN queue[x] /\ Alike(queue'[x][i], queue[x][i + 1])
    BY <1>4, <2>4
  <2>6. \A i \in DOMAIN queue[y] \ {1} :
           i - 1 \in DOMAIN queue'[y] /\ Alike(queue'[y][i - 1], queue[y][i])
    BY <1>4, <2>4
  <2> QED  BY <1>1, <1>4, <1>8, <2>3, <2>4, <2>5, <2>6 DEF y, w
<1>9. CASE ~Stops(w)
  <2>1. queue' = [queue EXCEPT ![y] = Tail(queue[y]) \o Follow(w)]
    BY <1>5, <1>9
  <2>2. /\ queue' \in [Owner -> Seq(QueuedWrite)]
        /\ \A x \in Owner : \A i \in DOMAIN queue'[x] :
              \/ x # y /\ i \in DOMAIN queue[x] /\ queue'[x][i] = queue[x][i]
              \/ x = y /\ i + 1 \in DOMAIN queue[x] /\ queue'[x][i] = queue[x][i + 1]
              \/ x = y /\ \E k \in DOMAIN Follow(w) : queue'[x][i] = Follow(w)[k]
        /\ \A x \in Owner \ {y} : \A i \in DOMAIN queue[x] :
              i \in DOMAIN queue'[x] /\ queue'[x][i] = queue[x][i]
        /\ \A i \in DOMAIN queue[y] \ {1} :
              i - 1 \in DOMAIN queue'[y] /\ queue'[y][i - 1] = queue[y][i]
    <3> HIDE DEF y, w
    <3> QED  BY <1>1, <1>2, <1>6, <2>1, Answered
  <2>3. ASSUME NEW x \in Owner, NEW i \in DOMAIN queue'[x]
        PROVE  \/ /\ x # y /\ i \in DOMAIN queue[x]
                  /\ Alike(queue'[x][i], queue[x][i]) /\ queue'[x][i] = queue[x][i]
               \/ /\ x = y /\ i + 1 \in DOMAIN queue[x]
                  /\ Alike(queue'[x][i], queue[x][i + 1]) /\ queue'[x][i] = queue[x][i + 1]
               \/ x = y /\ \E k \in DOMAIN Follow(w) : queue'[x][i] = Follow(w)[k]
    <3> HIDE DEF y, w
    <3> QED  BY <1>7, <2>2
  <2>4. /\ \A x \in Owner \ {y} : \A i \in DOMAIN queue[x] :
              i \in DOMAIN queue'[x] /\ Alike(queue'[x][i], queue[x][i])
        /\ \A i \in DOMAIN queue[y] \ {1} :
              i - 1 \in DOMAIN queue'[y] /\ Alike(queue'[y][i - 1], queue[y][i])
    <3> HIDE DEF y, w
    <3> QED  BY <1>7, <2>2
  <2> QED  BY <1>1, <1>4, <1>9, <2>2, <2>3, <2>4
<1> QED  BY <1>8, <1>9

\* A restart keeps what each queued write does.
LEMMA RelaunchEntries ==
    ASSUME TypeOK, Relaunch
    PROVE  /\ queue' \in [Owner -> Seq(QueuedWrite)]
           /\ \A x \in Owner : /\ DOMAIN queue'[x] = DOMAIN queue[x]
                               /\ \A i \in DOMAIN queue[x] : Alike(queue'[x][i], queue[x][i])
<1>1. DOMAIN queue = Owner /\ \A x \in Owner : queue[x] \in Seq(QueuedWrite)
  BY QueueFacts DEF TypeOK, Owner
<1>2. queue' = [x \in Owner |-> Forgotten(queue[x])]
  BY <1>1 DEF Relaunch
<1> QED  BY <1>1, <1>2, ForgottenForm

\* A denied write is gone.
LEMMA DenyEntries ==
    ASSUME TypeOK, Deny
    PROVE  /\ queue' \in [Owner -> Seq(QueuedWrite)]
           /\ 1 \in DOMAIN queue[Nobody] /\ Head(queue[Nobody]) = queue[Nobody][1]
           /\ queue[Nobody][1] \in QueuedWrite
           /\ \A x \in Owner : \A i \in DOMAIN queue'[x] :
                 \/ x # Nobody /\ i \in DOMAIN queue[x] /\ queue'[x][i] = queue[x][i]
                 \/ x = Nobody /\ i + 1 \in DOMAIN queue[x] /\ queue'[x][i] = queue[x][i + 1]
           /\ \A x \in Owner \ {Nobody} : \A i \in DOMAIN queue[x] :
                 i \in DOMAIN queue'[x] /\ queue'[x][i] = queue[x][i]
           /\ \A i \in DOMAIN queue[Nobody] \ {1} :
                 i - 1 \in DOMAIN queue'[Nobody] /\ queue'[Nobody][i - 1] = queue[Nobody][i]
<1>1. Nobody \in Owner /\ queue[Nobody] # << >>
  BY DEF Deny, Owner
<1>2. queue[Nobody] \in Seq(QueuedWrite)
  BY <1>1, QueueFacts
<1>3. /\ Head(queue[Nobody]) = queue[Nobody][1] /\ 1 \in DOMAIN queue[Nobody]
      /\ queue[Nobody][1] \in QueuedWrite /\ Tail(queue[Nobody]) \in Seq(QueuedWrite)
  BY <1>1, <1>2, TailElement
<1>4. /\ << >> \in Seq(QueuedWrite) /\ DOMAIN << >> = {}
      /\ Tail(queue[Nobody]) \o << >> = Tail(queue[Nobody])
  BY <1>3, ConcatEmptySeq
<1>5. queue' = [queue EXCEPT ![Nobody] = Tail(queue[Nobody]) \o << >>]
  BY <1>4 DEF Deny
<1>6. /\ queue' \in [Owner -> Seq(QueuedWrite)]
      /\ \A x \in Owner : \A i \in DOMAIN queue'[x] :
            \/ x # Nobody /\ i \in DOMAIN queue[x] /\ queue'[x][i] = queue[x][i]
            \/ x = Nobody /\ i + 1 \in DOMAIN queue[x] /\ queue'[x][i] = queue[x][i + 1]
            \/ x = Nobody /\ \E k \in DOMAIN << >> : queue'[x][i] = << >>[k]
      /\ \A x \in Owner \ {Nobody} : \A i \in DOMAIN queue[x] :
            i \in DOMAIN queue'[x] /\ queue'[x][i] = queue[x][i]
      /\ \A i \in DOMAIN queue[Nobody] \ {1} :
            i - 1 \in DOMAIN queue'[Nobody] /\ queue'[Nobody][i - 1] = queue[Nobody][i]
  BY <1>1, <1>4, <1>5, Answered
<1> QED  BY <1>3, <1>4, <1>6
-----------------------------------------------------------------------------
(* Type correctness.  An arrayUnion carries one coordinate; without that the *)
(* types of the documents are not kept.                                     *)

AddOp == {"addFirst", "addSecond"}

OneNumber ==
    \A x \in Owner : \A i \in DOMAIN queue[x] :
        queue[x][i].op \in AddOp => Len(queue[x][i].location) = 1

TypeInv == TypeOK /\ OneNumber

StoredLocation == Seq(Coordinate) \cup {NoUser, NoField}

LEMMA ApplyTyped ==
    ASSUME NEW doc \in StoredLocation, NEW w \in QueuedWrite,
           w.op \in AddOp => Len(w.location) = 1
    PROVE  ApplyToUser(doc, w) \in StoredLocation
<1>1. w.location \in Seq(Coordinate)
  BY DEF QueuedWrite
<1>2. CASE w.op \in AddOp /\ doc # NoUser
  <2>1. w.location[1] \in Coordinate
    BY <1>1, <1>2, SeqElement
  <2>2. doc \in Seq(Coordinate) \cup {NoField}
    BY <1>2 DEF StoredLocation
  <2>3. Union(doc, w.location[1]) \in Seq(Coordinate)
    BY <2>1, <2>2, UnionTyped
  <2>4. ApplyToUser(doc, w) = Union(doc, w.location[1])
    BY <1>2 DEF ApplyToUser, AddOp
  <2> QED  BY <2>3, <2>4 DEF StoredLocation
<1>3. CASE ~(w.op \in AddOp /\ doc # NoUser)
  BY <1>1, <1>3 DEF ApplyToUser, AddOp, StoredLocation
<1> QED  BY <1>2, <1>3

LEMMA ApplyToCarpoolTyped ==
    ASSUME NEW doc \in CarpoolObject \cup {NoCarpool}, NEW w
    PROVE  ApplyToCarpool(doc, w) \in CarpoolObject \cup {NoCarpool}
BY DEF ApplyToCarpool, WithoutPassenger, CarpoolObject

LEMMA EnqueuedTyped ==
    ASSUME TypeInv, NEW y \in Owner, NEW ws \in Seq(QueuedWrite),
           \A k \in DOMAIN ws : ws[k].op \notin AddOp,
           queue' = [queue EXCEPT ![y] = @ \o ws]
    PROVE  queue' \in [Owner -> Seq(QueuedWrite)] /\ OneNumber'
<1>1. queue' \in [Owner -> Seq(QueuedWrite)]
  BY Enqueued DEF TypeInv
<1>2. ASSUME NEW x \in Owner, NEW i \in DOMAIN queue'[x], queue'[x][i].op \in AddOp
      PROVE  Len(queue'[x][i].location) = 1
  <2>1. \/ i \in DOMAIN queue[x] /\ queue'[x][i] = queue[x][i]
        \/ \E k \in DOMAIN ws : queue'[x][i] = ws[k]
    <3>1. TypeOK
      BY DEF TypeInv
    <3>2. \A z \in Owner : \A j \in DOMAIN queue'[z] :
             \/ j \in DOMAIN queue[z] /\ queue'[z][j] = queue[z][j]
             \/ z = y /\ j > Len(queue[z]) /\ \E k \in DOMAIN ws : queue'[z][j] = ws[k]
      BY <3>1, Enqueued
    <3> QED  BY <3>2
  <2> QED  BY <1>2, <2>1 DEF TypeInv, OneNumber
<1> QED  BY <1>1, <1>2 DEF OneNumber

\* The operations of the user queue one write, or none.
LEMMA EnqueueOne ==
    ASSUME TypeInv, currentUser # Nobody,
           NEW op \in {"profile", "clear", "copy"}, Enqueue(<< write(op, currentUser, << >>) >>)
    PROVE  /\ write(op, currentUser, << >>) \in QueuedWrite
           /\ queue' \in [Owner -> Seq(QueuedWrite)] /\ OneNumber'
<1> DEFINE v == write(op, currentUser, << >>)
<1>1. authUser \in Owner /\ currentUser \in Account
  BY DEF TypeInv, TypeOK, Owner
<1>2. << >> \in Seq(Coordinate)
  OBVIOUS
<1>3. v \in QueuedWrite /\ v.op \notin AddOp
  BY <1>1, <1>2 DEF write, QueuedWrite, LocationOp, AddOp
<1>4. queue' = [queue EXCEPT ![authUser] = @ \o << v >>]
  BY DEF Enqueue
<1> HIDE DEF v
<1>5. << v >> \in Seq(QueuedWrite) /\ \A k \in DOMAIN << v >> : << v >>[k].op \notin AddOp
  BY <1>3
<1> QED  BY <1>1, <1>3, <1>4, <1>5, EnqueuedTyped DEF v

LEMMA LeavingForm ==
    ASSUME NEW b \in Account, NEW c \in Carpool, NEW doc
    PROVE  /\ leaving(b, c, doc) \in Seq(QueuedWrite)
           /\ \A k \in DOMAIN leaving(b, c, doc) :
                 LET v == leaving(b, c, doc)[k]
                 IN  /\ v.account = b /\ v.carpool = c
                     /\ v.op \in {"deleteCarpool", "leaveCarpool"}
<1>1. /\ << >> \in Seq(Coordinate)
      /\ << >> \in Seq(QueuedWrite)
  OBVIOUS
<1>2. \A op \in {"deleteCarpool", "leaveCarpool"} :
         LET v == carpoolWrite(op, b, c)
         IN  /\ v \in QueuedWrite /\ v.account = b /\ v.carpool = c /\ v.op = op
  BY <1>1 DEF carpoolWrite, QueuedWrite
<1>3. \A v \in QueuedWrite : << v >> \in Seq(QueuedWrite) /\ \A k \in DOMAIN << v >> : << v >>[k] = v
  OBVIOUS
<1>4. \/ leaving(b, c, doc) = << >>
      \/ \E op \in {"deleteCarpool", "leaveCarpool"} :
            leaving(b, c, doc) = << carpoolWrite(op, b, c) >>
  BY DEF leaving
<1>5. CASE leaving(b, c, doc) = << >>
  BY <1>1, <1>5
<1>6. ASSUME NEW op \in {"deleteCarpool", "leaveCarpool"},
             leaving(b, c, doc) = << carpoolWrite(op, b, c) >>
      PROVE  /\ leaving(b, c, doc) \in Seq(QueuedWrite)
             /\ \A k \in DOMAIN leaving(b, c, doc) :
                   LET v == leaving(b, c, doc)[k]
                   IN  /\ v.account = b /\ v.carpool = c
                       /\ v.op \in {"deleteCarpool", "leaveCarpool"}
  BY <1>2, <1>3, <1>6
<1> QED  BY <1>4, <1>5, <1>6

LEMMA TypeInit == Init => TypeInv
<1> SUFFICES ASSUME Init PROVE TypeInv  OBVIOUS
<1>1. queue \in [Account \cup {Nobody} -> Seq(QueuedWrite)]
  BY DEF Init
<1>2. OneNumber
  BY DEF Init, OneNumber, Owner
<1>3. /\ users \in [Account -> Seq(Coordinate) \cup {NoUser, NoField}]
      /\ carpools \in [Carpool -> CarpoolObject \cup {NoCarpool}]
      /\ groups \in [Account -> SUBSET Carpool]
      /\ meant \in [Account -> Location \cup {<< >>}]
  BY DEF Init
<1>4. /\ accounts \in SUBSET Account /\ deletedUsers \in SUBSET Account
      /\ authUser \in Account \cup {Nobody} /\ currentUser \in Account \cup {Nobody}
      /\ lastCurrentLocation \in Location \cup {<< >>}
      /\ screen \in {"login", "waiting", "tabs"}
      /\ reads \in SUBSET Read /\ deleting \in SUBSET Account /\ taps \in Nat
      /\ used \in SUBSET Carpool /\ killed \in SUBSET Account
      /\ collected \in SUBSET (Account \X Carpool)
  BY DEF Init
<1> QED  BY <1>1, <1>2, <1>3, <1>4 DEF TypeInv, TypeOK

LEMMA TypeDeliver ==
    ASSUME TypeInv, Deliver
    PROVE  TypeInv'
<1> DEFINE w == Head(queue[authUser])
<1>1. /\ authUser \in Owner /\ w \in QueuedWrite
      /\ 1 \in DOMAIN queue[authUser] /\ w = queue[authUser][1]
      /\ queue' \in [Owner -> Seq(QueuedWrite)]
  BY DeliverEntries DEF TypeInv
<1>2. OneNumber'
  <2> SUFFICES ASSUME NEW x \in Owner, NEW i \in DOMAIN queue'[x], queue'[x][i].op \in AddOp
               PROVE  Len(queue'[x][i].location) = 1
    BY DEF OneNumber
  <2>1. \/ \E j \in DOMAIN queue[x] : Alike(queue'[x][i], queue[x][j])
        \/ \E k \in DOMAIN Follow(w) : queue'[x][i] = Follow(w)[k]
    BY DeliverEntries DEF TypeInv
  <2>2. ASSUME NEW k \in DOMAIN Follow(w), Follow(w)[k].op \in AddOp
        PROVE  Len(Follow(w)[k].location) = 1
    <3>1. \/ Follow(w)[k].location = << lastCurrentLocation[1] >>
          \/ Follow(w)[k].location = << lastCurrentLocation[2] >>
          \/ Follow(w)[k].op = "remove"
      BY <1>1, FollowForm DEF TypeInv
    <3> QED  BY <2>2, <3>1 DEF AddOp
  <2> QED  BY <2>1, <2>2 DEF TypeInv, OneNumber, Alike
<1>3. w.op \in AddOp => Len(w.location) = 1
  BY <1>1 DEF TypeInv, OneNumber
<1>4. w.account \in Account /\ w.carpool \in Carpool \cup {NoCarpool}
  BY <1>1 DEF QueuedWrite
<1>5. users' \in [Account -> StoredLocation]
  <2>1. users \in [Account -> StoredLocation]
    BY DEF TypeInv, TypeOK, StoredLocation
  <2>2. ApplyToUser(users[w.account], w) \in StoredLocation
    BY <1>1, <1>3, <1>4, <2>1, ApplyTyped
  <2>3. users' = [users EXCEPT ![w.account] = ApplyToUser(users[w.account], w)]
    BY <1>4, <2>1 DEF Deliver
  <2> QED  BY <2>1, <2>2, <2>3
<1>6. carpools' \in [Carpool -> CarpoolObject \cup {NoCarpool}]
  <2>1. carpools \in [Carpool -> CarpoolObject \cup {NoCarpool}]
    BY DEF TypeInv, TypeOK
  <2>2. CASE w.carpool = NoCarpool
    BY <2>1, <2>2 DEF Deliver
  <2>3. CASE w.carpool # NoCarpool
    <3>1. ApplyToCarpool(carpools[w.carpool], w) \in CarpoolObject \cup {NoCarpool}
      BY <1>4, <2>1, <2>3, ApplyToCarpoolTyped
    <3>2. carpools' = [carpools EXCEPT ![w.carpool] = ApplyToCarpool(carpools[w.carpool], w)]
      BY <2>1, <2>3 DEF Deliver
    <3> QED  BY <2>1, <3>1, <3>2
  <2> QED  BY <2>2, <2>3
<1>7. deletedUsers' \in SUBSET Account
  BY <1>4 DEF Deliver, TypeInv, TypeOK
<1>8. UNCHANGED <<accounts, groups, taps, used, collected>>
  BY DEF Deliver
<1>9. CASE Stops(w)
  <2>1. Restarts
    BY <1>9, DeliverForm DEF TypeInv
  <2>2. /\ authUser' \in Account \cup {Nobody} /\ currentUser' \in Account \cup {Nobody}
        /\ lastCurrentLocation' \in Location \cup {<< >>}
        /\ screen' \in {"login", "waiting", "tabs"}
        /\ deleting' \in SUBSET Account
        /\ killed' \in SUBSET Account
    BY <2>1 DEF Restarts, TypeInv, TypeOK
  <2>3. meant' \in [Account -> Location \cup {<< >>}]
    BY <2>1 DEF Restarts, TypeInv, TypeOK
  <2>4. reads' \in SUBSET Read
    BY <2>1 DEF Restarts, TypeInv, TypeOK, read, Read
  <2> QED  BY <1>1, <1>2, <1>5, <1>6, <1>7, <1>8, <2>2, <2>3, <2>4
           DEF TypeInv, TypeOK, Owner, StoredLocation
<1>10. CASE ~Stops(w)
  <2>1. UNCHANGED <<lastCurrentLocation, meant, killed>>
    BY <1>10, DeliverForm DEF TypeInv
  <2>2. authUser' \in Account \cup {Nobody}
    BY <1>10, DeliverForm DEF TypeInv, TypeOK
  <2>3. deleting' \in SUBSET Account
    <3>1. deleting' \in {deleting, deleting \cup ({authUser} \ {Nobody})}
      BY <1>10, DeliverForm DEF TypeInv
    <3> QED  BY <3>1 DEF TypeInv, TypeOK
  <2>4. CASE Fires(w) /\ w.op = "copy"
    <3>1. autoLogin(authUser) /\ currentUser' = currentUser
      BY <1>10, <2>4, DeliverForm DEF TypeInv
    <3>2. screen' \in {"login", "waiting", "tabs"} /\ reads' \in SUBSET Read
      BY <3>1 DEF autoLogin, read, Read, TypeInv, TypeOK
    <3> QED  BY <1>1, <1>2, <1>5, <1>6, <1>7, <1>8, <2>1, <2>2, <2>3, <3>1, <3>2
             DEF TypeInv, TypeOK, Owner, StoredLocation
  <2>5. CASE Fires(w) /\ w.op = "create"
    <3>1. currentUser' = w.account /\ screen' = "tabs" /\ reads' = reads
      BY <1>10, <2>5, DeliverForm DEF TypeInv
    <3> QED  BY <1>1, <1>2, <1>4, <1>5, <1>6, <1>7, <1>8, <2>1, <2>2, <2>3, <3>1
             DEF TypeInv, TypeOK, Owner, StoredLocation
  <2>6. CASE ~(Fires(w) /\ w.op \in {"create", "copy"})
    <3>1. currentUser' = currentUser /\ screen' = screen /\ reads' = reads
      BY <1>10, <2>6, DeliverForm DEF TypeInv
    <3> QED  BY <1>1, <1>2, <1>5, <1>6, <1>7, <1>8, <2>1, <2>2, <2>3, <3>1
             DEF TypeInv, TypeOK, Owner, StoredLocation
  <2> QED  BY <2>4, <2>5, <2>6
<1> QED  BY <1>9, <1>10
LEMMA TypeSession ==
    ASSUME TypeInv
    PROVE  /\ \A l \in Location : locationReported(l) => TypeInv'
           /\ \A b \in Account : signupNewUser(b) => TypeInv'
           /\ \A b \in Account : loginWith(b) => TypeInv'
           /\ logout => TypeInv'
           /\ \A b \in Account : fetchCurrentUser(b) => TypeInv'
           /\ Relaunch => TypeInv'
<1>1. ASSUME NEW l \in Location, locationReported(l) PROVE TypeInv'
  <2>1. /\ lastCurrentLocation' = l /\ taps' = taps + 1
        /\ meant' = [b \in Account |-> IF Saving(b) THEN << >> ELSE meant[b]]
        /\ UNCHANGED <<accounts, users, deletedUsers, carpools, groups, authUser, currentUser,
                       screen, queue, reads, deleting, used, killed, collected>>
    BY <1>1 DEF locationReported, Tap, backendVars, sessionVars
  <2>2. meant' \in [Account -> Location \cup {<< >>}]
    BY <2>1 DEF TypeInv, TypeOK
  <2> QED  BY <2>1, <2>2 DEF TypeInv, TypeOK, OneNumber
<1>2. ASSUME NEW b \in Account, signupNewUser(b) PROVE TypeInv'
  <2> DEFINE v == write("create", b, lastCurrentLocation)
  <2>1. lastCurrentLocation \in Location
    BY <1>2 DEF signupNewUser, TypeInv, TypeOK
  <2>2. lastCurrentLocation \in Seq(Coordinate)
    BY <2>1, LocationFacts
  <2>3. v \in QueuedWrite /\ v.op \notin AddOp
    BY <2>2 DEF write, QueuedWrite, LocationOp, AddOp
  <2>4. b \in Owner /\ queue[b] \in Seq(QueuedWrite) /\ queue \in [Owner -> Seq(QueuedWrite)]
    BY DEF TypeInv, TypeOK, Owner
  <2>5. queue' = [queue EXCEPT ![b] = Append(queue[b], v)]
    BY <1>2, <2>4 DEF signupNewUser
  <2> HIDE DEF v
  <2>6. Append(queue[b], v) = queue[b] \o << v >>
    BY <2>3, <2>4, AppendIsConcat
  <2>7. << v >> \in Seq(QueuedWrite) /\ \A k \in DOMAIN << v >> : << v >>[k].op \notin AddOp
    BY <2>3
  <2>8. queue' \in [Owner -> Seq(QueuedWrite)] /\ OneNumber'
    BY <2>4, <2>5, <2>6, <2>7, EnqueuedTyped
  <2>9. /\ accounts' = accounts \cup {b} /\ authUser' = b /\ screen' = "waiting"
        /\ lastCurrentLocation' = << >> /\ taps' = taps + 1
        /\ meant' = [meant EXCEPT ![b] = lastCurrentLocation]
        /\ UNCHANGED <<users, deletedUsers, carpools, groups, currentUser, reads, deleting,
                       used, killed, collected>>
    BY <1>2 DEF signupNewUser, Tap
  <2>10. meant' \in [Account -> Location \cup {<< >>}]
    BY <2>1, <2>9 DEF TypeInv, TypeOK
  <2> QED  BY <2>8, <2>9, <2>10 DEF TypeInv, TypeOK, Owner
<1>3. ASSUME NEW b \in Account, loginWith(b) PROVE TypeInv'
  <2>1. read("user", b) \in Read
    BY DEF read, Read
  <2> QED  BY <1>3, <2>1 DEF loginWith, Tap, backendVars, historyVars, TypeInv, TypeOK, OneNumber
<1>4. ASSUME logout PROVE TypeInv'
  BY <1>4 DEF logout, Tap, backendVars, historyVars, TypeInv, TypeOK, OneNumber
<1>5. ASSUME NEW b \in Account, fetchCurrentUser(b) PROVE TypeInv'
  <2>1. /\ currentUser' \in Account \cup {Nobody}
        /\ screen' \in {"login", "waiting", "tabs"}
        /\ reads' \in SUBSET Read
    BY <1>5 DEF fetchCurrentUser, TypeInv, TypeOK
  <2> QED  BY <1>5, <2>1 DEF fetchCurrentUser, backendVars, historyVars, TypeInv, TypeOK, OneNumber
<1>6. ASSUME Relaunch PROVE TypeInv'
  <2>1. /\ taps' = taps + 1 /\ Restarts
        /\ UNCHANGED <<accounts, users, deletedUsers, carpools, groups, used, collected>>
    BY <1>6 DEF Relaunch, Tap, backendVars
  <2>2. /\ authUser' \in Account \cup {Nobody} /\ currentUser' \in Account \cup {Nobody}
        /\ lastCurrentLocation' \in Location \cup {<< >>}
        /\ screen' \in {"login", "waiting", "tabs"}
        /\ deleting' \in SUBSET Account
        /\ killed' \in SUBSET Account
    BY <2>1 DEF Restarts, TypeInv, TypeOK
  <2>3. meant' \in [Account -> Location \cup {<< >>}]
    BY <2>1 DEF Restarts, TypeInv, TypeOK
  <2>4. reads' \in SUBSET Read
    BY <2>1 DEF Restarts, TypeInv, TypeOK, read, Read
  <2>5. /\ queue' \in [Owner -> Seq(QueuedWrite)]
        /\ \A x \in Owner : /\ DOMAIN queue'[x] = DOMAIN queue[x]
                            /\ \A i \in DOMAIN queue[x] : Alike(queue'[x][i], queue[x][i])
    BY <1>6, RelaunchEntries DEF TypeInv
  <2>6. OneNumber'
    BY <2>5 DEF TypeInv, OneNumber, Alike
  <2> QED  BY <2>1, <2>2, <2>3, <2>4, <2>5, <2>6 DEF TypeInv, TypeOK, Owner
<1> QED  BY <1>1, <1>2, <1>3, <1>4, <1>5, <1>6

LEMMA TypeProfile ==
    ASSUME TypeInv
    PROVE  /\ updateUserProfile => TypeInv'
           /\ updateUserLocation => TypeInv'
           /\ deleteUser => TypeInv'
           /\ \A b \in deleting : LoginDeleted(b) => TypeInv'
           /\ \A b \in deleting : LoginNotDeleted(b) => TypeInv'
<1>1. ASSUME updateUserProfile PROVE TypeInv'
  <2>1. currentUser # Nobody /\ Enqueue(<< write("profile", currentUser, << >>) >>)
    BY <1>1 DEF updateUserProfile, AtWork
  <2>2. queue' \in [Owner -> Seq(QueuedWrite)] /\ OneNumber'
    BY <2>1, EnqueueOne
  <2> QED  BY <1>1, <2>2 DEF updateUserProfile, Tap, backendVars, sessionVars, historyVars,
                             TypeInv, TypeOK, Owner
<1>2. ASSUME updateUserLocation PROVE TypeInv'
  <2>1. currentUser # Nobody /\ Enqueue(<< write("clear", currentUser, << >>) >>)
    BY <1>2 DEF updateUserLocation, AtWork
  <2>2. queue' \in [Owner -> Seq(QueuedWrite)] /\ OneNumber'
    BY <2>1, EnqueueOne
  <2>3. meant' \in [Account -> Location \cup {<< >>}]
    BY <1>2 DEF updateUserLocation, TypeInv, TypeOK
  <2> QED  BY <1>2, <2>2, <2>3 DEF updateUserLocation, Tap, backendVars, sessionVars,
                                   TypeInv, TypeOK, Owner
<1>3. ASSUME deleteUser PROVE TypeInv'
  <2>1. currentUser # Nobody /\ Enqueue(<< write("copy", currentUser, << >>) >>)
    BY <1>3 DEF deleteUser, AtWork
  <2>2. queue' \in [Owner -> Seq(QueuedWrite)] /\ OneNumber'
    BY <2>1, EnqueueOne
  <2>3. reads' \in SUBSET Read
    BY <1>3, <2>1 DEF deleteUser, read, Read, TypeInv, TypeOK
  <2> QED  BY <1>3, <2>2, <2>3 DEF deleteUser, Tap, backendVars, sessionVars, historyVars,
                                   TypeInv, TypeOK, Owner
<1>4. ASSUME NEW b \in deleting, LoginDeleted(b) PROVE TypeInv'
  BY <1>4 DEF LoginDeleted, historyVars, TypeInv, TypeOK, OneNumber
<1>5. ASSUME NEW b \in deleting, LoginNotDeleted(b) PROVE TypeInv'
  BY <1>5 DEF LoginNotDeleted, backendVars, sessionVars, historyVars, TypeInv, TypeOK, OneNumber
<1> QED  BY <1>1, <1>2, <1>3, <1>4, <1>5

LEMMA TypeCarpools ==
    ASSUME TypeInv
    PROVE  /\ \A b \in Account : groupsRead(b) => TypeInv'
           /\ \A b \in Account, c \in Carpool : deleteDataOfDeletedAccount(b, c) => TypeInv'
           /\ Deny => TypeInv'
           /\ \A c \in Carpool, doc \in CarpoolObject : carpoolMade(c, doc) => TypeInv'
           /\ \A c \in Carpool : carpoolDeleted(c) => TypeInv'
<1>1. ASSUME NEW b \in Account, groupsRead(b) PROVE TypeInv'
  <2>1. groups[b] \subseteq Carpool
    BY DEF TypeInv, TypeOK
  <2>2. \A c \in groups[b] : [what |-> "carpool", account |-> b, carpool |-> c] \in Read
    BY <2>1 DEF Read
  <2>3. reads' \in SUBSET Read
    BY <1>1, <2>2 DEF groupsRead, TypeInv, TypeOK
  <2> QED  BY <1>1, <2>3 DEF groupsRead, backendVars, sessionVars, historyVars, TypeInv, TypeOK,
                             OneNumber
<1>2. ASSUME NEW b \in Account, NEW c \in Carpool, deleteDataOfDeletedAccount(b, c)
      PROVE  TypeInv'
  <2> DEFINE ws == leaving(b, c, carpools[c])
  <2>1. ws \in Seq(QueuedWrite) /\ \A k \in DOMAIN ws : ws[k].op \notin AddOp
    <3>1. ws \in Seq(QueuedWrite)
      BY LeavingForm
    <3>2. \A k \in DOMAIN ws : ws[k].op \in {"deleteCarpool", "leaveCarpool"}
      BY LeavingForm
    <3> QED  BY <3>1, <3>2 DEF AddOp
  <2>2. queue' = [queue EXCEPT ![authUser] = @ \o ws] /\ authUser \in Owner
    BY <1>2 DEF deleteDataOfDeletedAccount, Enqueue, TypeInv, TypeOK, Owner
  <2> HIDE DEF ws
  <2>3. queue' \in [Owner -> Seq(QueuedWrite)] /\ OneNumber'
    BY <2>1, <2>2, EnqueuedTyped
  <2>4. reads' \in SUBSET Read /\ collected' \in SUBSET (Account \X Carpool)
    BY <1>2 DEF deleteDataOfDeletedAccount, TypeInv, TypeOK
  <2> QED  BY <1>2, <2>3, <2>4 DEF deleteDataOfDeletedAccount, backendVars, sessionVars,
                                   TypeInv, TypeOK, Owner
<1>3. ASSUME Deny PROVE TypeInv'
  <2>1. /\ queue' \in [Owner -> Seq(QueuedWrite)]
        /\ queue[Nobody][1] \in QueuedWrite /\ Head(queue[Nobody]) = queue[Nobody][1]
        /\ \A x \in Owner : \A i \in DOMAIN queue'[x] :
              \E j \in DOMAIN queue[x] : queue'[x][i] = queue[x][j]
    <3>1. TypeOK
      BY DEF TypeInv
    <3>2. \A x \in Owner : \A i \in DOMAIN queue'[x] :
             \/ x # Nobody /\ i \in DOMAIN queue[x] /\ queue'[x][i] = queue[x][i]
             \/ x = Nobody /\ i + 1 \in DOMAIN queue[x] /\ queue'[x][i] = queue[x][i + 1]
      BY <1>3, <3>1, DenyEntries
    <3> QED  BY <1>3, <3>1, <3>2, DenyEntries
  <2>2. OneNumber'
    BY <2>1 DEF TypeInv, OneNumber
  <2>3. Head(queue[Nobody]).account \in Account
    BY <2>1 DEF QueuedWrite
  <2>4. meant' \in [Account -> Location \cup {<< >>}]
    BY <1>3, <2>3 DEF Deny, TypeInv, TypeOK
  <2> QED  BY <1>3, <2>1, <2>2, <2>4 DEF Deny, backendVars, sessionVars, TypeInv, TypeOK, Owner
<1>4. ASSUME NEW c \in Carpool, NEW doc \in CarpoolObject, carpoolMade(c, doc) PROVE TypeInv'
  <2>1. carpools' \in [Carpool -> CarpoolObject \cup {NoCarpool}]
    BY <1>4 DEF carpoolMade, TypeInv, TypeOK
  <2>2. groups' \in [Account -> SUBSET Carpool]
    BY <1>4 DEF carpoolMade, TypeInv, TypeOK
  <2> QED  BY <1>4, <2>1, <2>2 DEF carpoolMade, Tap, phoneVars, sessionVars, TypeInv, TypeOK,
                                   OneNumber
<1>5. ASSUME NEW c \in Carpool, carpoolDeleted(c) PROVE TypeInv'
  <2>1. carpools' \in [Carpool -> CarpoolObject \cup {NoCarpool}]
    BY <1>5 DEF carpoolDeleted, TypeInv, TypeOK
  <2>2. groups' \in [Account -> SUBSET Carpool]
    BY <1>5 DEF carpoolDeleted, TypeInv, TypeOK
  <2> QED  BY <1>5, <2>1, <2>2 DEF carpoolDeleted, Tap, phoneVars, sessionVars, historyVars,
                                   TypeInv, TypeOK, OneNumber
<1> QED  BY <1>1, <1>2, <1>3, <1>4, <1>5

LEMMA TypeStep == TypeInv /\ [Next]_vars => TypeInv'
<1> SUFFICES ASSUME TypeInv, [Next]_vars PROVE TypeInv'  OBVIOUS
<1>1. CASE UNCHANGED vars
  BY <1>1 DEF vars, TypeInv, TypeOK, OneNumber
<1> QED  BY <1>1, TypeDeliver, TypeSession, TypeProfile, TypeCarpools DEF Next

\* Every variable keeps its type, for any number of accounts, carpools and
\* taps: the field of a location is missing or a list of coordinates, whatever
\* completions, restarts and refusals come between the three writes of it.
THEOREM TypeCorrect == Spec => []TypeOK
<1>1. Spec => []TypeInv
  BY TypeInit, TypeStep, PTL DEF Spec
<1>2. TypeInv => TypeOK
  BY DEF TypeInv
<1> QED  BY <1>1, <1>2, PTL
-----------------------------------------------------------------------------
(* Steps and queues.                                                        *)

\* No queued write is lost ...
KeepsWrites ==
    \A x \in Owner : \A i \in DOMAIN queue[x] :
        \E j \in DOMAIN queue'[x] : Alike(queue'[x][j], queue[x][i])

\* ... and none is added.
AddsNone ==
    \A x \in Owner : \A j \in DOMAIN queue'[x] :
        \E i \in DOMAIN queue[x] : Alike(queue'[x][j], queue[x][i])

LEMMA SameQueue ==
    ASSUME queue' = queue
    PROVE  KeepsWrites /\ AddsNone
BY DEF KeepsWrites, AddsNone, Alike

\* One write is queued by y, behind the others.
Gained(y, v) ==
    /\ \A x \in Owner : \A i \in DOMAIN queue'[x] :
          \/ i \in DOMAIN queue[x] /\ queue'[x][i] = queue[x][i]
          \/ x = y /\ i > Len(queue[x]) /\ queue'[x][i] = v
    /\ \A x \in Owner : \A i \in DOMAIN queue[x] :
          i \in DOMAIN queue'[x] /\ queue'[x][i] = queue[x][i]
    /\ \E i \in DOMAIN queue'[y] : queue'[y][i] = v

LEMMA OneMore ==
    ASSUME TypeOK, NEW y \in Owner, NEW v \in QueuedWrite,
           queue' = [queue EXCEPT ![y] = @ \o << v >>]
    PROVE  KeepsWrites /\ Gained(y, v)
<1>1. << v >> \in Seq(QueuedWrite) /\ 1 \in DOMAIN << v >> /\ \A k \in DOMAIN << v >> : << v >>[k] = v
  OBVIOUS
<1>2. /\ \A x \in Owner : \A i \in DOMAIN queue'[x] :
            \/ i \in DOMAIN queue[x] /\ queue'[x][i] = queue[x][i]
            \/ x = y /\ i > Len(queue[x]) /\ \E k \in DOMAIN << v >> : queue'[x][i] = << v >>[k]
      /\ \A x \in Owner : \A i \in DOMAIN queue[x] :
            i \in DOMAIN queue'[x] /\ queue'[x][i] = queue[x][i]
      /\ \A k \in DOMAIN << v >> : \E i \in DOMAIN queue'[y] : queue'[y][i] = << v >>[k]
  <2>1. \A x \in Owner : \A i \in DOMAIN queue'[x] :
           \/ i \in DOMAIN queue[x] /\ queue'[x][i] = queue[x][i]
           \/ x = y /\ i > Len(queue[x]) /\ \E k \in DOMAIN << v >> : queue'[x][i] = << v >>[k]
    BY <1>1, Enqueued
  <2>2. \A x \in Owner : \A i \in DOMAIN queue[x] :
           i \in DOMAIN queue'[x] /\ queue'[x][i] = queue[x][i]
    BY <1>1, EnqueuedAre
  <2>3. \A k \in DOMAIN << v >> : \E i \in DOMAIN queue'[y] : queue'[y][i] = << v >>[k]
    BY <1>1, EnqueuedAre
  <2> QED  BY <2>1, <2>2, <2>3
<1>3. KeepsWrites
  BY <1>2 DEF KeepsWrites, Alike
<1> QED  BY <1>1, <1>2, <1>3 DEF Gained

\* What the operations of the user queue.
LEMMA UserWrites ==
    ASSUME TypeOK
    PROVE  \A op \in {"profile", "clear", "copy"} :
              currentUser # Nobody /\ Enqueue(<< write(op, currentUser, << >>) >>)
              => /\ authUser \in Owner /\ currentUser \in Account
                 /\ write(op, currentUser, << >>) \in QueuedWrite
                 /\ queue' = [queue EXCEPT ![authUser] = @ \o << write(op, currentUser, << >>) >>]
<1>1. << >> \in Seq(Coordinate)
  OBVIOUS
<1> QED  BY <1>1 DEF TypeOK, Owner, Enqueue, write, QueuedWrite, LocationOp

LEMMA SignupWrites ==
    ASSUME TypeOK, NEW b \in Account, signupNewUser(b)
    PROVE  /\ b \in Owner /\ lastCurrentLocation \in Location
           /\ write("create", b, lastCurrentLocation) \in QueuedWrite
           /\ queue' = [queue EXCEPT ![b] = @ \o << write("create", b, lastCurrentLocation) >>]
<1> DEFINE v == write("create", b, lastCurrentLocation)
<1>1. lastCurrentLocation \in Location
  BY DEF signupNewUser, TypeOK
<1>2. lastCurrentLocation \in Seq(Coordinate)
  BY <1>1, LocationFacts
<1>3. v \in QueuedWrite
  BY <1>2 DEF write, QueuedWrite
<1>4. b \in Owner /\ queue[b] \in Seq(QueuedWrite) /\ queue \in [Owner -> Seq(QueuedWrite)]
  BY DEF TypeOK, Owner
<1> HIDE DEF v
<1>5. Append(queue[b], v) = queue[b] \o << v >>
  BY <1>3, <1>4, AppendIsConcat
<1>6. queue' = [queue EXCEPT ![b] = Append(@, v)]
  BY DEF signupNewUser, v
<1>7. queue' = [queue EXCEPT ![b] = @ \o << v >>]
  BY <1>4, <1>5, <1>6
<1> QED  BY <1>1, <1>3, <1>4, <1>7 DEF v

\* What the deletion of b queues on reading carpool c.
LEMMA LeavingWrites ==
    ASSUME TypeOK, NEW b \in Account, NEW c \in Carpool, deleteDataOfDeletedAccount(b, c)
    PROVE  /\ authUser \in Owner /\ KeepsWrites
           /\ \A x \in Owner : \A i \in DOMAIN queue'[x] :
                 \/ i \in DOMAIN queue[x] /\ queue'[x][i] = queue[x][i]
                 \/ /\ x = authUser /\ i > Len(queue[x])
                    /\ queue'[x][i].account = b /\ queue'[x][i].carpool = c
                    /\ queue'[x][i].op \in {"deleteCarpool", "leaveCarpool"}
           /\ \A x \in Owner : \A i \in DOMAIN queue[x] :
                 i \in DOMAIN queue'[x] /\ queue'[x][i] = queue[x][i]
           /\ \A k \in DOMAIN leaving(b, c, carpools[c]) :
                 \E i \in DOMAIN queue'[authUser] :
                    queue'[authUser][i] = leaving(b, c, carpools[c])[k]
<1> DEFINE ws == leaving(b, c, carpools[c])
<1>1. /\ ws \in Seq(QueuedWrite)
      /\ \A k \in DOMAIN ws : /\ ws[k].account = b /\ ws[k].carpool = c
                              /\ ws[k].op \in {"deleteCarpool", "leaveCarpool"}
  BY LeavingForm
<1>2. /\ queue' = [queue EXCEPT ![authUser] = @ \o ws] /\ authUser \in Owner
      /\ ws \in Seq(QueuedWrite)
  <2>1. queue' = [queue EXCEPT ![authUser] = @ \o ws] /\ authUser \in Owner
    BY DEF deleteDataOfDeletedAccount, Enqueue, TypeOK, Owner
  <2> QED  BY <1>1, <2>1
<1> HIDE DEF ws
<1>3. /\ \A x \in Owner : \A i \in DOMAIN queue'[x] :
            \/ i \in DOMAIN queue[x] /\ queue'[x][i] = queue[x][i]
            \/ x = authUser /\ i > Len(queue[x]) /\ \E k \in DOMAIN ws : queue'[x][i] = ws[k]
      /\ \A x \in Owner : \A i \in DOMAIN queue[x] :
            i \in DOMAIN queue'[x] /\ queue'[x][i] = queue[x][i]
      /\ \A k \in DOMAIN ws : \E i \in DOMAIN queue'[authUser] : queue'[authUser][i] = ws[k]
  <2>1. \A x \in Owner : \A i \in DOMAIN queue'[x] :
           \/ i \in DOMAIN queue[x] /\ queue'[x][i] = queue[x][i]
           \/ x = authUser /\ i > Len(queue[x]) /\ \E k \in DOMAIN ws : queue'[x][i] = ws[k]
    <3> SUFFICES ASSUME NEW x \in Owner, NEW i \in DOMAIN queue'[x]
                 PROVE  \/ i \in DOMAIN queue[x] /\ queue'[x][i] = queue[x][i]
                        \/ /\ x = authUser /\ i > Len(queue[x])
                           /\ \E k \in DOMAIN ws : queue'[x][i] = ws[k]
      OBVIOUS
    <3> QED  BY <1>2, Enqueued
  <2>2. \A x \in Owner : \A i \in DOMAIN queue[x] :
           i \in DOMAIN queue'[x] /\ queue'[x][i] = queue[x][i]
    BY <1>2, EnqueuedAre
  <2>3. \A k \in DOMAIN ws : \E i \in DOMAIN queue'[authUser] : queue'[authUser][i] = ws[k]
    BY <1>2, EnqueuedAre
  <2> QED  BY <2>1, <2>2, <2>3
<1>4. KeepsWrites
  BY <1>3 DEF KeepsWrites, Alike
<1>5. \A x \in Owner : \A i \in DOMAIN queue'[x] :
         \/ i \in DOMAIN queue[x] /\ queue'[x][i] = queue[x][i]
         \/ /\ x = authUser /\ i > Len(queue[x])
            /\ queue'[x][i].account = b /\ queue'[x][i].carpool = c
            /\ queue'[x][i].op \in {"deleteCarpool", "leaveCarpool"}
  BY <1>1, <1>3
<1>6. \A k \in DOMAIN leaving(b, c, carpools[c]) :
         \E i \in DOMAIN queue'[authUser] : queue'[authUser][i] = leaving(b, c, carpools[c])[k]
  BY <1>3 DEF ws
<1> QED  BY <1>2, <1>3, <1>4, <1>5, <1>6

\* Only an answer and a denial take a write away, and few steps are about carpools.
LEMMA QuietSteps ==
    ASSUME TypeOK, Next
    PROVE  \/ Deliver \/ Deny
           \/ \E b \in Account, c \in Carpool : deleteDataOfDeletedAccount(b, c)
           \/ \E c \in Carpool, doc \in CarpoolObject : carpoolMade(c, doc)
           \/ \E c \in Carpool : carpoolDeleted(c)
           \/ KeepsWrites /\ UNCHANGED <<carpools, collected>>
<1>1. ASSUME NEW b \in Account, signupNewUser(b) PROVE KeepsWrites /\ UNCHANGED <<carpools, collected>>
  BY <1>1, SignupWrites, OneMore DEF signupNewUser
<1>2. CASE Relaunch
  BY <1>2, RelaunchEntries DEF KeepsWrites, Relaunch, backendVars
<1>3. CASE updateUserProfile
  BY <1>3, UserWrites, OneMore DEF updateUserProfile, AtWork, backendVars, historyVars
<1>4. CASE updateUserLocation
  BY <1>4, UserWrites, OneMore DEF updateUserLocation, AtWork, backendVars
<1>5. CASE deleteUser
  BY <1>5, UserWrites, OneMore DEF deleteUser, AtWork, backendVars, historyVars
<1>6. ASSUME queue' = queue, UNCHANGED <<carpools, collected>>
      PROVE  KeepsWrites /\ UNCHANGED <<carpools, collected>>
  BY <1>6, SameQueue
<1> QED  BY <1>1, <1>2, <1>3, <1>4, <1>5, <1>6
         DEF Next, locationReported, loginWith, logout, fetchCurrentUser, LoginDeleted,
             LoginNotDeleted, groupsRead, backendVars, historyVars
-----------------------------------------------------------------------------
(* Leaving the carpools of a deleted account.                               *)

\* A write by which a leaves c or takes it away, in the queue of a.
Awaited(a, c, op) ==
    \E i \in DOMAIN queue[a] :
        queue[a][i].op = op /\ queue[a][i].account = a /\ queue[a][i].carpool = c

LeftOrAwaited(a, c) ==
    carpools[c] # NoCarpool =>
        /\ carpools[c].driver = a => Awaited(a, c, "deleteCarpool")
        /\ carpools[c].driver # a /\ a \in carpools[c].passengers
               => Awaited(a, c, "leaveCarpool")

\* What is listed or asked for was made: a carpool that is new is not yet read.
IdsInUse ==
    /\ \A a \in Account : groups[a] \subseteq used
    /\ \A r \in reads : r.what = "carpool" => r.carpool \in used

CollectedInv ==
    /\ IdsInUse
    /\ \A a \in Account, c \in Carpool :
          <<a, c>> \in collected => c \in used /\ LeftOrAwaited(a, c)

LEMMA AwaitedKept ==
    ASSUME KeepsWrites, NEW a \in Account, NEW c, NEW op, Awaited(a, c, op)
    PROVE  Awaited(a, c, op)'
<1>1. a \in Owner
  BY DEF Owner
<1>2. PICK i \in DOMAIN queue[a] :
         queue[a][i].op = op /\ queue[a][i].account = a /\ queue[a][i].carpool = c
  BY DEF Awaited
<1>3. PICK j \in DOMAIN queue'[a] : Alike(queue'[a][j], queue[a][i])
  BY <1>1 DEF KeepsWrites
<1> QED  BY <1>2, <1>3 DEF Awaited, Alike

LEMMA IdsStep ==
    ASSUME TypeInv, IdsInUse, [Next]_vars
    PROVE  IdsInUse' /\ used \subseteq used'
<1> USE DEF IdsInUse
<1>1. CASE UNCHANGED vars
  BY <1>1 DEF vars
<1>2. ASSUME Restarts, UNCHANGED <<groups, used>>
      PROVE  IdsInUse' /\ used \subseteq used'
  BY <1>2 DEF Restarts, read
<1>3. CASE Relaunch
  BY <1>2, <1>3 DEF Relaunch, backendVars
<1>4. CASE Deliver
  <2> DEFINE w == Head(queue[authUser])
  <2>1. UNCHANGED <<groups, used>>
    BY <1>4 DEF Deliver
  <2>2. Stops(w) => Restarts
    BY <1>4, DeliverForm DEF TypeInv
  <2>3. ~Stops(w) => reads' = reads \/ autoLogin(authUser)
    BY <1>4, DeliverForm DEF TypeInv
  <2>4. autoLogin(authUser) => \A r \in reads' : r \in reads \/ r.what = "user"
    BY DEF autoLogin, read
  <2> QED  BY <1>2, <2>1, <2>2, <2>3, <2>4
<1>5. ASSUME NEW b \in Account, groupsRead(b)
      PROVE  IdsInUse' /\ used \subseteq used'
  <2>1. \A r \in reads' : \/ r \in reads
                          \/ r.carpool \in groups[b]
    BY <1>5 DEF groupsRead
  <2> QED  BY <1>5, <2>1 DEF groupsRead, backendVars, historyVars
<1>6. ASSUME NEW c \in Carpool, NEW doc \in CarpoolObject, carpoolMade(c, doc)
      PROVE  IdsInUse' /\ used \subseteq used'
  <2>1. groups' = [a \in Account |->
           IF a = doc.driver \/ a \in doc.passengers THEN groups[a] \cup {c} ELSE groups[a]]
    BY <1>6 DEF carpoolMade
  <2>2. used' = used \cup {c} /\ reads' = reads
    BY <1>6 DEF carpoolMade, phoneVars
  <2> QED  BY <2>1, <2>2
<1>7. ASSUME NEW c \in Carpool, carpoolDeleted(c)
      PROVE  IdsInUse' /\ used \subseteq used'
  <2>1. groups' = [a \in Account |->
           IF a \in carpools[c].passengers THEN groups[a] \ {c} ELSE groups[a]]
    BY <1>7 DEF carpoolDeleted
  <2>2. used' = used /\ reads' = reads
    BY <1>7 DEF carpoolDeleted, phoneVars, historyVars
  <2> QED  BY <2>1, <2>2
<1>8. ASSUME UNCHANGED <<groups, used>>, \A r \in reads' : r \in reads \/ r.what # "carpool"
      PROVE  IdsInUse' /\ used \subseteq used'
  BY <1>8
<1>9. ASSUME NEW b \in Account, loginWith(b)
      PROVE  UNCHANGED <<groups, used>> /\ \A r \in reads' : r \in reads \/ r.what # "carpool"
  BY <1>9 DEF loginWith, backendVars, historyVars, read
<1>10. ASSUME NEW b \in Account, fetchCurrentUser(b)
      PROVE  UNCHANGED <<groups, used>> /\ \A r \in reads' : r \in reads \/ r.what # "carpool"
  BY <1>10 DEF fetchCurrentUser, backendVars, historyVars
<1>11. ASSUME deleteUser
      PROVE  UNCHANGED <<groups, used>> /\ \A r \in reads' : r \in reads \/ r.what # "carpool"
  BY <1>11 DEF deleteUser, backendVars, historyVars, read
<1>12. ASSUME NEW b \in Account, NEW c \in Carpool, deleteDataOfDeletedAccount(b, c)
      PROVE  UNCHANGED <<groups, used>> /\ \A r \in reads' : r \in reads \/ r.what # "carpool"
  BY <1>12 DEF deleteDataOfDeletedAccount, backendVars
<1>13. ASSUME \/ \E l \in Location : locationReported(l)
              \/ \E b \in Account : signupNewUser(b)
              \/ logout \/ updateUserProfile \/ updateUserLocation \/ Deny
              \/ \E b \in deleting : LoginDeleted(b) \/ LoginNotDeleted(b)
      PROVE  UNCHANGED <<groups, used, reads>>
  BY <1>13 DEF locationReported, signupNewUser, logout, updateUserProfile, updateUserLocation,
               Deny, LoginDeleted, LoginNotDeleted, backendVars, historyVars
<1> QED  BY <1>1, <1>3, <1>4, <1>5, <1>6, <1>7, <1>8, <1>9, <1>10, <1>11, <1>12, <1>13 DEF Next

LEMMA CollectedKept ==
    ASSUME CollectedInv, IdsInUse', used \subseteq used', KeepsWrites,
           UNCHANGED <<carpools, collected>>
    PROVE  CollectedInv'
<1> SUFFICES ASSUME NEW a \in Account, NEW c \in Carpool, <<a, c>> \in collected'
             PROVE  c \in used' /\ LeftOrAwaited(a, c)'
  BY DEF CollectedInv
<1>1. c \in used /\ LeftOrAwaited(a, c)
  BY DEF CollectedInv
<1>2. \A op : Awaited(a, c, op) => Awaited(a, c, op)'
  BY AwaitedKept
<1> QED  BY <1>1, <1>2 DEF LeftOrAwaited

\* The write that is answered has done what it was awaited for.
LEMMA CollectedDeliver ==
    ASSUME TypeInv, CollectedInv, IdsInUse', Deliver
    PROVE  CollectedInv'
<1> DEFINE w == Head(queue[authUser])
<1>1. TypeOK
  BY DEF TypeInv
<1>2. /\ w = queue[authUser][1] /\ w \in QueuedWrite /\ UNCHANGED <<collected, used>>
      /\ carpools' = IF w.carpool = NoCarpool THEN carpools
                     ELSE [carpools EXCEPT ![w.carpool] = ApplyToCarpool(@, w)]
  BY <1>1, DeliverEntries DEF Deliver
<1>3. /\ \A x \in Owner \ {authUser} : \A i \in DOMAIN queue[x] :
            i \in DOMAIN queue'[x] /\ Alike(queue'[x][i], queue[x][i])
      /\ \A i \in DOMAIN queue[authUser] \ {1} :
            /\ i - 1 \in DOMAIN queue'[authUser]
            /\ Alike(queue'[authUser][i - 1], queue[authUser][i])
  BY <1>1, DeliverEntries
<1> HIDE DEF w
<1> SUFFICES ASSUME NEW a \in Account, NEW c \in Carpool, <<a, c>> \in collected'
             PROVE  c \in used' /\ LeftOrAwaited(a, c)'
  BY DEF CollectedInv
<1>4. c \in used /\ LeftOrAwaited(a, c)
  BY <1>2 DEF CollectedInv
<1>5. a \in Owner /\ c # NoCarpool /\ carpools \in [Carpool -> CarpoolObject \cup {NoCarpool}]
  BY <1>1, AccountsConstantsAssumption DEF Owner, TypeOK
<1>6. \A op : Awaited(a, c, op) =>
         \/ Awaited(a, c, op)'
         \/ w.op = op /\ w.account = a /\ w.carpool = c
  <2> SUFFICES ASSUME NEW op, Awaited(a, c, op), ~(w.op = op /\ w.account = a /\ w.carpool = c)
               PROVE  Awaited(a, c, op)'
    OBVIOUS
  <2>1. PICK i \in DOMAIN queue[a] :
           queue[a][i].op = op /\ queue[a][i].account = a /\ queue[a][i].carpool = c
    BY DEF Awaited
  <2>2. \E j \in DOMAIN queue'[a] : Alike(queue'[a][j], queue[a][i])
    BY <1>2, <1>3, <1>5, <2>1
  <2> QED  BY <2>1, <2>2 DEF Awaited, Alike
<1>7. \/ carpools'[c] = carpools[c]
      \/ w.carpool = c /\ carpools'[c] = ApplyToCarpool(carpools[c], w)
  BY <1>2, <1>5
<1>8. CASE w.carpool # c
  BY <1>2, <1>4, <1>6, <1>7, <1>8 DEF LeftOrAwaited
<1>9. CASE w.carpool = c
  <2>1. carpools'[c] = ApplyToCarpool(carpools[c], w)
    BY <1>2, <1>5, <1>9
  <2>2. CASE w.op = "deleteCarpool"
    BY <1>2, <1>4, <2>1, <2>2 DEF ApplyToCarpool, LeftOrAwaited
  <2>3. CASE w.op = "leaveCarpool"
    <3>1. carpools'[c] = WithoutPassenger(carpools[c], w.account)
      BY <2>1, <2>3 DEF ApplyToCarpool
    <3>2. carpools'[c] # NoCarpool =>
             /\ carpools[c] # NoCarpool /\ carpools'[c].driver = carpools[c].driver
             /\ carpools'[c].passengers = carpools[c].passengers \ {w.account}
      BY <1>5, <3>1 DEF WithoutPassenger, CarpoolObject
    <3> QED  BY <1>2, <1>4, <1>6, <2>3, <3>2 DEF LeftOrAwaited
  <2>4. CASE w.op \notin {"deleteCarpool", "leaveCarpool"}
    BY <1>2, <1>4, <1>6, <2>1, <2>4 DEF ApplyToCarpool, LeftOrAwaited
  <2> QED  BY <2>2, <2>3, <2>4
<1> QED  BY <1>8, <1>9

LEMMA CollectedStep ==
    ASSUME TypeInv, CollectedInv, [Next]_vars
    PROVE  CollectedInv'
<1>1. TypeOK
  BY DEF TypeInv
<1>2. IdsInUse' /\ used \subseteq used'
  BY IdsStep DEF CollectedInv
<1>3. CASE UNCHANGED vars
  BY <1>2, <1>3, SameQueue, CollectedKept DEF vars
<1>4. CASE Deliver
  BY <1>2, <1>4, CollectedDeliver
<1>5. CASE Deny
  <2>1. UNCHANGED <<carpools, collected>>
    BY <1>5 DEF Deny, backendVars
  <2>2. \A a \in Account : queue'[a] = queue[a]
    BY <1>1, <1>5, AccountsConstantsAssumption DEF Deny, TypeOK
  <2>3. \A a \in Account, c \in Carpool : LeftOrAwaited(a, c) => LeftOrAwaited(a, c)'
    BY <2>1, <2>2 DEF LeftOrAwaited, Awaited
  <2> QED  BY <1>2, <2>1, <2>3 DEF CollectedInv
<1>6. ASSUME NEW b \in Account, NEW d \in Carpool, deleteDataOfDeletedAccount(b, d)
      PROVE  CollectedInv'
  <2> DEFINE ws == leaving(b, d, carpools[d])
  <2>1. /\ UNCHANGED <<carpools, used>>
        /\ collected' = IF authUser = b THEN collected \cup {<<b, d>>} ELSE collected
    BY <1>6 DEF deleteDataOfDeletedAccount, backendVars
  <2>2. d \in used
    BY <1>6 DEF deleteDataOfDeletedAccount, CollectedInv, IdsInUse
  <2>3. /\ KeepsWrites
        /\ \A k \in DOMAIN ws : \E i \in DOMAIN queue'[authUser] : queue'[authUser][i] = ws[k]
    BY <1>1, <1>6, LeavingWrites
  <2>4. ASSUME NEW a \in Account, NEW c \in Carpool, <<a, c>> \in collected
        PROVE  c \in used' /\ LeftOrAwaited(a, c)'
    <3>1. \A op : Awaited(a, c, op) => Awaited(a, c, op)'
      BY <2>3, AwaitedKept
    <3> QED  BY <2>1, <2>4, <3>1 DEF CollectedInv, LeftOrAwaited
  <2>5. authUser = b => LeftOrAwaited(b, d)'
    <3> SUFFICES ASSUME authUser = b, carpools[d] # NoCarpool
                 PROVE  /\ carpools[d].driver = b => Awaited(b, d, "deleteCarpool")'
                        /\ carpools[d].driver # b /\ b \in carpools[d].passengers
                               => Awaited(b, d, "leaveCarpool")'
      BY <2>1 DEF LeftOrAwaited
    <3>1. ASSUME NEW op, ws = << carpoolWrite(op, b, d) >>
          PROVE  Awaited(b, d, op)'
      <4>1. \E i \in DOMAIN queue'[b] : queue'[b][i] = carpoolWrite(op, b, d)
        BY <2>3, <3>1
      <4> QED  BY <4>1 DEF Awaited, carpoolWrite
    <3> QED  BY <3>1 DEF leaving
  <2> QED  BY <1>2, <2>1, <2>2, <2>4, <2>5 DEF CollectedInv
<1>7. ASSUME NEW d \in Carpool, NEW doc \in CarpoolObject, carpoolMade(d, doc)
      PROVE  CollectedInv'
  <2>1. /\ d \notin used /\ carpools' = [carpools EXCEPT ![d] = doc]
        /\ UNCHANGED <<queue, collected>>
    BY <1>7 DEF carpoolMade, phoneVars
  <2> SUFFICES ASSUME NEW a \in Account, NEW c \in Carpool, <<a, c>> \in collected
               PROVE  c \in used' /\ LeftOrAwaited(a, c)'
    BY <1>2, <2>1 DEF CollectedInv
  <2>2. c \in used /\ LeftOrAwaited(a, c)
    BY DEF CollectedInv
  <2>3. carpools'[c] = carpools[c]
    BY <1>1, <2>1, <2>2 DEF TypeOK
  <2> QED  BY <1>2, <2>1, <2>2, <2>3 DEF LeftOrAwaited, Awaited
<1>8. ASSUME NEW d \in Carpool, carpoolDeleted(d)
      PROVE  CollectedInv'
  <2>1. /\ carpools' = [carpools EXCEPT ![d] = NoCarpool]
        /\ UNCHANGED <<queue, collected>>
    BY <1>8 DEF carpoolDeleted, phoneVars, historyVars
  <2> SUFFICES ASSUME NEW a \in Account, NEW c \in Carpool, <<a, c>> \in collected
               PROVE  c \in used' /\ LeftOrAwaited(a, c)'
    BY <1>2, <2>1 DEF CollectedInv
  <2>2. c \in used /\ LeftOrAwaited(a, c)
    BY DEF CollectedInv
  <2>3. carpools'[c] \in {carpools[c], NoCarpool}
    BY <1>1, <2>1 DEF TypeOK
  <2> QED  BY <1>2, <2>1, <2>2, <2>3 DEF LeftOrAwaited, Awaited
<1> QED  BY <1>1, <1>2, <1>3, <1>4, <1>5, <1>6, <1>7, <1>8, QuietSteps, CollectedKept

\* A carpool that the deletion of an account has read while its user was signed
\* in no longer names the user, once the writes queued for it are done: as its
\* driver or as a passenger, whatever the other drivers do.
THEOREM RidesAreLeft == Spec => []CollectedIsLeft
<1>1. Init => CollectedInv
  BY DEF Init, CollectedInv, IdsInUse
<1>2. TypeInv /\ CollectedInv /\ [Next]_vars => CollectedInv'
  BY CollectedStep
<1>3. TypeInv /\ CollectedInv => CollectedIsLeft
  <2> SUFFICES ASSUME TypeInv, CollectedInv, NEW a \in Account, NEW c \in Carpool,
                      <<a, c>> \in collected, carpools[c] # NoCarpool,
                      ~Queued(a, {"deleteCarpool", "leaveCarpool"})
               PROVE  carpools[c].driver # a /\ a \notin carpools[c].passengers
    BY DEF CollectedIsLeft
  <2>1. DOMAIN queue = Owner /\ a \in Owner
    BY DEF TypeInv, TypeOK, Owner
  <2>2. ~Awaited(a, c, "deleteCarpool") /\ ~Awaited(a, c, "leaveCarpool")
    BY <2>1 DEF Queued, Awaited
  <2> QED  BY <2>2 DEF CollectedInv, LeftOrAwaited
<1> QED  BY <1>1, <1>2, <1>3, TypeInit, TypeStep, PTL DEF Spec
-----------------------------------------------------------------------------
(* The document of an account comes once and goes once.                     *)

DocOp == LocationOp \cup {"create", "profile", "copy", "remove"}

\* The document of a is under way.
Creating(a) ==
    1 \in DOMAIN queue[a] /\ queue[a][1].op = "create" /\ queue[a][1].account = a

\* Nobody has signed up as a.
Fresh(a) == Missing(a) /\ a \notin deletedUsers /\ ~Creating(a)

\* The session, the reads and Auth know nothing of a ...
Idle(a) ==
    /\ a \notin accounts /\ authUser # a /\ currentUser # a /\ a \notin deleting
    /\ meant[a] = << >>
    /\ \A r \in reads : r.account # a

\* ... nor do the queues.
Unused(a) ==
    /\ Idle(a)
    /\ DOMAIN queue[a] = {}
    /\ \A x \in Owner : \A i \in DOMAIN queue[x] : queue[x][i].account # a

\* Who is at work as a is signed in as a, and Auth has not been asked to delete a.
SignedInAs(a) ==
    a \notin deleting /\ (currentUser = a /\ screen = "tabs" => authUser = a)

\* While the document is under way nothing else about it is in another queue.
Undisturbed(a) ==
    /\ Missing(a) /\ a \notin deletedUsers
    /\ SignedInAs(a)
    /\ \A x \in Owner \ {a} : \A i \in DOMAIN queue[x] :
          queue[x][i].account = a => queue[x][i].op \notin DocOp

\* A document is removed after it was copied.
CopiedFirst ==
    \A x \in Owner : \A i \in DOMAIN queue[x] :
        queue[x][i].op = "remove" => queue[x][i].account \in deletedUsers

\* A document is made by the first write of its account.
CreateHead ==
    \A x \in Owner : \A i \in DOMAIN queue[x] :
        queue[x][i].op = "create" => x = queue[x][i].account /\ i = 1

GoneInv ==
    /\ CopiedFirst
    /\ CreateHead
    /\ \A a \in Account : Fresh(a) => Unused(a)
    /\ \A a \in Account : Creating(a) => Undisturbed(a)

LEMMA ApplyMissing ==
    ASSUME NEW doc \in StoredLocation, NEW w \in QueuedWrite,
           w.op \in AddOp => Len(w.location) = 1
    PROVE  /\ w.op = "create" => ApplyToUser(doc, w) = w.location
           /\ w.op = "create" => ApplyToUser(doc, w) # NoUser
           /\ w.op = "remove" => ApplyToUser(doc, w) = NoUser
           /\ doc = NoUser /\ w.op # "create" => ApplyToUser(doc, w) = NoUser
           /\ doc # NoUser /\ w.op # "remove" => ApplyToUser(doc, w) # NoUser
<1>1. w.location \in Seq(Coordinate) /\ w.location # NoUser
  BY StoredIsNoMark DEF QueuedWrite
<1>2. ASSUME w.op \in AddOp, doc # NoUser
      PROVE  ApplyToUser(doc, w) # NoUser
  <2>1. w.location[1] \in Coordinate /\ doc \in Seq(Coordinate) \cup {NoField}
    BY <1>1, <1>2, SeqElement DEF StoredLocation
  <2>2. Union(doc, w.location[1]) \in Seq(Coordinate)
    BY <2>1, UnionTyped
  <2>3. ApplyToUser(doc, w) = Union(doc, w.location[1])
    BY <1>2 DEF ApplyToUser, AddOp
  <2> QED  BY <2>2, <2>3, StoredIsNoMark
<1>3. ASSUME w.op \notin AddOp, doc # NoUser, w.op # "remove"
      PROVE  ApplyToUser(doc, w) # NoUser
  BY <1>1, <1>3, AccountsConstantsAssumption DEF ApplyToUser, AddOp
<1>4. w.op = "create" => ApplyToUser(doc, w) = w.location
  BY DEF ApplyToUser
<1>5. w.op = "remove" => ApplyToUser(doc, w) = NoUser
  BY DEF ApplyToUser
<1>6. doc = NoUser /\ w.op # "create" => ApplyToUser(doc, w) = NoUser
  BY DEF ApplyToUser
<1> QED  BY <1>1, <1>2, <1>3, <1>4, <1>5, <1>6

\* A step that adds to the queue of whoever is signed in, if anything, what the
\* user at work asks for or what is about carpools.
Adds ==
    /\ \A x \in Owner : \A i \in DOMAIN queue'[x] :
          \/ i \in DOMAIN queue[x] /\ Alike(queue'[x][i], queue[x][i])
          \/ /\ x = authUser
             /\ queue'[x][i].op \notin {"create", "remove"}
             /\ \A a \in Account : queue'[x][i].account = a => ~Idle(a)
             /\ queue'[x][i].op \in DocOp
                    => queue'[x][i].account = currentUser /\ screen = "tabs"
    /\ \A x \in Owner : \A i \in DOMAIN queue[x] :
          i \in DOMAIN queue'[x] /\ Alike(queue'[x][i], queue[x][i])

LEMMA GoneAdds ==
    ASSUME TypeOK, GoneInv, Adds, UNCHANGED <<users, deletedUsers>>,
           \A a \in Account : Idle(a) => Idle(a)',
           \A a \in Account : Creating(a) /\ Undisturbed(a) => SignedInAs(a)'
    PROVE  GoneInv'
<1>1. \A a \in Account : a \in Owner
  BY DEF Owner
<1>2. CopiedFirst'
  BY DEF CopiedFirst, GoneInv, Adds, Alike
<1>3. CreateHead'
  BY DEF CreateHead, GoneInv, Adds, Alike
<1>4. \A a \in Account : Creating(a)' <=> Creating(a)
  <2> SUFFICES ASSUME NEW a \in Account
               PROVE  Creating(a)' <=> Creating(a)
    OBVIOUS
  <2>1. Creating(a) => Creating(a)'
    BY <1>1 DEF Creating, Adds, Alike
  <2>2. Creating(a)' => Creating(a)
    BY <1>1 DEF Creating, Adds, Alike
  <2> QED  BY <2>1, <2>2
<1>5. ASSUME NEW a \in Account, Fresh(a)'
      PROVE  Unused(a)'
  <2>1. Unused(a)
    BY <1>4, <1>5 DEF Fresh, Missing, GoneInv
  <2>2. Idle(a)' /\ a # authUser
    BY <2>1 DEF Unused, Idle
  <2>3. DOMAIN queue'[a] = {}
    BY <1>1, <2>1, <2>2 DEF Unused, Adds
  <2>4. \A x \in Owner : \A i \in DOMAIN queue'[x] : queue'[x][i].account # a
    BY <2>1 DEF Unused, Adds, Alike
  <2> QED  BY <2>2, <2>3, <2>4 DEF Unused
<1>6. ASSUME NEW a \in Account, Creating(a)'
      PROVE  Undisturbed(a)'
  <2>1. Creating(a) /\ Undisturbed(a)
    BY <1>4, <1>6 DEF GoneInv
  <2>2. SignedInAs(a)'
    BY <2>1
  <2>3. ASSUME NEW x \in Owner \ {a}, NEW i \in DOMAIN queue'[x], queue'[x][i].account = a
        PROVE  queue'[x][i].op \notin DocOp
    <3>1. CASE i \in DOMAIN queue[x] /\ Alike(queue'[x][i], queue[x][i])
      BY <2>1, <2>3, <3>1 DEF Undisturbed, Alike
    <3>2. CASE /\ x = authUser
               /\ queue'[x][i].op \in DocOp
                    => queue'[x][i].account = currentUser /\ screen = "tabs"
      BY <2>1, <2>3, <3>2 DEF Undisturbed, SignedInAs
    <3> QED  BY <3>1, <3>2 DEF Adds
  <2> QED  BY <2>1, <2>2, <2>3 DEF Undisturbed, Missing
<1> QED  BY <1>2, <1>3, <1>5, <1>6 DEF GoneInv

LEMMA AddsNothing ==
    ASSUME queue' = queue
    PROVE  Adds
BY DEF Adds, Alike

\* What the user at work queues.
LEMMA AddsOne ==
    ASSUME TypeOK, NEW op \in {"profile", "clear", "copy"}, AtWork,
           Enqueue(<< write(op, currentUser, << >>) >>)
    PROVE  Adds
<1> DEFINE v == write(op, currentUser, << >>)
<1>1. /\ authUser \in Owner /\ v \in QueuedWrite
      /\ queue' = [queue EXCEPT ![authUser] = @ \o << v >>]
  BY UserWrites DEF AtWork
<1>2. v.op \notin {"create", "remove"} /\ v.account = currentUser
  BY DEF write
<1> HIDE DEF v
<1>3. /\ \A x \in Owner : \A i \in DOMAIN queue'[x] :
            \/ i \in DOMAIN queue[x] /\ queue'[x][i] = queue[x][i]
            \/ x = authUser /\ queue'[x][i] = v
      /\ \A x \in Owner : \A i \in DOMAIN queue[x] :
            i \in DOMAIN queue'[x] /\ queue'[x][i] = queue[x][i]
  BY <1>1, OneMore DEF Gained
<1>4. screen = "tabs" /\ \A a \in Account : v.account = a => ~Idle(a)
  BY <1>2 DEF AtWork, Idle
<1> QED  BY <1>2, <1>3, <1>4 DEF Adds, Alike

LEMMA GoneRestarts ==
    ASSUME TypeOK, Restarts, UNCHANGED accounts, NEW a \in Account
    PROVE  /\ Idle(a) => Idle(a)'
           /\ Undisturbed(a) => SignedInAs(a)'
<1>1. a # Nobody
  BY AccountsConstantsAssumption
<1>2. Idle(a) => Idle(a)'
  BY <1>1 DEF Restarts, Idle, read
<1>3. Undisturbed(a) => SignedInAs(a)'
  BY <1>1 DEF Restarts, Undisturbed, SignedInAs
<1> QED  BY <1>2, <1>3

LEMMA GoneSession ==
    ASSUME TypeOK, GoneInv
    PROVE  /\ \A l \in Location : locationReported(l) => GoneInv'
           /\ \A b \in Account : loginWith(b) => GoneInv'
           /\ logout => GoneInv'
           /\ \A b \in Account : fetchCurrentUser(b) => GoneInv'
           /\ Relaunch => GoneInv'
<1>1. ASSUME NEW l \in Location, locationReported(l) PROVE GoneInv'
  <2>1. UNCHANGED <<accounts, users, deletedUsers, authUser, currentUser, screen, queue, reads,
                    deleting>>
    BY <1>1 DEF locationReported, backendVars, sessionVars
  <2>2. \A a \in Account : meant[a] = << >> => meant'[a] = << >>
    BY <1>1 DEF locationReported
  <2> QED  BY <2>1, <2>2, AddsNothing, GoneAdds DEF Idle, Undisturbed, SignedInAs
<1>2. ASSUME NEW b \in Account, loginWith(b) PROVE GoneInv'
  <2>1. /\ UNCHANGED <<accounts, users, deletedUsers, currentUser, queue, deleting, meant>>
        /\ b \in accounts /\ authUser' = b /\ screen' = "waiting"
        /\ reads' = reads \cup {read("user", b)}
    BY <1>2 DEF loginWith, backendVars, historyVars
  <2> QED  BY <2>1, AddsNothing, GoneAdds DEF Idle, Undisturbed, SignedInAs, read
<1>3. ASSUME logout PROVE GoneInv'
  <2>1. /\ UNCHANGED <<accounts, users, deletedUsers, currentUser, queue, reads, deleting, meant>>
        /\ authUser' = Nobody /\ screen' = "login"
    BY <1>3 DEF logout, backendVars, historyVars
  <2> QED  BY <2>1, AddsNothing, GoneAdds, AccountsConstantsAssumption
           DEF Idle, Undisturbed, SignedInAs
<1>4. ASSUME NEW b \in Account, fetchCurrentUser(b) PROVE GoneInv'
  <2>1. /\ UNCHANGED <<accounts, users, deletedUsers, authUser, queue, deleting, meant>>
        /\ read("user", b) \in reads /\ reads' \subseteq reads
        /\ \/ UNCHANGED <<currentUser, screen>>
           \/ UserSeen(b) /\ currentUser' = b
           \/ screen' = "login" /\ UNCHANGED currentUser
    BY <1>4 DEF fetchCurrentUser, backendVars, historyVars
  <2>2. ~Idle(b)
    BY <2>1 DEF Idle, read
  <2>3. \A a \in Account : Idle(a) => Idle(a)'
    BY <2>1, <2>2 DEF Idle
  <2>4. Creating(b) /\ Undisturbed(b) /\ UserSeen(b) => authUser = b
    <3> SUFFICES ASSUME Creating(b), Undisturbed(b), authUser # b
                 PROVE  ~UserSeen(b)
      OBVIOUS
    <3>1. authUser \in Owner
      BY DEF TypeOK, Owner
    <3>2. Places(b, {"create", "remove"}) = {}
      BY <3>1 DEF Places, Undisturbed, DocOp
    <3> QED  BY <3>2 DEF UserSeen, LastIs, Undisturbed
  <2>5. \A a \in Account : Creating(a) /\ Undisturbed(a) => SignedInAs(a)'
    BY <2>1, <2>4 DEF Undisturbed, SignedInAs
  <2> QED  BY <2>1, <2>3, <2>5, AddsNothing, GoneAdds
<1>5. ASSUME Relaunch PROVE GoneInv'
  <2>1. Restarts /\ UNCHANGED <<accounts, users, deletedUsers>>
    BY <1>5 DEF Relaunch, backendVars
  <2>2. Adds
    BY <1>5, RelaunchEntries DEF Adds
  <2> QED  BY <2>1, <2>2, GoneRestarts, GoneAdds
<1> QED  BY <1>1, <1>2, <1>3, <1>4, <1>5

LEMMA GoneProfile ==
    ASSUME TypeOK, GoneInv
    PROVE  /\ updateUserProfile => GoneInv'
           /\ updateUserLocation => GoneInv'
           /\ deleteUser => GoneInv'
           /\ \A b \in deleting : LoginDeleted(b) => GoneInv'
           /\ \A b \in deleting : LoginNotDeleted(b) => GoneInv'
<1>1. ASSUME updateUserProfile PROVE GoneInv'
  <2>1. Adds
    BY <1>1, AddsOne DEF updateUserProfile
  <2>2. UNCHANGED <<accounts, users, deletedUsers, authUser, currentUser, screen, reads, deleting,
                    meant>>
    BY <1>1 DEF updateUserProfile, backendVars, sessionVars, historyVars
  <2> QED  BY <2>1, <2>2, GoneAdds DEF Idle, Undisturbed, SignedInAs
<1>2. ASSUME updateUserLocation PROVE GoneInv'
  <2>1. Adds
    BY <1>2, AddsOne DEF updateUserLocation
  <2>2. UNCHANGED <<accounts, users, deletedUsers, authUser, currentUser, screen, reads, deleting>>
    BY <1>2 DEF updateUserLocation, backendVars, sessionVars
  <2>3. \A a \in Account \ {currentUser} : meant'[a] = meant[a]
    BY <1>2 DEF updateUserLocation, TypeOK
  <2> QED  BY <2>1, <2>2, <2>3, GoneAdds DEF Idle, Undisturbed, SignedInAs
<1>3. ASSUME deleteUser PROVE GoneInv'
  <2>1. Adds
    BY <1>3, AddsOne DEF deleteUser
  <2>2. /\ UNCHANGED <<accounts, users, deletedUsers, authUser, currentUser, screen, deleting, meant>>
        /\ reads' = reads \cup {read("groups", currentUser)}
    BY <1>3 DEF deleteUser, backendVars, sessionVars, historyVars
  <2> QED  BY <2>1, <2>2, GoneAdds DEF Idle, Undisturbed, SignedInAs, read
<1>4. ASSUME NEW b \in deleting, LoginDeleted(b) PROVE GoneInv'
  <2>1. /\ UNCHANGED <<users, deletedUsers, currentUser, screen, queue, reads, meant>>
        /\ deleting' = deleting \ {b} /\ accounts' = accounts \ {b}
        /\ authUser' = IF authUser = b THEN Nobody ELSE authUser
    BY <1>4 DEF LoginDeleted, historyVars
  <2>2. \A a \in Account : Idle(a) => Idle(a)'
    BY <2>1, AccountsConstantsAssumption DEF Idle
  <2>3. \A a \in Account : Undisturbed(a) => SignedInAs(a)'
    BY <2>1 DEF Undisturbed, SignedInAs
  <2> QED  BY <2>1, <2>2, <2>3, AddsNothing, GoneAdds
<1>5. ASSUME NEW b \in deleting, LoginNotDeleted(b) PROVE GoneInv'
  <2>1. /\ UNCHANGED <<accounts, users, deletedUsers, authUser, currentUser, screen, queue, reads,
                       meant>>
        /\ deleting' = deleting \ {b}
    BY <1>5 DEF LoginNotDeleted, backendVars, sessionVars, historyVars
  <2> QED  BY <2>1, AddsNothing, GoneAdds DEF Idle, Undisturbed, SignedInAs
<1> QED  BY <1>1, <1>2, <1>3, <1>4, <1>5

LEMMA GoneCarpools ==
    ASSUME TypeOK, GoneInv
    PROVE  /\ \A b \in Account : groupsRead(b) => GoneInv'
           /\ \A b \in Account, c \in Carpool : deleteDataOfDeletedAccount(b, c) => GoneInv'
           /\ \A c \in Carpool, doc \in CarpoolObject : carpoolMade(c, doc) => GoneInv'
           /\ \A c \in Carpool : carpoolDeleted(c) => GoneInv'
           /\ UNCHANGED vars => GoneInv'
<1>1. ASSUME NEW b \in Account, groupsRead(b) PROVE GoneInv'
  <2>1. /\ UNCHANGED <<accounts, users, deletedUsers, authUser, currentUser, screen, queue, deleting,
                       meant>>
        /\ read("groups", b) \in reads
        /\ \A r \in reads' : r \in reads \/ r.account = b
    BY <1>1 DEF groupsRead, backendVars, sessionVars, historyVars
  <2>2. \A a \in Account : Idle(a) => Idle(a)'
    BY <2>1 DEF Idle, read
  <2> QED  BY <2>1, <2>2, AddsNothing, GoneAdds DEF Undisturbed, SignedInAs
<1>2. ASSUME NEW b \in Account, NEW c \in Carpool, deleteDataOfDeletedAccount(b, c)
      PROVE  GoneInv'
  <2>1. /\ UNCHANGED <<accounts, users, deletedUsers, authUser, currentUser, screen, deleting, meant>>
        /\ reads' \subseteq reads
        /\ \E r \in reads : r.account = b
    BY <1>2 DEF deleteDataOfDeletedAccount, backendVars, sessionVars
  <2>2. ~Idle(b)
    BY <2>1 DEF Idle
  <2>3. /\ \A x \in Owner : \A i \in DOMAIN queue'[x] :
              \/ i \in DOMAIN queue[x] /\ queue'[x][i] = queue[x][i]
              \/ /\ x = authUser /\ i > Len(queue[x])
                 /\ queue'[x][i].account = b /\ queue'[x][i].carpool = c
                 /\ queue'[x][i].op \in {"deleteCarpool", "leaveCarpool"}
        /\ \A x \in Owner : \A i \in DOMAIN queue[x] :
              i \in DOMAIN queue'[x] /\ queue'[x][i] = queue[x][i]
    BY <1>2, LeavingWrites
  <2>4. Adds
    BY <2>2, <2>3 DEF Adds, Alike, DocOp, LocationOp
  <2> QED  BY <2>1, <2>4, GoneAdds DEF Idle, Undisturbed, SignedInAs
<1>3. ASSUME NEW c \in Carpool, NEW doc \in CarpoolObject, carpoolMade(c, doc) PROVE GoneInv'
  <2>1. UNCHANGED <<accounts, users, deletedUsers, authUser, currentUser, screen, queue, reads,
                    deleting, meant>>
    BY <1>3 DEF carpoolMade, phoneVars, sessionVars
  <2> QED  BY <2>1, AddsNothing, GoneAdds DEF Idle, Undisturbed, SignedInAs
<1>4. ASSUME NEW c \in Carpool, carpoolDeleted(c) PROVE GoneInv'
  <2>1. UNCHANGED <<accounts, users, deletedUsers, authUser, currentUser, screen, queue, reads,
                    deleting, meant>>
    BY <1>4 DEF carpoolDeleted, phoneVars, sessionVars, historyVars
  <2> QED  BY <2>1, AddsNothing, GoneAdds DEF Idle, Undisturbed, SignedInAs
<1>5. ASSUME UNCHANGED vars PROVE GoneInv'
  BY <1>5, AddsNothing, GoneAdds DEF vars, Idle, Undisturbed, SignedInAs
<1> QED  BY <1>1, <1>2, <1>3, <1>4, <1>5

\* A signup makes the first write of an account nobody knows.
LEMMA GoneSignup ==
    ASSUME TypeOK, GoneInv, NEW b \in Account, signupNewUser(b)
    PROVE  GoneInv'
<1> DEFINE v == write("create", b, lastCurrentLocation)
<1>1. /\ UNCHANGED <<users, deletedUsers, currentUser, reads, deleting>>
      /\ accounts' = accounts \cup {b} /\ authUser' = b /\ screen' = "waiting"
      /\ meant' = [meant EXCEPT ![b] = lastCurrentLocation]
      /\ Missing(b) /\ b \notin deletedUsers /\ ~Queued(b, {"create"})
  BY DEF signupNewUser
<1>2. /\ b \in Owner /\ v \in QueuedWrite
      /\ queue' = [queue EXCEPT ![b] = @ \o << v >>]
  BY SignupWrites
<1>3. v.op = "create" /\ v.account = b
  BY DEF write
<1> HIDE DEF v
<1>4. Unused(b)
  <2>1. ~Creating(b)
    BY <1>1, <1>2, QueueFacts DEF Creating, Queued
  <2> QED  BY <1>1, <2>1 DEF Fresh, GoneInv
<1>5. queue'[b] = << v >> /\ \A x \in Owner \ {b} : queue'[x] = queue[x]
  <2>1. queue \in [Owner -> Seq(QueuedWrite)] /\ queue[b] \in Seq(QueuedWrite)
    BY <1>2 DEF TypeOK, Owner
  <2>2. queue[b] = << >>
    <3>1. Len(queue[b]) \in Nat /\ DOMAIN queue[b] = 1 .. Len(queue[b])
      BY <2>1, SeqElement
    <3>2. 1 \notin DOMAIN queue[b]
      BY <1>4 DEF Unused
    <3>3. Len(queue[b]) = 0
      BY <3>1, <3>2
    <3> QED  BY <2>1, <3>3, EmptySeq
  <2>3. queue[b] \o << v >> = << v >>
    BY <1>2, <2>2
  <2> QED  BY <1>2, <2>1, <2>3
<1>6. DOMAIN queue'[b] = {1} /\ queue'[b][1] = v
  BY <1>5
<1>7. \A a \in Account : a \in Owner
  BY DEF Owner
<1>8. CopiedFirst'
  <2>1. CopiedFirst
    BY DEF GoneInv
  <2> SUFFICES ASSUME NEW x \in Owner, NEW i \in DOMAIN queue'[x], queue'[x][i].op = "remove"
               PROVE  queue'[x][i].account \in deletedUsers'
    BY DEF CopiedFirst
  <2>2. x # b
    BY <1>3, <1>6
  <2> QED  BY <1>1, <1>5, <2>1, <2>2 DEF CopiedFirst
<1>9. CreateHead'
  <2>1. CreateHead
    BY DEF GoneInv
  <2> SUFFICES ASSUME NEW x \in Owner, NEW i \in DOMAIN queue'[x], queue'[x][i].op = "create"
               PROVE  x = queue'[x][i].account /\ i = 1
    BY DEF CreateHead
  <2>2. CASE x = b
    BY <1>3, <1>6, <2>2
  <2>3. CASE x # b
    BY <1>5, <2>1, <2>3 DEF CreateHead
  <2> QED  BY <2>2, <2>3
<1>10. Creating(b)' /\ \A a \in Account \ {b} : Creating(a)' <=> Creating(a)
  <2>1. Creating(b)'
    BY <1>3, <1>6 DEF Creating
  <2>2. ASSUME NEW a \in Account \ {b} PROVE Creating(a)' <=> Creating(a)
    BY <1>5, <1>7 DEF Creating
  <2> QED  BY <2>1, <2>2
<1>11. ASSUME NEW a \in Account, Fresh(a)'
       PROVE  Unused(a)'
  <2>1. a # b
    BY <1>10, <1>11 DEF Fresh
  <2>2. Unused(a)
    BY <1>1, <1>10, <1>11, <2>1 DEF Fresh, Missing, GoneInv
  <2>3. Idle(a)'
    BY <1>1, <2>1, <2>2 DEF Unused, Idle, TypeOK
  <2>4. DOMAIN queue'[a] = {}
    BY <1>5, <1>7, <2>1, <2>2 DEF Unused
  <2>5. ASSUME NEW x \in Owner, NEW i \in DOMAIN queue'[x]
        PROVE  queue'[x][i].account # a
    <3>1. CASE x = b
      BY <1>3, <1>6, <2>1, <2>5, <3>1
    <3>2. CASE x # b
      BY <1>5, <2>2, <2>5, <3>2 DEF Unused
    <3> QED  BY <3>1, <3>2
  <2> QED  BY <2>3, <2>4, <2>5 DEF Unused
<1>12. Undisturbed(b)'
  <2>1. \A x \in Owner \ {b} : \A i \in DOMAIN queue'[x] : queue'[x][i].account # b
    BY <1>4, <1>5 DEF Unused
  <2> QED  BY <1>1, <1>4, <2>1 DEF Undisturbed, SignedInAs, Missing, Unused, Idle
<1>13. ASSUME NEW a \in Account \ {b}, Creating(a)'
       PROVE  Undisturbed(a)'
  <2>1. Undisturbed(a)
    BY <1>10, <1>13 DEF GoneInv
  <2>2. ASSUME NEW x \in Owner \ {a}, NEW i \in DOMAIN queue'[x], queue'[x][i].account = a
        PROVE  queue'[x][i].op \notin DocOp
    <3>1. x # b
      BY <1>3, <1>6, <1>13, <2>2
    <3> QED  BY <1>5, <2>1, <2>2, <3>1 DEF Undisturbed
  <2> QED  BY <1>1, <2>1, <2>2 DEF Undisturbed, SignedInAs, Missing
<1> QED  BY <1>8, <1>9, <1>11, <1>12, <1>13 DEF GoneInv

\* A denied write is neither the first of an account nor in the way of one.
LEMMA GoneDeny ==
    ASSUME TypeOK, GoneInv, Deny
    PROVE  GoneInv'
<1>1. /\ UNCHANGED <<accounts, users, deletedUsers, authUser, currentUser, screen, reads, deleting>>
      /\ \A a \in Account : meant[a] = << >> => meant'[a] = << >>
  BY DEF Deny, backendVars, sessionVars, TypeOK
<1>2. \A x \in Owner : \A i \in DOMAIN queue'[x] :
         \/ x # Nobody /\ i \in DOMAIN queue[x] /\ queue'[x][i] = queue[x][i]
         \/ x = Nobody /\ i + 1 \in DOMAIN queue[x] /\ queue'[x][i] = queue[x][i + 1]
  BY DenyEntries
<1>3. \A x \in Owner \ {Nobody} : \A i \in DOMAIN queue[x] :
         i \in DOMAIN queue'[x] /\ queue'[x][i] = queue[x][i]
  BY DenyEntries
<1>4. \A a \in Account : a \in Owner /\ a # Nobody
  BY AccountsConstantsAssumption DEF Owner
<1>5. \A x \in Owner : \A i \in DOMAIN queue'[x] :
         \E j \in DOMAIN queue[x] : queue'[x][i] = queue[x][j]
  BY <1>2
<1>6. CopiedFirst'
  BY <1>1, <1>5 DEF CopiedFirst, GoneInv
<1>7. CreateHead'
  <2>1. CreateHead
    BY DEF GoneInv
  <2> SUFFICES ASSUME NEW x \in Owner, NEW i \in DOMAIN queue'[x], queue'[x][i].op = "create"
               PROVE  x = queue'[x][i].account /\ i = 1
    BY DEF CreateHead
  <2>2. CASE x # Nobody
    BY <1>2, <2>1, <2>2 DEF CreateHead
  <2>3. CASE x = Nobody
    <3>1. i + 1 \in DOMAIN queue[x] /\ queue'[x][i] = queue[x][i + 1]
      BY <1>2, <2>3
    <3>2. x = queue[x][i + 1].account /\ queue[x][i + 1] \in QueuedWrite
      BY <2>1, <3>1, QueueFacts DEF CreateHead
    <3> QED  BY <1>4, <2>3, <3>2 DEF QueuedWrite
  <2> QED  BY <2>2, <2>3
<1>8. \A a \in Account : Creating(a)' <=> Creating(a)
  BY <1>2, <1>3, <1>4 DEF Creating
<1>9. \A a \in Account : Fresh(a)' => Fresh(a)
  BY <1>1, <1>8 DEF Fresh, Missing
<1>10. \A a \in Account : Unused(a) => Unused(a)'
  BY <1>1, <1>2, <1>4, <1>5 DEF Unused, Idle
<1>11. \A a \in Account : Undisturbed(a) => Undisturbed(a)'
  BY <1>1, <1>5 DEF Undisturbed, SignedInAs, Missing
<1> QED  BY <1>6, <1>7, <1>8, <1>9, <1>10, <1>11 DEF GoneInv

\* What is known of the write that is answered and of the document it is for.
LEMMA DeliverDocument ==
    ASSUME TypeInv, Deliver
    PROVE  LET w == Head(queue[authUser])
           IN  /\ w.account \in Account /\ (w.op \in AddOp => Len(w.location) = 1)
               /\ users' = [users EXCEPT ![w.account] = ApplyToUser(users[w.account], w)]
               /\ users' \in [Account -> StoredLocation] /\ users \in [Account -> StoredLocation]
               /\ deletedUsers' = deletedUsers \cup (IF w.op = "copy" THEN {w.account} ELSE {})
               /\ UNCHANGED <<accounts, groups, taps, used, collected>>
               /\ \A a \in Account :
                     /\ w.account # a => users'[a] = users[a]
                     /\ users'[w.account] = ApplyToUser(users[w.account], w)
                     /\ Missing(a) /\ ~(w.account = a /\ w.op = "create") => Missing(a)'
                     /\ Missing(a)' /\ ~(w.account = a /\ w.op = "remove") => Missing(a)
                     /\ w.account = a /\ w.op = "create" => ~Missing(a)'
<1> DEFINE w == Head(queue[authUser])
<1>1. /\ authUser \in Owner /\ 1 \in DOMAIN queue[authUser]
      /\ w \in QueuedWrite /\ w = queue[authUser][1]
  BY DeliverEntries DEF TypeInv
<1>2. w.account \in Account /\ (w.op \in AddOp => Len(w.location) = 1)
  BY <1>1 DEF TypeInv, OneNumber, QueuedWrite
<1>3. users \in [Account -> StoredLocation] /\ users' \in [Account -> StoredLocation]
  <2>1. TypeInv'
    BY TypeDeliver
  <2> QED  BY <2>1 DEF TypeInv, TypeOK, StoredLocation
<1>4. /\ users' = [users EXCEPT ![w.account] = ApplyToUser(users[w.account], w)]
      /\ deletedUsers' = deletedUsers \cup (IF w.op = "copy" THEN {w.account} ELSE {})
      /\ UNCHANGED <<accounts, groups, taps, used, collected>>
  BY <1>2, <1>3 DEF Deliver
<1> HIDE DEF w
<1>5. ASSUME NEW a \in Account
      PROVE  /\ w.account # a => users'[a] = users[a]
             /\ users'[w.account] = ApplyToUser(users[w.account], w)
             /\ Missing(a) /\ ~(w.account = a /\ w.op = "create") => Missing(a)'
             /\ Missing(a)' /\ ~(w.account = a /\ w.op = "remove") => Missing(a)
             /\ w.account = a /\ w.op = "create" => ~Missing(a)'
  <2>1. w.account # a => users'[a] = users[a]
    BY <1>3, <1>4
  <2>2. users'[w.account] = ApplyToUser(users[w.account], w)
    BY <1>2, <1>3, <1>4
  <2>3. users[w.account] \in StoredLocation
    BY <1>2, <1>3
  <2> QED  BY <1>1, <1>2, <2>1, <2>2, <2>3, ApplyMissing DEF Missing
<1> QED  BY <1>2, <1>3, <1>4, <1>5 DEF w

\* The session after an answer.
LEMMA DeliverSession ==
    ASSUME TypeOK, Deliver, NEW a \in Account
    PROVE  LET w == Head(queue[authUser])
           IN  /\ authUser' \in {authUser, Nobody}
               /\ deleting' \subseteq deleting \cup {authUser}
               /\ meant[a] = << >> => meant'[a] = << >>
               /\ \A r \in reads' : r \in reads \/ r.account = authUser
               /\ currentUser' = a => currentUser = a \/ w.account = a
               /\ currentUser' = a /\ screen' = "tabs" =>
                     \/ w.op = "create" /\ w.account = a
                     \/ currentUser = a /\ screen = "tabs"
<1> DEFINE w == Head(queue[authUser])
<1>1. a # Nobody
  BY AccountsConstantsAssumption
<1>2. CASE Stops(w)
  <2>1. Restarts
    BY <1>2, DeliverForm
  <2> QED  BY <1>1, <2>1 DEF Restarts, read
<1>3. CASE ~Stops(w) /\ Fires(w) /\ w.op = "copy"
  <2>1. /\ authUser' = authUser /\ meant' = meant /\ currentUser' = currentUser
        /\ deleting' = deleting \cup ({authUser} \ {Nobody})
        /\ autoLogin(authUser)
    BY <1>3, DeliverForm
  <2> QED  BY <2>1 DEF autoLogin, read
<1>4. CASE ~Stops(w) /\ Fires(w) /\ w.op = "create"
  <2>1. /\ authUser' = authUser /\ meant' = meant /\ currentUser' = w.account
        /\ deleting' = deleting /\ reads' = reads
    BY <1>4, DeliverForm
  <2> QED  BY <1>4, <2>1
<1>5. CASE ~Stops(w) /\ ~(Fires(w) /\ w.op \in {"create", "copy"})
  <2>1. /\ authUser' \in {authUser, Nobody} /\ meant' = meant /\ currentUser' = currentUser
        /\ deleting' = deleting /\ reads' = reads /\ screen' = screen
    BY <1>5, DeliverForm
  <2> QED  BY <1>5, <2>1
<1> QED  BY <1>2, <1>3, <1>4, <1>5

\* An answer to the first write of an account is the only thing that ends it.
LEMMA DeliverCreating ==
    ASSUME TypeInv, CreateHead, Deliver, NEW a \in Account
    PROVE  LET w == Head(queue[authUser])
           IN  /\ Creating(a)' <=> Creating(a) /\ a # authUser
               /\ Creating(a) /\ a = authUser => w.op = "create" /\ w.account = a
               /\ Creating(a)' => queue'[a][1].location = queue[a][1].location
<1> DEFINE w == Head(queue[authUser])
<1>1. TypeOK /\ a \in Owner
  BY DEF TypeInv, Owner
<1>2. 1 \in DOMAIN queue[authUser] /\ w = queue[authUser][1] /\ w \in QueuedWrite
  BY <1>1, DeliverEntries
<1>3. \A i \in DOMAIN queue'[a] :
         \/ /\ a # authUser /\ i \in DOMAIN queue[a]
            /\ Alike(queue'[a][i], queue[a][i])
         \/ /\ a = authUser /\ i + 1 \in DOMAIN queue[a]
            /\ Alike(queue'[a][i], queue[a][i + 1])
         \/ a = authUser /\ \E k \in DOMAIN Follow(w) : queue'[a][i] = Follow(w)[k]
  BY <1>1, DeliverEntries
<1>4. a # authUser => \A i \in DOMAIN queue[a] : i \in DOMAIN queue'[a] /\ Alike(queue'[a][i], queue[a][i])
  BY <1>1, DeliverEntries
<1>5. \A k \in DOMAIN Follow(w) : Follow(w)[k].op # "create"
  BY <1>1, <1>2, FollowForm
<1> HIDE DEF w
<1>6. ASSUME Creating(a)'
      PROVE  /\ Creating(a) /\ a # authUser
             /\ queue'[a][1].location = queue[a][1].location
  <2>1. 1 \in DOMAIN queue'[a] /\ queue'[a][1].op = "create" /\ queue'[a][1].account = a
    BY <1>6 DEF Creating
  <2>2. CASE a # authUser /\ 1 \in DOMAIN queue[a] /\ Alike(queue'[a][1], queue[a][1])
    BY <2>1, <2>2 DEF Creating, Alike
  <2>3. CASE 2 \in DOMAIN queue[a] /\ Alike(queue'[a][1], queue[a][2])
    BY <1>1, <2>1, <2>3 DEF CreateHead, Alike
  <2>4. CASE \E k \in DOMAIN Follow(w) : queue'[a][1] = Follow(w)[k]
    BY <1>5, <2>1, <2>4
  <2>5. 1 + 1 = 2
    OBVIOUS
  <2> QED  BY <1>3, <2>1, <2>2, <2>3, <2>4, <2>5
<1>7. Creating(a) /\ a # authUser => Creating(a)'
  BY <1>4 DEF Creating, Alike
<1>8. Creating(a) /\ a = authUser => w.op = "create" /\ w.account = a
  BY <1>2 DEF Creating
<1> QED  BY <1>6, <1>7, <1>8 DEF w

LEMMA GoneDeliver ==
    ASSUME TypeInv, GoneInv, Deliver
    PROVE  GoneInv'
<1> DEFINE w == Head(queue[authUser])
<1>1. TypeOK
  BY DEF TypeInv
<1>2. /\ authUser \in Owner /\ w \in QueuedWrite
      /\ 1 \in DOMAIN queue[authUser] /\ w = queue[authUser][1]
  BY <1>1, DeliverEntries
<1>3. \A x \in Owner : \A i \in DOMAIN queue'[x] :
         \/ /\ x # authUser /\ i \in DOMAIN queue[x]
            /\ Alike(queue'[x][i], queue[x][i])
         \/ /\ x = authUser /\ i + 1 \in DOMAIN queue[x]
            /\ Alike(queue'[x][i], queue[x][i + 1])
         \/ x = authUser /\ \E k \in DOMAIN Follow(w) : queue'[x][i] = Follow(w)[k]
  BY <1>1, DeliverEntries
<1>4. /\ queue' \in [Owner -> Seq(QueuedWrite)]
      /\ \A x \in Owner \ {authUser} : \A i \in DOMAIN queue[x] :
            i \in DOMAIN queue'[x] /\ Alike(queue'[x][i], queue[x][i])
  BY <1>1, DeliverEntries
<1>5. \A k \in DOMAIN Follow(w) :
         /\ Follow(w)[k].account = w.account
         /\ Follow(w)[k].op \in DocOp /\ Follow(w)[k].op # "create" /\ w.op \in DocOp
         /\ Follow(w)[k].op = "remove" => w.op = "copy"
  BY <1>1, <1>2, FollowForm DEF DocOp, LocationOp
<1>6. /\ w.account \in Account
      /\ deletedUsers' = deletedUsers \cup (IF w.op = "copy" THEN {w.account} ELSE {})
      /\ UNCHANGED accounts
      /\ \A a \in Account :
            /\ Missing(a) /\ ~(w.account = a /\ w.op = "create") => Missing(a)'
            /\ Missing(a)' /\ ~(w.account = a /\ w.op = "remove") => Missing(a)
            /\ w.account = a /\ w.op = "create" => ~Missing(a)'
  BY DeliverDocument
<1>7. \A a \in Account :
         /\ authUser' \in {authUser, Nobody}
         /\ deleting' \subseteq deleting \cup {authUser}
         /\ meant[a] = << >> => meant'[a] = << >>
         /\ \A r \in reads' : r \in reads \/ r.account = authUser
         /\ currentUser' = a => currentUser = a \/ w.account = a
         /\ currentUser' = a /\ screen' = "tabs" =>
               \/ w.op = "create" /\ w.account = a
               \/ currentUser = a /\ screen = "tabs"
  BY <1>1, DeliverSession
<1>8. /\ w.op = "remove" => w.account \in deletedUsers
      /\ w.op = "create" => authUser = w.account
  BY <1>2 DEF GoneInv, CopiedFirst, CreateHead
<1> HIDE DEF w
<1>9. \A a \in Account : a \in Owner /\ a # Nobody
  BY AccountsConstantsAssumption DEF Owner
<1>10. CopiedFirst'
  <2>1. CopiedFirst
    BY DEF GoneInv
  <2> SUFFICES ASSUME NEW x \in Owner, NEW i \in DOMAIN queue'[x], queue'[x][i].op = "remove"
               PROVE  queue'[x][i].account \in deletedUsers'
    BY DEF CopiedFirst
  <2>2. CASE \E j \in DOMAIN queue[x] : Alike(queue'[x][i], queue[x][j])
    BY <1>6, <2>1, <2>2 DEF CopiedFirst, Alike
  <2>3. CASE \E k \in DOMAIN Follow(w) : queue'[x][i] = Follow(w)[k]
    BY <1>5, <1>6, <2>3
  <2> QED  BY <1>3, <2>2, <2>3
<1>11. CreateHead'
  <2>1. CreateHead
    BY DEF GoneInv
  <2> SUFFICES ASSUME NEW x \in Owner, NEW i \in DOMAIN queue'[x], queue'[x][i].op = "create"
               PROVE  x = queue'[x][i].account /\ i = 1
    BY DEF CreateHead
  <2>2. i \in Nat \ {0}
    BY <1>4, SeqElement
  <2>3. CASE i \in DOMAIN queue[x] /\ Alike(queue'[x][i], queue[x][i])
    BY <2>1, <2>3 DEF CreateHead, Alike
  <2>4. CASE i + 1 \in DOMAIN queue[x] /\ Alike(queue'[x][i], queue[x][i + 1])
    BY <2>1, <2>2, <2>4 DEF CreateHead, Alike
  <2>5. CASE \E k \in DOMAIN Follow(w) : queue'[x][i] = Follow(w)[k]
    BY <1>5, <2>5
  <2> QED  BY <1>3, <2>3, <2>4, <2>5
<1>12. \A a \in Account :
          /\ Creating(a)' <=> Creating(a) /\ a # authUser
          /\ Creating(a) /\ a = authUser => w.op = "create" /\ w.account = a
  BY DeliverCreating DEF GoneInv, w
<1>13. ASSUME NEW a \in Account, Fresh(a)'
       PROVE  Unused(a)'
  <2>1. Missing(a)' /\ a \notin deletedUsers /\ ~Creating(a)'
    BY <1>6, <1>13 DEF Fresh
  <2>2. Missing(a)
    BY <1>6, <1>8, <2>1
  <2>3. ~Creating(a)
    BY <1>6, <1>12, <2>1
  <2>4. Unused(a)
    BY <2>1, <2>2, <2>3 DEF Fresh, GoneInv
  <2>5. w.account # a /\ authUser # a
    BY <1>2, <2>4 DEF Unused, Idle
  <2>6. Idle(a)'
    BY <1>6, <1>7, <1>9, <2>4, <2>5 DEF Unused, Idle
  <2>7. DOMAIN queue'[a] = {}
    BY <1>3, <1>9, <2>4, <2>5 DEF Unused
  <2>8. \A x \in Owner : \A i \in DOMAIN queue'[x] : queue'[x][i].account # a
    <3> SUFFICES ASSUME NEW x \in Owner, NEW i \in DOMAIN queue'[x]
                 PROVE  queue'[x][i].account # a
      OBVIOUS
    <3>1. CASE \E j \in DOMAIN queue[x] : Alike(queue'[x][i], queue[x][j])
      BY <2>4, <3>1 DEF Unused, Alike
    <3>2. CASE \E k \in DOMAIN Follow(w) : queue'[x][i] = Follow(w)[k]
      BY <1>5, <2>5, <3>2
    <3> QED  BY <1>3, <3>1, <3>2
  <2> QED  BY <2>6, <2>7, <2>8 DEF Unused
<1>14. ASSUME NEW a \in Account, Creating(a)'
       PROVE  Undisturbed(a)'
  <2>1. Creating(a) /\ a # authUser /\ Undisturbed(a)
    BY <1>12, <1>14 DEF GoneInv
  <2>2. w.account = a => w.op \notin DocOp
    BY <1>2, <2>1 DEF Undisturbed
  <2>3. Missing(a)' /\ a \notin deletedUsers'
    BY <1>6, <2>1, <2>2 DEF Undisturbed, DocOp
  <2>4. SignedInAs(a)'
    BY <1>7, <2>1, <2>2 DEF Undisturbed, SignedInAs, DocOp
  <2>5. ASSUME NEW x \in Owner \ {a}, NEW i \in DOMAIN queue'[x], queue'[x][i].account = a
        PROVE  queue'[x][i].op \notin DocOp
    <3>1. CASE \E j \in DOMAIN queue[x] : Alike(queue'[x][i], queue[x][j])
      BY <2>1, <2>5, <3>1 DEF Undisturbed, Alike
    <3>2. CASE \E k \in DOMAIN Follow(w) : queue'[x][i] = Follow(w)[k]
      BY <1>5, <2>2, <2>5, <3>2
    <3> QED  BY <1>3, <3>1, <3>2
  <2> QED  BY <2>3, <2>4, <2>5 DEF Undisturbed
<1> QED  BY <1>10, <1>11, <1>13, <1>14 DEF GoneInv

LEMMA GoneInit == Init => GoneInv
<1> SUFFICES ASSUME Init PROVE GoneInv  OBVIOUS
<1>1. \A x \in Owner : DOMAIN queue[x] = {}
  BY DEF Init, Owner
<1>2. \A a \in Account : a \in Owner /\ a # Nobody
  BY AccountsConstantsAssumption DEF Owner
<1>3. \A a \in Account : Idle(a) /\ ~Creating(a)
  BY <1>1, <1>2 DEF Init, Idle, Creating
<1> QED  BY <1>1, <1>2, <1>3 DEF GoneInv, CopiedFirst, CreateHead, Unused

LEMMA GoneStep ==
    ASSUME TypeInv, GoneInv, [Next]_vars
    PROVE  GoneInv'
<1>1. TypeOK
  BY DEF TypeInv
<1> QED  BY <1>1, GoneDeliver, GoneDeny, GoneSignup, GoneSession, GoneProfile, GoneCarpools DEF Next

\* Only an answer changes the documents of the users.
LEMMA OnlyDeliver ==
    ASSUME Next, ~Deliver
    PROVE  UNCHANGED users
BY DEF Next, locationReported, signupNewUser, loginWith, logout, fetchCurrentUser, Relaunch,
       updateUserProfile, updateUserLocation, deleteUser, LoginDeleted, LoginNotDeleted,
       groupsRead, deleteDataOfDeletedAccount, Deny, carpoolMade, carpoolDeleted, backendVars

\* The document of a user goes only when its copy is safe, and does not come
\* back: a profile, a step of a location or a second deletion that was under way
\* finds nothing to write to, and no signup makes it again.
THEOREM GoneStaysGone == Spec => GoneForGood
<1>1. Spec => [](TypeInv /\ GoneInv)
  BY TypeInit, TypeStep, GoneInit, GoneStep, PTL DEF Spec
<1>2. TypeInv /\ GoneInv /\ [Next]_vars
      => [\A a \in Account :
             /\ ~Missing(a) /\ users'[a] = NoUser => a \in deletedUsers
             /\ Missing(a) /\ a \in deletedUsers => users'[a] = NoUser]_vars
  <2> SUFFICES ASSUME TypeInv, GoneInv, Next, NEW a \in Account
               PROVE  /\ ~Missing(a) /\ users'[a] = NoUser => a \in deletedUsers
                      /\ Missing(a) /\ a \in deletedUsers => users'[a] = NoUser
    OBVIOUS
  <2>1. CASE ~Deliver
    BY <2>1, OnlyDeliver DEF Missing
  <2>2. CASE Deliver
    <3> DEFINE w == Head(queue[authUser])
    <3>1. /\ Missing(a) /\ ~(w.account = a /\ w.op = "create") => Missing(a)'
          /\ Missing(a)' /\ ~(w.account = a /\ w.op = "remove") => Missing(a)
      BY <2>2, DeliverDocument
    <3>2. /\ authUser \in Owner /\ 1 \in DOMAIN queue[authUser] /\ w = queue[authUser][1]
      BY <2>2, DeliverEntries DEF TypeInv
    <3>3. w.op = "remove" => w.account \in deletedUsers
      BY <3>2 DEF GoneInv, CopiedFirst
    <3>4. w.op = "create" /\ w.account = a => Creating(a)
      BY <3>2 DEF GoneInv, CreateHead, Creating
    <3> QED  BY <3>1, <3>3, <3>4 DEF GoneInv, Undisturbed, Missing
  <2> QED  BY <2>1, <2>2
<1> QED  BY <1>1, <1>2, PTL DEF Spec, GoneForGood
-----------------------------------------------------------------------------
(* A location is saved in three writes.                                     *)

LocationAt(a, x, i) == queue[x][i].account = a /\ queue[x][i].op \in LocationOp

\* The write is one of the three, for the location that was saved, and the
\* document has got as far.
OnItsWay(a, w) ==
    /\ w.completes
    /\ w.op = "addFirst" => /\ ~Creating(a) /\ w.location = << meant[a][1] >>
                            /\ users[a] \in {NoUser, NoField}
    /\ w.op = "addSecond" => /\ ~Creating(a) /\ w.location = << meant[a][2] >>
                             /\ users[a] \in {NoUser, << meant[a][1] >>}

\* While a save is undisturbed there is one write of it.
OneSave(a) ==
    /\ Saving(a) => lastCurrentLocation \in {meant[a], << >>}
    /\ \A x \in Owner, z \in Owner : \A i \in DOMAIN queue[x], j \in DOMAIN queue[z] :
          LocationAt(a, x, i) /\ LocationAt(a, z, j) => x = z /\ i = j
    /\ \A x \in Owner : \A i \in DOMAIN queue[x] :
          LocationAt(a, x, i) => OnItsWay(a, queue[x][i])

\* Once there is none, the document has the location or will have it.
Saved(a) ==
    ~Saving(a) =>
        /\ Creating(a) => queue[a][1].location = meant[a]
        /\ ~Creating(a) => Missing(a) \/ users[a] = meant[a] \/ meant[a][1] = meant[a][2]

SaveInv == \A a \in Account : meant[a] # << >> => OneSave(a) /\ Saved(a)

LEMMA SavingAt ==
    ASSUME queue \in [Owner -> Seq(QueuedWrite)], NEW a
    PROVE  Saving(a) <=> \E x \in Owner : \E i \in DOMAIN queue[x] : LocationAt(a, x, i)
<1>1. DOMAIN queue = Owner
  OBVIOUS
<1> QED  BY <1>1 DEF Saving, Queued, LocationAt

LEMMA SavingAtNext ==
    ASSUME queue' \in [Owner -> Seq(QueuedWrite)], NEW a
    PROVE  Saving(a)' <=> \E x \in Owner : \E i \in DOMAIN queue'[x] : LocationAt(a, x, i)'
<1>1. DOMAIN queue' = Owner
  OBVIOUS
<1> QED  BY <1>1 DEF Saving, Queued, LocationAt

\* A step that does not touch the writes of a save, but for moving a queue up ...
Moved(a, d) ==
    /\ UNCHANGED meant[a]
    /\ lastCurrentLocation' \in {lastCurrentLocation, << >>}
    /\ Saving(a) => Saving(a)'
    /\ \A x \in Owner : \A i \in DOMAIN queue'[x] :
          LocationAt(a, x, i)' => /\ i + d[x] \in DOMAIN queue[x]
                                  /\ queue'[x][i] = queue[x][i + d[x]]

\* ... nor the document and its first write.
Undone(a, d) ==
    /\ Moved(a, d)
    /\ UNCHANGED users[a]
    /\ Creating(a)' <=> Creating(a)
    /\ Creating(a) => queue'[a][1].location = queue[a][1].location

LEMMA SaveMoved ==
    ASSUME TypeOK, queue' \in [Owner -> Seq(QueuedWrite)], NEW a \in Account,
           OneSave(a), NEW d \in [Owner -> {0, 1}], Moved(a, d)
    PROVE  /\ Saving(a)' <=> Saving(a)
           /\ \A x \in Owner : \A i \in DOMAIN queue'[x] :
                 LocationAt(a, x, i)' => OnItsWay(a, queue'[x][i])
           /\ (\A x \in Owner : \A i \in DOMAIN queue'[x] :
                  LocationAt(a, x, i)' => OnItsWay(a, queue[x][i])')
              => OneSave(a)'
<1>1. queue \in [Owner -> Seq(QueuedWrite)]
  BY DEF TypeOK, Owner
<1>2. \A x \in Owner : \A i \in DOMAIN queue'[x] : i \in Nat
  BY SeqElement
<1>3. \A x \in Owner : \A i \in DOMAIN queue'[x] :
         LocationAt(a, x, i)' => /\ i + d[x] \in DOMAIN queue[x]
                                 /\ queue'[x][i] = queue[x][i + d[x]]
                                 /\ LocationAt(a, x, i + d[x])
  BY DEF Moved, LocationAt
<1>4. Saving(a)' <=> Saving(a)
  BY <1>1, <1>3, SavingAt, SavingAtNext DEF Moved
<1>5. Saving(a)' => lastCurrentLocation' \in {meant'[a], << >>}
  BY <1>4 DEF Moved, OneSave
<1>6. ASSUME NEW x \in Owner, NEW z \in Owner, NEW i \in DOMAIN queue'[x], NEW j \in DOMAIN queue'[z],
             LocationAt(a, x, i)', LocationAt(a, z, j)'
      PROVE  x = z /\ i = j
  <2>1. /\ i + d[x] \in DOMAIN queue[x] /\ LocationAt(a, x, i + d[x])
        /\ j + d[z] \in DOMAIN queue[z] /\ LocationAt(a, z, j + d[z])
    BY <1>3, <1>6
  <2>2. x = z /\ i + d[x] = j + d[z]
    BY <2>1 DEF OneSave
  <2>3. i \in Nat /\ j \in Nat /\ d[x] \in {0, 1}
    BY <1>2
  <2> QED  BY <2>2, <2>3
<1>7. ASSUME NEW x \in Owner, NEW i \in DOMAIN queue'[x], LocationAt(a, x, i)'
      PROVE  OnItsWay(a, queue'[x][i])
  BY <1>3, <1>7 DEF OneSave
<1> QED  BY <1>4, <1>5, <1>6, <1>7 DEF OneSave

LEMMA SaveKept ==
    ASSUME TypeOK, queue' \in [Owner -> Seq(QueuedWrite)], NEW a \in Account,
           OneSave(a), Saved(a), NEW d \in [Owner -> {0, 1}], Undone(a, d)
    PROVE  OneSave(a)' /\ Saved(a)'
<1>1. Moved(a, d)
  BY DEF Undone
<1>2. /\ Saving(a)' <=> Saving(a)
      /\ \A x \in Owner : \A i \in DOMAIN queue'[x] :
            LocationAt(a, x, i)' => OnItsWay(a, queue'[x][i])
      /\ (\A x \in Owner : \A i \in DOMAIN queue'[x] :
             LocationAt(a, x, i)' => OnItsWay(a, queue[x][i])')
         => OneSave(a)'
  BY <1>1, SaveMoved
<1>3. /\ meant'[a] = meant[a] /\ users'[a] = users[a] /\ (Creating(a)' <=> Creating(a))
      /\ Creating(a) => queue'[a][1].location = queue[a][1].location
  BY DEF Undone, Moved
<1>4. OneSave(a)'
  BY <1>2, <1>3 DEF OnItsWay
<1>5. Saved(a)'
  BY <1>2, <1>3 DEF Saved, Missing
<1> QED  BY <1>4, <1>5

\* A step while no save of a is under way, and none begins.
LEMMA SaveIdle ==
    ASSUME queue' \in [Owner -> Seq(QueuedWrite)], NEW a \in Account, Saved(a),
           ~Saving(a), ~Saving(a)', meant'[a] = meant[a], users'[a] = users[a],
           Creating(a)' <=> Creating(a),
           Creating(a) => queue'[a][1].location = queue[a][1].location
    PROVE  OneSave(a)' /\ Saved(a)'
<1>1. \A x \in Owner : \A i \in DOMAIN queue'[x] : ~LocationAt(a, x, i)'
  BY SavingAtNext
<1>2. OneSave(a)'
  BY <1>1 DEF OneSave
<1>3. Saved(a)'
  BY DEF Saved, Missing
<1> QED  BY <1>2, <1>3

\* A step that adds writes of other kinds to the queues, if any.
AddsOther ==
    /\ \A x \in Owner : \A i \in DOMAIN queue'[x] :
          \/ i \in DOMAIN queue[x] /\ queue'[x][i] = queue[x][i]
          \/ queue'[x][i].op \notin LocationOp \cup {"create"}
    /\ \A x \in Owner : \A i \in DOMAIN queue[x] :
          i \in DOMAIN queue'[x] /\ queue'[x][i] = queue[x][i]

LEMMA SaveOther ==
    ASSUME TypeOK, queue' \in [Owner -> Seq(QueuedWrite)], SaveInv, AddsOther,
           UNCHANGED <<users, meant, lastCurrentLocation>>
    PROVE  SaveInv'
<1> DEFINE d == [x \in Owner |-> 0]
<1>1. d \in [Owner -> {0, 1}] /\ \A x \in Owner : d[x] = 0
  OBVIOUS
<1> HIDE DEF d
<1> SUFFICES ASSUME NEW a \in Account, meant'[a] # << >>
             PROVE  OneSave(a)' /\ Saved(a)'
  BY DEF SaveInv
<1>2. OneSave(a) /\ Saved(a) /\ meant[a] # << >> /\ a \in Owner
  BY DEF SaveInv, Owner
<1>3. queue \in [Owner -> Seq(QueuedWrite)] /\ \A x \in Owner : \A i \in DOMAIN queue'[x] : i \in Nat
  BY SeqElement DEF TypeOK, Owner
<1>4. \A x \in Owner : \A i \in DOMAIN queue'[x] :
         LocationAt(a, x, i)' => /\ i + d[x] \in DOMAIN queue[x]
                                 /\ queue'[x][i] = queue[x][i + d[x]]
  BY <1>1, <1>3 DEF AddsOther, LocationAt
<1>5. Saving(a) => Saving(a)'
  <2>1. \A x \in Owner : \A i \in DOMAIN queue[x] :
           LocationAt(a, x, i) => i \in DOMAIN queue'[x] /\ LocationAt(a, x, i)'
    BY DEF AddsOther, LocationAt
  <2> QED  BY <1>3, <2>1, SavingAt, SavingAtNext
<1>6. Creating(a)' <=> Creating(a)
  BY <1>2 DEF Creating, AddsOther
<1>7. Creating(a) => queue'[a][1].location = queue[a][1].location
  BY <1>2 DEF Creating, AddsOther
<1>8. Undone(a, d)
  BY <1>4, <1>5, <1>6, <1>7 DEF Undone, Moved
<1> QED  BY <1>1, <1>2, <1>8, SaveKept

LEMMA OtherNothing ==
    ASSUME queue' = queue
    PROVE  AddsOther
BY DEF AddsOther

LEMMA OtherOne ==
    ASSUME TypeOK, NEW op \in {"profile", "copy"}, AtWork,
           Enqueue(<< write(op, currentUser, << >>) >>)
    PROVE  AddsOther
<1> DEFINE v == write(op, currentUser, << >>)
<1>1. /\ authUser \in Owner /\ v \in QueuedWrite
      /\ queue' = [queue EXCEPT ![authUser] = @ \o << v >>]
  BY UserWrites DEF AtWork
<1>2. v.op \notin LocationOp \cup {"create"}
  BY DEF write, LocationOp
<1> HIDE DEF v
<1>3. /\ \A x \in Owner : \A i \in DOMAIN queue'[x] :
            \/ i \in DOMAIN queue[x] /\ queue'[x][i] = queue[x][i]
            \/ queue'[x][i] = v
      /\ \A x \in Owner : \A i \in DOMAIN queue[x] :
            i \in DOMAIN queue'[x] /\ queue'[x][i] = queue[x][i]
  BY <1>1, OneMore DEF Gained
<1> QED  BY <1>2, <1>3 DEF AddsOther

\* Operations that are not about the location.
LEMMA SaveQuiet ==
    ASSUME TypeInv, SaveInv, TypeInv',
           \/ \E b \in Account : loginWith(b) \/ fetchCurrentUser(b) \/ groupsRead(b)
           \/ logout \/ updateUserProfile \/ deleteUser
           \/ \E b \in deleting : LoginDeleted(b) \/ LoginNotDeleted(b)
           \/ \E b \in Account, c \in Carpool : deleteDataOfDeletedAccount(b, c)
           \/ \E c \in Carpool, doc \in CarpoolObject : carpoolMade(c, doc)
           \/ \E c \in Carpool : carpoolDeleted(c)
           \/ UNCHANGED vars
    PROVE  SaveInv'
<1>1. TypeOK /\ queue' \in [Owner -> Seq(QueuedWrite)]
  BY DEF TypeInv, TypeOK, Owner
<1>2. UNCHANGED <<users, meant, lastCurrentLocation>>
  BY DEF loginWith, fetchCurrentUser, groupsRead, logout, updateUserProfile, deleteUser,
         LoginDeleted, LoginNotDeleted, deleteDataOfDeletedAccount, carpoolMade, carpoolDeleted,
         backendVars, historyVars, phoneVars, vars
<1>3. CASE updateUserProfile
  BY <1>1, <1>2, <1>3, OtherOne, SaveOther DEF updateUserProfile
<1>4. CASE deleteUser
  BY <1>1, <1>2, <1>4, OtherOne, SaveOther DEF deleteUser
<1>5. ASSUME NEW b \in Account, NEW c \in Carpool, deleteDataOfDeletedAccount(b, c)
      PROVE  SaveInv'
  <2>1. /\ \A x \in Owner : \A i \in DOMAIN queue'[x] :
              \/ i \in DOMAIN queue[x] /\ queue'[x][i] = queue[x][i]
              \/ /\ x = authUser /\ i > Len(queue[x])
                 /\ queue'[x][i].account = b /\ queue'[x][i].carpool = c
                 /\ queue'[x][i].op \in {"deleteCarpool", "leaveCarpool"}
        /\ \A x \in Owner : \A i \in DOMAIN queue[x] :
              i \in DOMAIN queue'[x] /\ queue'[x][i] = queue[x][i]
    BY <1>1, <1>5, LeavingWrites
  <2>2. AddsOther
    BY <2>1 DEF AddsOther, LocationOp
  <2> QED  BY <1>1, <1>2, <2>2, SaveOther
<1>6. CASE queue' = queue
  BY <1>1, <1>2, <1>6, OtherNothing, SaveOther
<1> QED  BY <1>3, <1>4, <1>5, <1>6
         DEF loginWith, fetchCurrentUser, groupsRead, logout, LoginDeleted, LoginNotDeleted,
             carpoolMade, carpoolDeleted, phoneVars, vars

LEMMA SaveReported ==
    ASSUME TypeInv, SaveInv, NEW l \in Location, locationReported(l)
    PROVE  SaveInv'
<1>1. /\ queue' = queue /\ users' = users
      /\ meant' = [a \in Account |-> IF Saving(a) THEN << >> ELSE meant[a]]
  BY DEF locationReported, backendVars
<1>2. queue' \in [Owner -> Seq(QueuedWrite)]
  BY <1>1 DEF TypeInv, TypeOK, Owner
<1> SUFFICES ASSUME NEW a \in Account, meant'[a] # << >>
             PROVE  OneSave(a)' /\ Saved(a)'
  BY DEF SaveInv
<1>3. ~Saving(a) /\ meant'[a] = meant[a] /\ Saved(a)
  BY <1>1 DEF SaveInv
<1>4. ~Saving(a)' /\ (Creating(a)' <=> Creating(a))
  BY <1>1, <1>3 DEF Saving, Queued, Creating
<1> QED  BY <1>1, <1>2, <1>3, <1>4, SaveIdle

LEMMA SaveRelaunch ==
    ASSUME TypeInv, SaveInv, Relaunch
    PROVE  SaveInv'
<1>1. /\ queue' \in [Owner -> Seq(QueuedWrite)]
      /\ \A x \in Owner : /\ DOMAIN queue'[x] = DOMAIN queue[x]
                          /\ \A i \in DOMAIN queue[x] : Alike(queue'[x][i], queue[x][i])
  BY RelaunchEntries DEF TypeInv
<1>2. users' = users /\ meant' = [a \in Account |-> IF Saving(a) THEN << >> ELSE meant[a]]
  BY DEF Relaunch, Restarts, backendVars
<1>3. queue \in [Owner -> Seq(QueuedWrite)]
  BY DEF TypeInv, TypeOK, Owner
<1> SUFFICES ASSUME NEW a \in Account, meant'[a] # << >>
             PROVE  OneSave(a)' /\ Saved(a)'
  BY DEF SaveInv
<1>4. ~Saving(a) /\ meant'[a] = meant[a] /\ Saved(a) /\ a \in Owner
  BY <1>2 DEF SaveInv, Owner
<1>5. \A x \in Owner : \A i \in DOMAIN queue'[x] : LocationAt(a, x, i)' => LocationAt(a, x, i)
  BY <1>1 DEF LocationAt, Alike
<1>6. ~Saving(a)'
  BY <1>1, <1>3, <1>4, <1>5, SavingAt, SavingAtNext
<1>7. /\ Creating(a)' <=> Creating(a)
      /\ Creating(a) => queue'[a][1].location = queue[a][1].location
  BY <1>1, <1>4 DEF Creating, Alike
<1> QED  BY <1>1, <1>2, <1>4, <1>6, <1>7, SaveIdle

\* The location a signup stores is the one that was reported last.
LEMMA SaveSignup ==
    ASSUME TypeInv, GoneInv, SaveInv, TypeInv', NEW b \in Account, signupNewUser(b)
    PROVE  SaveInv'
<1> DEFINE v == write("create", b, lastCurrentLocation)
           d == [x \in Owner |-> 0]
<1>1. /\ users' = users /\ lastCurrentLocation' = << >>
      /\ meant' = [meant EXCEPT ![b] = lastCurrentLocation]
      /\ Missing(b) /\ b \notin deletedUsers /\ ~Queued(b, {"create"})
  BY DEF signupNewUser
<1>2. TypeOK /\ queue' \in [Owner -> Seq(QueuedWrite)] /\ queue \in [Owner -> Seq(QueuedWrite)]
  BY DEF TypeInv, TypeOK, Owner
<1>3. /\ b \in Owner /\ v \in QueuedWrite
      /\ queue' = [queue EXCEPT ![b] = @ \o << v >>]
  BY <1>2, SignupWrites
<1>4. v.op = "create" /\ v.account = b /\ v.location = lastCurrentLocation
  BY DEF write
<1>5. d \in [Owner -> {0, 1}] /\ \A x \in Owner : d[x] = 0
  OBVIOUS
<1> HIDE DEF v, d
<1>6. Unused(b)
  <2>1. ~Creating(b)
    BY <1>1, <1>2, <1>3 DEF Creating, Queued
  <2> QED  BY <1>1, <2>1 DEF Fresh, GoneInv
<1>7. /\ \A x \in Owner : \A i \in DOMAIN queue'[x] :
            \/ i \in DOMAIN queue[x] /\ queue'[x][i] = queue[x][i]
            \/ x = b /\ queue'[x][i] = v
      /\ \A x \in Owner : \A i \in DOMAIN queue[x] :
            i \in DOMAIN queue'[x] /\ queue'[x][i] = queue[x][i]
  BY <1>2, <1>3, OneMore DEF Gained
<1>8. \A x \in Owner : \A i \in DOMAIN queue'[x] : i \in Nat
  BY <1>2, SeqElement
<1>9. OneSave(b)' /\ Saved(b)'
  <2>1. \A x \in Owner : \A i \in DOMAIN queue'[x] : ~LocationAt(b, x, i)'
    BY <1>4, <1>6, <1>7 DEF Unused, LocationAt, LocationOp
  <2>2. ~Saving(b)'
    BY <1>2, <2>1, SavingAtNext
  <2>3. meant'[b] = lastCurrentLocation
    BY <1>1, <1>2 DEF TypeOK
  <2>4. Creating(b)' => queue'[b][1] = v
    BY <1>3, <1>6, <1>7 DEF Creating, Unused
  <2>5. Creating(b)'
    <3>1. TypeOK /\ signupNewUser(b)
      BY <1>2
    <3>2. 1 \in DOMAIN queue'[b]
      <4>1. \E i \in DOMAIN queue'[b] : queue'[b][i] = v
        BY <1>2, <1>3, OneMore DEF Gained
      <4>2. Len(queue'[b]) \in Nat /\ DOMAIN queue'[b] = 1 .. Len(queue'[b])
        BY <1>2, <1>3, SeqElement
      <4> QED  BY <4>1, <4>2
    <3> QED  BY <1>3, <1>4, <1>6, <1>7, <3>2 DEF Creating, Unused
  <2> QED  BY <1>4, <2>1, <2>2, <2>3, <2>4, <2>5 DEF OneSave, Saved
<1>10. ASSUME NEW a \in Account \ {b}, meant'[a] # << >>
       PROVE  OneSave(a)' /\ Saved(a)'
  <2>1. meant'[a] = meant[a] /\ a \in Owner
    BY <1>1, <1>2 DEF TypeOK, Owner
  <2>2. OneSave(a) /\ Saved(a)
    BY <1>10, <2>1 DEF SaveInv
  <2>3. \A x \in Owner : \A i \in DOMAIN queue'[x] :
           LocationAt(a, x, i)' => /\ i + d[x] \in DOMAIN queue[x]
                                   /\ queue'[x][i] = queue[x][i + d[x]]
    BY <1>4, <1>5, <1>7, <1>8 DEF LocationAt
  <2>4. Saving(a) => Saving(a)'
    <3>1. \A x \in Owner : \A i \in DOMAIN queue[x] :
             LocationAt(a, x, i) => i \in DOMAIN queue'[x] /\ LocationAt(a, x, i)'
      BY <1>7 DEF LocationAt
    <3> QED  BY <1>2, <3>1, SavingAt, SavingAtNext
  <2>5. /\ Creating(a)' <=> Creating(a)
        /\ Creating(a) => queue'[a][1].location = queue[a][1].location
    BY <1>7, <2>1 DEF Creating
  <2>6. Undone(a, d)
    BY <1>1, <2>1, <2>3, <2>4, <2>5 DEF Undone, Moved
  <2> QED  BY <1>2, <1>5, <1>10, <2>1, <2>2, <2>6, SaveKept
<1> QED  BY <1>9, <1>10 DEF SaveInv

\* A save begins with one write.
LEMMA SaveBegins ==
    ASSUME TypeInv, SaveInv, TypeInv', updateUserLocation
    PROVE  SaveInv'
<1>0. PICK b \in Account, y \in Owner : b = currentUser /\ y = authUser
  BY DEF updateUserLocation, AtWork, TypeInv, TypeOK, Owner
<1> DEFINE v == write("clear", b, << >>)
           d == [x \in Owner |-> 0]
<1>1. /\ users' = users /\ lastCurrentLocation' = lastCurrentLocation
      /\ meant' = [meant EXCEPT ![b] = IF Saving(b) THEN << >> ELSE lastCurrentLocation]
      /\ AtWork /\ Enqueue(<< v >>)
  BY <1>0 DEF updateUserLocation, backendVars
<1>2. TypeOK /\ queue' \in [Owner -> Seq(QueuedWrite)] /\ queue \in [Owner -> Seq(QueuedWrite)]
  BY DEF TypeInv, TypeOK, Owner
<1>3. /\ b \in Account /\ y \in Owner /\ v \in QueuedWrite
      /\ queue' = [queue EXCEPT ![y] = @ \o << v >>]
  BY <1>0, <1>1, <1>2, UserWrites DEF AtWork
<1>4. v.op = "clear" /\ v.account = b /\ v.completes
  BY DEF write
<1>5. d \in [Owner -> {0, 1}] /\ \A x \in Owner : d[x] = 0
  OBVIOUS
<1> HIDE DEF v, d
<1>6. /\ \A x \in Owner : \A i \in DOMAIN queue'[x] :
            \/ i \in DOMAIN queue[x] /\ queue'[x][i] = queue[x][i]
            \/ x = y /\ i > Len(queue[x]) /\ queue'[x][i] = v
      /\ \A x \in Owner : \A i \in DOMAIN queue[x] :
            i \in DOMAIN queue'[x] /\ queue'[x][i] = queue[x][i]
      /\ \E i \in DOMAIN queue'[y] : queue'[y][i] = v
  <2>1. Gained(y, v)
    BY <1>2, <1>3, OneMore
  <2> QED  BY <2>1 DEF Gained
<1>7. \A x \in Owner : \A i \in DOMAIN queue'[x] : i \in Nat
  BY <1>2, SeqElement
<1>8. \A i \in DOMAIN queue'[y] : i <= Len(queue[y]) + 1
  <2>1. queue[y] \in Seq(QueuedWrite) /\ << v >> \in Seq(QueuedWrite) /\ Len(<< v >>) = 1
    BY <1>2, <1>3
  <2>2. queue'[y] = queue[y] \o << v >>
    BY <1>2, <1>3
  <2>3. Len(queue'[y]) = Len(queue[y]) + 1
    BY <2>1, <2>2, ConcatElement
  <2>4. DOMAIN queue'[y] = 1 .. Len(queue'[y]) /\ Len(queue[y]) \in Nat
    BY <1>2, <1>3, SeqElement
  <2> QED  BY <2>3, <2>4
<1>9. ASSUME meant'[b] # << >>
      PROVE  OneSave(b)' /\ Saved(b)'
  <2>1. ~Saving(b) /\ meant'[b] = lastCurrentLocation
    BY <1>1, <1>2, <1>3, <1>9 DEF TypeOK
  <2>2. \A x \in Owner : \A i \in DOMAIN queue[x] : ~LocationAt(b, x, i)
    BY <1>2, <2>1, SavingAt
  <2>3. \A x \in Owner : \A i \in DOMAIN queue'[x] :
           LocationAt(b, x, i)' => /\ x = y /\ i > Len(queue[y])
                                   /\ queue'[x][i] = v
    BY <1>6, <2>2 DEF LocationAt
  <2>4. ASSUME NEW x \in Owner, NEW z \in Owner, NEW i \in DOMAIN queue'[x],
               NEW j \in DOMAIN queue'[z], LocationAt(b, x, i)', LocationAt(b, z, j)'
        PROVE  x = z /\ i = j
    <3>1. x = y /\ z = y /\ i > Len(queue[y]) /\ j > Len(queue[y])
      BY <2>3, <2>4
    <3>2. i <= Len(queue[y]) + 1 /\ j <= Len(queue[y]) + 1
      BY <1>8, <2>4, <3>1
    <3>3. i \in Nat /\ j \in Nat /\ Len(queue[y]) \in Nat
      BY <1>2, <1>3, <1>7, <2>4, SeqElement
    <3> QED  BY <3>1, <3>2, <3>3
  <2>5. \A x \in Owner : \A i \in DOMAIN queue'[x] : LocationAt(b, x, i)' => OnItsWay(b, queue[x][i])'
    BY <1>4, <2>3 DEF OnItsWay
  <2>6. Saving(b)'
    <3>1. PICK i \in DOMAIN queue'[y] : queue'[y][i] = v
      BY <1>6
    <3>2. LocationAt(b, y, i)'
      <4>1. queue'[y][i].account = b /\ queue'[y][i].op \in LocationOp
        BY <1>4, <3>1 DEF LocationOp
      <4> QED  BY <4>1 DEF LocationAt
    <3> QED  BY <1>2, <1>3, <3>2, SavingAtNext DEF LocationAt
  <2> QED  BY <1>1, <2>1, <2>4, <2>5, <2>6 DEF OneSave, Saved
<1>10. ASSUME NEW a \in Account \ {b}, meant'[a] # << >>
       PROVE  OneSave(a)' /\ Saved(a)'
  <2>1. meant'[a] = meant[a] /\ a \in Owner
    BY <1>1, <1>2 DEF TypeOK, Owner
  <2>2. OneSave(a) /\ Saved(a)
    BY <1>10, <2>1 DEF SaveInv
  <2>3. \A x \in Owner : \A i \in DOMAIN queue'[x] :
           LocationAt(a, x, i)' => /\ i + d[x] \in DOMAIN queue[x]
                                   /\ queue'[x][i] = queue[x][i + d[x]]
    BY <1>4, <1>5, <1>6, <1>7 DEF LocationAt
  <2>4. Saving(a) => Saving(a)'
    <3>1. \A x \in Owner : \A i \in DOMAIN queue[x] :
             LocationAt(a, x, i) => i \in DOMAIN queue'[x] /\ LocationAt(a, x, i)'
      BY <1>6 DEF LocationAt
    <3> QED  BY <1>2, <3>1, SavingAt, SavingAtNext
  <2>5. /\ Creating(a)' <=> Creating(a)
        /\ Creating(a) => queue'[a][1].location = queue[a][1].location
    BY <1>4, <1>6, <2>1 DEF Creating
  <2>6. Undone(a, d)
    BY <1>1, <2>1, <2>3, <2>4, <2>5 DEF Undone, Moved
  <2> QED  BY <1>2, <1>5, <1>10, <2>1, <2>2, <2>6, SaveKept
<1>11. ASSUME NEW a \in Account, meant'[a] # << >>
       PROVE  OneSave(a)' /\ Saved(a)'
  <2>1. CASE a # b
    BY <1>10, <1>11, <2>1
  <2>2. CASE a = b
    BY <1>9, <1>11, <2>2
  <2> QED  BY <2>1, <2>2
<1> QED  BY <1>11 DEF SaveInv

\* A denied write is given up: only the saves of other accounts go on.
LEMMA SaveDeny ==
    ASSUME TypeInv, SaveInv, TypeInv', Deny
    PROVE  SaveInv'
<1> DEFINE h == Head(queue[Nobody])
           d == [x \in Owner |-> IF x = Nobody THEN 1 ELSE 0]
<1>1. /\ users' = users /\ lastCurrentLocation' = lastCurrentLocation
      /\ meant' = [meant EXCEPT ![h.account] = << >>]
  BY DEF Deny, backendVars
<1>2. TypeOK /\ queue' \in [Owner -> Seq(QueuedWrite)] /\ queue \in [Owner -> Seq(QueuedWrite)]
  BY DEF TypeInv, TypeOK, Owner
<1>3. /\ 1 \in DOMAIN queue[Nobody] /\ h = queue[Nobody][1] /\ h \in QueuedWrite
      /\ \A x \in Owner : \A i \in DOMAIN queue'[x] :
            \/ x # Nobody /\ i \in DOMAIN queue[x] /\ queue'[x][i] = queue[x][i]
            \/ x = Nobody /\ i + 1 \in DOMAIN queue[x] /\ queue'[x][i] = queue[x][i + 1]
      /\ \A x \in Owner \ {Nobody} : \A i \in DOMAIN queue[x] :
            i \in DOMAIN queue'[x] /\ queue'[x][i] = queue[x][i]
      /\ \A i \in DOMAIN queue[Nobody] \ {1} :
            i - 1 \in DOMAIN queue'[Nobody] /\ queue'[Nobody][i - 1] = queue[Nobody][i]
  BY <1>2, DenyEntries
<1>4. /\ d \in [Owner -> {0, 1}]
      /\ \A x \in Owner : d[x] = IF x = Nobody THEN 1 ELSE 0
  OBVIOUS
<1> HIDE DEF h, d
<1>5. \A x \in Owner : \A i \in DOMAIN queue'[x] : i \in Nat
  BY <1>2, SeqElement
<1> SUFFICES ASSUME NEW a \in Account, meant'[a] # << >>
             PROVE  OneSave(a)' /\ Saved(a)'
  BY DEF SaveInv
<1>6. meant'[a] = meant[a] /\ a # h.account
  BY <1>1, <1>2 DEF TypeOK
<1>7. OneSave(a) /\ Saved(a) /\ a \in Owner /\ a # Nobody
  BY <1>6, AccountsConstantsAssumption DEF SaveInv, Owner
<1>8. \A x \in Owner : \A i \in DOMAIN queue'[x] :
         LocationAt(a, x, i)' => /\ i + d[x] \in DOMAIN queue[x]
                                 /\ queue'[x][i] = queue[x][i + d[x]]
  <2> SUFFICES ASSUME NEW x \in Owner, NEW i \in DOMAIN queue'[x]
               PROVE  i + d[x] \in DOMAIN queue[x] /\ queue'[x][i] = queue[x][i + d[x]]
    OBVIOUS
  <2>1. CASE x = Nobody
    BY <1>3, <1>4, <2>1
  <2>2. CASE x # Nobody
    <3>1. d[x] = 0 /\ i + 0 = i
      BY <1>4, <1>5, <2>2
    <3> QED  BY <1>3, <2>2, <3>1
  <2> QED  BY <2>1, <2>2
<1>9. Saving(a) => Saving(a)'
  <2> SUFFICES ASSUME NEW x \in Owner, NEW i \in DOMAIN queue[x], LocationAt(a, x, i)
               PROVE  \E j \in DOMAIN queue'[x] : LocationAt(a, x, j)'
    BY <1>2, SavingAt, SavingAtNext
  <2>1. CASE x # Nobody
    BY <1>3, <2>1 DEF LocationAt
  <2>2. CASE x = Nobody
    <3>1. i # 1
      BY <1>3, <1>6, <2>2 DEF LocationAt
    <3>2. i - 1 \in DOMAIN queue'[x] /\ queue'[x][i - 1] = queue[x][i]
      BY <1>3, <2>2, <3>1
    <3> QED  BY <3>2 DEF LocationAt
  <2> QED  BY <2>1, <2>2
<1>10. /\ Creating(a)' <=> Creating(a)
       /\ Creating(a) => queue'[a][1].location = queue[a][1].location
  BY <1>3, <1>7 DEF Creating
<1>11. Undone(a, d)
  BY <1>1, <1>6, <1>8, <1>9, <1>10 DEF Undone, Moved
<1> QED  BY <1>2, <1>4, <1>6, <1>7, <1>11, SaveKept

\* What is queued by an answer is last in the queue, and it is there.
LEMMA FollowPlace ==
    ASSUME TypeOK, Deliver, ~Stops(Head(queue[authUser]))
    PROVE  /\ \A i \in DOMAIN queue'[authUser] : i <= Len(queue[authUser])
           /\ \A k \in DOMAIN Follow(Head(queue[authUser])) :
                 \E i \in DOMAIN queue'[authUser] :
                    queue'[authUser][i] = Follow(Head(queue[authUser]))[k]
<1> DEFINE w == Head(queue[authUser])
           f == Follow(w)
           s == queue[authUser]
<1>1. authUser \in Owner /\ w \in QueuedWrite /\ queue' = [queue EXCEPT ![authUser] = Tail(s) \o f]
  BY DeliverEntries, DeliverForm
<1>2. queue \in [Owner -> Seq(QueuedWrite)] /\ s \in Seq(QueuedWrite) /\ s # << >>
  BY <1>1 DEF TypeOK, Owner, Deliver
<1>3. f \in Seq(QueuedWrite) /\ Len(f) \in Nat /\ Len(f) <= 1
  <2>1. f \in Seq(QueuedWrite)
    BY <1>1, FollowForm
  <2>2. f = << >> \/ \E v : f = << v >>
    BY DEF Follow
  <2> HIDE DEF f
  <2>3. PICK m : m = Len(f)
    OBVIOUS
  <2>4. m = 0 \/ m = 1
    BY <2>1, <2>2, <2>3
  <2>5. m \in Nat /\ m <= 1
    BY <2>4
  <2> QED  BY <2>1, <2>3, <2>5
<1>4. queue'[authUser] = Tail(s) \o f
  BY <1>1, <1>2
<1> HIDE DEF w, f, s
<1>5. Len(s) \in Nat /\ Tail(s) \in Seq(QueuedWrite) /\ Len(Tail(s)) = Len(s) - 1
  BY <1>2, TailElement, SeqElement
<1>6. /\ Tail(s) \o f \in Seq(QueuedWrite) /\ Len(Tail(s) \o f) = Len(Tail(s)) + Len(f)
      /\ \A j \in DOMAIN f : /\ Len(Tail(s)) + j \in DOMAIN (Tail(s) \o f)
                             /\ (Tail(s) \o f)[Len(Tail(s)) + j] = f[j]
  BY <1>3, <1>5, ConcatElement
<1>7. DOMAIN (Tail(s) \o f) = 1 .. Len(Tail(s) \o f)
  BY <1>6, SeqElement
<1>8. \A i \in DOMAIN (Tail(s) \o f) : i <= Len(s)
  <2>1. PICK n : n = Len(Tail(s) \o f)
    OBVIOUS
  <2>2. n = Len(s) - 1 + Len(f)
    BY <1>5, <1>6, <2>1
  <2>3. n \in Int /\ n <= Len(s)
    BY <1>3, <1>5, <2>2
  <2>4. DOMAIN (Tail(s) \o f) = 1 .. n
    BY <1>7, <2>1
  <2> QED  BY <1>5, <2>3, <2>4
<1> QED  BY <1>4, <1>6, <1>8 DEF w, f, s

\* A write about the document of a that is answered found the document made.
LEMMA DeliverMade ==
    ASSUME TypeInv, GoneInv, Deliver, NEW a \in Account,
           Head(queue[authUser]).account = a,
           Head(queue[authUser]).op \in DocOp \ {"create"}
    PROVE  ~Creating(a)
<1>1. /\ authUser \in Owner /\ 1 \in DOMAIN queue[authUser]
      /\ Head(queue[authUser]) = queue[authUser][1]
  BY DeliverEntries DEF TypeInv
<1>2. ASSUME Creating(a) PROVE FALSE
  <2>1. Undisturbed(a)
    BY <1>2 DEF GoneInv
  <2>2. a = authUser
    BY <1>1, <2>1 DEF Undisturbed
  <2> QED  BY <1>1, <1>2, <2>2 DEF Creating
<1> QED  BY <1>2

\* The app stops: the saves that were under way are given up, the others done.
LEMMA SaveStops ==
    ASSUME TypeInv, GoneInv, SaveInv, TypeInv', Deliver, Stops(Head(queue[authUser])),
           NEW a \in Account, meant'[a] # << >>
    PROVE  OneSave(a)' /\ Saved(a)'
<1> DEFINE w == Head(queue[authUser])
<1>1. /\ TypeOK /\ queue' \in [Owner -> Seq(QueuedWrite)] /\ queue \in [Owner -> Seq(QueuedWrite)]
  BY DEF TypeInv, TypeOK, Owner
<1>2. meant' = [b \in Account |-> IF Saving(b) THEN << >> ELSE meant[b]]
  BY <1>1, DeliverForm DEF Restarts
<1>3. /\ authUser \in Owner /\ 1 \in DOMAIN queue[authUser] /\ w = queue[authUser][1]
      /\ w.op \in {"clear", "addFirst"} /\ Follow(w) = << >>
  BY <1>1, DeliverEntries DEF Stops, Follow
<1>4. ~Saving(a) /\ meant'[a] = meant[a] /\ Saved(a) /\ a \in Owner
  BY <1>2 DEF SaveInv, Owner
<1>5. w.account # a
  BY <1>1, <1>3, <1>4, SavingAt DEF LocationAt, LocationOp
<1>6. users'[a] = users[a]
  BY <1>5, DeliverDocument
<1>7. ~Saving(a)'
  <2>1. \A x \in Owner : \A i \in DOMAIN queue'[x] :
           \E j \in DOMAIN queue[x] : Alike(queue'[x][i], queue[x][j])
    <3>1. \A x \in Owner : \A i \in DOMAIN queue'[x] :
             \/ i \in DOMAIN queue[x] /\ Alike(queue'[x][i], queue[x][i])
             \/ i + 1 \in DOMAIN queue[x] /\ Alike(queue'[x][i], queue[x][i + 1])
             \/ \E k \in DOMAIN Follow(w) : queue'[x][i] = Follow(w)[k]
      BY <1>1, DeliverEntries
    <3>2. DOMAIN Follow(w) = {}
      BY <1>3
    <3> QED  BY <3>1, <3>2
  <2>2. \A x \in Owner : \A j \in DOMAIN queue[x] : ~LocationAt(a, x, j)
    BY <1>1, <1>4, SavingAt
  <2>3. \A x \in Owner : \A i \in DOMAIN queue'[x] : ~LocationAt(a, x, i)'
    BY <2>1, <2>2 DEF LocationAt, Alike
  <2> QED  BY <1>1, <2>3, SavingAtNext
<1>8. /\ Creating(a)' <=> Creating(a)
      /\ Creating(a)' => queue'[a][1].location = queue[a][1].location
  BY <1>3, <1>5, DeliverCreating DEF GoneInv
<1> QED  BY <1>1, <1>4, <1>6, <1>7, <1>8, SaveIdle

\* An answer to another write.
LEMMA SavePasses ==
    ASSUME TypeInv, GoneInv, SaveInv, TypeInv', Deliver, ~Stops(Head(queue[authUser])),
           NEW a \in Account, meant'[a] # << >>,
           ~(Head(queue[authUser]).account = a /\ Head(queue[authUser]).op \in LocationOp)
    PROVE  OneSave(a)' /\ Saved(a)'
<1>0. PICK y \in Owner, w \in QueuedWrite : y = authUser /\ w = Head(queue[authUser])
  BY DeliverEntries DEF TypeInv
<1> DEFINE d == [x \in Owner |-> IF x = y THEN 1 ELSE 0]
<1>1. TypeOK /\ queue' \in [Owner -> Seq(QueuedWrite)] /\ queue \in [Owner -> Seq(QueuedWrite)]
  BY DEF TypeInv, TypeOK, Owner
<1>2. lastCurrentLocation' = lastCurrentLocation /\ meant' = meant
  BY <1>1, DeliverForm
<1>3. /\ 1 \in DOMAIN queue[y] /\ w = queue[y][1]
      /\ \A x \in Owner \ {y} : \A i \in DOMAIN queue[x] :
            i \in DOMAIN queue'[x] /\ Alike(queue'[x][i], queue[x][i])
      /\ \A i \in DOMAIN queue[y] \ {1} :
            i - 1 \in DOMAIN queue'[y] /\ Alike(queue'[y][i - 1], queue[y][i])
  BY <1>0, <1>1, DeliverEntries
<1>4. \A x \in Owner : \A i \in DOMAIN queue'[x] :
         \/ x # y /\ i \in DOMAIN queue[x] /\ queue'[x][i] = queue[x][i]
         \/ x = y /\ i + 1 \in DOMAIN queue[x] /\ queue'[x][i] = queue[x][i + 1]
         \/ \E k \in DOMAIN Follow(w) : queue'[x][i] = Follow(w)[k]
  <2>1. \A x \in Owner : \A i \in DOMAIN queue'[x] :
           \/ /\ x # authUser /\ i \in DOMAIN queue[x]
              /\ Alike(queue'[x][i], queue[x][i])
              /\ ~Stops(Head(queue[authUser])) => queue'[x][i] = queue[x][i]
           \/ /\ x = authUser /\ i + 1 \in DOMAIN queue[x]
              /\ Alike(queue'[x][i], queue[x][i + 1])
              /\ ~Stops(Head(queue[authUser])) => queue'[x][i] = queue[x][i + 1]
           \/ x = authUser /\ \E k \in DOMAIN Follow(Head(queue[authUser])) :
                 queue'[x][i] = Follow(Head(queue[authUser]))[k]
    BY <1>1, DeliverEntries
  <2> QED  BY <1>0, <2>1
<1>5. \A k \in DOMAIN Follow(w) :
         ~(Follow(w)[k].account = a /\ Follow(w)[k].op \in LocationOp)
  <2>1. ~(w.account = a /\ w.op \in LocationOp)
    BY <1>0
  <2>2. \A k \in DOMAIN Follow(w) :
           /\ Follow(w)[k].account = w.account
           /\ w.op = "clear" \/ w.op = "addFirst" \/ Follow(w)[k].op = "remove"
    BY <1>1, FollowForm
  <2> QED  BY <2>1, <2>2 DEF LocationOp
<1>6. /\ d \in [Owner -> {0, 1}]
      /\ \A x \in Owner : d[x] = IF x = y THEN 1 ELSE 0
  OBVIOUS
<1> HIDE DEF d
<1>7. OneSave(a) /\ Saved(a) /\ a \in Owner
  BY <1>2 DEF SaveInv, Owner
<1>8. \A x \in Owner : \A i \in DOMAIN queue'[x] :
         LocationAt(a, x, i)' => /\ i + d[x] \in DOMAIN queue[x]
                                 /\ queue'[x][i] = queue[x][i + d[x]]
  <2> SUFFICES ASSUME NEW x \in Owner, NEW i \in DOMAIN queue'[x], LocationAt(a, x, i)'
               PROVE  i + d[x] \in DOMAIN queue[x] /\ queue'[x][i] = queue[x][i + d[x]]
    OBVIOUS
  <2>1. ~\E k \in DOMAIN Follow(w) : queue'[x][i] = Follow(w)[k]
    BY <1>5 DEF LocationAt
  <2>2. CASE x = y
    BY <1>4, <1>6, <2>1, <2>2
  <2>3. CASE x # y
    <3>1. d[x] = 0 /\ i + 0 = i
      BY <1>1, <1>6, <2>3, SeqElement
    <3> QED  BY <1>4, <2>1, <2>3, <3>1
  <2> QED  BY <2>2, <2>3
<1>9. Saving(a) => Saving(a)'
  <2> SUFFICES ASSUME NEW x \in Owner, NEW i \in DOMAIN queue[x], LocationAt(a, x, i)
               PROVE  \E j \in DOMAIN queue'[x] : LocationAt(a, x, j)'
    BY <1>1, SavingAt, SavingAtNext
  <2>1. CASE x # y
    BY <1>3, <2>1 DEF LocationAt, Alike
  <2>2. CASE x = y
    <3>1. i # 1
      BY <1>0, <1>3, <2>2 DEF LocationAt
    <3>2. i - 1 \in DOMAIN queue'[x] /\ Alike(queue'[x][i - 1], queue[x][i])
      BY <1>3, <2>2, <3>1
    <3> QED  BY <3>2 DEF LocationAt, Alike
  <2> QED  BY <2>1, <2>2
<1>10. Moved(a, d)
  BY <1>2, <1>8, <1>9 DEF Moved
<1>11. /\ Creating(a)' <=> Creating(a) /\ a # y
       /\ Creating(a) /\ a = y => w.op = "create" /\ w.account = a
       /\ Creating(a)' => queue'[a][1].location = queue[a][1].location
  BY <1>0, DeliverCreating DEF GoneInv
<1>12. /\ w.account # a => users'[a] = users[a]
       /\ w.account = a => users'[a] = ApplyToUser(users[a], w)
  <2>1. /\ Head(queue[authUser]).account # a => users'[a] = users[a]
        /\ users'[Head(queue[authUser]).account] =
              ApplyToUser(users[Head(queue[authUser]).account], Head(queue[authUser]))
    BY DeliverDocument
  <2> QED  BY <1>0, <2>1
<1>13. CASE ~(w.account = a /\ w.op \in {"create", "remove"})
  <2>1. users'[a] = users[a]
    <3>1. CASE w.account = a
      <4>1. w.op \notin LocationOp \cup {"create", "remove"}
        BY <1>0, <1>13, <3>1
      <4> QED  BY <1>12, <3>1, <4>1 DEF ApplyToUser, LocationOp
    <3> QED  BY <1>12, <3>1
  <2>2. Creating(a)' <=> Creating(a)
    BY <1>11, <1>13
  <2>3. Undone(a, d)
    BY <1>10, <1>11, <2>1, <2>2 DEF Undone
  <2> QED  BY <1>1, <1>6, <1>7, <2>3, SaveKept
<1>14. /\ Saving(a)' <=> Saving(a)
       /\ \A x \in Owner : \A i \in DOMAIN queue'[x] :
             LocationAt(a, x, i)' => OnItsWay(a, queue'[x][i])
       /\ (\A x \in Owner : \A i \in DOMAIN queue'[x] :
              LocationAt(a, x, i)' => OnItsWay(a, queue[x][i])')
          => OneSave(a)'
  BY <1>1, <1>6, <1>7, <1>10, SaveMoved
<1>15. CASE w.account = a /\ w.op = "create"
  <2>1. Creating(a) /\ ~Creating(a)' /\ queue[a][1] = w
    BY <1>0, <1>3, <1>11, <1>15 DEF GoneInv, CreateHead, Creating
  <2>2. OneSave(a)'
    BY <1>14, <2>1 DEF OnItsWay
  <2>3. users'[a] = w.location
    BY <1>12, <1>15 DEF ApplyToUser
  <2>4. Saved(a)'
    BY <1>2, <1>7, <1>14, <2>1, <2>3 DEF Saved
  <2> QED  BY <2>2, <2>4
<1>16. CASE w.account = a /\ w.op = "remove"
  <2>1. users'[a] = NoUser
    BY <1>12, <1>16 DEF ApplyToUser
  <2>2. ~Creating(a)'
    BY <1>0, <1>11, <1>16, DeliverMade DEF DocOp
  <2>3. OneSave(a)'
    BY <1>2, <1>14, <2>1, <2>2 DEF OnItsWay
  <2>4. Saved(a)'
    BY <2>1, <2>2 DEF Saved, Missing
  <2> QED  BY <2>3, <2>4
<1> QED  BY <1>13, <1>15, <1>16

\* An answer to the one write of a save: the next one, for the next number.
LEMMA SaveGoesOn ==
    ASSUME TypeInv, GoneInv, SaveInv, TypeInv', Deliver, ~Stops(Head(queue[authUser])),
           NEW a \in Account, meant'[a] # << >>,
           Head(queue[authUser]).account = a, Head(queue[authUser]).op \in LocationOp
    PROVE  OneSave(a)' /\ Saved(a)'
<1>0. PICK y \in Owner, w \in QueuedWrite : y = authUser /\ w = Head(queue[authUser])
  BY DeliverEntries DEF TypeInv
<1>1. TypeOK /\ queue' \in [Owner -> Seq(QueuedWrite)] /\ queue \in [Owner -> Seq(QueuedWrite)]
  BY DEF TypeInv, TypeOK, Owner
<1>2. /\ lastCurrentLocation' = lastCurrentLocation /\ meant' = meant
      /\ w.account = a /\ w.op \in LocationOp /\ ~Stops(w)
  BY <1>0, <1>1, DeliverForm
<1>3. OneSave(a) /\ meant[a] \in Location
  BY <1>2 DEF SaveInv, TypeInv, TypeOK
<1>4. 1 \in DOMAIN queue[y] /\ w = queue[y][1] /\ LocationAt(a, y, 1)
  BY <1>0, <1>1, <1>2, DeliverEntries DEF LocationAt
<1>5. /\ lastCurrentLocation \in {meant[a], << >>}
      /\ OnItsWay(a, w)
      /\ \A x \in Owner : \A i \in DOMAIN queue[x] : LocationAt(a, x, i) => x = y /\ i = 1
  <2>1. Saving(a)
    BY <1>1, <1>4, SavingAt
  <2> QED  BY <1>3, <1>4, <2>1 DEF OneSave
<1>6. ~Creating(a) /\ ~Creating(a)'
  <2>1. ~Creating(a)
    BY <1>0, <1>2, DeliverMade DEF DocOp, LocationOp
  <2> QED  BY <2>1, DeliverCreating DEF GoneInv
<1>7. users'[a] = ApplyToUser(users[a], w) /\ (Missing(a) => Missing(a)')
  <2>1. /\ users'[Head(queue[authUser]).account] =
              ApplyToUser(users[Head(queue[authUser]).account], Head(queue[authUser]))
        /\ Missing(a) /\ ~(Head(queue[authUser]).account = a /\ Head(queue[authUser]).op = "create")
              => Missing(a)'
    BY DeliverDocument
  <2> QED  BY <1>0, <1>2, <2>1 DEF LocationOp
<1>8. /\ \A i \in DOMAIN queue'[y] : i <= Len(queue[y])
      /\ \A k \in DOMAIN Follow(w) : \E i \in DOMAIN queue'[y] : queue'[y][i] = Follow(w)[k]
  BY <1>0, <1>1, <1>2, FollowPlace
\* Whatever is left of the save is what this answer queued.
<1>9. \A x \in Owner : \A i \in DOMAIN queue'[x] :
         LocationAt(a, x, i)' =>
            x = y /\ i = Len(queue[y]) /\ \E k \in DOMAIN Follow(w) : queue'[x][i] = Follow(w)[k]
  <2> SUFFICES ASSUME NEW x \in Owner, NEW i \in DOMAIN queue'[x], LocationAt(a, x, i)'
               PROVE  /\ x = y /\ i = Len(queue[y])
                      /\ \E k \in DOMAIN Follow(w) : queue'[x][i] = Follow(w)[k]
    OBVIOUS
  <2>1. i \in Nat \ {0} /\ Len(queue[y]) \in Nat /\ DOMAIN queue[y] = 1 .. Len(queue[y])
    BY <1>1, SeqElement
  <2>2. \/ x # y /\ i \in DOMAIN queue[x] /\ Alike(queue'[x][i], queue[x][i])
        \/ x = y /\ i + 1 \in DOMAIN queue[x] /\ Alike(queue'[x][i], queue[x][i + 1])
        \/ x = y /\ \E k \in DOMAIN Follow(w) : queue'[x][i] = Follow(w)[k]
    BY <1>0, <1>1, DeliverEntries
  <2>3. ~(x # y /\ i \in DOMAIN queue[x] /\ Alike(queue'[x][i], queue[x][i]))
    BY <1>5 DEF LocationAt, Alike
  <2>4. ~(i + 1 \in DOMAIN queue[y] /\ x = y)
    <3> SUFFICES ASSUME i + 1 \in DOMAIN queue[y], x = y
                 PROVE  FALSE
      OBVIOUS
    <3>1. i + 1 \in DOMAIN queue[y] \ {1} /\ i + 1 - 1 = i
      BY <2>1
    <3>2. Alike(queue'[y][i + 1 - 1], queue[y][i + 1])
      BY <1>0, <1>1, <3>1, DeliverEntries
    <3>3. LocationAt(a, y, i + 1)
      BY <3>1, <3>2 DEF LocationAt, Alike
    <3> QED  BY <1>5, <3>1, <3>3
  <2>5. x = y /\ \E k \in DOMAIN Follow(w) : queue'[x][i] = Follow(w)[k]
    BY <2>2, <2>3, <2>4
  <2>6. i = Len(queue[y])
    BY <1>8, <2>1, <2>4, <2>5
  <2> QED  BY <2>5, <2>6
<1>10. \A x \in Owner, z \in Owner : \A i \in DOMAIN queue'[x], j \in DOMAIN queue'[z] :
          LocationAt(a, x, i)' /\ LocationAt(a, z, j)' => x = z /\ i = j
  BY <1>9
<1>11. lastCurrentLocation' \in {meant'[a], << >>}
  BY <1>2, <1>5
<1>12. ASSUME Follow(w) = << >>, Missing(a)' \/ users'[a] = meant[a] \/ meant[a][1] = meant[a][2]
       PROVE  OneSave(a)' /\ Saved(a)'
  <2>1. \A x \in Owner : \A i \in DOMAIN queue'[x] : ~LocationAt(a, x, i)'
    BY <1>9, <1>12
  <2> QED  BY <1>2, <1>6, <1>11, <1>12, <2>1 DEF OneSave, Saved
<1>13. ASSUME NEW v, Follow(w) = << v >>, v.account = a, v.op \in LocationOp, OnItsWay(a, v)'
       PROVE  OneSave(a)' /\ Saved(a)'
  <2>1. PICK i \in DOMAIN queue'[y] : queue'[y][i] = v
    BY <1>8, <1>13
  <2>2. Saving(a)'
    BY <1>1, <1>13, <2>1, SavingAtNext DEF LocationAt
  <2>3. \A x \in Owner : \A j \in DOMAIN queue'[x] :
           LocationAt(a, x, j)' => OnItsWay(a, queue[x][j])'
    <3>1. \A x \in Owner : \A j \in DOMAIN queue'[x] : LocationAt(a, x, j)' => queue'[x][j] = v
      BY <1>9, <1>13
    <3> QED  BY <1>13, <3>1 DEF OnItsWay
  <2> QED  BY <1>10, <1>11, <2>2, <2>3 DEF OneSave, Saved
<1>14. CASE Missing(a)
  <2>1. Follow(w) = << >>
    BY <1>2, <1>14 DEF Follow, Fires, Refused
  <2> QED  BY <1>7, <1>12, <1>14, <2>1
<1>15. CASE ~Missing(a) /\ w.op = "addSecond"
  <2>1. w.location[1] = meant[a][2] /\ users[a] = << meant[a][1] >>
    BY <1>5, <1>15 DEF OnItsWay, Missing
  <2>2. Follow(w) = << >>
    BY <1>15 DEF Follow
  <2>3. /\ meant[a] = << meant[a][1], meant[a][2] >>
        /\ << meant[a][1] >> # NoField /\ << meant[a][1] >> # NoUser
    <3>1. meant[a][1] \in Coordinate /\ meant[a] = << meant[a][1], meant[a][2] >>
      BY <1>3, LocationFacts
    <3>2. << meant[a][1] >> \in Seq(Coordinate)
      BY <3>1
    <3> QED  BY <3>1, <3>2, StoredIsNoMark
  <2>4. users'[a] = Union(<< meant[a][1] >>, meant[a][2])
    BY <1>7, <1>15, <2>1 DEF ApplyToUser, Missing
  <2>5. meant[a][1] = meant[a][2] \/ users'[a] = Append(<< meant[a][1] >>, meant[a][2])
    BY <2>3, <2>4 DEF Union, ToSet
  <2> QED  BY <1>12, <2>2, <2>3, <2>5
<1>16. CASE ~Missing(a) /\ w.op \in {"clear", "addFirst"}
  <2>1. Fires(w)
    BY <1>2, <1>5, <1>16 DEF Fires, Refused, OnItsWay
  <2>2. lastCurrentLocation = meant[a]
    BY <1>2, <1>5, <1>16, <2>1 DEF Stops
  <2>3. CASE w.op = "clear"
    <3>1. PICK v : v = write("addFirst", a, << meant[a][1] >>)
      OBVIOUS
    <3>2. Follow(w) = << v >>
      BY <1>2, <2>1, <2>2, <2>3, <3>1 DEF Follow
    <3>3. users'[a] = NoField
      BY <1>7, <1>16, <2>3 DEF ApplyToUser, Missing
    <3>4. v.account = a /\ v.op = "addFirst" /\ v.completes /\ v.location = << meant[a][1] >>
      BY <3>1 DEF write
    <3>5. OnItsWay(a, v)'
      BY <1>2, <1>6, <3>3, <3>4 DEF OnItsWay
    <3> QED  BY <1>13, <3>2, <3>4, <3>5 DEF LocationOp
  <2>4. CASE w.op = "addFirst"
    <3>1. PICK v : v = write("addSecond", a, << meant[a][2] >>)
      OBVIOUS
    <3>2. Follow(w) = << v >>
      BY <1>2, <2>1, <2>2, <2>4, <3>1 DEF Follow
    <3>3. w.location[1] = meant[a][1] /\ users[a] = NoField
      BY <1>5, <1>16, <2>4 DEF OnItsWay, Missing
    <3>4. users'[a] = << meant[a][1] >>
      BY <1>7, <1>16, <2>4, <3>3 DEF ApplyToUser, Missing, Union
    <3>5. v.account = a /\ v.op = "addSecond" /\ v.completes /\ v.location = << meant[a][2] >>
      BY <3>1 DEF write
    <3>6. OnItsWay(a, v)'
      BY <1>2, <1>6, <3>4, <3>5 DEF OnItsWay
    <3> QED  BY <1>13, <3>2, <3>5, <3>6 DEF LocationOp
  <2> QED  BY <1>16, <2>3, <2>4
<1> QED  BY <1>2, <1>14, <1>15, <1>16 DEF LocationOp

LEMMA SaveStep ==
    ASSUME TypeInv, GoneInv, SaveInv, [Next]_vars
    PROVE  SaveInv'
<1>1. TypeInv'
  BY TypeStep
<1>2. ASSUME Deliver PROVE SaveInv'
  <2> SUFFICES ASSUME NEW a \in Account, meant'[a] # << >>
               PROVE  OneSave(a)' /\ Saved(a)'
    BY DEF SaveInv
  <2> QED  BY <1>1, <1>2, SaveStops, SavePasses, SaveGoesOn
<1> QED  BY <1>1, <1>2, SaveQuiet, SaveReported, SaveRelaunch, SaveSignup, SaveBegins, SaveDeny
         DEF Next

\* A location is saved by three writes, each with what the phone knows by then.
\* Unless the location changed, another save began, the app stopped or a write
\* was denied meanwhile, what the document holds in the end is what was saved,
\* both numbers in their order, for any account and whatever else is queued.
THEOREM LocationIsSaved == Spec => []SavedIsStored
<1>1. Init => SaveInv
  BY DEF Init, SaveInv
<1>2. TypeInv /\ GoneInv /\ SaveInv /\ [Next]_vars => SaveInv'
  BY SaveStep
<1>3. TypeInv /\ SaveInv => SavedIsStored
  <2> SUFFICES ASSUME TypeInv, SaveInv, NEW a \in Account, meant[a] # << >>,
                      meant[a][1] # meant[a][2], ~Saving(a), ~Queued(a, {"create"}), ~Missing(a)
               PROVE  users[a] = meant[a]
    BY DEF SavedIsStored
  <2>1. DOMAIN queue = Owner /\ a \in Owner
    BY DEF TypeInv, TypeOK, Owner
  <2>2. ~Creating(a)
    BY <2>1 DEF Creating, Queued
  <2> QED  BY <2>2 DEF SaveInv, Saved
<1> QED  BY <1>1, <1>2, <1>3, TypeInit, TypeStep, GoneInit, GoneStep, PTL DEF Spec
=============================================================================
