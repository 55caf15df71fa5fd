--------------------------- MODULE CarpoolsEntries ---------------------------
(***************************************************************************)
(* Who has an entry for a carpool, and what the lists show: the inductive  *)
(* invariant of Carpools and the theorems that follow from it.             *)
(***************************************************************************)
EXTENDS CarpoolsProofs

-----------------------------------------------------------------------------
(* The inductive invariant.                                                 *)

Has(q, op, c) == \E i \in DOMAIN q : q[i].op = op /\ q[i].carpool = c
Is(w, op, c, p) == w.op = op /\ w.carpool = c /\ w.user = p
HasFor(q, op, c, p) == \E i \in DOMAIN q : Is(q[i], op, c, p)

Creating(c) == \E u \in User : Has(pending[u], "create", c)
LeaveQueued(p, c) == \E x \in User : HasFor(pending[x], "leave", c, p)

\* p has no entry for c and will get none.
Gone(p, c) == c \notin groups[p] /\ \A y \in User : ~ HasFor(pending[y], "enter", c, p)

\* If p has an entry for c then it is known to stay or a write will take it away.
Covered(p, c) == <<p, c>> \in strays \/ Gone(p, c) \/ LeaveQueued(p, c)

\* The documents a phone holds, and the carpools it has heard of.
Docs(u) == rows[u] \cup ToSet(carpools[u])
Seen(u, c) ==
    \/ \E d \in Docs(u) : d.uuid = c
    \/ \E k \in DOMAIN refreshing[u] : c \in refreshing[u][k]
    \/ \E k \in cleanups[u] : c \in k.ids
    \/ c \in snapshot[u]

Untouched(c) ==
    /\ carpoolCollection[c] = NoCarpool
    /\ \A u \in User : c \notin groups[u] /\ ~ Seen(u, c)
    /\ \A u \in User, op \in {"delete", "dropPassenger", "enter", "leave"} : ~ Has(pending[u], op, c)

PicksDistinct ==
    \A u \in User : /\ u \notin ToSet(passengers[u])
                    /\ \A i, j \in DOMAIN passengers[u] :
                          passengers[u][i] = passengers[u][j] => i = j

\* Before the backend has a carpool nobody knows of it but its creator's queue.
UnbornUntouched == \A c \in Carpool : c \notin used \/ Creating(c) => Untouched(c)

CreatedOnce ==
    /\ \A c \in Carpool \ used : ~ Creating(c)
    /\ \A u \in User : \A i \in DOMAIN pending[u] :
          pending[u][i].op = "create" => pending[u][i].user = u
    /\ \A u, v \in User : \A i \in DOMAIN pending[u], j \in DOMAIN pending[v] :
          /\ pending[u][i].op = "create"
          /\ pending[v][j].op = "create" /\ pending[v][j].carpool = pending[u][i].carpool
          => u = v /\ i = j

EnteredOnce ==
    /\ \A p \in User : \A c \in groups[p] : \A y \in User : ~ HasFor(pending[y], "enter", c, p)
    /\ \A u, v \in User : \A i \in DOMAIN pending[u], j \in DOMAIN pending[v] :
          /\ pending[u][i].op = "enter"
          /\ Is(pending[v][j], "enter", pending[u][i].carpool, pending[u][i].user)
          => u = v /\ i = j

\* Entries are written by the driver of the carpool alone.
DriverEnters ==
    \A y \in User, c \in Carpool :
        Has(pending[y], "enter", c) =>
            /\ carpoolCollection[c] # NoCarpool => carpoolCollection[c].driver = y
            /\ \A u \in User : \A d \in Docs(u) : d.uuid = c => d.driver = y

\* Who has heard of a carpool gets no entry for it any more, except a driver
\* from the own queue.
SeenAfterEntered ==
    \A u, y \in User, c \in Carpool : Seen(u, c) /\ HasFor(pending[y], "enter", c, u) => y = u

EntersBeforeLeaves ==
    \A x, y \in User : \A i \in DOMAIN pending[x], j \in DOMAIN pending[y] :
        /\ pending[x][i].op = "leave"
        /\ Is(pending[y][j], "enter", pending[x][i].carpool, pending[x][i].user)
        => x = y /\ j < i

\* The clean-up takes the entry away before the name.
LeftBeforeDropped ==
    \A x \in User : \A i \in DOMAIN pending[x] :
        pending[x][i].op = "dropPassenger" =>
            \/ <<pending[x][i].user, pending[x][i].carpool>> \in strays
            \/ Gone(pending[x][i].user, pending[x][i].carpool)
            \/ \E j \in DOMAIN pending[x] :
                  j < i /\ Is(pending[x][j], "leave", pending[x][i].carpool, pending[x][i].user)

DocumentsCover ==
    \A c \in Carpool :
        carpoolCollection[c] # NoCarpool =>
            /\ carpoolCollection[c].uuid = c
            /\ \A p \in User : \/ Rides(p, carpoolCollection[c])
                               \/ <<p, c>> \in strays
                               \/ Gone(p, c)

\* A phone may hold an old document, but whoever has been taken off the list
\* since then has been taken out of the groups, or is about to be.
ListsCover ==
    \A u \in User : \A d \in Docs(u) : \A p \in User : Rides(p, d) \/ Covered(p, d.uuid)

DeletedCovered ==
    \A c \in Carpool :
        \/ \E x \in User : Has(pending[x], "delete", c)
        \/ c \in used /\ ~ Creating(c) /\ carpoolCollection[c] = NoCarpool
        => \A p \in User : Covered(p, c)

CarpoolsInv ==
    /\ PicksDistinct
    /\ UnbornUntouched
    /\ CreatedOnce
    /\ EnteredOnce
    /\ DriverEnters
    /\ SeenAfterEntered
    /\ EntersBeforeLeaves
    /\ LeftBeforeDropped
    /\ DocumentsCover
    /\ ListsCover
    /\ DeletedCovered

\* What the invariant says of the two safety properties.
LEMMA InvGivesProperties == TypeOK /\ CarpoolsInv => EntriesBelong /\ NoEntryOutlives
<1> SUFFICES ASSUME TypeOK, CarpoolsInv PROVE EntriesBelong /\ NoEntryOutlives
  OBVIOUS
<1>1. EntriesBelong
  <2> SUFFICES ASSUME NEW u \in User, NEW c \in groups[u],
                      carpoolCollection[c] # NoCarpool, <<u, c>> \notin strays
               PROVE  Rides(u, carpoolCollection[c])
    BY DEF EntriesBelong
  <2>1. c \in Carpool
    BY DEF TypeOK
  <2> QED  BY <2>1 DEF CarpoolsInv, DocumentsCover, Gone
<1>2. NoEntryOutlives
  <2> SUFFICES ASSUME NEW c \in used, carpoolCollection[c] = NoCarpool,
                      \A u \in User : QueuedFor(u, c, {"create", "delete", "enter", "leave"}) = {},
                      NEW u \in User, c \in groups[u]
               PROVE  <<u, c>> \in strays
    BY DEF NoEntryOutlives
  <2>1. c \in Carpool
    BY DEF TypeOK
  <2>2. ~ Creating(c) /\ ~ LeaveQueued(u, c)
    BY DEF Creating, LeaveQueued, Has, HasFor, Is, QueuedFor
  <2>3. Covered(u, c)
    BY <2>1, <2>2 DEF CarpoolsInv, DeletedCovered
  <2> QED  BY <2>2, <2>3 DEF Covered, Gone
<1> QED  BY <1>1, <1>2
-----------------------------------------------------------------------------
(* Reading.                                                                 *)

\* A document as it is read from a phone that has heard of it.
LEMMA SeenDocument ==
    ASSUME TypeOK, CarpoolsInv, NEW u \in User, NEW c \in Carpool, Seen(u, c),
           CarpoolSeenBy(u, c) # NoCarpool
    PROVE  /\ carpoolCollection[c] # NoCarpool
           /\ CarpoolSeenBy(u, c).uuid = c
           /\ CarpoolSeenBy(u, c).driver = carpoolCollection[c].driver
           /\ \A p \in User : Rides(p, CarpoolSeenBy(u, c)) \/ Covered(p, c)
<1> DEFINE dropped == {pending[u][i].user : i \in QueuedFor(u, c, {"dropPassenger"})}
           doc == CarpoolSeenBy(u, c)
<1>1. ~ Creating(c)
  BY DEF CarpoolsInv, UnbornUntouched, Untouched
<1>2. QueuedFor(u, c, {"create"}) = {}
  BY <1>1 DEF Creating, Has, QueuedFor
<1>3. doc = WithoutPassengers(carpoolCollection[c], dropped)
  BY <1>2 DEF CarpoolSeenBy
<1>4. carpoolCollection[c] \in CarpoolObject \cup {NoCarpool} /\ doc # NoCarpool
  BY DEF TypeOK
<1> HIDE DEF dropped, doc
<1>5. /\ carpoolCollection[c] # NoCarpool /\ carpoolCollection[c] \in CarpoolObject
      /\ doc = [carpoolCollection[c] EXCEPT !.passengers = @ \ dropped]
  BY <1>3, <1>4 DEF WithoutPassengers
<1>6. /\ doc.uuid = carpoolCollection[c].uuid /\ doc.driver = carpoolCollection[c].driver
      /\ doc.passengers = carpoolCollection[c].passengers \ dropped
  BY <1>5 DEF CarpoolObject
<1>7. ASSUME NEW p \in User, ~ Rides(p, doc) PROVE Covered(p, c)
  <2>1. CASE Rides(p, carpoolCollection[c])
    <3>1. p \in dropped
      BY <1>6, <1>7, <2>1 DEF Rides
    <3>2. PICK i \in DOMAIN pending[u] : Is(pending[u][i], "dropPassenger", c, p)
      BY <3>1 DEF dropped, QueuedFor, Is
    <3>3. \/ <<p, c>> \in strays
          \/ Gone(p, c)
          \/ \E j \in DOMAIN pending[u] : Is(pending[u][j], "leave", c, p)
      BY <3>2 DEF CarpoolsInv, LeftBeforeDropped, Is
    <3> QED  BY <3>3 DEF Covered, LeaveQueued, HasFor
  <2>2. CASE ~ Rides(p, carpoolCollection[c])
    BY <1>5, <2>2 DEF CarpoolsInv, DocumentsCover, Covered
  <2> QED  BY <2>1, <2>2
<1>8. carpoolCollection[c].uuid = c
  BY <1>5 DEF CarpoolsInv, DocumentsCover
<1> QED  BY <1>5, <1>6, <1>7, <1>8 DEF doc

\* The carpools among a user's own groups, before the phone reads them.
LEMMA OwnGroupsKnown ==
    ASSUME TypeOK, CarpoolsInv, NEW u \in User, NEW c \in OwnGroups(u)
    PROVE  /\ c \in Carpool /\ ~ Untouched(c)
           /\ \A y \in User : HasFor(pending[y], "enter", c, u) => y = u
<1>1. c \in Carpool
  BY DEF OwnGroups
<1> DEFINE own == {i \in QueuedFor(u, c, {"enter", "leave"}) : pending[u][i].user = u}
<1>2. \/ c \in groups[u]
      \/ \E i \in own : pending[u][i].op = "enter"
  BY DEF OwnGroups
<1>3. CASE c \in groups[u]
  BY <1>1, <1>3 DEF CarpoolsInv, EnteredOnce, Untouched
<1>4. CASE \E i \in own : pending[u][i].op = "enter"
  <2>1. PICK i \in DOMAIN pending[u] : Is(pending[u][i], "enter", c, u)
    BY <1>4 DEF QueuedFor, Is
  <2>2. ~ Untouched(c)
    BY <2>1 DEF Untouched, Has, Is
  <2>3. ASSUME NEW y \in User, HasFor(pending[y], "enter", c, u) PROVE y = u
    <3>1. PICK j \in DOMAIN pending[y] : Is(pending[y][j], "enter", c, u)
      BY <2>3 DEF HasFor
    <3> QED  BY <2>1, <3>1 DEF CarpoolsInv, EnteredOnce, Is
  <2> QED  BY <1>1, <2>2, <2>3
<1> QED  BY <1>2, <1>3, <1>4

\* What only reads, or changes nothing but what a phone holds.
LEMMA QuietStep ==
    ASSUME TypeOK, CarpoolsInv, TypeOK',
           \A v \in User :
              /\ DOMAIN pending'[v] = DOMAIN pending[v]
              /\ \A i \in DOMAIN pending[v] :
                    /\ pending'[v][i].op = pending[v][i].op
                    /\ pending'[v][i].carpool = pending[v][i].carpool
                    /\ pending'[v][i].user = pending[v][i].user,
           UNCHANGED <<carpoolCollection, groups, used, strays>>,
           PicksDistinct',
           \A v \in User, c \in Carpool : Seen(v, c)' => Seen(v, c) \/ c \in OwnGroups(v),
           \A v \in User : \A d \in Docs(v)' :
              \/ d \in Docs(v)
              \/ \E c \in Carpool : /\ Seen(v, c)
                                    /\ CarpoolSeenBy(v, c) # NoCarpool /\ d = CarpoolSeenBy(v, c)
    PROVE  CarpoolsInv'
<1>1. \A v \in User : \A op, c, p : /\ Has(pending[v], op, c)' <=> Has(pending[v], op, c)
                                    /\ HasFor(pending[v], op, c, p)' <=> HasFor(pending[v], op, c, p)
  BY DEF Has, HasFor, Is
<1>2. \A c, p : /\ Creating(c)' <=> Creating(c)
                /\ LeaveQueued(p, c)' <=> LeaveQueued(p, c)
                /\ Gone(p, c)' <=> Gone(p, c)
  BY <1>1 DEF Creating, LeaveQueued, Gone
<1>3. \A c, p : Covered(p, c)' <=> Covered(p, c)
  BY <1>2 DEF Covered
<1>4. ASSUME NEW c \in Carpool, Untouched(c) PROVE Untouched(c)'
  <2>1. \A v \in User : ~ Seen(v, c)'
    BY <1>4, OwnGroupsKnown DEF Untouched
  <2> QED  BY <1>1, <1>4, <2>1 DEF Untouched
<1>5. UnbornUntouched'
  BY <1>2, <1>4 DEF CarpoolsInv, UnbornUntouched
<1>6. CreatedOnce'
  BY <1>2 DEF CarpoolsInv, CreatedOnce
<1>7. EnteredOnce'
  <2>1. (\A p \in User : \A c \in groups[p] : \A y \in User : ~ HasFor(pending[y], "enter", c, p))'
    BY <1>1 DEF CarpoolsInv, EnteredOnce
  <2> QED  BY <2>1 DEF CarpoolsInv, EnteredOnce, Is
<1>8. DriverEnters'
  <2> SUFFICES ASSUME NEW y \in User, NEW c \in Carpool, Has(pending[y], "enter", c)'
               PROVE  /\ carpoolCollection[c] # NoCarpool => carpoolCollection[c].driver = y
                      /\ \A u \in User : \A d \in Docs(u)' : d.uuid = c => d.driver = y
    BY DEF DriverEnters
  <2>1. /\ carpoolCollection[c] # NoCarpool => carpoolCollection[c].driver = y
        /\ \A u \in User : \A d \in Docs(u) : d.uuid = c => d.driver = y
    BY <1>1 DEF CarpoolsInv, DriverEnters
  <2>2. ASSUME NEW u \in User, NEW d \in Docs(u)', d.uuid = c PROVE d.driver = y
    <3>1. CASE d \in Docs(u)
      BY <2>1, <2>2, <3>1
    <3>2. CASE d \notin Docs(u)
      <4>1. PICK b \in Carpool : /\ Seen(u, b)
                                 /\ CarpoolSeenBy(u, b) # NoCarpool /\ d = CarpoolSeenBy(u, b)
        BY <3>2
      <4>2. /\ carpoolCollection[b] # NoCarpool /\ d.uuid = b
            /\ d.driver = carpoolCollection[b].driver
        BY <4>1, SeenDocument
      <4> QED  BY <2>1, <2>2, <4>2
    <3> QED  BY <3>1, <3>2
  <2> QED  BY <2>1, <2>2
<1>9. SeenAfterEntered'
  <2> SUFFICES ASSUME NEW u \in User, NEW y \in User, NEW c \in Carpool,
                      Seen(u, c)', HasFor(pending[y], "enter", c, u)'
               PROVE  y = u
    BY DEF SeenAfterEntered
  <2>1. HasFor(pending[y], "enter", c, u)
    BY <1>1
  <2>2. CASE Seen(u, c)
    BY <2>1, <2>2 DEF CarpoolsInv, SeenAfterEntered
  <2>3. CASE c \in OwnGroups(u)
    BY <2>1, <2>3, OwnGroupsKnown
  <2> QED  BY <2>2, <2>3
<1>10. EntersBeforeLeaves'
  BY DEF CarpoolsInv, EntersBeforeLeaves, Is
<1>11. LeftBeforeDropped'
  <2>1. ASSUME NEW x \in User, NEW i \in DOMAIN pending'[x], pending'[x][i].op = "dropPassenger",
               NEW p, NEW c, p = pending'[x][i].user, c = pending'[x][i].carpool
        PROVE  \/ <<p, c>> \in strays'
               \/ Gone(p, c)'
               \/ \E j \in DOMAIN pending'[x] : j < i /\ Is(pending'[x][j], "leave", c, p)
    <3>1. \/ <<p, c>> \in strays
          \/ Gone(p, c)
          \/ \E j \in DOMAIN pending[x] : j < i /\ Is(pending[x][j], "leave", c, p)
      BY <2>1 DEF CarpoolsInv, LeftBeforeDropped
    <3> QED  BY <1>2, <2>1, <3>1 DEF Is
  <2> QED  BY <2>1 DEF LeftBeforeDropped
<1>12. DocumentsCover'
  BY <1>2 DEF CarpoolsInv, DocumentsCover
<1>13. ListsCover'
  <2> SUFFICES ASSUME NEW u \in User, NEW d \in Docs(u)', NEW p \in User, ~ Rides(p, d)
               PROVE  Covered(p, d.uuid)
    BY <1>3 DEF ListsCover
  <2>1. CASE d \in Docs(u)
    BY <2>1 DEF CarpoolsInv, ListsCover
  <2>2. CASE d \notin Docs(u)
    <3>1. PICK b \in Carpool : /\ Seen(u, b)
                               /\ CarpoolSeenBy(u, b) # NoCarpool /\ d = CarpoolSeenBy(u, b)
      BY <2>2
    <3> QED  BY <3>1, SeenDocument
  <2> QED  BY <2>1, <2>2
<1>14. DeletedCovered'
  BY <1>1, <1>2, <1>3 DEF CarpoolsInv, DeletedCovered
<1> QED  BY <1>5, <1>6, <1>7, <1>8, <1>9, <1>10, <1>11, <1>12, <1>13, <1>14 DEF CarpoolsInv
-----------------------------------------------------------------------------
(* Writing.                                                                 *)

\* A phone queues writes that add no entry.
LEMMA AppendStep ==
    ASSUME TypeOK, CarpoolsInv, TypeOK', NEW u \in User, NEW ws \in Seq(QueuedWrite), Enqueue(u, ws),
           UNCHANGED <<carpoolCollection, groups, strays, passengers>>,
           used \subseteq used',
           \A c \in used' \ used : \E j \in DOMAIN ws : ws[j].op = "create" /\ ws[j].carpool = c,
           \A j \in DOMAIN ws :
              ws[j].op = "create" => /\ ws[j].user = u /\ ws[j].carpool \in used' \ used
                                     /\ \A i \in DOMAIN ws : ws[i].op = "create" => i = j,
           \A j \in DOMAIN ws : /\ ws[j].op # "enter"
                                /\ ws[j].op # "create" => Seen(u, ws[j].carpool),
           \A j \in DOMAIN ws :
              ws[j].op = "leave" =>
                 \A y \in User : HasFor(pending[y], "enter", ws[j].carpool, ws[j].user) => y = u,
           \A j \in DOMAIN ws :
              ws[j].op = "dropPassenger" =>
                 \E i \in DOMAIN ws : i < j /\ Is(ws[i], "leave", ws[j].carpool, ws[j].user),
           \A j \in DOMAIN ws :
              ws[j].op = "delete" =>
                 \A p \in User : \/ Covered(p, ws[j].carpool)
                                 \/ \E i \in DOMAIN ws : Is(ws[i], "leave", ws[j].carpool, p),
           \A v \in User, c \in Carpool : Seen(v, c)' => Seen(v, c),
           \A v \in User : Docs(v)' \subseteq Docs(v)
    PROVE  CarpoolsInv'
<1> DEFINE n == Len(pending[u])
<1>1. /\ \A v \in User : v # u => pending'[v] = pending[v]
      /\ \A i \in DOMAIN pending[u] : i \in DOMAIN pending'[u] /\ pending'[u][i] = pending[u][i]
      /\ \A j \in DOMAIN ws : n + j \in DOMAIN pending'[u] /\ pending'[u][n + j] = ws[j]
      /\ \A i \in DOMAIN pending'[u] :
            \/ i \in DOMAIN pending[u]
            \/ i > n /\ i - n \in DOMAIN ws /\ pending'[u][i] = ws[i - n]
  BY Enqueued
<1>2. n \in Nat /\ DOMAIN pending[u] = 1 .. n /\ Len(ws) \in Nat /\ DOMAIN ws = 1 .. Len(ws)
  BY QueueElements, SeqElement
<1>3. /\ \A v \in User : \A i \in DOMAIN pending[v] :
            i \in DOMAIN pending'[v] /\ pending'[v][i] = pending[v][i]
      /\ \A v \in User : \A i \in DOMAIN pending'[v] :
            \/ i \in DOMAIN pending[v] /\ pending'[v][i] = pending[v][i]
            \/ v = u /\ i \in Int /\ i > n /\ i - n \in DOMAIN ws /\ pending'[v][i] = ws[i - n]
  <2>1. \A i \in DOMAIN pending'[u] : i \in Int
    BY QueueElements DEF TypeOK
  <2> QED  BY <1>1, <2>1
<1> HIDE DEF n
<1>4. /\ \A v \in User : \A op, c : Has(pending[v], op, c) => Has(pending[v], op, c)'
      /\ \A v \in User : \A op, c, p : HasFor(pending[v], op, c, p) => HasFor(pending[v], op, c, p)'
  BY <1>3 DEF Has, HasFor, Is
<1>5. \A v \in User : \A op, c :
         Has(pending[v], op, c)' =>
            \/ Has(pending[v], op, c)
            \/ v = u /\ \E j \in DOMAIN ws : ws[j].op = op /\ ws[j].carpool = c
  BY <1>3 DEF Has
<1>6. \A v \in User : \A c, p : HasFor(pending[v], "enter", c, p)' <=> HasFor(pending[v], "enter", c, p)
  BY <1>3 DEF HasFor, Is
<1>7. \A c, p : /\ Gone(p, c)' <=> Gone(p, c)
                /\ LeaveQueued(p, c) => LeaveQueued(p, c)'
                /\ Covered(p, c) => Covered(p, c)'
  BY <1>4, <1>6 DEF Gone, LeaveQueued, Covered
<1>8. PicksDistinct'
  BY DEF CarpoolsInv, PicksDistinct
<1>9. \A c \in used' \ used : c \in Carpool /\ Untouched(c)
  BY DEF TypeOK, CarpoolsInv, UnbornUntouched
<1>10. \A c \in Carpool : Creating(c)' <=> Creating(c) \/ c \in used' \ used
  <2>1. ASSUME NEW c \in Carpool, Creating(c)' PROVE Creating(c) \/ c \in used' \ used
    <3>1. PICK v \in User : Has(pending[v], "create", c)'
      BY <2>1 DEF Creating
    <3> QED  BY <1>5, <3>1 DEF Creating
  <2>2. ASSUME NEW c \in Carpool, Creating(c) PROVE Creating(c)'
    BY <1>4, <2>2 DEF Creating
  <2>3. ASSUME NEW c \in used' \ used PROVE Creating(c)'
    <3>1. PICK j \in DOMAIN ws : ws[j].op = "create" /\ ws[j].carpool = c
      BY <2>3
    <3>2. n + j \in DOMAIN pending'[u] /\ pending'[u][n + j] = ws[j]
      BY <1>1 DEF n
    <3> QED  BY <3>1, <3>2 DEF Creating, Has
  <2> QED  BY <2>1, <2>2, <2>3
<1>11. \A c \in Carpool : Untouched(c) => Untouched(c)'
  <2> SUFFICES ASSUME NEW c \in Carpool, Untouched(c) PROVE Untouched(c)'
    OBVIOUS
  <2>1. \A v \in User : c \notin groups[v] /\ ~ Seen(v, c)'
    BY DEF Untouched
  <2>2. \A v \in User, op \in {"delete", "dropPassenger", "enter", "leave"} : ~ Has(pending[v], op, c)'
    BY <1>5 DEF Untouched
  <2> QED  BY <2>1, <2>2 DEF Untouched
<1>12. UnbornUntouched'
  BY <1>9, <1>10, <1>11 DEF CarpoolsInv, UnbornUntouched
<1>13. CreatedOnce'
  <2>1. \A c \in Carpool \ used' : ~ Creating(c)'
    BY <1>10 DEF CarpoolsInv, CreatedOnce
  <2>2. ASSUME NEW v \in User, NEW i \in DOMAIN pending'[v], pending'[v][i].op = "create"
        PROVE  pending'[v][i].user = v
    BY <1>3, <2>2 DEF CarpoolsInv, CreatedOnce
  <2>3. ASSUME NEW x \in User, NEW y \in User, NEW i \in DOMAIN pending'[x], NEW j \in DOMAIN pending'[y],
               pending'[x][i].op = "create",
               pending'[y][j].op = "create", pending'[y][j].carpool = pending'[x][i].carpool
        PROVE  x = y /\ i = j
    <3>1. ASSUME NEW z \in User, NEW k \in DOMAIN pending[z], pending[z][k].op = "create"
          PROVE  pending[z][k].carpool \notin used' \ used
      <4>1. pending[z][k].carpool \in Carpool
        BY QueueElements, QueuedWriteFields
      <4>2. Creating(pending[z][k].carpool)
        BY <3>1 DEF Creating, Has
      <4> QED  BY <4>1, <4>2 DEF CarpoolsInv, CreatedOnce
    <3>2. CASE i \in DOMAIN pending[x] /\ j \in DOMAIN pending[y]
      BY <1>3, <2>3, <3>2 DEF CarpoolsInv, CreatedOnce
    <3>3. CASE i \notin DOMAIN pending[x] /\ j \notin DOMAIN pending[y]
      <4>1. /\ x = u /\ i \in Int /\ i - n \in DOMAIN ws /\ pending'[x][i] = ws[i - n]
            /\ y = u /\ j \in Int /\ j - n \in DOMAIN ws /\ pending'[y][j] = ws[j - n]
        BY <1>3, <3>3
      <4>2. i - n = j - n
        BY <2>3, <4>1
      <4> QED  BY <1>2, <4>1, <4>2
    <3>4. CASE i \in DOMAIN pending[x] /\ j \notin DOMAIN pending[y]
      <4>1. pending'[y][j].carpool \in used' \ used
        BY <1>3, <2>3, <3>4
      <4> QED  BY <1>3, <2>3, <3>1, <3>4, <4>1
    <3>5. CASE i \notin DOMAIN pending[x] /\ j \in DOMAIN pending[y]
      <4>1. pending'[x][i].carpool \in used' \ used
        BY <1>3, <2>3, <3>5
      <4> QED  BY <1>3, <2>3, <3>1, <3>5, <4>1
    <3> QED  BY <3>2, <3>3, <3>4, <3>5
  <2> QED  BY <2>1, <2>2, <2>3 DEF CreatedOnce
<1>14. EnteredOnce'
  <2>1. \A p \in User : \A c \in groups'[p] : \A y \in User : ~ HasFor(pending[y], "enter", c, p)'
    BY <1>6 DEF CarpoolsInv, EnteredOnce
  <2>2. ASSUME NEW x \in User, NEW y \in User, NEW i \in DOMAIN pending'[x], NEW j \in DOMAIN pending'[y],
               pending'[x][i].op = "enter",
               Is(pending'[y][j], "enter", pending'[x][i].carpool, pending'[x][i].user)
        PROVE  x = y /\ i = j
    BY <1>3, <2>2 DEF CarpoolsInv, EnteredOnce, Is
  <2> QED  BY <2>1, <2>2 DEF EnteredOnce, Is
<1>15. DriverEnters'
  <2>1. \A y \in User, c \in Carpool : Has(pending[y], "enter", c)' => Has(pending[y], "enter", c)
    BY <1>3 DEF Has
  <2> QED  BY <2>1 DEF CarpoolsInv, DriverEnters
<1>16. SeenAfterEntered'
  BY <1>6 DEF CarpoolsInv, SeenAfterEntered
<1>17. EntersBeforeLeaves'
  <2> SUFFICES ASSUME NEW x \in User, NEW y \in User,
                      NEW i \in DOMAIN pending'[x], NEW j \in DOMAIN pending'[y],
                      pending'[x][i].op = "leave",
                      Is(pending'[y][j], "enter", pending'[x][i].carpool, pending'[x][i].user)
               PROVE  x = y /\ j < i
    BY DEF EntersBeforeLeaves, Is
  <2>1. j \in DOMAIN pending[y] /\ pending'[y][j] = pending[y][j]
    BY <1>3 DEF Is
  <2>2. CASE i \in DOMAIN pending[x]
    <3>1. pending'[x][i] = pending[x][i]
      BY <1>3, <2>2
    <3> QED  BY <2>1, <2>2, <3>1 DEF CarpoolsInv, EntersBeforeLeaves
  <2>3. CASE i \notin DOMAIN pending[x]
    <3>1. x = u /\ i \in Int /\ i > n /\ i - n \in DOMAIN ws /\ pending'[x][i] = ws[i - n]
      BY <1>3, <2>3
    <3>2. HasFor(pending[y], "enter", ws[i - n].carpool, ws[i - n].user)
      BY <2>1, <3>1 DEF HasFor
    <3>3. y = u
      BY <3>1, <3>2
    <3> QED  BY <1>2, <2>1, <3>1, <3>3
  <2> QED  BY <2>2, <2>3
<1>18. LeftBeforeDropped'
  <2>1. ASSUME NEW x \in User, NEW i \in DOMAIN pending'[x], pending'[x][i].op = "dropPassenger",
               NEW p, NEW c, p = pending'[x][i].user, c = pending'[x][i].carpool
        PROVE  \/ <<p, c>> \in strays'
               \/ Gone(p, c)'
               \/ \E j \in DOMAIN pending'[x] : j < i /\ Is(pending'[x][j], "leave", c, p)
    <3>1. CASE i \in DOMAIN pending[x]
      <4>1. pending[x][i] = pending'[x][i]
        BY <1>3, <3>1
      <4>2. \/ <<p, c>> \in strays
            \/ Gone(p, c)
            \/ \E j \in DOMAIN pending[x] : j < i /\ Is(pending[x][j], "leave", c, p)
        BY <2>1, <3>1, <4>1 DEF CarpoolsInv, LeftBeforeDropped
      <4> QED  BY <1>3, <1>7, <4>2
    <3>2. CASE i \notin DOMAIN pending[x]
      <4>1. x = u /\ i \in Int /\ i > n /\ i - n \in DOMAIN ws /\ pending'[x][i] = ws[i - n]
        BY <1>3, <3>2
      <4>2. PICK j \in DOMAIN ws : j < i - n /\ Is(ws[j], "leave", c, p)
        BY <2>1, <4>1
      <4>3. n + j \in DOMAIN pending'[u] /\ pending'[u][n + j] = ws[j]
        BY <1>1 DEF n
      <4>4. n + j < i
        BY <1>2, <4>1, <4>2
      <4> QED  BY <4>1, <4>2, <4>3, <4>4
    <3> QED  BY <3>1, <3>2
  <2> QED  BY <2>1 DEF LeftBeforeDropped
<1>19. DocumentsCover'
  BY <1>7 DEF CarpoolsInv, DocumentsCover
<1>20. ListsCover'
  BY <1>7 DEF CarpoolsInv, ListsCover
<1>21. DeletedCovered'
  <2>1. ASSUME NEW c \in Carpool, NEW x \in User, Has(pending[x], "delete", c)', NEW p \in User
        PROVE  Covered(p, c)'
    <3>1. CASE Has(pending[x], "delete", c)
      BY <1>7, <3>1 DEF CarpoolsInv, DeletedCovered
    <3>2. CASE ~ Has(pending[x], "delete", c)
      <4>1. PICK j \in DOMAIN ws : ws[j].op = "delete" /\ ws[j].carpool = c
        BY <1>5, <2>1, <3>2
      <4>2. CASE Covered(p, c)
        BY <1>7, <4>2
      <4>3. CASE \E i \in DOMAIN ws : Is(ws[i], "leave", c, p)
        <5>1. PICK i \in DOMAIN ws : Is(ws[i], "leave", c, p)
          BY <4>3
        <5>2. n + i \in DOMAIN pending'[u] /\ pending'[u][n + i] = ws[i]
          BY <1>1 DEF n
        <5> QED  BY <5>1, <5>2 DEF Covered, LeaveQueued, HasFor
      <4> QED  BY <4>1, <4>2, <4>3
    <3> QED  BY <3>1, <3>2
  <2>2. ASSUME NEW c \in Carpool, c \in used', ~ Creating(c)', carpoolCollection'[c] = NoCarpool,
               NEW p \in User
        PROVE  Covered(p, c)'
    <3>1. c \in used /\ ~ Creating(c) /\ carpoolCollection[c] = NoCarpool
      BY <1>10, <2>2
    <3> QED  BY <1>7, <3>1 DEF CarpoolsInv, DeletedCovered
  <2> QED  BY <2>1, <2>2 DEF DeletedCovered
<1> QED  BY <1>8, <1>12, <1>13, <1>14, <1>15, <1>16, <1>17, <1>18, <1>19, <1>20, <1>21 DEF CarpoolsInv
-----------------------------------------------------------------------------
(* Delivering.                                                              *)

\* A queue without its oldest write, which some new ones may follow.
LEMMA Delivered ==
    ASSUME TypeOK, NEW u \in User, pending[u] # << >>, NEW ws \in Seq(QueuedWrite),
           pending'[u] = Tail(pending[u]) \o ws, NEW n, n = Len(pending[u]) - 1
    PROVE  /\ 1 \in DOMAIN pending[u] /\ Head(pending[u]) = pending[u][1]
           /\ \A i \in DOMAIN pending[u] :
                 i # 1 => i - 1 \in DOMAIN pending'[u] /\ pending'[u][i - 1] = pending[u][i]
           /\ \A i \in DOMAIN pending'[u] :
                 \/ i + 1 # 1 /\ i + 1 \in DOMAIN pending[u] /\ pending'[u][i] = pending[u][i + 1]
                 \/ i - n \in DOMAIN ws /\ pending'[u][i] = ws[i - n]
<1> DEFINE q == pending[u]
           t == Tail(q)
<1>1. /\ q \in Seq(QueuedWrite) /\ q # << >> /\ Len(q) \in Nat /\ DOMAIN q = 1 .. Len(q)
  BY QueueElements
<1>2. Head(q) = q[1]
  BY <1>1, HeadTailProperties
<1>3. Len(q) # 0
  BY <1>1, EmptySeq
<1>4. /\ t \in Seq(QueuedWrite) /\ Len(t) = Len(q) - 1 /\ \A i \in 1 .. Len(q) - 1 : t[i] = q[i + 1]
  BY <1>1, HeadTailProperties
<1>5. DOMAIN t = 1 .. Len(q) - 1
  BY <1>4, LenProperties
<1> DEFINE r == t \o ws
<1>6. pending'[u] = r
  OBVIOUS
<1> HIDE DEF t
<1>7. /\ \A i \in DOMAIN t : i \in DOMAIN r /\ r[i] = t[i]
      /\ \A i \in DOMAIN r : \/ i \in DOMAIN t /\ r[i] = t[i]
                             \/ i > Len(t) /\ i - Len(t) \in DOMAIN ws /\ r[i] = ws[i - Len(t)]
  BY <1>4, ConcatElement
<1> HIDE DEF q, r
<1>8. 1 \in DOMAIN q
  BY <1>1, <1>3
<1>9. ASSUME NEW i \in DOMAIN q, i # 1 PROVE i - 1 \in DOMAIN r /\ r[i - 1] = q[i]
  <2>1. i - 1 \in DOMAIN t /\ i - 1 + 1 = i
    BY <1>1, <1>5, <1>9
  <2>2. t[i - 1] = q[i]
    BY <1>4, <1>5, <2>1
  <2> QED  BY <1>7, <2>1, <2>2
<1>10. ASSUME NEW i \in DOMAIN t PROVE i + 1 # 1 /\ i + 1 \in DOMAIN q /\ t[i] = q[i + 1]
  BY <1>1, <1>4, <1>5
<1> QED  BY <1>2, <1>4, <1>6, <1>7, <1>8, <1>9, <1>10 DEF q

\* The backend applies a write that creates nothing.
LEMMA TailStep ==
    ASSUME TypeOK, CarpoolsInv, TypeOK', NEW u \in User, pending[u] # << >>,
           pending' = [pending EXCEPT ![u] = Tail(@) \o << >>],
           NEW w \in QueuedWrite, w = Head(pending[u]), w.op # "create",
           UNCHANGED <<strays, passengers, used>>,
           \A p \in User, c \in Carpool :
              c \in groups'[p] => /\ c \in groups[p] \/ Is(w, "enter", c, p)
                                  /\ ~ Is(w, "leave", c, p),
           \A c \in Carpool :
              /\ carpoolCollection'[c] = NoCarpool =>
                    \/ carpoolCollection[c] = NoCarpool
                    \/ w.op = "delete" /\ w.carpool = c
              /\ carpoolCollection'[c] # NoCarpool =>
                    /\ carpoolCollection[c] # NoCarpool
                    /\ carpoolCollection'[c].uuid = carpoolCollection[c].uuid
                    /\ carpoolCollection'[c].driver = carpoolCollection[c].driver
                    /\ \A p \in User : Rides(p, carpoolCollection[c]) =>
                          Rides(p, carpoolCollection'[c]) \/ Is(w, "dropPassenger", c, p),
           \A v \in User, c \in Carpool : Seen(v, c)' => Seen(v, c),
           \A v \in User : Docs(v)' \subseteq Docs(v)
    PROVE  CarpoolsInv'
<1> DEFINE old(v, i) == IF v = u THEN i + 1 ELSE i
<1>1. << >> \in Seq(QueuedWrite) /\ DOMAIN << >> = {}
  OBVIOUS
<1>2. /\ 1 \in DOMAIN pending[u] /\ w = pending[u][1]
      /\ \A v \in User : v # u => pending'[v] = pending[v]
      /\ \A i \in DOMAIN pending[u] :
            i # 1 => i - 1 \in DOMAIN pending'[u] /\ pending'[u][i - 1] = pending[u][i]
      /\ \A i \in DOMAIN pending'[u] : i + 1 \in DOMAIN pending[u] /\ pending'[u][i] = pending[u][i + 1]
  <2>1. pending'[u] = Tail(pending[u]) \o << >> /\ \A v \in User : v # u => pending'[v] = pending[v]
    BY DEF TypeOK
  <2> DEFINE n == Len(pending[u]) - 1
  <2>2. n = Len(pending[u]) - 1
    OBVIOUS
  <2> HIDE DEF n
  <2>3. /\ 1 \in DOMAIN pending[u] /\ Head(pending[u]) = pending[u][1]
        /\ \A i \in DOMAIN pending[u] :
              i # 1 => i - 1 \in DOMAIN pending'[u] /\ pending'[u][i - 1] = pending[u][i]
        /\ \A i \in DOMAIN pending'[u] :
              \/ i + 1 # 1 /\ i + 1 \in DOMAIN pending[u] /\ pending'[u][i] = pending[u][i + 1]
              \/ i - n \in DOMAIN << >> /\ pending'[u][i] = << >>[i - n]
    BY <1>1, <2>1, <2>2, Delivered
  <2> QED  BY <1>1, <2>1, <2>3
<1>3. \A v \in User : /\ \A i \in DOMAIN pending[v] : i \in Nat /\ i >= 1
                      /\ \A i \in DOMAIN pending'[v] : i \in Nat /\ i >= 1
  <2>1. \A v \in User : DOMAIN pending[v] = 1 .. Len(pending[v]) /\ DOMAIN pending'[v] = 1 .. Len(pending'[v])
    BY QueueElements, SeqElement DEF TypeOK
  <2> QED  BY <2>1
<1>4. \A v \in User : \A i \in DOMAIN pending'[v] :
         old(v, i) \in DOMAIN pending[v] /\ pending'[v][i] = pending[v][old(v, i)]
  BY <1>2
<1>5. \A v \in User : \A i \in DOMAIN pending[v] :
         \/ v = u /\ i = 1
         \/ \E k \in DOMAIN pending'[v] : old(v, k) = i /\ pending'[v][k] = pending[v][i]
  <2>1. ASSUME NEW i \in DOMAIN pending[u], i # 1
        PROVE  \E k \in DOMAIN pending'[u] : old(u, k) = i /\ pending'[u][k] = pending[u][i]
    <3>1. i - 1 + 1 = i
      BY <1>3
    <3>2. i - 1 \in DOMAIN pending'[u] /\ pending'[u][i - 1] = pending[u][i]
      BY <1>2, <2>1
    <3> QED  BY <3>1, <3>2
  <2>2. ASSUME NEW v \in User, v # u, NEW i \in DOMAIN pending[v]
        PROVE  \E k \in DOMAIN pending'[v] : old(v, k) = i /\ pending'[v][k] = pending[v][i]
    BY <1>2, <2>2
  <2> QED  BY <2>1, <2>2
<1>6. \A v \in User : \A i, j \in DOMAIN pending'[v] :
         /\ old(v, i) = old(v, j) => i = j
         /\ old(v, i) < old(v, j) <=> i < j
  BY <1>3
<1>7. \A v \in User : \A i \in DOMAIN pending'[v] : old(v, i) # 1 \/ v # u
  BY <1>3
<1> HIDE DEF old
<1>8. \A v \in User : \A op, c : Has(pending[v], op, c)' => Has(pending[v], op, c)
  BY <1>4 DEF Has
<1>9. \A v \in User : \A op, c, p : HasFor(pending[v], op, c, p)' => HasFor(pending[v], op, c, p)
  BY <1>4 DEF HasFor, Is
<1>10. \A v \in User : \A op, c, p :
          HasFor(pending[v], op, c, p) => HasFor(pending[v], op, c, p)' \/ Is(w, op, c, p)
  BY <1>2, <1>5 DEF HasFor, Is
<1>11. \A c : Creating(c)' <=> Creating(c)
  <2>1. \A v \in User : \A c : Has(pending[v], "create", c) => Has(pending[v], "create", c)'
    BY <1>2, <1>5 DEF Has
  <2> QED  BY <1>8, <2>1 DEF Creating
<1>12. HasFor(pending[u], w.op, w.carpool, w.user)
  BY <1>2 DEF HasFor, Is
<1>13. \A p \in User, c \in Carpool : Gone(p, c) => Gone(p, c)'
  <2> SUFFICES ASSUME NEW p \in User, NEW c \in Carpool, Gone(p, c) PROVE Gone(p, c)'
    OBVIOUS
  <2>1. ~ Is(w, "enter", c, p)
    BY <1>12 DEF Gone, Is
  <2>2. c \notin groups'[p]
    BY <2>1 DEF Gone
  <2> QED  BY <1>9, <2>2 DEF Gone
<1>14. \A p \in User, c \in Carpool : Is(w, "leave", c, p) => Gone(p, c)'
  <2> SUFFICES ASSUME NEW p \in User, NEW c \in Carpool, Is(w, "leave", c, p) PROVE Gone(p, c)'
    OBVIOUS
  <2>1. c \notin groups'[p]
    OBVIOUS
  <2>2. ASSUME NEW y \in User, HasFor(pending[y], "enter", c, p)' PROVE FALSE
    <3>1. PICK j \in DOMAIN pending[y] : Is(pending[y][j], "enter", c, p)
      BY <1>9, <2>2 DEF HasFor
    <3>2. j < 1
      BY <1>2, <3>1 DEF CarpoolsInv, EntersBeforeLeaves, Is
    <3> QED  BY <1>3, <3>1, <3>2
  <2> QED  BY <2>1, <2>2 DEF Gone
<1>15. \A p \in User, c \in Carpool : Covered(p, c) => Covered(p, c)'
  BY <1>10, <1>13, <1>14 DEF Covered, LeaveQueued
<1>16. PicksDistinct'
  BY DEF CarpoolsInv, PicksDistinct
<1>17. UnbornUntouched'
  <2>1. ASSUME NEW c \in Carpool, Untouched(c) PROVE Untouched(c)'
    <3>1. \A p \in User : ~ Is(w, "enter", c, p)
      <4>1. w.op = "enter" => Has(pending[u], "enter", w.carpool)
        BY <1>2 DEF Has
      <4> QED  BY <2>1, <4>1 DEF Untouched, Is
    <3>2. \A v \in User : c \notin groups'[v] /\ ~ Seen(v, c)'
      BY <2>1, <3>1 DEF Untouched
    <3>3. carpoolCollection'[c] = NoCarpool
      BY <2>1 DEF Untouched
    <3>4. \A v \in User, op \in {"delete", "dropPassenger", "enter", "leave"} : ~ Has(pending[v], op, c)'
      BY <1>8, <2>1 DEF Untouched
    <3> QED  BY <3>2, <3>3, <3>4 DEF Untouched
  <2> QED  BY <1>11, <2>1 DEF CarpoolsInv, UnbornUntouched
<1>18. CreatedOnce'
  <2>1. \A c \in Carpool \ used' : ~ Creating(c)'
    BY <1>11 DEF CarpoolsInv, CreatedOnce
  <2>2. ASSUME NEW v \in User, NEW i \in DOMAIN pending'[v], pending'[v][i].op = "create"
        PROVE  pending'[v][i].user = v
    BY <1>4, <2>2 DEF CarpoolsInv, CreatedOnce
  <2>3. ASSUME NEW x \in User, NEW y \in User, NEW i \in DOMAIN pending'[x], NEW j \in DOMAIN pending'[y],
               pending'[x][i].op = "create",
               pending'[y][j].op = "create", pending'[y][j].carpool = pending'[x][i].carpool
        PROVE  x = y /\ i = j
    <3>1. x = y /\ old(x, i) = old(y, j)
      BY <1>4, <2>3 DEF CarpoolsInv, CreatedOnce
    <3> QED  BY <1>6, <3>1
  <2> QED  BY <2>1, <2>2, <2>3 DEF CreatedOnce
<1>19. EnteredOnce'
  <2>1. ASSUME NEW p \in User, NEW c \in groups'[p], NEW y \in User, HasFor(pending[y], "enter", c, p)'
        PROVE  FALSE
    <3>1. c \in Carpool
      BY DEF TypeOK
    <3>2. PICK k \in DOMAIN pending'[y] : Is(pending'[y][k], "enter", c, p)
      BY <2>1 DEF HasFor
    <3>3. old(y, k) \in DOMAIN pending[y] /\ Is(pending[y][old(y, k)], "enter", c, p)
      BY <1>4, <3>2
    <3>4. CASE c \in groups[p]
      BY <3>3, <3>4 DEF CarpoolsInv, EnteredOnce, HasFor
    <3>5. CASE Is(w, "enter", c, p)
      <4>1. y = u /\ old(y, k) = 1
        BY <1>2, <3>3, <3>5 DEF CarpoolsInv, EnteredOnce, Is
      <4> QED  BY <1>7, <4>1
    <3> QED  BY <3>1, <3>4, <3>5
  <2>2. ASSUME NEW x \in User, NEW y \in User, NEW i \in DOMAIN pending'[x], NEW j \in DOMAIN pending'[y],
               pending'[x][i].op = "enter",
               Is(pending'[y][j], "enter", pending'[x][i].carpool, pending'[x][i].user)
        PROVE  x = y /\ i = j
    <3>1. x = y /\ old(x, i) = old(y, j)
      BY <1>4, <2>2 DEF CarpoolsInv, EnteredOnce
    <3> QED  BY <1>6, <3>1
  <2> QED  BY <2>1, <2>2 DEF EnteredOnce, Is
<1>20. DriverEnters'
  <2> SUFFICES ASSUME NEW y \in User, NEW c \in Carpool, Has(pending[y], "enter", c)'
               PROVE  /\ carpoolCollection'[c] # NoCarpool => carpoolCollection'[c].driver = y
                      /\ \A v \in User : \A d \in Docs(v)' : d.uuid = c => d.driver = y
    BY DEF DriverEnters
  <2>1. Has(pending[y], "enter", c)
    BY <1>8
  <2>2. /\ carpoolCollection[c] # NoCarpool => carpoolCollection[c].driver = y
        /\ \A v \in User : \A d \in Docs(v) : d.uuid = c => d.driver = y
    BY <2>1 DEF CarpoolsInv, DriverEnters
  <2>3. carpoolCollection'[c] # NoCarpool => carpoolCollection'[c].driver = y
    BY <2>2
  <2>4. \A v \in User : \A d \in Docs(v)' : d.uuid = c => d.driver = y
    BY <2>2
  <2> QED  BY <2>3, <2>4
<1>21. SeenAfterEntered'
  BY <1>9 DEF CarpoolsInv, SeenAfterEntered
<1>22. EntersBeforeLeaves'
  <2> SUFFICES ASSUME NEW x \in User, NEW y \in User,
                      NEW i \in DOMAIN pending'[x], NEW j \in DOMAIN pending'[y],
                      pending'[x][i].op = "leave",
                      Is(pending'[y][j], "enter", pending'[x][i].carpool, pending'[x][i].user)
               PROVE  x = y /\ j < i
    BY DEF EntersBeforeLeaves, Is
  <2>1. x = y /\ old(y, j) < old(x, i)
    BY <1>4 DEF CarpoolsInv, EntersBeforeLeaves
  <2> QED  BY <1>6, <2>1
<1>23. LeftBeforeDropped'
  <2>1. ASSUME NEW x \in User, NEW i \in DOMAIN pending'[x], pending'[x][i].op = "dropPassenger",
               NEW p, NEW c, p = pending'[x][i].user, c = pending'[x][i].carpool
        PROVE  \/ <<p, c>> \in strays'
               \/ Gone(p, c)'
               \/ \E j \in DOMAIN pending'[x] : j < i /\ Is(pending'[x][j], "leave", c, p)
    <3>1. old(x, i) \in DOMAIN pending[x] /\ pending[x][old(x, i)] = pending'[x][i]
      BY <1>4
    <3>2. p \in User /\ c \in Carpool
      BY <2>1, <3>1, QueueElements, QueuedWriteFields
    <3>3. \/ <<p, c>> \in strays
          \/ Gone(p, c)
          \/ \E j \in DOMAIN pending[x] : j < old(x, i) /\ Is(pending[x][j], "leave", c, p)
      BY <2>1, <3>1 DEF CarpoolsInv, LeftBeforeDropped
    <3>4. ASSUME NEW j \in DOMAIN pending[x], j < old(x, i), Is(pending[x][j], "leave", c, p)
          PROVE  \/ Gone(p, c)'
                 \/ \E k \in DOMAIN pending'[x] : k < i /\ Is(pending'[x][k], "leave", c, p)
      <4>1. CASE x = u /\ j = 1
        BY <1>2, <1>14, <3>2, <3>4, <4>1
      <4>2. CASE ~ (x = u /\ j = 1)
        <5>1. PICK k \in DOMAIN pending'[x] : old(x, k) = j /\ pending'[x][k] = pending[x][j]
          BY <1>5, <4>2
        <5>2. k < i
          BY <1>6, <3>4, <5>1
        <5> QED  BY <3>4, <5>1, <5>2
      <4> QED  BY <4>1, <4>2
    <3> QED  BY <1>13, <3>2, <3>3, <3>4
  <2> QED  BY <2>1 DEF LeftBeforeDropped
<1>24. DocumentsCover'
  <2> SUFFICES ASSUME NEW c \in Carpool, carpoolCollection'[c] # NoCarpool
               PROVE  /\ carpoolCollection'[c].uuid = c
                      /\ \A p \in User : \/ Rides(p, carpoolCollection'[c])
                                         \/ <<p, c>> \in strays'
                                         \/ Gone(p, c)'
    BY DEF DocumentsCover, Rides
  <2>1. carpoolCollection[c] # NoCarpool /\ carpoolCollection'[c].uuid = c
    BY DEF CarpoolsInv, DocumentsCover
  <2>2. ASSUME NEW p \in User, ~ Rides(p, carpoolCollection'[c]), <<p, c>> \notin strays
        PROVE  Gone(p, c)'
    <3>1. CASE ~ Rides(p, carpoolCollection[c])
      BY <1>13, <2>1, <2>2, <3>1 DEF CarpoolsInv, DocumentsCover
    <3>2. CASE Is(w, "dropPassenger", c, p)
      <4>1. Gone(p, c) \/ \E j \in DOMAIN pending[u] : j < 1
        BY <1>2, <2>2, <3>2 DEF CarpoolsInv, LeftBeforeDropped, Is
      <4> QED  BY <1>3, <1>13, <4>1
    <3> QED  BY <2>2, <3>1, <3>2
  <2> QED  BY <2>1, <2>2
<1>25. ListsCover'
  <2> SUFFICES ASSUME NEW v \in User, NEW d \in Docs(v)', NEW p \in User, ~ Rides(p, d)
               PROVE  Covered(p, d.uuid)'
    BY DEF ListsCover, Rides
  <2>1. d \in Docs(v) /\ d.uuid \in Carpool
    <3>1. d \in Docs(v)
      OBVIOUS
    <3>2. d \in CarpoolObject
      <4>1. carpools[v] \in Seq(CarpoolObject) /\ rows[v] \subseteq CarpoolObject
        BY DEF TypeOK
      <4> QED  BY <3>1, <4>1, SeqElement DEF Docs, ToSet
    <3> QED  BY <3>1, <3>2 DEF CarpoolObject
  <2>2. Covered(p, d.uuid)
    BY <2>1 DEF CarpoolsInv, ListsCover
  <2> QED  BY <1>15, <2>1, <2>2
<1>26. DeletedCovered'
  <2>1. ASSUME NEW c \in Carpool, NEW x \in User, Has(pending[x], "delete", c)', NEW p \in User
        PROVE  Covered(p, c)'
    BY <1>8, <1>15, <2>1 DEF CarpoolsInv, DeletedCovered
  <2>2. ASSUME NEW c \in Carpool, c \in used', ~ Creating(c)', carpoolCollection'[c] = NoCarpool,
               NEW p \in User
        PROVE  Covered(p, c)'
    <3>1. CASE carpoolCollection[c] = NoCarpool
      BY <1>11, <1>15, <2>2, <3>1 DEF CarpoolsInv, DeletedCovered
    <3>2. CASE w.op = "delete" /\ w.carpool = c
      <4>1. Has(pending[u], "delete", c)
        BY <1>2, <3>2 DEF Has
      <4> QED  BY <1>15, <4>1 DEF CarpoolsInv, DeletedCovered
    <3> QED  BY <2>2, <3>1, <3>2
  <2> QED  BY <2>1, <2>2 DEF DeletedCovered
<1> QED  BY <1>16, <1>17, <1>18, <1>19, <1>20, <1>21, <1>22, <1>23, <1>24, <1>25, <1>26 DEF CarpoolsInv

\* The entries written for a new carpool: each of the driver or of somebody
\* picked, and no two of the same user.
LEMMA NewEntries ==
    ASSUME NEW u \in User, NEW c \in Carpool, NEW ps \in Seq(User), u \notin ToSet(ps),
           \A i, j \in DOMAIN ps : ps[i] = ps[j] => i = j,
           NEW ws, ws = addCarpoolToGroups(u, c, ps)
    PROVE  /\ ws \in Seq(QueuedWrite)
           /\ \A i \in DOMAIN ws :
                 /\ i \in Nat /\ ws[i].op = "enter" /\ ws[i].carpool = c /\ ws[i].user \in User
                 /\ ws[i].user = u \/ ws[i].user \in ToSet(ps)
           /\ \A i, j \in DOMAIN ws : ws[i].user = ws[j].user => i = j
<1>1. Len(ps) \in Nat /\ DOMAIN ps = 1 .. Len(ps) /\ \A i \in DOMAIN ps : ps[i] \in User
  BY SeqElement
<1>2. /\ ws \in Seq(QueuedWrite)
      /\ DOMAIN ws = 1 .. Len(ps) + 1
      /\ \A i \in DOMAIN ws :
            \/ i = 1 /\ ws[i] = enterGroup(c, u)
            \/ i - 1 \in DOMAIN ps /\ ws[i] = enterGroup(c, ps[i - 1])
  BY EnterAllTyped
<1>3. \A i \in DOMAIN ws : i \in Nat
  BY <1>1, <1>2
<1>4. \A p \in User : /\ enterGroup(c, p).op = "enter"
                      /\ enterGroup(c, p).carpool = c /\ enterGroup(c, p).user = p
  BY DEF enterGroup, write
<1>5. \A i \in DOMAIN ws :
         /\ ws[i].op = "enter" /\ ws[i].carpool = c
         /\ \/ i = 1 /\ ws[i].user = u
            \/ i - 1 \in DOMAIN ps /\ ws[i].user = ps[i - 1]
  BY <1>1, <1>2, <1>4
<1>6. ASSUME NEW i \in DOMAIN ws
      PROVE  ws[i].user \in User /\ (ws[i].user = u \/ ws[i].user \in ToSet(ps))
  BY <1>1, <1>5 DEF ToSet
<1>7. ASSUME NEW i \in DOMAIN ws, NEW j \in DOMAIN ws, ws[i].user = ws[j].user PROVE i = j
  <2>1. \A k \in DOMAIN ps : ps[k] # u
    BY DEF ToSet
  <2>2. CASE i = 1 \/ j = 1
    BY <1>5, <1>7, <2>1, <2>2
  <2>3. CASE i # 1 /\ j # 1
    <3>1. i - 1 = j - 1
      BY <1>5, <1>7, <2>3
    <3> QED  BY <1>3, <3>1
  <2> QED  BY <2>2, <2>3
<1> QED  BY <1>2, <1>3, <1>5, <1>6, <1>7

\* The backend creates a carpool, and its driver's phone adds the entries ws.
LEMMA CreateStep ==
    ASSUME TypeOK, CarpoolsInv, TypeOK', NEW u \in User,
           NEW new \in Carpool, NEW riders \in SUBSET User, NEW n \in Int, NEW ws,
           1 \in DOMAIN pending[u], pending[u][1].op = "create", pending[u][1].carpool = new,
           \A v \in User : v # u => pending'[v] = pending[v],
           \A i \in DOMAIN pending[u] :
              i # 1 => i - 1 \in DOMAIN pending'[u] /\ pending'[u][i - 1] = pending[u][i],
           \A i \in DOMAIN pending'[u] :
              \/ i + 1 \in DOMAIN pending[u] /\ pending'[u][i] = pending[u][i + 1]
              \/ i - n \in DOMAIN ws /\ pending'[u][i] = ws[i - n],
           \A i \in DOMAIN ws :
              /\ ws[i].op = "enter" /\ ws[i].carpool = new
              /\ ws[i].user = u \/ ws[i].user \in riders \/ <<ws[i].user, new>> \in strays',
           \A i, j \in DOMAIN ws : ws[i].user = ws[j].user => i = j,
           strays \subseteq strays',
           carpoolCollection'[new] = [uuid |-> new, driver |-> u, passengers |-> riders],
           carpoolCollection'[new] # NoCarpool,
           \A c \in Carpool : c # new => carpoolCollection'[c] = carpoolCollection[c],
           UNCHANGED <<groups, passengers, used>>,
           \A v \in User, c \in Carpool : Seen(v, c)' => Seen(v, c),
           \A v \in User : Docs(v)' \subseteq Docs(v)
    PROVE  CarpoolsInv'
<1> DEFINE old(v, i) == IF v = u THEN i + 1 ELSE i
<1>1. \A v \in User : /\ \A i \in DOMAIN pending[v] : i \in Nat /\ i >= 1
                      /\ \A i \in DOMAIN pending'[v] : i \in Nat /\ i >= 1
  <2>1. \A v \in User : DOMAIN pending[v] = 1 .. Len(pending[v]) /\ DOMAIN pending'[v] = 1 .. Len(pending'[v])
    BY QueueElements, SeqElement DEF TypeOK
  <2> QED  BY <2>1
<1>2. \A v \in User : \A i \in DOMAIN pending'[v] :
         \/ old(v, i) \in DOMAIN pending[v] /\ pending'[v][i] = pending[v][old(v, i)]
         \/ v = u /\ i - n \in DOMAIN ws /\ pending'[v][i] = ws[i - n]
  OBVIOUS
<1>3. \A v \in User : \A i \in DOMAIN pending[v] :
         \/ v = u /\ i = 1
         \/ \E k \in DOMAIN pending'[v] : old(v, k) = i /\ pending'[v][k] = pending[v][i]
  <2>1. ASSUME NEW i \in DOMAIN pending[u], i # 1
        PROVE  \E k \in DOMAIN pending'[u] : old(u, k) = i /\ pending'[u][k] = pending[u][i]
    <3>1. i - 1 + 1 = i
      BY <1>1
    <3>2. i - 1 \in DOMAIN pending'[u] /\ pending'[u][i - 1] = pending[u][i]
      BY <2>1
    <3> QED  BY <3>1, <3>2
  <2>2. ASSUME NEW v \in User, v # u, NEW i \in DOMAIN pending[v]
        PROVE  \E k \in DOMAIN pending'[v] : old(v, k) = i /\ pending'[v][k] = pending[v][i]
    BY <2>2
  <2> QED  BY <2>1, <2>2
<1>4. \A v \in User : \A i, j \in DOMAIN pending'[v] :
          /\ old(v, i) = old(v, j) => i = j
          /\ old(v, i) < old(v, j) <=> i < j
  BY <1>1
<1>5. \A v \in User : \A i \in DOMAIN pending'[v] : old(v, i) # 1 \/ v # u
  BY <1>1
<1> HIDE DEF old
<1>6. new \in used /\ Untouched(new)
  <2>1. Creating(new)
    BY DEF Creating, Has
  <2> QED  BY <2>1 DEF CarpoolsInv, CreatedOnce, UnbornUntouched
\* For the other carpools the queues hold what they held.
<1>7. ASSUME NEW v \in User, NEW i \in DOMAIN pending'[v],
              pending'[v][i].carpool # new \/ pending'[v][i].op # "enter"
       PROVE  old(v, i) \in DOMAIN pending[v] /\ pending'[v][i] = pending[v][old(v, i)]
  <2>1. CASE v = u /\ i - n \in DOMAIN ws /\ pending'[v][i] = ws[i - n]
    <3>1. ws[i - n].carpool = new /\ ws[i - n].op = "enter"
      BY <2>1
    <3> QED  BY <1>7, <2>1, <3>1
  <2> QED  BY <1>2, <2>1
<1>8. ASSUME NEW v \in User, NEW i \in DOMAIN pending[v], pending[v][i].carpool # new
       PROVE  \E k \in DOMAIN pending'[v] : old(v, k) = i /\ pending'[v][k] = pending[v][i]
  <2>1. ~ (v = u /\ i = 1)
    BY <1>8
  <2> QED  BY <1>3, <2>1
<1>9. ASSUME NEW v \in User, NEW op, NEW c, c # new
      PROVE  Has(pending[v], op, c)' <=> Has(pending[v], op, c)
  <2>1. ASSUME NEW i \in DOMAIN pending'[v], pending'[v][i].op = op, pending'[v][i].carpool = c
        PROVE  Has(pending[v], op, c)
    <3>1. old(v, i) \in DOMAIN pending[v] /\ pending'[v][i] = pending[v][old(v, i)]
      BY <1>9, <1>7, <2>1
    <3> QED  BY <2>1, <3>1 DEF Has
  <2>2. ASSUME NEW i \in DOMAIN pending[v], pending[v][i].op = op, pending[v][i].carpool = c
        PROVE  Has(pending[v], op, c)'
    <3>1. PICK k \in DOMAIN pending'[v] : pending'[v][k] = pending[v][i]
      BY <1>9, <1>8, <2>2
    <3> QED  BY <2>2, <3>1 DEF Has
  <2> QED  BY <2>1, <2>2 DEF Has
<1>10. ASSUME NEW v \in User, NEW op, NEW c, NEW p, c # new
      PROVE  HasFor(pending[v], op, c, p)' <=> HasFor(pending[v], op, c, p)
  <2>1. ASSUME NEW i \in DOMAIN pending'[v], Is(pending'[v][i], op, c, p)
        PROVE  HasFor(pending[v], op, c, p)
    <3>1. old(v, i) \in DOMAIN pending[v] /\ pending'[v][i] = pending[v][old(v, i)]
      BY <1>10, <1>7, <2>1 DEF Is
    <3> QED  BY <2>1, <3>1 DEF HasFor, Is
  <2>2. ASSUME NEW i \in DOMAIN pending[v], Is(pending[v][i], op, c, p)
        PROVE  HasFor(pending[v], op, c, p)'
    <3>1. PICK k \in DOMAIN pending'[v] : pending'[v][k] = pending[v][i]
      BY <1>10, <1>8, <2>2 DEF Is
    <3> QED  BY <2>2, <3>1 DEF HasFor, Is
  <2> QED  BY <2>1, <2>2 DEF HasFor
<1>11. \A c, p :
         c # new => /\ Creating(c)' <=> Creating(c)
                    /\ Gone(p, c)' <=> Gone(p, c)
                    /\ Covered(p, c) => Covered(p, c)'
  <2>1. ASSUME NEW c, NEW p, c # new
        PROVE  /\ Creating(c)' <=> Creating(c)
               /\ Gone(p, c)' <=> Gone(p, c)
               /\ LeaveQueued(p, c)' <=> LeaveQueued(p, c)
    BY <1>9, <1>10, <2>1 DEF Creating, Gone, LeaveQueued
  <2>2. \A c, p : <<p, c>> \in strays => <<p, c>> \in strays'
    OBVIOUS
  <2> QED  BY <2>1, <2>2 DEF Covered
\* For the new one they hold the new entries only.
<1>12. \A v \in User, op \in {"delete", "dropPassenger", "enter", "leave"} : ~ Has(pending[v], op, new)
  BY <1>6 DEF Untouched
<1>13. ASSUME NEW v \in User, NEW i \in DOMAIN pending'[v], pending'[v][i].carpool = new
       PROVE  v = u /\ i - n \in DOMAIN ws /\ pending'[v][i] = ws[i - n]
  <2>1. CASE old(v, i) \in DOMAIN pending[v] /\ pending'[v][i] = pending[v][old(v, i)]
    <3>1. pending[v][old(v, i)].op \in {"create", "delete", "dropPassenger", "enter", "leave"}
      BY <2>1, QueueElements, QueuedWriteFields
    <3>2. pending[v][old(v, i)].op = "create"
      BY <1>12, <1>13, <2>1, <3>1 DEF Has
    <3>3. v = u /\ old(v, i) = 1
      BY <1>13, <2>1, <3>2 DEF CarpoolsInv, CreatedOnce
    <3> QED  BY <1>5, <3>3
  <2> QED  BY <1>2, <2>1
<1>14. PicksDistinct'
  BY DEF CarpoolsInv, PicksDistinct
<1>15. ASSUME NEW v \in User, NEW i \in DOMAIN pending'[v], pending'[v][i].carpool = new
       PROVE  pending'[v][i].op = "enter"
  <2>1. i - n \in DOMAIN ws /\ pending'[v][i] = ws[i - n]
    BY <1>13, <1>15
  <2>2. ws[i - n].op = "enter"
    BY <2>1
  <2> QED  BY <2>1, <2>2
<1>16. ~ Creating(new)'
  BY <1>15 DEF Creating, Has
<1>17. UnbornUntouched'
  <2> SUFFICES ASSUME NEW c \in Carpool, c \notin used \/ Creating(c)' PROVE Untouched(c)'
    BY DEF UnbornUntouched
  <2>1. c # new /\ Untouched(c)
    BY <1>6, <1>11, <1>16 DEF CarpoolsInv, UnbornUntouched
  <2>2. \A v \in User, op \in {"delete", "dropPassenger", "enter", "leave"} : ~ Has(pending[v], op, c)'
    BY <1>9, <2>1 DEF Untouched
  <2> QED  BY <2>1, <2>2 DEF Untouched
<1>18. CreatedOnce'
  <2>1. \A c \in Carpool \ used' : ~ Creating(c)'
    BY <1>11, <1>16 DEF CarpoolsInv, CreatedOnce
  <2>2. ASSUME NEW v \in User, NEW i \in DOMAIN pending'[v], pending'[v][i].op = "create"
        PROVE  /\ old(v, i) \in DOMAIN pending[v] /\ pending'[v][i] = pending[v][old(v, i)]
               /\ pending'[v][i].user = v
    BY <1>7, <2>2 DEF CarpoolsInv, CreatedOnce
  <2>3. ASSUME NEW x \in User, NEW y \in User, NEW i \in DOMAIN pending'[x], NEW j \in DOMAIN pending'[y],
               pending'[x][i].op = "create",
               pending'[y][j].op = "create", pending'[y][j].carpool = pending'[x][i].carpool
        PROVE  x = y /\ i = j
    <3>1. x = y /\ old(x, i) = old(y, j)
      BY <2>2, <2>3 DEF CarpoolsInv, CreatedOnce
    <3> QED  BY <1>4, <3>1
  <2> QED  BY <2>1, <2>2, <2>3 DEF CreatedOnce
<1>19. EnteredOnce'
  <2>1. ASSUME NEW p \in User, NEW c \in groups'[p], NEW y \in User PROVE ~ HasFor(pending[y], "enter", c, p)'
    <3>1. c # new
      BY <1>6 DEF Untouched
    <3> QED  BY <1>10, <3>1 DEF CarpoolsInv, EnteredOnce
  <2>2. ASSUME NEW x \in User, NEW y \in User, NEW i \in DOMAIN pending'[x], NEW j \in DOMAIN pending'[y],
               pending'[x][i].op = "enter",
               Is(pending'[y][j], "enter", pending'[x][i].carpool, pending'[x][i].user)
        PROVE  x = y /\ i = j
    <3>1. CASE pending'[x][i].carpool = new
      <4>1. /\ x = u /\ i - n \in DOMAIN ws /\ pending'[x][i] = ws[i - n]
            /\ y = u /\ j - n \in DOMAIN ws /\ pending'[y][j] = ws[j - n]
        BY <1>13, <2>2, <3>1 DEF Is
      <4>2. i - n = j - n
        BY <2>2, <4>1 DEF Is
      <4>3. i \in Nat /\ j \in Nat
        BY <1>1
      <4> QED  BY <1>1, <4>1, <4>2, <4>3
    <3>2. CASE pending'[x][i].carpool # new
      <4>1. /\ old(x, i) \in DOMAIN pending[x] /\ pending'[x][i] = pending[x][old(x, i)]
            /\ old(y, j) \in DOMAIN pending[y] /\ pending'[y][j] = pending[y][old(y, j)]
        BY <1>7, <2>2, <3>2 DEF Is
      <4>2. x = y /\ old(x, i) = old(y, j)
        BY <2>2, <4>1 DEF CarpoolsInv, EnteredOnce
      <4> QED  BY <1>4, <4>2
    <3> QED  BY <3>1, <3>2
  <2> QED  BY <2>1, <2>2 DEF EnteredOnce, Is
<1>20. DriverEnters'
  <2> SUFFICES ASSUME NEW y \in User, NEW c \in Carpool, Has(pending[y], "enter", c)'
               PROVE  /\ carpoolCollection'[c] # NoCarpool => carpoolCollection'[c].driver = y
                      /\ \A v \in User : \A d \in Docs(v)' : d.uuid = c => d.driver = y
    BY DEF DriverEnters
  <2>1. CASE c = new
    <3>1. y = u
      BY <1>13, <2>1 DEF Has
    <3>2. \A v \in User : \A d \in Docs(v)' : d.uuid # new
      BY <1>6 DEF Untouched, Seen
    <3> QED  BY <2>1, <3>1, <3>2
  <2>2. CASE c # new
    <3>1. Has(pending[y], "enter", c)
      BY <1>9, <2>2
    <3>2. /\ carpoolCollection[c] # NoCarpool => carpoolCollection[c].driver = y
          /\ \A v \in User : \A d \in Docs(v) : d.uuid = c => d.driver = y
      BY <3>1 DEF CarpoolsInv, DriverEnters
    <3> QED  BY <2>2, <3>2
  <2> QED  BY <2>1, <2>2
<1>21. SeenAfterEntered'
  <2> SUFFICES ASSUME NEW v \in User, NEW y \in User, NEW c \in Carpool,
                      Seen(v, c)', HasFor(pending[y], "enter", c, v)'
               PROVE  y = v
    BY DEF SeenAfterEntered
  <2>1. c # new
    BY <1>6 DEF Untouched
  <2> QED  BY <1>10, <2>1 DEF CarpoolsInv, SeenAfterEntered
<1>22. EntersBeforeLeaves'
  <2> SUFFICES ASSUME NEW x \in User, NEW y \in User,
                      NEW i \in DOMAIN pending'[x], NEW j \in DOMAIN pending'[y],
                      pending'[x][i].op = "leave",
                      Is(pending'[y][j], "enter", pending'[x][i].carpool, pending'[x][i].user)
               PROVE  x = y /\ j < i
    BY DEF EntersBeforeLeaves, Is
  <2>1. pending'[x][i].carpool # new
    BY <1>15
  <2>2. /\ old(x, i) \in DOMAIN pending[x] /\ pending'[x][i] = pending[x][old(x, i)]
        /\ old(y, j) \in DOMAIN pending[y] /\ pending'[y][j] = pending[y][old(y, j)]
    BY <1>7, <2>1 DEF Is
  <2>3. x = y /\ old(y, j) < old(x, i)
    BY <2>2 DEF CarpoolsInv, EntersBeforeLeaves
  <2> QED  BY <1>4, <2>3
<1>23. LeftBeforeDropped'
  <2>1. ASSUME NEW x \in User, NEW i \in DOMAIN pending'[x], pending'[x][i].op = "dropPassenger",
               NEW p, NEW c, p = pending'[x][i].user, c = pending'[x][i].carpool
        PROVE  \/ <<p, c>> \in strays'
               \/ Gone(p, c)'
               \/ \E j \in DOMAIN pending'[x] : j < i /\ Is(pending'[x][j], "leave", c, p)
    <3>1. c # new
      BY <1>15, <2>1
    <3>2. old(x, i) \in DOMAIN pending[x] /\ pending[x][old(x, i)] = pending'[x][i]
      BY <1>7, <2>1
    <3>3. \/ <<p, c>> \in strays
          \/ Gone(p, c)
          \/ \E j \in DOMAIN pending[x] : j < old(x, i) /\ Is(pending[x][j], "leave", c, p)
      BY <2>1, <3>2 DEF CarpoolsInv, LeftBeforeDropped
    <3>4. ASSUME NEW j \in DOMAIN pending[x], j < old(x, i), Is(pending[x][j], "leave", c, p)
          PROVE  \E k \in DOMAIN pending'[x] : k < i /\ Is(pending'[x][k], "leave", c, p)
      <4>1. ~ (x = u /\ j = 1)
        BY <3>4 DEF Is
      <4>2. PICK k \in DOMAIN pending'[x] : old(x, k) = j /\ pending'[x][k] = pending[x][j]
        BY <1>3, <4>1
      <4>3. k < i
        BY <1>4, <3>4, <4>2
      <4> QED  BY <3>4, <4>2, <4>3
    <3>5. <<p, c>> \in strays => <<p, c>> \in strays'
      OBVIOUS
    <3> QED  BY <1>11, <3>1, <3>3, <3>4, <3>5
  <2> QED  BY <2>1 DEF LeftBeforeDropped
<1>24. DocumentsCover'
  <2> SUFFICES ASSUME NEW c \in Carpool, carpoolCollection'[c] # NoCarpool
               PROVE  /\ carpoolCollection'[c].uuid = c
                      /\ \A p \in User : \/ Rides(p, carpoolCollection'[c])
                                         \/ <<p, c>> \in strays'
                                         \/ Gone(p, c)'
    BY DEF DocumentsCover, Rides
  <2>1. CASE c # new
    <3>1. /\ carpoolCollection'[c] = carpoolCollection[c]
          /\ carpoolCollection[c].uuid = c
          /\ \A p \in User : \/ Rides(p, carpoolCollection[c])
                             \/ <<p, c>> \in strays
                             \/ Gone(p, c)
      BY <2>1 DEF CarpoolsInv, DocumentsCover
    <3>2. \A p \in User : <<p, c>> \in strays => <<p, c>> \in strays'
      OBVIOUS
    <3> QED  BY <1>11, <2>1, <3>1, <3>2
  <2>2. CASE c = new
    <3>1. ASSUME NEW p \in User, ~ Rides(p, carpoolCollection'[new]), ~ Gone(p, new)'
          PROVE  <<p, new>> \in strays'
      <4>1. p # u /\ p \notin riders
        BY <3>1 DEF Rides
      <4>2. PICK y \in User : HasFor(pending[y], "enter", new, p)'
        BY <1>6, <3>1 DEF Gone, Untouched
      <4>3. PICK i \in DOMAIN pending'[y] : Is(pending'[y][i], "enter", new, p)
        BY <4>2 DEF HasFor
      <4>4. i - n \in DOMAIN ws /\ pending'[y][i] = ws[i - n]
        BY <1>13, <4>3 DEF Is
      <4> QED  BY <4>1, <4>3, <4>4 DEF Is
    <3> QED  BY <2>2, <3>1
  <2> QED  BY <2>1, <2>2
<1>25. ListsCover'
  <2> SUFFICES ASSUME NEW v \in User, NEW d \in Docs(v)', NEW p \in User, ~ Rides(p, d)
               PROVE  Covered(p, d.uuid)'
    BY DEF ListsCover, Rides
  <2>1. d.uuid # new
    BY <1>6 DEF Untouched, Seen
  <2>2. Covered(p, d.uuid)
    BY DEF CarpoolsInv, ListsCover
  <2> QED  BY <1>11, <2>1, <2>2
<1>26. DeletedCovered'
  <2>1. ASSUME NEW c \in Carpool, NEW x \in User, Has(pending[x], "delete", c)', NEW p \in User
        PROVE  Covered(p, c)'
    <3>1. c # new
      BY <1>15, <2>1 DEF Has
    <3> QED  BY <1>9, <1>11, <2>1, <3>1 DEF CarpoolsInv, DeletedCovered
  <2>2. ASSUME NEW c \in Carpool, c \in used', ~ Creating(c)', carpoolCollection'[c] = NoCarpool,
               NEW p \in User
        PROVE  Covered(p, c)'
    BY <1>11, <2>2 DEF CarpoolsInv, DeletedCovered
  <2> QED  BY <2>1, <2>2 DEF DeletedCovered
<1> QED  BY <1>14, <1>17, <1>18, <1>19, <1>20, <1>21, <1>22, <1>23, <1>24, <1>25, <1>26 DEF CarpoolsInv
-----------------------------------------------------------------------------
(* Every step keeps the invariant.                                          *)

LEMMA InvInit == Init => CarpoolsInv
<1> SUFFICES ASSUME Init PROVE CarpoolsInv
  OBVIOUS
<1>1. \A u \in User : /\ pending[u] = << >> /\ passengers[u] = << >> /\ carpools[u] = << >>
                      /\ refreshing[u] = << >>
                      /\ groups[u] = {} /\ rows[u] = {} /\ cleanups[u] = {} /\ snapshot[u] = {}
  BY DEF Init
<1>2. DOMAIN << >> = {}
  OBVIOUS
<1>3. \A u \in User : \A op, c, p : ~ Has(pending[u], op, c) /\ ~ HasFor(pending[u], op, c, p)
  BY <1>1, <1>2 DEF Has, HasFor
<1>4. \A u \in User : Docs(u) = {} /\ \A c : ~ Seen(u, c)
  BY <1>1, <1>2 DEF Docs, Seen, ToSet
<1>5. \A c \in Carpool : carpoolCollection[c] = NoCarpool /\ used = {}
  BY DEF Init
<1>6. PicksDistinct
  BY <1>1, <1>2 DEF PicksDistinct, ToSet
<1>7. UnbornUntouched
  BY <1>1, <1>3, <1>4, <1>5 DEF UnbornUntouched, Untouched
<1>8. CreatedOnce /\ EnteredOnce
  <2>1. CreatedOnce
    BY <1>1, <1>2, <1>3 DEF CreatedOnce, Creating
  <2>2. EnteredOnce
    BY <1>1, <1>2 DEF EnteredOnce
  <2> QED  BY <2>1, <2>2
<1>9. DriverEnters /\ SeenAfterEntered
  BY <1>3 DEF DriverEnters, SeenAfterEntered
<1>10. EntersBeforeLeaves /\ LeftBeforeDropped
  BY <1>1, <1>2 DEF EntersBeforeLeaves, LeftBeforeDropped
<1>11. DocumentsCover /\ ListsCover /\ DeletedCovered
  BY <1>3, <1>4, <1>5 DEF DocumentsCover, ListsCover, DeletedCovered
<1> QED  BY <1>6, <1>7, <1>8, <1>9, <1>10, <1>11 DEF CarpoolsInv

\* Steps that leave the queues and what was heard of alone.
LEMMA StillStep ==
    ASSUME TypeOK, CarpoolsInv, TypeOK', PicksDistinct',
           UNCHANGED <<carpoolCollection, groups, pending, carpools, rows, snapshot, refreshing,
                       used, strays>>,
           \A v \in User : \A k \in cleanups'[v] :
              k \in cleanups[v] \/ \A c \in k.ids : c \in OwnGroups(v)
    PROVE  CarpoolsInv'
<1>1. \A v \in User : Docs(v)' = Docs(v)
  BY DEF Docs
<1>2. \A v \in User, c \in Carpool : Seen(v, c)' => Seen(v, c) \/ c \in OwnGroups(v)
  BY <1>1 DEF Seen
<1> QED  BY <1>1, <1>2, QuietStep

LEMMA selectPassengerStep ==
    ASSUME TypeOK, CarpoolsInv, TypeOK', NEW u \in User, NEW p \in User, selectPassenger(u, p)
    PROVE  CarpoolsInv'
<1>1. /\ p # u /\ p \notin ToSet(passengers[u])
      /\ passengers' = [passengers EXCEPT ![u] = Append(@, p)]
  BY DEF selectPassenger
<1> DEFINE q == passengers[u]
<1>2. q \in Seq(User) /\ Len(q) \in Nat /\ DOMAIN q = 1 .. Len(q)
  <2>1. q \in Seq(User)
    BY DEF TypeOK
  <2> QED  BY <2>1, SeqElement
<1>3. /\ passengers'[u] = Append(q, p)
      /\ \A v \in User : v # u => passengers'[v] = passengers[v]
  BY <1>1 DEF TypeOK
<1> HIDE DEF q
<1>4. /\ DOMAIN Append(q, p) = 1 .. Len(q) + 1
      /\ \A i \in 1 .. Len(q) : Append(q, p)[i] = q[i]
      /\ Append(q, p)[Len(q) + 1] = p
  <2>1. Append(q, p) \in Seq(User) /\ Len(Append(q, p)) = Len(q) + 1
    BY <1>2, AppendProperties
  <2>2. DOMAIN Append(q, p) = 1 .. Len(q) + 1
    BY <2>1, LenProperties
  <2> QED  BY <1>2, <2>2, AppendProperties
<1>5. \A i \in 1 .. Len(q) + 1 : i \in 1 .. Len(q) \/ i = Len(q) + 1
  BY <1>2
<1>6. u \notin ToSet(q) /\ \A i, j \in 1 .. Len(q) : q[i] = q[j] => i = j
  BY <1>2 DEF CarpoolsInv, PicksDistinct, q
<1>7. p \notin ToSet(q) /\ \A i \in 1 .. Len(q) : q[i] # p /\ q[i] # u
  BY <1>1, <1>2, <1>6 DEF ToSet, q
<1>8. /\ u \notin ToSet(Append(q, p))
      /\ \A i, j \in DOMAIN Append(q, p) : Append(q, p)[i] = Append(q, p)[j] => i = j
  BY <1>1, <1>4, <1>5, <1>6, <1>7 DEF ToSet
<1>9. PicksDistinct'
  <2>1. ASSUME NEW v \in User
        PROVE  /\ v \notin ToSet(passengers'[v])
               /\ \A i, j \in DOMAIN passengers'[v] : passengers'[v][i] = passengers'[v][j] => i = j
    <3>1. CASE v = u
      BY <1>3, <1>8, <3>1
    <3>2. CASE v # u
      BY <1>3, <3>2 DEF CarpoolsInv, PicksDistinct
    <3> QED  BY <3>1, <3>2
  <2> QED  BY <2>1 DEF PicksDistinct, ToSet
<1>10. UNCHANGED <<carpoolCollection, groups, pending, carpools, rows, snapshot, refreshing,
                   used, strays, cleanups>>
  BY DEF selectPassenger, historyVars
<1> QED  BY <1>9, <1>10, StillStep

LEMMA createCarpoolStep ==
    ASSUME TypeOK, CarpoolsInv, TypeOK', NEW u \in User, NEW c \in Carpool, createCarpool(u, c)
    PROVE  CarpoolsInv'
<1> DEFINE w == [op |-> "create", carpool |-> c, user |-> u,
                 riders |-> ToSet(passengers[u]), completes |-> TRUE]
           ws == << w >>
<1>1. ToSet(passengers[u]) \in SUBSET User
  <2>1. passengers[u] \in Seq(User)
    BY DEF TypeOK
  <2> QED  BY <2>1, SeqElement DEF ToSet
<1>2. w \in QueuedWrite /\ w.op = "create" /\ w.carpool = c /\ w.user = u
  BY <1>1 DEF QueuedWrite
<1>3. Enqueue(u, ws) /\ c \notin used /\ used' = used \cup {c}
  BY DEF createCarpool
<1>4. UNCHANGED <<carpoolCollection, groups, strays, passengers, carpools, rows, snapshot,
                  refreshing, cleanups>>
  BY DEF createCarpool
<1> HIDE DEF w
<1>5. ws \in Seq(QueuedWrite) /\ DOMAIN ws = {1} /\ ws[1] = w
  BY <1>2
<1> HIDE DEF ws
<1>6. \A v \in User : Docs(v)' = Docs(v) /\ \A d \in Carpool : Seen(v, d)' => Seen(v, d)
  BY <1>4 DEF Docs, Seen
<1> QED  BY <1>2, <1>3, <1>4, <1>5, <1>6, AppendStep

LEMMA fetchGroupsStep ==
    ASSUME TypeOK, CarpoolsInv, TypeOK', NEW u \in User, fetchGroupsForCurrentUser(u)
    PROVE  CarpoolsInv'
<1> DEFINE ids == OwnGroups(u)
           todo == IF ids = {} THEN refreshing[u] ELSE Append(refreshing[u], ids)
<1>1. /\ carpools' = [carpools EXCEPT ![u] = << >>]
      /\ refreshing' = [refreshing EXCEPT ![u] = todo]
      /\ rows' = IF ids = {} THEN [rows EXCEPT ![u] = ToSet(<< >>)] ELSE rows
      /\ snapshot' = [snapshot EXCEPT ![u] = ids]
  BY DEF fetchGroupsForCurrentUser, StartsRefresh, Refreshes
<1>2. UNCHANGED <<carpoolCollection, groups, pending, passengers, cleanups, used, strays>>
  BY DEF fetchGroupsForCurrentUser
<1>3. \A v \in User : Docs(v)' \subseteq Docs(v)
  <2>1. ToSet(<< >>) = {}
    BY DEF ToSet
  <2>2. \A v \in User : /\ ToSet(carpools'[v]) \subseteq ToSet(carpools[v])
                        /\ rows'[v] \subseteq rows[v]
    <3>1. /\ carpools'[u] = << >>
          /\ \A v \in User : v # u => carpools'[v] = carpools[v]
      BY <1>1 DEF TypeOK
    <3>2. \A v \in User : rows'[v] \subseteq rows[v]
      BY <1>1, <2>1 DEF TypeOK
    <3> QED  BY <2>1, <3>1, <3>2
  <2> QED  BY <2>2 DEF Docs
<1>4. \A k \in DOMAIN todo : todo[k] = ids \/ \E j \in DOMAIN refreshing[u] : todo[k] = refreshing[u][j]
  <2> DEFINE q == refreshing[u]
  <2>1. q \in Seq(SUBSET Carpool) /\ Len(q) \in Nat /\ DOMAIN q = 1 .. Len(q) /\ ids \in SUBSET Carpool
    <3>1. q \in Seq(SUBSET Carpool)
      BY DEF TypeOK
    <3> QED  BY <3>1, SeqElement DEF OwnGroups
  <2> HIDE DEF q, ids
  <2>2. /\ DOMAIN Append(q, ids) = 1 .. Len(q) + 1
        /\ \A i \in 1 .. Len(q) : Append(q, ids)[i] = q[i]
        /\ Append(q, ids)[Len(q) + 1] = ids
    <3>1. Append(q, ids) \in Seq(SUBSET Carpool) /\ Len(Append(q, ids)) = Len(q) + 1
      BY <2>1, AppendProperties
    <3>2. DOMAIN Append(q, ids) = 1 .. Len(q) + 1
      BY <3>1, LenProperties
    <3> QED  BY <2>1, <3>2, AppendProperties
  <2>3. \A i \in 1 .. Len(q) + 1 : i \in 1 .. Len(q) \/ i = Len(q) + 1
    BY <2>1
  <2>4. \A k \in DOMAIN Append(q, ids) :
           Append(q, ids)[k] = ids \/ \E j \in DOMAIN q : Append(q, ids)[k] = q[j]
    BY <2>1, <2>2, <2>3
  <2> QED  BY <2>4 DEF q
<1>5. /\ refreshing'[u] = todo /\ snapshot'[u] = ids
      /\ \A v \in User : v # u => refreshing'[v] = refreshing[v] /\ snapshot'[v] = snapshot[v]
  BY <1>1 DEF TypeOK
<1> HIDE DEF todo, ids
<1>6. ASSUME NEW v \in User, NEW c \in Carpool, Seen(v, c)' PROVE Seen(v, c) \/ c \in OwnGroups(v)
  <2>1. CASE v = u
    BY <1>2, <1>3, <1>4, <1>5, <1>6, <2>1 DEF Seen, ids
  <2>2. CASE v # u
    BY <1>2, <1>3, <1>5, <1>6, <2>2 DEF Seen
  <2> QED  BY <2>1, <2>2
<1>7. PicksDistinct'
  BY <1>2 DEF CarpoolsInv, PicksDistinct
<1> QED  BY <1>2, <1>3, <1>6, <1>7, QuietStep

LEMMA fetchCarpoolStep ==
    ASSUME TypeOK, CarpoolsInv, TypeOK', NEW u \in User, NEW k \in DOMAIN refreshing[u],
           NEW c \in refreshing[u][k], fetchCarpool(u, k, c)
    PROVE  CarpoolsInv'
<1> DEFINE doc == CarpoolSeenBy(u, c)
           last == refreshing[u][k] = {c}
           todo == IF last THEN RemoveAt(refreshing[u], k)
                   ELSE [refreshing[u] EXCEPT ![k] = @ \ {c}]
<1>0. PICK list : FetchLeaves(u, k, c, list)
  BY FetchLists
<1>1. /\ carpools' = [carpools EXCEPT ![u] = list]
      /\ refreshing' = [refreshing EXCEPT ![u] = todo]
      /\ rows' = IF last THEN [rows EXCEPT ![u] = ToSet(list)] ELSE rows
      /\ list = carpools[u] \/ (doc # NoCarpool /\ list = Append(carpools[u], doc))
  BY <1>0 DEF FetchLeaves, Leaves, Refreshes
<1>2. UNCHANGED <<carpoolCollection, groups, pending, passengers, snapshot, cleanups, used, strays>>
  BY DEF fetchCarpool
<1>3. /\ refreshing[u] \in Seq(SUBSET Carpool) /\ carpools[u] \in Seq(CarpoolObject)
      /\ DOMAIN refreshing[u] = 1 .. Len(refreshing[u])
  BY LenProperties DEF TypeOK
<1>4. c \in Carpool /\ Seen(u, c)
  BY <1>3, ElementOfSeq DEF Seen
<1>5. doc \in CarpoolObject \cup {NoCarpool}
  BY <1>4, SeenTyped
<1> HIDE DEF doc
<1>6. \A d \in ToSet(list) : d \in ToSet(carpools[u]) \/ (doc # NoCarpool /\ d = doc)
  <2>1. CASE list = carpools[u]
    BY <2>1
  <2>2. CASE doc # NoCarpool /\ list = Append(carpools[u], doc)
    <3> DEFINE q == carpools[u]
    <3>1. q \in Seq(CarpoolObject) /\ Len(q) \in Nat /\ DOMAIN q = 1 .. Len(q) /\ doc \in CarpoolObject
      BY <1>3, <1>5, <2>2, SeqElement
    <3> HIDE DEF q
    <3>2. /\ DOMAIN Append(q, doc) = 1 .. Len(q) + 1
          /\ \A i \in 1 .. Len(q) : Append(q, doc)[i] = q[i]
          /\ Append(q, doc)[Len(q) + 1] = doc
      <4>1. Append(q, doc) \in Seq(CarpoolObject) /\ Len(Append(q, doc)) = Len(q) + 1
        BY <3>1, AppendProperties
      <4>2. DOMAIN Append(q, doc) = 1 .. Len(q) + 1
        BY <4>1, LenProperties
      <4> QED  BY <3>1, <4>2, AppendProperties
    <3>3. \A i \in 1 .. Len(q) + 1 : i \in 1 .. Len(q) \/ i = Len(q) + 1
      BY <3>1
    <3>4. \A d \in ToSet(Append(q, doc)) : d \in ToSet(q) \/ d = doc
      BY <3>1, <3>2, <3>3 DEF ToSet
    <3> QED  BY <2>2, <3>4 DEF q
  <2> QED  BY <1>1, <2>1, <2>2
<1>7. \A i \in DOMAIN todo : \E j \in DOMAIN refreshing[u] : todo[i] \subseteq refreshing[u][j]
  <2>1. CASE last
    <3>1. todo = RemoveAt(refreshing[u], k)
      BY <2>1
    <3>2. \A i \in DOMAIN RemoveAt(refreshing[u], k) :
             \E j \in DOMAIN refreshing[u] : RemoveAt(refreshing[u], k)[i] = refreshing[u][j]
      <4>1. refreshing[u] \in Seq(SUBSET Carpool) /\ k \in 1 .. Len(refreshing[u])
        BY <1>3
      <4> HIDE DEF todo
      <4> QED  BY <4>1, RemoveAtForm
    <3> HIDE DEF todo
    <3>3. ASSUME NEW i \in DOMAIN todo
          PROVE  \E j \in DOMAIN refreshing[u] : todo[i] \subseteq refreshing[u][j]
      BY <3>1, <3>2
    <3> QED  BY <3>3
  <2>2. CASE ~ last
    <3>1. todo = [refreshing[u] EXCEPT ![k] = @ \ {c}]
      BY <2>2
    <3>2. DOMAIN todo = DOMAIN refreshing[u] /\ \A i \in DOMAIN todo : todo[i] \subseteq refreshing[u][i]
      BY <3>1
    <3> QED  BY <3>2
  <2> QED  BY <2>1, <2>2
<1> HIDE DEF todo, last
<1>8. /\ carpools'[u] = list /\ refreshing'[u] = todo
      /\ rows'[u] = ToSet(list) \/ rows'[u] = rows[u]
      /\ \A v \in User : v # u => /\ carpools'[v] = carpools[v] /\ refreshing'[v] = refreshing[v]
                                  /\ rows'[v] = rows[v]
  BY <1>1 DEF TypeOK
<1>9. ASSUME NEW v \in User, NEW d \in Docs(v)'
      PROVE  d \in Docs(v) \/ (v = u /\ doc # NoCarpool /\ d = doc)
  BY <1>6, <1>8 DEF Docs
<1>10. ASSUME NEW v \in User, NEW b \in Carpool, Seen(v, b)' PROVE Seen(v, b)
  <2>1. CASE \E d \in Docs(v)' : d.uuid = b
    <3>1. PICK d \in Docs(v)' : d.uuid = b
      BY <2>1
    <3>2. CASE d \in Docs(v)
      BY <3>1, <3>2 DEF Seen
    <3>3. CASE v = u /\ doc # NoCarpool /\ d = doc
      <4>1. d.uuid = c
        BY <1>4, <3>3, SeenDocument DEF doc
      <4> QED  BY <1>4, <3>1, <3>3, <4>1
    <3> QED  BY <1>9, <3>2, <3>3
  <2>2. CASE \E i \in DOMAIN refreshing'[v] : b \in refreshing'[v][i]
    <3>1. CASE v = u
      BY <1>7, <1>8, <2>2, <3>1 DEF Seen
    <3>2. CASE v # u
      BY <1>8, <2>2, <3>2 DEF Seen
    <3> QED  BY <3>1, <3>2
  <2>3. CASE (\E i \in cleanups'[v] : b \in i.ids) \/ b \in snapshot'[v]
    BY <1>2, <2>3 DEF Seen
  <2> QED  BY <1>10, <2>1, <2>2, <2>3 DEF Seen
<1>11. PicksDistinct'
  BY <1>2 DEF CarpoolsInv, PicksDistinct
<1>12. \A v \in User : \A d \in Docs(v)' :
          \/ d \in Docs(v)
          \/ \E b \in Carpool : /\ Seen(v, b)
                                /\ CarpoolSeenBy(v, b) # NoCarpool /\ d = CarpoolSeenBy(v, b)
  BY <1>4, <1>9 DEF doc
<1> QED  BY <1>2, <1>10, <1>11, <1>12, QuietStep

LEMMA deleteAsDriverStep ==
    ASSUME TypeOK, CarpoolsInv, TypeOK', NEW u \in User, NEW row \in rows[u], deleteAsDriver(u, row)
    PROVE  CarpoolsInv'
<1> DEFINE c == row.uuid
           w == [write("delete", c, u) EXCEPT !.completes = TRUE]
<1>1. row \in CarpoolObject /\ c \in Carpool /\ row.passengers \in SUBSET User /\ row.driver = u
  BY DEF TypeOK, CarpoolObject, deleteAsDriver
<1>2. PICK ps \in SetToSeqs(row.passengers) : Enqueue(u, << w >> \o leaveAll(u, ps, c))
  BY DEF deleteAsDriver
<1>3. w \in QueuedWrite /\ w.op = "delete" /\ w.carpool = c
  BY <1>1 DEF write, QueuedWrite
<1>4. UNCHANGED <<carpoolCollection, groups, strays, passengers, used, carpools, rows, snapshot,
                  refreshing, cleanups>>
  BY DEF deleteAsDriver, phoneVars, historyVars
<1>5. row \in Docs(u) /\ Seen(u, c)
  BY DEF Docs, Seen
<1> HIDE DEF w, c
<1> DEFINE a == << w >>
           b == leaveAll(u, ps, c)
           ws == a \o b
<1>6. a \in Seq(QueuedWrite) /\ Len(a) = 1 /\ DOMAIN a = {1} /\ a[1] = w
  BY <1>3
<1>7. ps \in Seq(User) /\ ToSet(ps) = row.passengers
  BY <1>1, OrderOfPassengers
<1>8. /\ b \in Seq(QueuedWrite)
      /\ \A i \in DOMAIN b : \E p \in User : Is(b[i], "leave", c, p)
      /\ \A p \in User : Rides(p, row) => \E i \in DOMAIN b : Is(b[i], "leave", c, p)
  <2>1. /\ b \in Seq(QueuedWrite)
        /\ \A i \in DOMAIN b : \E p \in {u} \cup ToSet(ps) : b[i] = leaveGroup(c, p)
        /\ \A p \in {u} \cup ToSet(ps) : \E i \in DOMAIN b : b[i] = leaveGroup(c, p)
    BY <1>1, <1>7, LeaveAllTyped
  <2>2. \A p \in User : Is(leaveGroup(c, p), "leave", c, p)
    BY DEF leaveGroup, write, Is
  <2>3. \A p \in User : Rides(p, row) <=> p \in {u} \cup ToSet(ps)
    BY <1>1, <1>7 DEF Rides
  <2>4. {u} \cup ToSet(ps) \subseteq User
    BY <1>1, <1>7
  <2> HIDE DEF b
  <2> QED  BY <2>1, <2>2, <2>3, <2>4
<1> HIDE DEF a, b
<1>9. /\ ws \in Seq(QueuedWrite)
      /\ \A i \in DOMAIN a : i \in DOMAIN ws /\ ws[i] = a[i]
      /\ \A j \in DOMAIN b : Len(a) + j \in DOMAIN ws /\ ws[Len(a) + j] = b[j]
      /\ \A i \in DOMAIN ws :
            \/ i \in DOMAIN a
            \/ i > Len(a) /\ i - Len(a) \in DOMAIN b /\ ws[i] = b[i - Len(a)]
  <2>1. a \in Seq(QueuedWrite) /\ b \in Seq(QueuedWrite)
    BY <1>6, <1>8
  <2> QED  BY <2>1, ConcatElement
<1>10. Enqueue(u, ws)
  BY <1>2 DEF a, b
<1> HIDE DEF ws
<1>11. \A j \in DOMAIN ws :
          \/ ws[j].op = "delete" /\ ws[j].carpool = c
          \/ \E p \in User : Is(ws[j], "leave", c, p)
  BY <1>3, <1>6, <1>8, <1>9
<1>12. \A p \in User : Rides(p, row) => \E j \in DOMAIN ws : Is(ws[j], "leave", c, p)
  BY <1>8, <1>9
<1>13. \A j \in DOMAIN ws : /\ ws[j].op = "leave" \/ ws[j].op = "delete"
                            /\ ws[j].carpool = c
  BY <1>11 DEF Is
<1>14. \A y \in User : Has(pending[y], "enter", c) => y = u
  BY <1>1, <1>5 DEF CarpoolsInv, DriverEnters, c
<1>15. \A j \in DOMAIN ws :
          \A y \in User : HasFor(pending[y], "enter", ws[j].carpool, ws[j].user) => y = u
  BY <1>13, <1>14 DEF HasFor, Has, Is
<1>16. ASSUME NEW j \in DOMAIN ws, NEW p \in User
       PROVE  \/ Covered(p, ws[j].carpool)
              \/ \E i \in DOMAIN ws : Is(ws[i], "leave", ws[j].carpool, p)
  <2>1. Rides(p, row) \/ Covered(p, c)
    BY <1>5 DEF CarpoolsInv, ListsCover, c
  <2> QED  BY <1>12, <1>13, <2>1
<1>17. \A v \in User : Docs(v)' = Docs(v) /\ \A d \in Carpool : Seen(v, d)' => Seen(v, d)
  BY <1>4 DEF Docs, Seen
<1>18. \A j \in DOMAIN ws : /\ ws[j].op # "create" /\ ws[j].op # "enter" /\ ws[j].op # "dropPassenger"
                            /\ Seen(u, ws[j].carpool)
  BY <1>5, <1>13
<1>19. used \subseteq used' /\ used' \ used = {}
  BY <1>4
<1> QED  BY <1>4, <1>9, <1>10, <1>15, <1>16, <1>17, <1>18, <1>19, AppendStep

LEMMA deleteAsPassengerStep ==
    ASSUME TypeOK, CarpoolsInv, TypeOK', NEW u \in User, NEW row \in rows[u], deleteAsPassenger(u, row)
    PROVE  CarpoolsInv'
<1> DEFINE c == row.uuid
           ws == << leaveGroup(c, u) >>
<1>1. row \in CarpoolObject /\ c \in Carpool /\ carpools[u] \in Seq(CarpoolObject)
  <2>1. row \in CarpoolObject /\ carpools[u] \in Seq(CarpoolObject)
    BY DEF TypeOK
  <2> QED  BY <2>1 DEF CarpoolObject
<1>2. Is(leaveGroup(c, u), "leave", c, u) /\ leaveGroup(c, u) \in QueuedWrite
  <2>1. Is(leaveGroup(c, u), "leave", c, u)
    BY DEF leaveGroup, write, Is
  <2> QED  BY <1>1, <2>1, WriteTyped DEF leaveGroup
<1>3. Enqueue(u, ws) /\ c \in Uuids(carpools[u])
  BY DEF deleteAsPassenger
<1>4. UNCHANGED <<carpoolCollection, groups, strays, passengers, used, rows, snapshot,
                  refreshing, cleanups>>
  BY DEF deleteAsPassenger
<1>5. Seen(u, c)
  BY DEF Docs, Seen
<1>6. carpools' = [carpools EXCEPT ![u] = WithoutFirst(@, c)]
  BY DEF deleteAsPassenger
<1>7. \A d \in ToSet(WithoutFirst(carpools[u], c)) : d \in ToSet(carpools[u])
  BY <1>1, <1>3, WithoutFirstForm
<1>8. \A v \in User : ToSet(carpools'[v]) \subseteq ToSet(carpools[v])
  BY <1>6, <1>7 DEF TypeOK
<1>9. \A v \in User : Docs(v)' \subseteq Docs(v)
  BY <1>4, <1>8 DEF Docs
<1>10. \A v \in User, d \in Carpool : Seen(v, d)' => Seen(v, d)
  BY <1>4, <1>9 DEF Seen
<1> HIDE DEF c
<1>11. ws \in Seq(QueuedWrite) /\ DOMAIN ws = {1} /\ ws[1] = leaveGroup(c, u)
  BY <1>2
<1> HIDE DEF ws
<1>12. \A j \in DOMAIN ws : Is(ws[j], "leave", c, u)
  BY <1>2, <1>11
<1>13. \A j \in DOMAIN ws : /\ ws[j].op # "create" /\ ws[j].op # "enter"
                            /\ ws[j].op # "dropPassenger" /\ ws[j].op # "delete"
                            /\ ws[j].carpool = c /\ ws[j].user = u
  BY <1>12 DEF Is
<1>14. \A y \in User : HasFor(pending[y], "enter", c, u) => y = u
  BY <1>1, <1>5 DEF CarpoolsInv, SeenAfterEntered, c
<1>15. used \subseteq used' /\ used' \ used = {}
  BY <1>4
<1> QED  BY <1>3, <1>4, <1>5, <1>9, <1>10, <1>11, <1>13, <1>14, <1>15, AppendStep

LEMMA separateStep ==
    ASSUME TypeOK, CarpoolsInv, TypeOK', NEW u \in User, NEW v \in User, separate(u, v)
    PROVE  CarpoolsInv'
<1>1. UNCHANGED <<carpoolCollection, groups, pending, carpools, rows, snapshot, refreshing,
                  used, strays, passengers>>
  BY DEF separate
<1>2. cleanups' = [cleanups EXCEPT ![u] = @ \cup {CleanUp(v, FALSE, {})}]
  BY DEF separate
<1>3. \A x \in User : \A k \in cleanups'[x] : k \in cleanups[x] \/ \A c \in k.ids : c \in OwnGroups(x)
  <2>1. CleanUp(v, FALSE, {}).ids = {}
    BY DEF CleanUp
  <2>2. \A x \in User : cleanups'[x] \subseteq cleanups[x] \cup {CleanUp(v, FALSE, {})}
    BY <1>2 DEF TypeOK
  <2> QED  BY <2>1, <2>2
<1>4. PicksDistinct'
  BY <1>1 DEF CarpoolsInv, PicksDistinct
<1> QED  BY <1>1, <1>3, <1>4, StillStep

LEMMA readGroupsStep ==
    ASSUME TypeOK, CarpoolsInv, TypeOK', NEW u \in User, NEW v \in User, readGroups(u, v)
    PROVE  CarpoolsInv'
<1>1. UNCHANGED <<carpoolCollection, groups, pending, carpools, rows, snapshot, refreshing,
                  used, strays, passengers>>
  BY DEF readGroups, historyVars
<1>2. \A x \in User : \A k \in cleanups'[x] : k \in cleanups[x] \/ \A c \in k.ids : c \in OwnGroups(x)
  <2>1. \A x \in User : \A k \in cleanups'[x] :
           k \in cleanups[x] \/ (x = u /\ k = CleanUp(v, TRUE, OwnGroups(u)))
    <3> DEFINE others == cleanups[u] \ {CleanUp(v, FALSE, {})}
    <3>1. PICK ks : /\ cleanups' = [cleanups EXCEPT ![u] = ks]
                    /\ ks \subseteq cleanups[u] \cup {CleanUp(v, TRUE, OwnGroups(u))}
      <4>1. CASE cleanups' = [cleanups EXCEPT ![u] = others]
        BY <4>1
      <4>2. CASE cleanups' = [cleanups EXCEPT ![u] =
                                 others \cup {CleanUp(v, TRUE, OwnGroups(u))}]
        BY <4>2
      <4> QED  BY <4>1, <4>2 DEF readGroups
    <3> QED  BY <3>1 DEF TypeOK
  <2>2. CleanUp(v, TRUE, OwnGroups(u)).ids = OwnGroups(u)
    BY DEF CleanUp
  <2> QED  BY <2>1, <2>2
<1>3. PicksDistinct'
  BY <1>1 DEF CarpoolsInv, PicksDistinct
<1> QED  BY <1>1, <1>2, <1>3, StillStep

\* A clean-up that cannot read a carpool queues nothing.
LEMMA CleanUpQueues ==
    ASSUME TypeOK, NEW u \in User, NEW k, NEW c, cleanUpCarpool(u, k, c)
    PROVE  \E ws : /\ Enqueue(u, ws)
                   /\ ws = << >> \/ ws = cleanUpWrites(u, k.user, CarpoolSeenBy(u, c))
<1>1. CASE Enqueue(u, cleanUpWrites(u, k.user, CarpoolSeenBy(u, c)))
  BY <1>1
<1>2. CASE UNCHANGED pending
  <2> DEFINE q == pending[u]
  <2>1. q \in Seq(QueuedWrite)
    BY DEF TypeOK
  <2> HIDE DEF q
  <2>2. q \o << >> = q
    BY <2>1
  <2>3. pending = [pending EXCEPT ![u] = q]
    BY DEF TypeOK, q
  <2>4. Enqueue(u, << >>)
    BY <1>2, <2>2, <2>3 DEF Enqueue, q
  <2> QED  BY <2>4
<1> QED  BY <1>1, <1>2 DEF cleanUpCarpool

LEMMA cleanUpCarpoolStep ==
    ASSUME TypeOK, CarpoolsInv, TypeOK', NEW u \in User, NEW k \in cleanups[u], NEW c \in k.ids,
           cleanUpCarpool(u, k, c)
    PROVE  CarpoolsInv'
<1> DEFINE doc == CarpoolSeenBy(u, c)
<1>1. /\ k \in [user : User, read : BOOLEAN, ids : SUBSET Carpool]
      /\ k.user \in User /\ c \in Carpool /\ Seen(u, c)
  <2>1. k \in [user : User, read : BOOLEAN, ids : SUBSET Carpool]
    BY DEF TypeOK
  <2>2. Seen(u, c)
    BY DEF Seen
  <2> QED  BY <2>1, <2>2
<1>2. PICK ws : Enqueue(u, ws) /\ (ws = << >> \/ ws = cleanUpWrites(u, k.user, doc))
  BY CleanUpQueues
<1>3. UNCHANGED <<carpoolCollection, groups, strays, passengers, used, carpools, rows, snapshot,
                  refreshing>>
  BY DEF cleanUpCarpool, historyVars
<1>4. doc \in CarpoolObject \cup {NoCarpool}
  BY <1>1, SeenTyped
<1>5. ASSUME NEW x \in User, NEW m \in cleanups'[x]
      PROVE  \E l \in cleanups[x] : m.ids \subseteq l.ids
  <2>1. m \in cleanups[x] \/ (x = u /\ m = [k EXCEPT !.ids = @ \ {c}])
    BY <1>5 DEF cleanUpCarpool, TypeOK
  <2>2. [k EXCEPT !.ids = @ \ {c}].ids \subseteq k.ids
    BY <1>1
  <2> QED  BY <2>1, <2>2
<1>6. \A v \in User : Docs(v)' = Docs(v)
  BY <1>3 DEF Docs
<1>7. \A v \in User, d \in Carpool : Seen(v, d)' => Seen(v, d)
  BY <1>3, <1>5, <1>6 DEF Seen
<1> HIDE DEF doc
<1>8. /\ ws \in Seq(QueuedWrite)
      /\ \/ ws = << >>
         \/ /\ doc # NoCarpool
            /\ \E p \in {u, k.user} :
                  /\ p # u => doc.driver = u
                  /\ ws = << leaveGroup(doc.uuid, p), dropPassenger(doc.uuid, p) >>
  <2>1. CASE ws = << >>
    BY <2>1
  <2>2. CASE ws = cleanUpWrites(u, k.user, doc)
    BY <1>1, <1>4, <2>2, CleanUpTyped
  <2> QED  BY <1>2, <2>1, <2>2
<1>9. used \subseteq used' /\ used' \ used = {}
  BY <1>3
<1>10. CASE ws = << >>
  <2>1. DOMAIN ws = {}
    BY <1>10
  <2> QED  BY <1>2, <1>3, <1>6, <1>7, <1>8, <1>9, <2>1, AppendStep
<1>11. CASE ws # << >>
  <2>1. doc # NoCarpool /\ doc.uuid = c /\ doc.driver = carpoolCollection[c].driver
        /\ carpoolCollection[c] # NoCarpool
    BY <1>1, <1>8, <1>11, SeenDocument DEF doc
  <2>2. PICK p \in {u, k.user} : /\ p # u => doc.driver = u
                                 /\ ws = << leaveGroup(c, p), dropPassenger(c, p) >>
    BY <1>8, <1>11, <2>1
  <2>3. DOMAIN ws = {1, 2} /\ ws[1] = leaveGroup(c, p) /\ ws[2] = dropPassenger(c, p)
    BY <2>2
  <2>4. Is(ws[1], "leave", c, p) /\ Is(ws[2], "dropPassenger", c, p)
    BY <2>3 DEF leaveGroup, dropPassenger, write, Is
  <2>5. \A j \in DOMAIN ws : /\ ws[j].op # "create" /\ ws[j].op # "enter" /\ ws[j].op # "delete"
                             /\ ws[j].carpool = c /\ ws[j].user = p
    BY <2>3, <2>4 DEF Is
  <2>6. \A j \in DOMAIN ws :
           ws[j].op = "dropPassenger" => \E i \in DOMAIN ws : i < j /\ Is(ws[i], "leave", c, p)
    <3>1. ws[1].op # "dropPassenger" /\ 1 < 2
      BY <2>4 DEF Is
    <3> QED  BY <2>3, <2>4, <3>1
  <2>7. \A y \in User : HasFor(pending[y], "enter", c, p) => y = u
    <3>1. CASE p = u
      BY <1>1, <3>1 DEF CarpoolsInv, SeenAfterEntered
    <3>2. CASE p # u
      <4>1. carpoolCollection[c].driver = u
        BY <2>1, <2>2, <3>2
      <4> QED  BY <1>1, <2>1, <4>1 DEF CarpoolsInv, DriverEnters, HasFor, Has, Is
    <3> QED  BY <3>1, <3>2
  <2> QED  BY <1>1, <1>2, <1>3, <1>6, <1>7, <1>8, <1>9, <2>5, <2>6, <2>7, AppendStep
<1> QED  BY <1>10, <1>11

LEMMA DeliverStep ==
    ASSUME TypeOK, CarpoolsInv, TypeOK', NEW u \in User, Deliver(u)
    PROVE  CarpoolsInv'
<1> DEFINE w == Head(pending[u])
           made == w.op = "create" /\ w.completes
           ws == IF made THEN addCarpoolToGroups(u, w.carpool, passengers[u]) ELSE << >>
<1>1. /\ pending[u] # << >>
      /\ carpoolCollection' = ApplyToCarpools(carpoolCollection, w)
      /\ groups' = ApplyToGroups(groups, w)
      /\ pending' = [pending EXCEPT ![u] = Tail(@) \o ws]
      /\ strays' = IF made THEN strays \cup ((ToSet(passengers[u]) \ w.riders) \X {w.carpool})
                   ELSE strays
      /\ \/ carpools' = carpools
         \/ /\ w.carpool \in Uuids(carpools[u])
            /\ carpools' = [carpools EXCEPT ![u] = WithoutFirst(@, w.carpool)]
  BY DEF Deliver
<1>2. UNCHANGED <<passengers, rows, snapshot, refreshing, cleanups, used>>
  BY DEF Deliver
<1>3. w \in QueuedWrite /\ w = pending[u][1] /\ 1 \in DOMAIN pending[u]
  <2>1. pending[u] \in Seq(QueuedWrite) /\ pending[u] # << >>
    BY <1>1 DEF TypeOK
  <2> QED  BY <2>1, HeadTailProperties, LenProperties, EmptySeq
<1>4. w.op \in {"create", "delete", "dropPassenger", "enter", "leave"} /\ w.carpool \in Carpool /\ w.user \in User
      /\ w.riders \in SUBSET User
  BY <1>3, QueuedWriteFields
<1>5. carpoolCollection \in [Carpool -> CarpoolObject \cup {NoCarpool}] /\ groups \in [User -> SUBSET Carpool]
  BY DEF TypeOK
<1>6. \A v \in User : Docs(v)' \subseteq Docs(v)
  <2>1. \A v \in User : ToSet(carpools'[v]) \subseteq ToSet(carpools[v])
    <3>1. CASE carpools' = carpools
      BY <3>1
    <3>2. CASE w.carpool \in Uuids(carpools[u]) /\ carpools' = [carpools EXCEPT ![u] = WithoutFirst(@, w.carpool)]
      <4>1. carpools[u] \in Seq(CarpoolObject)
        BY DEF TypeOK
      <4>2. \A d \in ToSet(WithoutFirst(carpools[u], w.carpool)) : d \in ToSet(carpools[u])
        BY <3>2, <4>1, WithoutFirstForm
      <4> HIDE DEF w
      <4> QED  BY <3>2, <4>2 DEF TypeOK
    <3> QED  BY <1>1, <3>1, <3>2
  <2> QED  BY <1>2, <2>1 DEF Docs
<1>7. \A v \in User, c \in Carpool : Seen(v, c)' => Seen(v, c)
  BY <1>2, <1>6 DEF Seen
<1>8. CASE w.op = "create"
  <2>1. w.user = u
    BY <1>3, <1>8 DEF CarpoolsInv, CreatedOnce
  <2> DEFINE new == w.carpool
             riders == w.riders
             n == Len(pending[u]) - 1
             es == addCarpoolToGroups(u, new, passengers[u])
  <2>2. new \in Carpool /\ riders \in SUBSET User /\ passengers[u] \in Seq(User)
    BY <1>4 DEF TypeOK
  <2>3. n \in Int
    BY QueueElements
  <2>4. /\ es \in Seq(QueuedWrite)
        /\ \A i \in DOMAIN es :
              /\ es[i].op = "enter" /\ es[i].carpool = new
              /\ es[i].user = u \/ es[i].user \in ToSet(passengers[u])
        /\ \A i, j \in DOMAIN es : es[i].user = es[j].user => i = j
    <3>1. /\ u \notin ToSet(passengers[u])
          /\ \A i, j \in DOMAIN passengers[u] : passengers[u][i] = passengers[u][j] => i = j
      BY DEF CarpoolsInv, PicksDistinct
    <3> HIDE DEF es, new
    <3> QED  BY <2>2, <3>1, NewEntries DEF es
  <2> HIDE DEF es
  <2>5. /\ (ws = es /\ w.completes) \/ ws = << >>
        /\ w.completes => strays' = strays \cup ((ToSet(passengers[u]) \ riders) \X {new})
        /\ strays \subseteq strays'
    BY <1>1, <1>8 DEF es
  <2>6. /\ ws \in Seq(QueuedWrite)
        /\ \A i \in DOMAIN ws :
              /\ ws[i].op = "enter" /\ ws[i].carpool = new
              /\ ws[i].user = u \/ ws[i].user \in riders \/ <<ws[i].user, new>> \in strays'
        /\ \A i, j \in DOMAIN ws : ws[i].user = ws[j].user => i = j
    <3> HIDE DEF ws, riders, new, w
    <3>1. CASE ws = es /\ w.completes
      BY <2>4, <2>5, <3>1
    <3>2. CASE ws = << >>
      BY <3>2
    <3> QED  BY <2>5, <3>1, <3>2
  <2>7. /\ carpoolCollection'[new] = [uuid |-> new, driver |-> u, passengers |-> riders]
        /\ carpoolCollection'[new] # NoCarpool
        /\ \A c \in Carpool : c # new => carpoolCollection'[c] = carpoolCollection[c]
    <3>1. carpoolCollection' = [carpoolCollection EXCEPT ![new] =
             [uuid |-> new, driver |-> u, passengers |-> riders]]
      BY <1>1, <1>8, <2>1 DEF ApplyToCarpools
    <3> HIDE DEF new, riders, w
    <3>2. [uuid |-> new, driver |-> u, passengers |-> riders] \in CarpoolObject
      BY <2>2 DEF CarpoolObject
    <3> QED  BY <1>5, <2>2, <3>1, <3>2, NoCarpoolAssumption
  <2>8. groups' = groups
    BY <1>1, <1>8 DEF ApplyToGroups
  <2>9. pending[u][1].op = "create" /\ pending[u][1].carpool = new
    BY <1>3, <1>8
  <2> HIDE DEF ws, w, new, riders
  <2>10. /\ \A v \in User : v # u => pending'[v] = pending[v]
         /\ \A i \in DOMAIN pending[u] :
               i # 1 => i - 1 \in DOMAIN pending'[u] /\ pending'[u][i - 1] = pending[u][i]
         /\ \A i \in DOMAIN pending'[u] :
               \/ i + 1 \in DOMAIN pending[u] /\ pending'[u][i] = pending[u][i + 1]
               \/ i - n \in DOMAIN ws /\ pending'[u][i] = ws[i - n]
    <3>1. /\ ws \in Seq(QueuedWrite) /\ pending[u] # << >>
          /\ pending' = [pending EXCEPT ![u] = Tail(@) \o ws]
      BY <1>1, <2>6
    <3>n. n = Len(pending[u]) - 1
      OBVIOUS
    <3> HIDE DEF n, made
    <3>2. pending'[u] = Tail(pending[u]) \o ws /\ \A v \in User : v # u => pending'[v] = pending[v]
      BY <3>1 DEF TypeOK
    <3>3. \A i \in DOMAIN pending'[u] :
             \/ i + 1 \in DOMAIN pending[u] /\ pending'[u][i] = pending[u][i + 1]
             \/ i - n \in DOMAIN ws /\ pending'[u][i] = ws[i - n]
      BY <3>1, <3>2, <3>n, Delivered
    <3>4. \A i \in DOMAIN pending[u] :
             i # 1 => i - 1 \in DOMAIN pending'[u] /\ pending'[u][i - 1] = pending[u][i]
      BY <3>1, <3>2, Delivered
    <3> QED  BY <3>2, <3>3, <3>4
  <2> HIDE DEF n
  <2>11. /\ 1 \in DOMAIN pending[u] /\ strays \subseteq strays'
         /\ UNCHANGED <<groups, passengers, used>>
    BY <1>2, <1>3, <2>5, <2>8
  <2> QED  BY <1>6, <1>7, <2>2, <2>3, <2>6, <2>7, <2>9, <2>10, <2>11, CreateStep
<1>9. CASE w.op # "create"
  <2>1. pending' = [pending EXCEPT ![u] = Tail(@) \o << >>] /\ strays' = strays
    BY <1>1, <1>9
  <2>2. \A p \in User, c \in Carpool :
           c \in groups'[p] => /\ c \in groups[p] \/ Is(w, "enter", c, p)
                               /\ ~ Is(w, "leave", c, p)
    <3> HIDE DEF w
    <3>1. CASE w.op = "enter"
      BY <1>1, <1>4, <1>5, <3>1 DEF ApplyToGroups, Is
    <3>2. CASE w.op = "leave"
      BY <1>1, <1>4, <1>5, <3>2 DEF ApplyToGroups, Is
    <3>3. CASE w.op \in {"delete", "dropPassenger"}
      BY <1>1, <3>3 DEF ApplyToGroups, Is
    <3> QED  BY <1>4, <1>9, <3>1, <3>2, <3>3
  <2>3. ASSUME NEW c \in Carpool
        PROVE  /\ carpoolCollection'[c] = NoCarpool =>
                     \/ carpoolCollection[c] = NoCarpool
                     \/ w.op = "delete" /\ w.carpool = c
               /\ carpoolCollection'[c] # NoCarpool =>
                     /\ carpoolCollection[c] # NoCarpool
                     /\ carpoolCollection'[c].uuid = carpoolCollection[c].uuid
                     /\ carpoolCollection'[c].driver = carpoolCollection[c].driver
                     /\ \A p \in User : Rides(p, carpoolCollection[c]) =>
                           Rides(p, carpoolCollection'[c]) \/ Is(w, "dropPassenger", c, p)
    <3> HIDE DEF w
    <3>1. CASE w.op \in {"enter", "leave"} \/ w.carpool # c
      <4>1. carpoolCollection'[c] = carpoolCollection[c]
        BY <1>1, <1>4, <1>5, <1>9, <3>1 DEF ApplyToCarpools
      <4> QED  BY <4>1
    <3>2. CASE w.op = "delete" /\ w.carpool = c
      BY <1>1, <1>5, <3>2 DEF ApplyToCarpools
    <3>3. CASE w.op = "dropPassenger" /\ w.carpool = c
      <4>1. carpoolCollection'[c] = WithoutPassengers(carpoolCollection[c], {w.user})
        BY <1>1, <1>5, <3>3 DEF ApplyToCarpools
      <4>2. CASE carpoolCollection[c] = NoCarpool
        BY <4>1, <4>2 DEF WithoutPassengers
      <4>3. CASE carpoolCollection[c] # NoCarpool
        <5>1. carpoolCollection[c] \in CarpoolObject
          BY <1>5, <4>3
        <5>2. carpoolCollection'[c] = [carpoolCollection[c] EXCEPT !.passengers = @ \ {w.user}]
          BY <4>1, <4>3 DEF WithoutPassengers
        <5>3. /\ carpoolCollection'[c] \in CarpoolObject
              /\ carpoolCollection'[c].uuid = carpoolCollection[c].uuid
              /\ carpoolCollection'[c].driver = carpoolCollection[c].driver
              /\ carpoolCollection'[c].passengers = carpoolCollection[c].passengers \ {w.user}
          BY <5>1, <5>2 DEF CarpoolObject
        <5> QED  BY <3>3, <4>3, <5>3, NoCarpoolAssumption DEF Rides, Is
      <4> QED  BY <4>2, <4>3
    <3> QED  BY <1>4, <1>9, <3>1, <3>2, <3>3
  <2> HIDE DEF w
  <2>4. w = Head(pending[u])
    BY DEF w
  <2> QED  BY <1>1, <1>2, <1>3, <1>6, <1>7, <1>9, <2>1, <2>2, <2>3, <2>4, TailStep
<1> QED  BY <1>8, <1>9

LEMMA RelaunchStep ==
    ASSUME TypeOK, CarpoolsInv, TypeOK', NEW u \in User, Relaunch(u)
    PROVE  CarpoolsInv'
<1>1. \A v \in User :
         /\ DOMAIN pending'[v] = DOMAIN pending[v]
         /\ \A i \in DOMAIN pending[v] :
               /\ pending'[v][i].op = pending[v][i].op
               /\ pending'[v][i].carpool = pending[v][i].carpool
               /\ pending'[v][i].user = pending[v][i].user
  BY RelaunchQueue
<1>2. UNCHANGED <<carpoolCollection, groups, used, strays>>
  BY DEF Relaunch
<1>3. \A v \in User :
         /\ v = u => /\ passengers'[v] = << >> /\ carpools'[v] = << >> /\ rows'[v] = {}
                     /\ snapshot'[v] = {} /\ refreshing'[v] = << >> /\ cleanups'[v] = {}
         /\ v # u => /\ passengers'[v] = passengers[v] /\ carpools'[v] = carpools[v]
                     /\ rows'[v] = rows[v] /\ snapshot'[v] = snapshot[v]
                     /\ refreshing'[v] = refreshing[v] /\ cleanups'[v] = cleanups[v]
  BY DEF Relaunch, TypeOK
<1>4. DOMAIN << >> = {}
  OBVIOUS
<1>5. PicksDistinct'
  BY <1>3, <1>4 DEF CarpoolsInv, PicksDistinct, ToSet
<1>6. \A v \in User : Docs(v)' \subseteq Docs(v)
  BY <1>3, <1>4 DEF Docs, ToSet
<1>7. \A v \in User, c \in Carpool : Seen(v, c)' => Seen(v, c)
  BY <1>3, <1>4, <1>6 DEF Seen
<1> QED  BY <1>1, <1>2, <1>5, <1>6, <1>7, QuietStep

LEMMA InvStep == TypeOK /\ CarpoolsInv /\ [Next]_vars => CarpoolsInv'
<1> SUFFICES ASSUME TypeOK, CarpoolsInv, [Next]_vars PROVE CarpoolsInv'
  OBVIOUS
<1>1. TypeOK'
  BY TypeStep
<1>2. PicksDistinct
  BY DEF CarpoolsInv
<1>3. ASSUME NEW u \in User, selectDestination(u) PROVE CarpoolsInv'
  <2>1. /\ UNCHANGED <<carpoolCollection, groups, pending, carpools, rows, snapshot, refreshing,
                       used, strays, passengers, cleanups>>
    BY <1>3 DEF selectDestination, historyVars
  <2>2. PicksDistinct'
    BY <1>2, <2>1 DEF PicksDistinct
  <2> QED  BY <1>1, <2>1, <2>2, StillStep
<1>4. CASE UNCHANGED vars
  <2>1. /\ UNCHANGED <<carpoolCollection, groups, pending, carpools, rows, snapshot, refreshing,
                       used, strays, passengers, cleanups>>
    BY <1>4 DEF vars
  <2>2. PicksDistinct'
    BY <1>2, <2>1 DEF PicksDistinct
  <2> QED  BY <1>1, <2>1, <2>2, StillStep
<1>5. ASSUME NEW u \in User, listenerFails(u) PROVE CarpoolsInv'
  <2>1. /\ UNCHANGED <<carpoolCollection, groups, pending, carpools, rows, snapshot, refreshing,
                       used, strays, passengers, cleanups>>
    BY <1>5 DEF listenerFails, historyVars
  <2>2. PicksDistinct'
    BY <1>2, <2>1 DEF PicksDistinct
  <2> QED  BY <1>1, <2>1, <2>2, StillStep
<1> QED  BY <1>1, <1>3, <1>4, <1>5, selectPassengerStep, createCarpoolStep, fetchGroupsStep,
            fetchCarpoolStep, deleteAsDriverStep, deleteAsPassengerStep, separateStep,
            readGroupsStep, cleanUpCarpoolStep, DeliverStep, RelaunchStep DEF Next
-----------------------------------------------------------------------------
(* The theorems.                                                            *)

LEMMA InvAlways == Spec => [](TypeOK /\ CarpoolsInv)
<1>1. Init => TypeOK /\ CarpoolsInv
  BY TypeInit, InvInit
<1>2. (TypeOK /\ CarpoolsInv) /\ [Next]_vars => (TypeOK /\ CarpoolsInv)'
  BY TypeStep, InvStep
<1> QED  BY <1>1, <1>2, PTL DEF Spec

\* Whoever has an entry for a carpool that exists rides in it, unless the
\* driver picked that user between the saving and the answer: however the
\* writes of creations, deletions and clean-ups of any number of phones are
\* interleaved, no clean-up takes the name away and leaves the entry.
THEOREM EntriesAreRiders == Spec => []EntriesBelong
<1>1. TypeOK /\ CarpoolsInv => EntriesBelong
  BY InvGivesProperties
<1> QED  BY <1>1, InvAlways, PTL

\* Once a carpool is deleted and no phone has a write of it to send, nobody has
\* an entry for it, except those same strays: the rows a driver deletes from
\* may be old, but whoever they leave out has been taken care of before.
THEOREM DeletionLeavesNothing == Spec => []NoEntryOutlives
<1>1. TypeOK /\ CarpoolsInv => NoEntryOutlives
  BY InvGivesProperties
<1> QED  BY <1>1, InvAlways, PTL
-----------------------------------------------------------------------------
(* The list.                                                                *)

\* c is in u's own groups, and there is such a carpool, as u's phone reads them.
Live(u, c) == c \in OwnGroups(u) /\ CarpoolSeenBy(u, c) # NoCarpool

\* Every carpool the listener has reported and that is still live is listed, or
\* one of the refreshes under way has it to come, or reading it has failed.
ListedOrAwaited ==
    \A u \in User : \A c \in snapshot[u] :
        Live(u, c) => \/ c \in Uuids(carpools[u])
                      \/ \E k \in DOMAIN refreshing[u] : c \in refreshing[u][k]
                      \/ <<u, c>> \in missed

\* Without a refresh under way the rows show the whole list.
ListShown == \A u \in User : refreshing[u] = << >> => ToSet(carpools[u]) \subseteq rows[u]

ListInv == ListedOrAwaited /\ ListShown

LEMMA ListInvGives == TypeOK /\ ListInv => ListComplete
<1> SUFFICES ASSUME TypeOK, ListInv, NEW u \in User, refreshing[u] = << >>, snapshot[u] = OwnGroups(u),
                    NEW c \in OwnGroups(u), CarpoolSeenBy(u, c) # NoCarpool,
                    <<u, c>> \notin missed
             PROVE  c \in Uuids(carpools[u]) /\ \E row \in rows[u] : row.uuid = c
  BY DEF ListComplete
<1>1. DOMAIN refreshing[u] = {}
  OBVIOUS
<1>2. c \in Uuids(carpools[u])
  BY <1>1 DEF ListInv, ListedOrAwaited, Live
<1>3. PICK i \in DOMAIN carpools[u] : carpools[u][i].uuid = c
  BY <1>2 DEF Uuids
<1>4. carpools[u][i] \in rows[u]
  BY DEF ListInv, ListShown, ToSet
<1> QED  BY <1>2, <1>3, <1>4

\* Own groups, in terms of what is queued.
LEMMA OwnGroupsForm ==
    ASSUME TypeOK, CarpoolsInv, NEW u \in User, NEW c \in Carpool
    PROVE  c \in OwnGroups(u) <=>
              /\ c \in groups[u] \/ HasFor(pending[u], "enter", c, u)
              /\ ~ HasFor(pending[u], "leave", c, u)
<1> DEFINE own == {i \in QueuedFor(u, c, {"enter", "leave"}) : pending[u][i].user = u}
<1>1. \A i : i \in own <=> /\ i \in DOMAIN pending[u]
                           /\ \/ Is(pending[u][i], "enter", c, u)
                              \/ Is(pending[u][i], "leave", c, u)
  BY DEF QueuedFor, Is
<1>2. c \in OwnGroups(u) <=> \/ own = {} /\ c \in groups[u]
                             \/ \E i \in own : pending[u][i].op = "enter" /\ \A j \in own : j <= i
  BY DEF OwnGroups
<1> HIDE DEF own
<1>3. ASSUME NEW i \in DOMAIN pending[u], Is(pending[u][i], "leave", c, u),
             NEW j \in DOMAIN pending[u], Is(pending[u][j], "enter", c, u)
      PROVE  j < i
  BY <1>3 DEF CarpoolsInv, EntersBeforeLeaves, Is
<1>4. ASSUME NEW i \in DOMAIN pending[u], Is(pending[u][i], "enter", c, u),
             NEW j \in DOMAIN pending[u], Is(pending[u][j], "enter", c, u)
      PROVE  j = i
  BY <1>4 DEF CarpoolsInv, EnteredOnce, Is
<1>5. \A i \in DOMAIN pending[u] : i \in Nat
  BY QueueElements
<1>6. ASSUME c \in OwnGroups(u)
      PROVE  /\ c \in groups[u] \/ HasFor(pending[u], "enter", c, u)
             /\ ~ HasFor(pending[u], "leave", c, u)
  <2>1. CASE own = {} /\ c \in groups[u]
    BY <1>1, <2>1 DEF HasFor
  <2>2. CASE \E i \in own : pending[u][i].op = "enter" /\ \A j \in own : j <= i
    <3>1. PICK i \in own : pending[u][i].op = "enter" /\ \A j \in own : j <= i
      BY <2>2
    <3>2. i \in DOMAIN pending[u] /\ Is(pending[u][i], "enter", c, u)
      BY <1>1, <3>1 DEF Is
    <3>3. ASSUME NEW j \in DOMAIN pending[u], Is(pending[u][j], "leave", c, u) PROVE FALSE
      <4>1. i < j
        BY <1>3, <3>2, <3>3
      <4>2. j <= i
        BY <1>1, <3>1, <3>3
      <4> QED  BY <1>5, <3>2, <4>1, <4>2
    <3> QED  BY <3>2, <3>3 DEF HasFor
  <2> QED  BY <1>2, <1>6, <2>1, <2>2
<1>7. ASSUME c \in groups[u] \/ HasFor(pending[u], "enter", c, u),
             ~ HasFor(pending[u], "leave", c, u)
      PROVE  c \in OwnGroups(u)
  <2>1. CASE HasFor(pending[u], "enter", c, u)
    <3>1. PICK i \in DOMAIN pending[u] : Is(pending[u][i], "enter", c, u)
      BY <2>1 DEF HasFor
    <3>2. \A j \in own : j = i
      BY <1>1, <1>4, <1>7, <3>1 DEF HasFor
    <3>3. i \in own /\ pending[u][i].op = "enter" /\ i <= i
      BY <1>1, <1>5, <3>1 DEF Is
    <3> QED  BY <1>2, <3>2, <3>3
  <2>2. CASE ~ HasFor(pending[u], "enter", c, u)
    <3>1. own = {}
      BY <1>1, <1>7, <2>2 DEF HasFor
    <3> QED  BY <1>2, <1>7, <2>2, <3>1
  <2> QED  BY <2>1, <2>2
<1> QED  BY <1>6, <1>7

\* What a phone takes for live of the carpools it has heard of.
Stands(u, c) ==
    /\ c \in groups[u] \/ HasFor(pending[u], "enter", c, u)
    /\ ~ HasFor(pending[u], "leave", c, u)
    /\ ~ Has(pending[u], "delete", c)
    /\ carpoolCollection[c] # NoCarpool

LiveStands == \A u \in User, c \in Carpool : Seen(u, c) => (Live(u, c) <=> Stands(u, c))

LEMMA LiveForm == TypeOK /\ CarpoolsInv => LiveStands
<1> SUFFICES ASSUME TypeOK, CarpoolsInv, NEW u \in User, NEW c \in Carpool, Seen(u, c)
             PROVE  Live(u, c) <=> Stands(u, c)
  BY DEF LiveStands
<1>1. ~ Creating(c)
  BY DEF CarpoolsInv, UnbornUntouched, Untouched
<1>2. QueuedFor(u, c, {"create"}) = {}
  BY <1>1 DEF Creating, Has, QueuedFor
<1>3. QueuedFor(u, c, {"delete"}) = {} <=> ~ Has(pending[u], "delete", c)
  BY DEF Has, QueuedFor
<1>4. ASSUME NEW ps
      PROVE  WithoutPassengers(carpoolCollection[c], ps) = NoCarpool <=> carpoolCollection[c] = NoCarpool
  <2> DEFINE doc == carpoolCollection[c]
  <2>1. doc \in CarpoolObject \cup {NoCarpool}
    BY DEF TypeOK
  <2> HIDE DEF doc
  <2>2. CASE doc = NoCarpool
    BY <2>2 DEF WithoutPassengers, doc
  <2>3. CASE doc # NoCarpool
    <3>1. doc \in CarpoolObject
      BY <2>1, <2>3
    <3>2. [doc EXCEPT !.passengers = @ \ ps] \in CarpoolObject
      BY <3>1 DEF CarpoolObject
    <3>3. WithoutPassengers(doc, ps) = [doc EXCEPT !.passengers = @ \ ps]
      BY <2>3 DEF WithoutPassengers
    <3>4. WithoutPassengers(doc, ps) # NoCarpool
      BY <3>2, <3>3, NoCarpoolAssumption
    <3> QED  BY <2>3, <3>4 DEF doc
  <2> QED  BY <2>2, <2>3
<1>5. CarpoolSeenBy(u, c) # NoCarpool <=> /\ ~ Has(pending[u], "delete", c)
                                          /\ carpoolCollection[c] # NoCarpool
  BY <1>2, <1>3, <1>4 DEF CarpoolSeenBy
<1> QED  BY <1>5, OwnGroupsForm DEF Live, Stands

LEMMA LiveFormNext == TypeOK' /\ CarpoolsInv' => LiveStands'
<1>1. TypeOK /\ CarpoolsInv => LiveStands
  BY LiveForm
<1> QED  BY <1>1, PTL

\* A step that reports nothing: it suffices that no carpool becomes live that a
\* phone has been told of, and none that stays live is taken off the list.
LEMMA ListKept ==
    ASSUME TypeOK, CarpoolsInv, ListInv, TypeOK', CarpoolsInv',
           UNCHANGED <<rows, snapshot, refreshing, missed>>,
           \A v \in User, c \in Carpool : Seen(v, c) /\ Stands(v, c)' => Stands(v, c),
           \A v \in User : ToSet(carpools'[v]) \subseteq ToSet(carpools[v]),
           \A v \in User, c \in Carpool :
              c \in Uuids(carpools[v]) /\ Stands(v, c)' => c \in Uuids(carpools'[v])
    PROVE  ListInv'
<1>1. ASSUME NEW v \in User, NEW c \in snapshot'[v], Live(v, c)'
      PROVE  \/ c \in Uuids(carpools'[v])
             \/ \E k \in DOMAIN refreshing'[v] : c \in refreshing'[v][k]
             \/ <<v, c>> \in missed'
  <2>1. c \in Carpool /\ c \in snapshot[v] /\ Seen(v, c) /\ Seen(v, c)'
    BY DEF Seen, TypeOK
  <2>2. Stands(v, c)'
    BY <1>1, <2>1, LiveFormNext DEF LiveStands
  <2>3. Live(v, c)
    BY <2>1, <2>2, LiveForm DEF LiveStands
  <2> QED  BY <2>1, <2>2, <2>3 DEF ListInv, ListedOrAwaited
<1>2. ListShown'
  BY DEF ListInv, ListShown
<1> QED  BY <1>1, <1>2 DEF ListInv, ListedOrAwaited

\* Queueing writes that add no entry makes nothing live.
LEMMA StandsAppended ==
    ASSUME TypeOK, NEW u \in User, NEW ws \in Seq(QueuedWrite), Enqueue(u, ws),
           UNCHANGED <<carpoolCollection, groups>>,
           \A j \in DOMAIN ws : ws[j].op # "enter",
           NEW v \in User, NEW c \in Carpool, Stands(v, c)'
    PROVE  Stands(v, c) /\ \A j \in DOMAIN ws : ~ (v = u /\ Is(ws[j], "leave", c, v))
<1>1. CASE v = u
  <2>1. /\ \A i \in DOMAIN pending[u] : i \in DOMAIN pending'[u] /\ pending'[u][i] = pending[u][i]
        /\ \A j \in DOMAIN ws : \E i \in DOMAIN pending'[u] : pending'[u][i] = ws[j]
        /\ \A i \in DOMAIN pending'[u] :
              i \in DOMAIN pending[u] \/ \E j \in DOMAIN ws : pending'[u][i] = ws[j]
    BY Enqueued
  <2> QED  BY <1>1, <2>1 DEF Stands, Has, HasFor, Is
<1>2. CASE v # u
  <2>1. pending'[v] = pending[v]
    BY <1>2, Enqueued
  <2> QED  BY <1>2, <2>1 DEF Stands, Has, HasFor, Is
<1> QED  BY <1>1, <1>2

\* The steps that only queue writes.
LEMMA ListQueued ==
    ASSUME TypeOK, CarpoolsInv, ListInv, TypeOK', CarpoolsInv', NEW u \in User,
           NEW ws \in Seq(QueuedWrite), Enqueue(u, ws), \A j \in DOMAIN ws : ws[j].op # "enter",
           UNCHANGED <<carpoolCollection, groups, carpools, rows, snapshot, refreshing, missed>>
    PROVE  ListInv'
<1>1. \A v \in User, c \in Carpool : Stands(v, c)' => Stands(v, c)
  BY StandsAppended
<1>2. \A v \in User : carpools'[v] = carpools[v]
  OBVIOUS
<1> QED  BY <1>1, <1>2, ListKept

LEMMA createCarpoolLists ==
    ASSUME TypeOK, CarpoolsInv, ListInv, TypeOK', CarpoolsInv', NEW u \in User, NEW c \in Carpool,
           createCarpool(u, c)
    PROVE  ListInv'
<1> DEFINE w == [op |-> "create", carpool |-> c, user |-> u,
                 riders |-> ToSet(passengers[u]), completes |-> TRUE]
           ws == << w >>
<1>1. ToSet(passengers[u]) \in SUBSET User
  <2>1. passengers[u] \in Seq(User)
    BY DEF TypeOK
  <2> QED  BY <2>1, SeqElement DEF ToSet
<1>2. w \in QueuedWrite /\ w.op = "create"
  BY <1>1 DEF QueuedWrite
<1>3. Enqueue(u, ws)
  BY DEF createCarpool
<1>4. UNCHANGED <<carpoolCollection, groups, carpools, rows, snapshot, refreshing, missed>>
  BY DEF createCarpool
<1> HIDE DEF w
<1>5. ws \in Seq(QueuedWrite) /\ \A j \in DOMAIN ws : ws[j].op # "enter"
  BY <1>2
<1> HIDE DEF ws
<1> QED  BY <1>3, <1>4, <1>5, ListQueued

LEMMA deleteAsDriverLists ==
    ASSUME TypeOK, CarpoolsInv, ListInv, TypeOK', CarpoolsInv', NEW u \in User, NEW row \in rows[u],
           deleteAsDriver(u, row)
    PROVE  ListInv'
<1> DEFINE w == [write("delete", row.uuid, u) EXCEPT !.completes = TRUE]
<1>1. row.uuid \in Carpool /\ row.passengers \in SUBSET User
  BY DEF TypeOK, CarpoolObject
<1>2. PICK ps \in SetToSeqs(row.passengers) : Enqueue(u, << w >> \o leaveAll(u, ps, row.uuid))
  BY DEF deleteAsDriver
<1>3. w \in QueuedWrite /\ w.op = "delete"
  BY <1>1 DEF write, QueuedWrite
<1>4. UNCHANGED <<carpoolCollection, groups, carpools, rows, snapshot, refreshing, missed>>
  BY DEF deleteAsDriver, phoneVars, historyVars
<1> HIDE DEF w
<1> DEFINE a == << w >>
           b == leaveAll(u, ps, row.uuid)
           ws == a \o b
<1>5. a \in Seq(QueuedWrite) /\ \A i \in DOMAIN a : a[i].op # "enter"
  BY <1>3
<1>6. b \in Seq(QueuedWrite) /\ \A i \in DOMAIN b : b[i].op # "enter"
  <2>1. ps \in Seq(User)
    BY <1>1, OrderOfPassengers
  <2>2. b \in Seq(QueuedWrite) /\ \A i \in DOMAIN b : \E p : b[i] = leaveGroup(row.uuid, p)
    BY <1>1, <2>1, LeaveAllTyped
  <2>3. \A p : leaveGroup(row.uuid, p).op # "enter"
    BY DEF leaveGroup, write
  <2> HIDE DEF b
  <2> QED  BY <2>2, <2>3
<1> HIDE DEF a, b
<1>7. /\ ws \in Seq(QueuedWrite)
      /\ \A i \in DOMAIN a : ws[i] = a[i]
      /\ \A i \in DOMAIN ws :
            i \in DOMAIN a \/ (i - Len(a) \in DOMAIN b /\ ws[i] = b[i - Len(a)])
  BY <1>5, <1>6, ConcatElement
<1>8. Enqueue(u, ws)
  BY <1>2 DEF a, b
<1> HIDE DEF ws
<1>9. \A j \in DOMAIN ws : ws[j].op # "enter"
  BY <1>5, <1>6, <1>7
<1> QED  BY <1>4, <1>7, <1>8, <1>9, ListQueued

LEMMA cleanUpCarpoolLists ==
    ASSUME TypeOK, CarpoolsInv, ListInv, TypeOK', CarpoolsInv', NEW u \in User, NEW k \in cleanups[u],
           NEW c \in k.ids, cleanUpCarpool(u, k, c)
    PROVE  ListInv'
<1> DEFINE doc == CarpoolSeenBy(u, c)
<1>1. k.user \in User /\ c \in Carpool
  <2>1. cleanups[u] \in SUBSET [user : User, read : BOOLEAN, ids : SUBSET Carpool]
    BY DEF TypeOK
  <2> QED  BY <2>1
<1>2. PICK ws : Enqueue(u, ws) /\ (ws = << >> \/ ws = cleanUpWrites(u, k.user, doc))
  BY CleanUpQueues
<1>3. UNCHANGED <<carpoolCollection, groups, carpools, rows, snapshot, refreshing, missed>>
  BY DEF cleanUpCarpool, historyVars
<1>4. doc \in CarpoolObject \cup {NoCarpool}
  BY <1>1, SeenTyped
<1> HIDE DEF doc
<1>5. /\ ws \in Seq(QueuedWrite)
      /\ \/ ws = << >>
         \/ \E p \in {u, k.user} : ws = << leaveGroup(doc.uuid, p), dropPassenger(doc.uuid, p) >>
  <2>1. CASE ws = << >>
    BY <2>1
  <2>2. CASE ws = cleanUpWrites(u, k.user, doc)
    BY <1>1, <1>4, <2>2, CleanUpTyped
  <2> QED  BY <1>2, <2>1, <2>2
<1>6. \A j \in DOMAIN ws : ws[j].op # "enter"
  <2>1. CASE ws = << >>
    BY <2>1
  <2>2. ASSUME NEW p, ws = << leaveGroup(doc.uuid, p), dropPassenger(doc.uuid, p) >>
        PROVE  \A j \in DOMAIN ws : ws[j].op # "enter"
    BY <2>2 DEF leaveGroup, dropPassenger, write
  <2> QED  BY <1>5, <2>1, <2>2
<1> QED  BY <1>2, <1>3, <1>5, <1>6, ListQueued

\* A rider who deletes a row takes the carpool off the list, and has queued the
\* end of the own entry.
LEMMA deleteAsPassengerLists ==
    ASSUME TypeOK, CarpoolsInv, ListInv, TypeOK', CarpoolsInv', NEW u \in User, NEW row \in rows[u],
           deleteAsPassenger(u, row)
    PROVE  ListInv'
<1> DEFINE c == row.uuid
           ws == << leaveGroup(c, u) >>
<1>1. c \in Carpool /\ carpools[u] \in Seq(CarpoolObject)
  <2>1. row \in CarpoolObject /\ carpools[u] \in Seq(CarpoolObject)
    BY DEF TypeOK
  <2> QED  BY <2>1 DEF CarpoolObject
<1>2. Is(leaveGroup(c, u), "leave", c, u) /\ leaveGroup(c, u) \in QueuedWrite
  <2>1. Is(leaveGroup(c, u), "leave", c, u)
    BY DEF leaveGroup, write, Is
  <2> QED  BY <1>1, <2>1, WriteTyped DEF leaveGroup
<1>3. /\ Enqueue(u, ws) /\ c \in Uuids(carpools[u])
      /\ carpools' = [carpools EXCEPT ![u] = WithoutFirst(@, c)]
      /\ UNCHANGED <<carpoolCollection, groups, rows, snapshot, refreshing, missed>>
  BY DEF deleteAsPassenger
<1>4. /\ \A d \in ToSet(WithoutFirst(carpools[u], c)) : d \in ToSet(carpools[u])
      /\ \A d \in ToSet(carpools[u]) : d.uuid # c => d \in ToSet(WithoutFirst(carpools[u], c))
  BY <1>1, <1>3, WithoutFirstForm
<1> HIDE DEF c
<1>5. ws \in Seq(QueuedWrite) /\ DOMAIN ws = {1} /\ Is(ws[1], "leave", c, u)
  BY <1>2
<1> HIDE DEF ws
<1>6. \A j \in DOMAIN ws : ws[j].op # "enter"
  BY <1>5 DEF Is
<1>7. \A v \in User, b \in Carpool : Stands(v, b)' => Stands(v, b) /\ ~ (v = u /\ b = c)
  BY <1>3, <1>5, <1>6, StandsAppended
<1>8. /\ carpools'[u] = WithoutFirst(carpools[u], c)
      /\ \A v \in User : v # u => carpools'[v] = carpools[v]
  BY <1>3 DEF TypeOK
<1>9. \A v \in User : ToSet(carpools'[v]) \subseteq ToSet(carpools[v])
  BY <1>4, <1>8
<1>10. ASSUME NEW v \in User, NEW b \in Carpool, b \in Uuids(carpools[v]), Stands(v, b)'
       PROVE  b \in Uuids(carpools'[v])
  <2>1. CASE v = u
    <3>1. b # c
      BY <1>7, <1>10, <2>1
    <3>2. \E d \in ToSet(carpools[u]) : d.uuid = b
      BY <1>10, <2>1 DEF Uuids, ToSet
    <3>3. \E d \in ToSet(carpools'[u]) : d.uuid = b
      BY <1>4, <1>8, <3>1, <3>2
    <3> QED  BY <2>1, <3>3 DEF Uuids, ToSet
  <2>2. CASE v # u
    BY <1>8, <1>10, <2>2
  <2> QED  BY <2>1, <2>2
<1> QED  BY <1>3, <1>7, <1>9, <1>10, ListKept

\* What is delivered makes nothing live for a phone that has heard of it.
LEMMA StandsDelivered ==
    ASSUME TypeOK, CarpoolsInv, NEW u \in User, Deliver(u),
           NEW v \in User, NEW c \in Carpool, Seen(v, c), Stands(v, c)'
    PROVE  Stands(v, c) /\ ~ (Head(pending[u]).op = "delete" /\ Head(pending[u]).carpool = c)
<1> DEFINE w == Head(pending[u])
           made == w.op = "create" /\ w.completes
           ws == IF made THEN addCarpoolToGroups(u, w.carpool, passengers[u]) ELSE << >>
<1>1. /\ pending[u] # << >>
      /\ carpoolCollection' = ApplyToCarpools(carpoolCollection, w)
      /\ groups' = ApplyToGroups(groups, w)
      /\ pending' = [pending EXCEPT ![u] = Tail(@) \o ws]
  BY DEF Deliver
<1>2. w \in QueuedWrite /\ w = pending[u][1] /\ 1 \in DOMAIN pending[u]
  <2>1. pending[u] \in Seq(QueuedWrite) /\ pending[u] # << >>
    BY <1>1 DEF TypeOK
  <2> QED  BY <2>1, HeadTailProperties, LenProperties, EmptySeq
<1>3. w.op \in {"create", "delete", "dropPassenger", "enter", "leave"} /\ w.carpool \in Carpool /\ w.user \in User
  BY <1>2, QueuedWriteFields
<1>4. carpoolCollection \in [Carpool -> CarpoolObject \cup {NoCarpool}] /\ groups \in [User -> SUBSET Carpool]
  BY DEF TypeOK
<1>5. ~ (w.op = "create" /\ w.carpool = c)
  <2>1. ~ Creating(c)
    BY DEF CarpoolsInv, UnbornUntouched, Untouched
  <2> HIDE DEF w
  <2> QED  BY <1>2, <2>1 DEF Creating, Has
<1>6. ws \in Seq(QueuedWrite) /\ \A i \in DOMAIN ws : ws[i].carpool # c
  <2>1. CASE made
    <3>1. passengers[u] \in Seq(User)
      BY DEF TypeOK
    <3> DEFINE new == w.carpool
               es == addCarpoolToGroups(u, new, passengers[u])
    <3>2. new \in Carpool /\ new # c
      BY <1>3, <1>5, <2>1
    <3>3. ws = es
      BY <2>1
    <3> HIDE DEF new, ws
    <3>4. es \in Seq(QueuedWrite) /\ \A i \in DOMAIN es : es[i].carpool = new
      <4>1. /\ u \notin ToSet(passengers[u])
            /\ \A i, j \in DOMAIN passengers[u] : passengers[u][i] = passengers[u][j] => i = j
        BY DEF CarpoolsInv, PicksDistinct
      <4> HIDE DEF es
      <4> QED  BY <3>1, <3>2, <4>1, NewEntries DEF es
    <3> HIDE DEF es
    <3> QED  BY <3>2, <3>3, <3>4
  <2>2. CASE ~ made
    BY <2>2
  <2> QED  BY <2>1, <2>2
<1>7. /\ \A i \in DOMAIN pending[v] :
            \/ v = u /\ pending[v][i] = w
            \/ \E j \in DOMAIN pending'[v] : pending'[v][j] = pending[v][i]
      /\ \A j \in DOMAIN pending'[v] :
            \/ \E i \in DOMAIN pending[v] : pending'[v][j] = pending[v][i] /\ (v = u => i # 1)
            \/ pending'[v][j].carpool # c
  <2>1. /\ pending[u] # << >> /\ pending'[u] = Tail(pending[u]) \o ws
        /\ \A y \in User : y # u => pending'[y] = pending[y]
    BY <1>1 DEF TypeOK
  <2> DEFINE n == Len(pending[u]) - 1
  <2>n. n = Len(pending[u]) - 1
    OBVIOUS
  <2> HIDE DEF ws, made, n
  <2>2. /\ \A i \in DOMAIN pending[u] :
              i # 1 => i - 1 \in DOMAIN pending'[u] /\ pending'[u][i - 1] = pending[u][i]
        /\ \A i \in DOMAIN pending'[u] :
              \/ i + 1 # 1 /\ i + 1 \in DOMAIN pending[u] /\ pending'[u][i] = pending[u][i + 1]
              \/ i - n \in DOMAIN ws /\ pending'[u][i] = ws[i - n]
    BY <1>6, <2>1, <2>n, Delivered
  <2>3. CASE v = u
    <3>1. \A i \in DOMAIN pending[u] : i = 1 \/ \E j \in DOMAIN pending'[u] : pending'[u][j] = pending[u][i]
      BY <2>2
    <3>2. \A j \in DOMAIN pending'[u] :
             \/ \E i \in DOMAIN pending[u] : pending'[u][j] = pending[u][i] /\ i # 1
             \/ pending'[u][j].carpool # c
      <4> TAKE j \in DOMAIN pending'[u]
      <4>1. CASE j + 1 # 1 /\ j + 1 \in DOMAIN pending[u] /\ pending'[u][j] = pending[u][j + 1]
        BY <4>1
      <4>2. CASE j - n \in DOMAIN ws /\ pending'[u][j] = ws[j - n]
        BY <1>6, <4>2
      <4> QED  BY <2>2, <4>1, <4>2
    <3> HIDE DEF w
    <3> QED  BY <1>2, <2>3, <3>1, <3>2
  <2>4. CASE v # u
    BY <2>1, <2>4
  <2> QED  BY <2>3, <2>4
<1> HIDE DEF ws
<1>8. /\ carpoolCollection[c] # NoCarpool
      /\ ~ (w.op = "delete" /\ w.carpool = c)
  <2>1. carpoolCollection'[c] # NoCarpool
    BY DEF Stands
  <2>2. w.op = "delete" => carpoolCollection' = [carpoolCollection EXCEPT ![w.carpool] = NoCarpool]
    BY <1>1 DEF ApplyToCarpools
  <2>3. w.op = "dropPassenger" =>
           carpoolCollection' = [carpoolCollection EXCEPT ![w.carpool] = WithoutPassengers(@, {w.user})]
    BY <1>1 DEF ApplyToCarpools
  <2>4. w.op = "create" => \E doc : carpoolCollection' = [carpoolCollection EXCEPT ![w.carpool] = doc]
    BY <1>1 DEF ApplyToCarpools
  <2>5. w.op \in {"enter", "leave"} => carpoolCollection' = carpoolCollection
    BY <1>1 DEF ApplyToCarpools
  <2> HIDE DEF w
  <2>6. CASE w.op = "delete"
    BY <1>4, <2>1, <2>2, <2>6
  <2>7. CASE w.op = "dropPassenger"
    BY <1>4, <2>1, <2>3, <2>7 DEF WithoutPassengers
  <2>8. CASE w.op = "create"
    BY <1>4, <1>5, <2>1, <2>4, <2>8
  <2>9. CASE w.op \in {"enter", "leave"}
    BY <2>1, <2>5, <2>9
  <2> QED  BY <1>3, <2>6, <2>7, <2>8, <2>9
<1>9. ~ Has(pending[v], "delete", c)
  <2> HIDE DEF w
  <2> QED  BY <1>7, <1>8 DEF Stands, Has
<1>10. /\ c \in groups'[v] => c \in groups[v] \/ Is(w, "enter", c, v)
       /\ Is(w, "leave", c, v) => c \notin groups'[v]
  <2>1. w.op = "enter" => groups' = [groups EXCEPT ![w.user] = @ \cup {w.carpool}]
    BY <1>1 DEF ApplyToGroups
  <2>2. w.op = "leave" => groups' = [groups EXCEPT ![w.user] = @ \ {w.carpool}]
    BY <1>1 DEF ApplyToGroups
  <2>3. w.op \in {"create", "delete", "dropPassenger"} => groups' = groups
    BY <1>1 DEF ApplyToGroups
  <2> HIDE DEF w
  <2> QED  BY <1>3, <1>4, <2>1, <2>2, <2>3 DEF Is
<1>11. ~ HasFor(pending[v], "leave", c, v)
  <2> SUFFICES ASSUME HasFor(pending[v], "leave", c, v) PROVE FALSE
    OBVIOUS
  <2>1. v = u /\ Is(w, "leave", c, v)
    <3> HIDE DEF w
    <3> QED  BY <1>7 DEF Stands, HasFor
  <2>2. c \notin groups'[v]
    BY <1>10, <2>1
  <2>3. PICK j \in DOMAIN pending'[v] : Is(pending'[v][j], "enter", c, v)
    BY <2>2 DEF Stands, HasFor
  <2>4. PICK i \in DOMAIN pending[v] : i # 1 /\ Is(pending[v][i], "enter", c, v)
    <3> HIDE DEF w
    <3> QED  BY <1>7, <2>1, <2>3 DEF Is
  <2>5. i < 1
    <3> HIDE DEF w
    <3> QED  BY <1>2, <2>1, <2>4 DEF CarpoolsInv, EntersBeforeLeaves, Is
  <2>6. i \in Nat \ {0}
    BY QueueElements
  <2> QED  BY <2>5, <2>6
<1>12. c \in groups[v] \/ HasFor(pending[v], "enter", c, v)
  <2>2. CASE c \in groups'[v] /\ c \notin groups[v]
    <3>1. Is(w, "enter", c, v)
      BY <1>10, <2>2
    <3>2. HasFor(pending[u], "enter", c, v)
      <4> HIDE DEF w
      <4> QED  BY <1>2, <3>1 DEF HasFor
    <3>3. v = u
      BY <3>2 DEF CarpoolsInv, SeenAfterEntered
    <3> QED  BY <3>2, <3>3
  <2>3. CASE HasFor(pending'[v], "enter", c, v)
    <3> HIDE DEF w
    <3> QED  BY <1>7, <2>3 DEF HasFor, Is
  <2> QED  BY <2>2, <2>3 DEF Stands, HasFor
<1> QED  BY <1>8, <1>9, <1>11, <1>12 DEF Stands

\* The backend applies a write; a deletion that is confirmed takes the carpool
\* off the list of the phone that deleted it.
LEMMA DeliverLists ==
    ASSUME TypeOK, CarpoolsInv, ListInv, TypeOK', CarpoolsInv', NEW u \in User, Deliver(u)
    PROVE  ListInv'
<1> DEFINE w == Head(pending[u])
<1>1. /\ UNCHANGED <<rows, snapshot, refreshing, missed>>
      /\ \/ carpools' = carpools
         \/ /\ w.op = "delete" /\ w.carpool \in Uuids(carpools[u])
            /\ carpools' = [carpools EXCEPT ![u] = WithoutFirst(@, w.carpool)]
  BY DEF Deliver
<1>2. \A v \in User, c \in Carpool :
         Seen(v, c) /\ Stands(v, c)' => Stands(v, c) /\ ~ (w.op = "delete" /\ w.carpool = c)
  BY StandsDelivered
<1> HIDE DEF w
<1>3. CASE carpools' = carpools
  <2>1. \A v \in User : carpools'[v] = carpools[v]
    BY <1>3
  <2> QED  BY <1>1, <1>2, <2>1, ListKept
<1>4. CASE /\ w.op = "delete" /\ w.carpool \in Uuids(carpools[u])
           /\ carpools' = [carpools EXCEPT ![u] = WithoutFirst(@, w.carpool)]
  <2>1. carpools[u] \in Seq(CarpoolObject)
    BY DEF TypeOK
  <2>2. /\ \A d \in ToSet(WithoutFirst(carpools[u], w.carpool)) : d \in ToSet(carpools[u])
        /\ \A d \in ToSet(carpools[u]) :
              d.uuid # w.carpool => d \in ToSet(WithoutFirst(carpools[u], w.carpool))
    BY <1>4, <2>1, WithoutFirstForm
  <2>3. /\ carpools'[u] = WithoutFirst(carpools[u], w.carpool)
        /\ \A v \in User : v # u => carpools'[v] = carpools[v]
    BY <1>4 DEF TypeOK
  <2>4. \A v \in User : ToSet(carpools'[v]) \subseteq ToSet(carpools[v])
    BY <2>2, <2>3
  <2>5. ASSUME NEW v \in User, NEW c \in Carpool, c \in Uuids(carpools[v]), Stands(v, c)'
        PROVE  c \in Uuids(carpools'[v])
    <3>1. \E d \in ToSet(carpools[v]) : d.uuid = c
      BY <2>5 DEF Uuids, ToSet
    <3>2. Seen(v, c)
      BY <3>1 DEF Seen, Docs
    <3>3. w.carpool # c
      BY <1>2, <1>4, <2>5, <3>2
    <3>4. \E d \in ToSet(carpools'[v]) : d.uuid = c
      BY <2>2, <2>3, <3>1, <3>3
    <3> QED  BY <3>4 DEF Uuids, ToSet
  <2> QED  BY <1>1, <1>2, <2>4, <2>5, ListKept
<1> QED  BY <1>1, <1>3, <1>4

\* What a phone reads depends on its queue and the backend alone.
LEMMA LiveUnchanged ==
    ASSUME NEW v \in User, NEW c \in Carpool, UNCHANGED <<carpoolCollection, groups, pending>>
    PROVE  Live(v, c)' <=> Live(v, c)
BY DEF Live, OwnGroups, CarpoolSeenBy, QueuedFor

\* A change of the own groups: all of them are to come, and the list is empty.
LEMMA fetchGroupsLists ==
    ASSUME TypeOK, ListInv, NEW u \in User, fetchGroupsForCurrentUser(u)
    PROVE  ListInv'
<1> DEFINE ids == OwnGroups(u)
           q == refreshing[u]
           todo == IF ids = {} THEN q ELSE Append(q, ids)
<1>1. /\ carpools' = [carpools EXCEPT ![u] = << >>]
      /\ refreshing' = [refreshing EXCEPT ![u] = todo]
      /\ rows' = IF ids = {} THEN [rows EXCEPT ![u] = ToSet(<< >>)] ELSE rows
      /\ snapshot' = [snapshot EXCEPT ![u] = ids]
      /\ missed' = Others(u)
      /\ UNCHANGED <<carpoolCollection, groups, pending>>
  BY DEF fetchGroupsForCurrentUser, StartsRefresh, Refreshes
<1>2. /\ q \in Seq(SUBSET Carpool) /\ Len(q) \in Nat /\ DOMAIN q = 1 .. Len(q) /\ ids \in SUBSET Carpool
  <2>1. q \in Seq(SUBSET Carpool)
    BY DEF TypeOK
  <2> QED  BY <2>1, SeqElement DEF OwnGroups
<1>3. /\ carpools'[u] = << >> /\ refreshing'[u] = todo /\ snapshot'[u] = ids
      /\ \A v \in User : v # u => /\ refreshing'[v] = refreshing[v] /\ snapshot'[v] = snapshot[v]
                                  /\ carpools'[v] = carpools[v] /\ rows'[v] = rows[v]
  BY <1>1 DEF TypeOK
<1> HIDE DEF q, ids
<1>4. ids # {} => \E k \in DOMAIN todo : todo[k] = ids
  <2>1. Append(q, ids) \in Seq(SUBSET Carpool) /\ Len(Append(q, ids)) = Len(q) + 1
    BY <1>2, AppendProperties
  <2>2. DOMAIN Append(q, ids) = 1 .. Len(q) + 1 /\ Append(q, ids)[Len(q) + 1] = ids
    BY <1>2, <2>1, AppendProperties, LenProperties
  <2>3. Len(q) + 1 \in 1 .. Len(q) + 1
    BY <1>2
  <2> QED  BY <2>2, <2>3
<1> HIDE DEF todo
<1>5. ASSUME NEW v \in User, NEW c \in snapshot'[v], Live(v, c)'
      PROVE  \/ c \in Uuids(carpools'[v])
             \/ \E k \in DOMAIN refreshing'[v] : c \in refreshing'[v][k]
             \/ <<v, c>> \in missed'
  <2>1. CASE v = u
    BY <1>3, <1>4, <1>5, <2>1
  <2>2. CASE v # u
    <3>1. c \in snapshot[v] /\ c \in Carpool
      BY <1>3, <1>5, <2>2 DEF TypeOK
    <3>2. Live(v, c)
      BY <1>1, <1>5, <3>1, LiveUnchanged
    <3>3. <<v, c>> \in missed => <<v, c>> \in missed'
      BY <1>1, <2>2 DEF Others
    <3> QED  BY <1>3, <2>2, <3>1, <3>2, <3>3 DEF ListInv, ListedOrAwaited
  <2> QED  BY <2>1, <2>2
<1>6. ASSUME NEW v \in User, refreshing'[v] = << >>
      PROVE  ToSet(carpools'[v]) \subseteq rows'[v]
  <2>1. CASE v = u
    BY <1>3, <2>1 DEF ToSet
  <2>2. CASE v # u
    BY <1>3, <1>6, <2>2 DEF ListInv, ListShown
  <2> QED  BY <2>1, <2>2
<1> QED  BY <1>5, <1>6 DEF ListInv, ListedOrAwaited, ListShown

\* One document arrives.
LEMMA fetchCarpoolLists ==
    ASSUME TypeOK, CarpoolsInv, ListInv, NEW u \in User, NEW k \in DOMAIN refreshing[u],
           NEW c \in refreshing[u][k], fetchCarpool(u, k, c)
    PROVE  ListInv'
<1> DEFINE doc == CarpoolSeenBy(u, c)
           q == refreshing[u]
           last == q[k] = {c}
           todo == IF last THEN RemoveAt(q, k) ELSE [q EXCEPT ![k] = @ \ {c}]
<1>0. PICK list : FetchLeaves(u, k, c, list)
  BY FetchLists
<1>1. /\ carpools' = [carpools EXCEPT ![u] = list]
      /\ refreshing' = [refreshing EXCEPT ![u] = todo]
      /\ rows' = IF last THEN [rows EXCEPT ![u] = ToSet(list)] ELSE rows
      /\ UNCHANGED <<carpoolCollection, groups, pending, snapshot>>
      /\ \/ /\ list = IF doc = NoCarpool THEN carpools[u] ELSE Append(carpools[u], doc)
            /\ missed' = missed \ {<<u, c>>}
         \/ /\ list = carpools[u]
            /\ missed' = IF c \in Uuids(carpools[u]) THEN missed ELSE missed \cup {<<u, c>>}
  BY <1>0 DEF fetchCarpool, FetchLeaves, Leaves, Refreshes
<1>2. /\ q \in Seq(SUBSET Carpool) /\ DOMAIN q = 1 .. Len(q) /\ k \in DOMAIN q
      /\ carpools[u] \in Seq(CarpoolObject)
  BY LenProperties DEF TypeOK
<1>3. c \in Carpool /\ Seen(u, c)
  BY <1>2, ElementOfSeq DEF Seen
<1>4. doc \in CarpoolObject \cup {NoCarpool} /\ (doc # NoCarpool => doc.uuid = c)
  BY <1>3, SeenTyped, SeenDocument
<1>5. /\ carpools'[u] = list /\ refreshing'[u] = todo /\ (last => rows'[u] = ToSet(list))
      /\ \A v \in User : v # u => /\ carpools'[v] = carpools[v] /\ refreshing'[v] = refreshing[v]
                                  /\ rows'[v] = rows[v]
  BY <1>1 DEF TypeOK
<1> HIDE DEF doc
<1>6. /\ \A b \in Uuids(carpools[u]) : b \in Uuids(list)
      /\ doc # NoCarpool => c \in Uuids(list) \/ <<u, c>> \in missed'
  <2>1. CASE doc = NoCarpool /\ list = carpools[u]
    BY <2>1
  <2>3. CASE /\ list = carpools[u]
             /\ missed' = IF c \in Uuids(carpools[u]) THEN missed ELSE missed \cup {<<u, c>>}
    BY <2>3
  <2>2. CASE doc # NoCarpool /\ list = Append(carpools[u], doc)
    <3> DEFINE s == carpools[u]
    <3>1. s \in Seq(CarpoolObject) /\ Len(s) \in Nat /\ DOMAIN s = 1 .. Len(s) /\ doc \in CarpoolObject
      BY <1>2, <1>4, <2>2, SeqElement
    <3> HIDE DEF s
    <3>2. Append(s, doc) \in Seq(CarpoolObject) /\ Len(Append(s, doc)) = Len(s) + 1
      BY <3>1, AppendProperties
    <3>3. /\ DOMAIN Append(s, doc) = 1 .. Len(s) + 1
          /\ \A i \in 1 .. Len(s) : Append(s, doc)[i] = s[i]
          /\ Append(s, doc)[Len(s) + 1] = doc
      BY <3>1, <3>2, AppendProperties, LenProperties
    <3>4. /\ \A i \in 1 .. Len(s) : i \in 1 .. Len(s) + 1
          /\ Len(s) + 1 \in 1 .. Len(s) + 1
      BY <3>1
    <3>5. /\ \A b \in Uuids(s) : b \in Uuids(Append(s, doc))
          /\ c \in Uuids(Append(s, doc))
      BY <1>4, <2>2, <3>1, <3>3, <3>4 DEF Uuids
    <3> QED  BY <2>2, <3>5 DEF s
  <2> QED  BY <1>1, <2>1, <2>2, <2>3
<1>7. \A b : (\E j \in DOMAIN q : b \in q[j]) => b = c \/ \E i \in DOMAIN todo : b \in todo[i]
  <2>1. CASE last
    <3>1. todo = RemoveAt(q, k)
      BY <2>1
    <3>2. \A j \in DOMAIN q : j # k => \E i \in DOMAIN RemoveAt(q, k) : RemoveAt(q, k)[i] = q[j]
      <4> HIDE DEF q
      <4> QED  BY <1>2, RemoveAtForm
    <3> HIDE DEF todo, q
    <3> QED  BY <2>1, <3>1, <3>2
  <2>2. CASE ~ last
    <3> HIDE DEF q
    <3> QED  BY <1>2, <2>2
  <2> QED  BY <2>1, <2>2
<1>8. todo = << >> => last
  <2> SUFFICES ASSUME ~ last PROVE DOMAIN todo # {}
    OBVIOUS
  <2>1. DOMAIN todo = DOMAIN q
    BY DEF todo
  <2> QED  BY <1>2, <2>1
<1> HIDE DEF todo, last
<1>9. ASSUME NEW v \in User, NEW b \in snapshot'[v], Live(v, b)'
      PROVE  \/ b \in Uuids(carpools'[v])
             \/ \E j \in DOMAIN refreshing'[v] : b \in refreshing'[v][j]
             \/ <<v, b>> \in missed'
  <2>1. b \in snapshot[v] /\ b \in Carpool
    BY <1>1 DEF TypeOK
  <2>2. Live(v, b)
    BY <1>1, <1>9, <2>1, LiveUnchanged
  <2>3. \/ b \in Uuids(carpools[v]) \/ \E j \in DOMAIN refreshing[v] : b \in refreshing[v][j]
        \/ <<v, b>> \in missed
    BY <2>1, <2>2 DEF ListInv, ListedOrAwaited
  <2>6. <<v, b>> \in missed /\ (v # u \/ b # c) => <<v, b>> \in missed'
    BY <1>1
  <2>4. CASE v = u
    <3>1. b = c => b \in Uuids(list) \/ <<u, c>> \in missed'
      BY <1>6, <2>2, <2>4 DEF Live, doc
    <3> QED  BY <1>5, <1>6, <1>7, <2>3, <2>4, <2>6, <3>1
  <2>5. CASE v # u
    BY <1>5, <2>3, <2>5, <2>6
  <2> QED  BY <2>4, <2>5
<1>10. ASSUME NEW v \in User, refreshing'[v] = << >>
       PROVE  ToSet(carpools'[v]) \subseteq rows'[v]
  <2>1. CASE v = u
    BY <1>5, <1>8, <1>10, <2>1
  <2>2. CASE v # u
    BY <1>5, <1>10, <2>2 DEF ListInv, ListShown
  <2> QED  BY <2>1, <2>2
<1> QED  BY <1>9, <1>10 DEF ListInv, ListedOrAwaited, ListShown

\* A restart: the phone has been told of nothing, and shows nothing.
LEMMA RelaunchLists ==
    ASSUME TypeOK, CarpoolsInv, ListInv, TypeOK', CarpoolsInv', NEW u \in User, Relaunch(u)
    PROVE  ListInv'
<1>1. UNCHANGED <<carpoolCollection, groups>> /\ missed' = Others(u)
  BY DEF Relaunch
<1>2. /\ carpools'[u] = << >> /\ rows'[u] = {} /\ snapshot'[u] = {} /\ refreshing'[u] = << >>
      /\ \A v \in User : v # u => /\ carpools'[v] = carpools[v] /\ rows'[v] = rows[v]
                                  /\ snapshot'[v] = snapshot[v] /\ refreshing'[v] = refreshing[v]
  BY DEF Relaunch, TypeOK
<1>3. \A v \in User :
         /\ DOMAIN pending'[v] = DOMAIN pending[v]
         /\ \A i \in DOMAIN pending[v] :
               /\ pending'[v][i].op = pending[v][i].op
               /\ pending'[v][i].carpool = pending[v][i].carpool
               /\ pending'[v][i].user = pending[v][i].user
  BY RelaunchQueue
<1>4. \A v \in User, c \in Carpool : Stands(v, c)' => Stands(v, c)
  BY <1>1, <1>3 DEF Stands, Has, HasFor, Is
<1>5. ASSUME NEW v \in User, NEW c \in snapshot'[v], Live(v, c)'
      PROVE  \/ c \in Uuids(carpools'[v])
             \/ \E k \in DOMAIN refreshing'[v] : c \in refreshing'[v][k]
             \/ <<v, c>> \in missed'
  <2>1. v # u /\ c \in snapshot[v]
    BY <1>2
  <2>2. c \in Carpool /\ Seen(v, c) /\ Seen(v, c)'
    BY <1>5, <2>1 DEF Seen, TypeOK
  <2>3. Stands(v, c)'
    BY <1>5, <2>2, LiveFormNext DEF LiveStands
  <2>4. Live(v, c)
    BY <1>4, <2>2, <2>3, LiveForm DEF LiveStands
  <2>5. <<v, c>> \in missed => <<v, c>> \in missed'
    BY <1>1, <2>1 DEF Others
  <2> QED  BY <1>2, <2>1, <2>4, <2>5 DEF ListInv, ListedOrAwaited
<1>6. ASSUME NEW v \in User, refreshing'[v] = << >>
      PROVE  ToSet(carpools'[v]) \subseteq rows'[v]
  <2>1. CASE v = u
    BY <1>2, <2>1 DEF ToSet
  <2>2. CASE v # u
    BY <1>2, <1>6, <2>2 DEF ListInv, ListShown
  <2> QED  BY <2>1, <2>2
<1> QED  BY <1>5, <1>6 DEF ListInv, ListedOrAwaited, ListShown

\* The steps that touch neither the documents, nor the queues, nor the lists.
LEMMA ListUntouched ==
    ASSUME TypeOK, ListInv,
           UNCHANGED <<carpoolCollection, groups, pending, carpools, rows, snapshot, refreshing,
                       missed>>
    PROVE  ListInv'
<1>1. \A v \in User : \A c \in snapshot[v] : c \in Carpool
  BY DEF TypeOK
<1>2. \A v \in User : \A c \in snapshot[v] : Live(v, c)' => Live(v, c)
  BY <1>1, LiveUnchanged
<1> QED  BY <1>2 DEF ListInv, ListedOrAwaited, ListShown

LEMMA ListStep ==
    TypeOK /\ CarpoolsInv /\ TypeOK' /\ CarpoolsInv' /\ ListInv /\ [Next]_vars => ListInv'
<1> SUFFICES ASSUME TypeOK, CarpoolsInv, TypeOK', CarpoolsInv', ListInv, [Next]_vars
             PROVE  ListInv'
  OBVIOUS
<1>1. ASSUME NEW u \in User, selectDestination(u) PROVE ListInv'
  BY <1>1, ListUntouched DEF selectDestination, historyVars
<1>2. ASSUME NEW u \in User, NEW p \in User, selectPassenger(u, p) PROVE ListInv'
  BY <1>2, ListUntouched DEF selectPassenger, historyVars
<1>3. ASSUME NEW u \in User, NEW v \in User, separate(u, v) PROVE ListInv'
  BY <1>3, ListUntouched DEF separate
<1>4. ASSUME NEW u \in User, NEW v \in User, readGroups(u, v) PROVE ListInv'
  BY <1>4, ListUntouched DEF readGroups, historyVars
<1>5. CASE UNCHANGED vars
  BY <1>5, ListUntouched DEF vars
<1>6. ASSUME NEW u \in User, listenerFails(u) PROVE ListInv'
  BY <1>6, ListUntouched DEF listenerFails, historyVars
<1> QED  BY <1>1, <1>2, <1>3, <1>4, <1>5, <1>6, createCarpoolLists, fetchGroupsLists, fetchCarpoolLists,
            deleteAsDriverLists, deleteAsPassengerLists, cleanUpCarpoolLists, DeliverLists,
            RelaunchLists DEF Next

LEMMA ListInit == Init => ListInv
<1> SUFFICES ASSUME Init PROVE ListInv
  OBVIOUS
<1>1. \A u \in User : snapshot[u] = {} /\ carpools[u] = << >>
  BY DEF Init
<1>2. ToSet(<< >>) = {}
  BY DEF ToSet
<1> QED  BY <1>1, <1>2 DEF ListInv, ListedOrAwaited, ListShown

\* However refreshes overlap with each other, with the user's own deletions and
\* with restarts, only an error loses a carpool of the own groups that exists from
\* the list: when nothing is under way and the listener has nothing to report, all
\* of them are listed and shown, but those that every refresh answered since its
\* last report has failed to read.
THEOREM ListsAreComplete == Spec => []ListComplete
<1>1. Init => TypeOK /\ CarpoolsInv /\ ListInv
  BY TypeInit, InvInit, ListInit
<1>2. (TypeOK /\ CarpoolsInv /\ ListInv) /\ [Next]_vars => (TypeOK /\ CarpoolsInv /\ ListInv)'
  BY TypeStep, InvStep, ListStep
<1>3. TypeOK /\ CarpoolsInv /\ ListInv => ListComplete
  BY ListInvGives
<1> QED  BY <1>1, <1>2, <1>3, PTL DEF Spec
=============================================================================
