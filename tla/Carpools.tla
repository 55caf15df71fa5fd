------------------------------ MODULE Carpools ------------------------------
(***************************************************************************)
(* Carpools and the groups they appear in.                                 *)
(*                                                                         *)
(* A carpool is a document of the "carpools" collection that names its     *)
(* driver and passengers; independently of it every rider has an entry for *)
(* it in the "groups" collection under the rider's own user document, and  *)
(* it is these entries a phone listens to and lists.  CarpoolController    *)
(* and the clean-up of blockUser and unfriendUser keep the two in step by  *)
(* rows of single writes from whichever phone the user holds, in part from *)
(* completions that run when an earlier write has been acknowledged.       *)
(*                                                                         *)
(* One phone per user, signed in to that user's account throughout.  Any   *)
(* other user may stand in the list passengers are picked from, and any    *)
(* may be blocked or unfriended: who is a friend is the state of Friends.  *)
(* A carpool's title, mode, type and place change nothing here.            *)
(***************************************************************************)
EXTENDS Naturals, FiniteSets, SequencesExt

CONSTANTS
    User,       \* the accounts
    Carpool,    \* the ids carpools may get
    NoCarpool,  \* no such document
    Organizer,  \* bound: the users who create carpools
    Restarting, \* the phones on which the app may be killed and started again
    Failing,    \* the phones whose reads may end with an error
    MaxTaps,    \* bound: deletions, blocks and restarts of all phones together
    MaxRefreshes \* bound: refreshes of the list a phone has in progress at once

CarpoolObject == [uuid : Carpool, driver : User, passengers : SUBSET User]

ASSUME NoCarpoolAssumption == NoCarpool \notin CarpoolObject
ASSUME CarpoolConstantsAssumption ==
    /\ IsFiniteSet(User)
    /\ Organizer \subseteq User
    /\ MaxTaps \in Nat
    /\ MaxRefreshes \in Nat

VARIABLES
    carpoolCollection, \* carpoolCollection[c]: document c at the backend
    groups,       \* groups[u]: ids of the documents in u's groups collection there
    pending,      \* pending[u]: the writes u's phone has queued, oldest first
    destination,  \* destination[u]: CarpoolController.destination is set
    passengers,   \* passengers[u]: CarpoolController.passengers
    carpools,     \* carpools[u]: CarpoolController.carpools
    rows,         \* rows[u]: work and play, which the screen shows by turns; a
                  \* deleted row is back when the segment has been changed twice
    listening,    \* listening[u]: the groups listener is registered
    snapshot,     \* snapshot[u]: what the groups listener last reported
    refreshing,   \* refreshing[u]: per refresh under way, the documents to come
    cleanups,     \* cleanups[u]: clean-ups under way after a block or unfriend
    taps          \* deletions, blocks and restarts so far

VARIABLES         \* history; only `used` is read, for fresh ids
    used,         \* ids given to carpools
    strays,       \* <<p, c>>: p was given c without being one of its passengers
    orphaned,     \* carpools whose creator's app was killed before the answer
    departed,     \* <<p, c>>: p deleted the row of c without being its driver
    separated,    \* <<u, v>>: u blocked or unfriended v
    missed        \* <<u, c>>: u's phone failed to read c since the listener reported

phoneVars == <<destination, passengers, carpools, rows, listening, snapshot, refreshing,
               cleanups>>
historyVars == <<used, strays, orphaned, departed, separated, missed>>
vars == <<carpoolCollection, groups, pending, destination, passengers, carpools, rows,
          listening, snapshot, refreshing, cleanups, taps, used, strays, orphaned,
          departed, separated, missed>>
-----------------------------------------------------------------------------
(* Writes. `completes` says that the completion handler is still there.     *)

QueuedWrite ==
    [op : {"create"}, carpool : Carpool, user : User, riders : SUBSET User,
     completes : BOOLEAN]
    \cup
    [op : {"delete", "dropPassenger", "enter", "leave"}, carpool : Carpool,
     user : User, riders : {{}}, completes : BOOLEAN]

write(op, c, u) ==
    [op |-> op, carpool |-> c, user |-> u, riders |-> {}, completes |-> FALSE]

enterGroup(c, p) == write("enter", c, p)
leaveGroup(c, p) == write("leave", c, p)
dropPassenger(c, p) == write("dropPassenger", c, p)

QueuedFor(u, c, ops) ==
    {i \in DOMAIN pending[u] : pending[u][i].carpool = c /\ pending[u][i].op \in ops}

\* u's own groups as u's phone reads them: queued writes count.
OwnGroups(u) ==
    {c \in Carpool :
        LET own == {i \in QueuedFor(u, c, {"enter", "leave"}) : pending[u][i].user = u}
        IN  \/ own = {} /\ c \in groups[u]
            \/ \E i \in own : pending[u][i].op = "enter" /\ \A j \in own : j <= i}

WithoutPassengers(doc, ps) ==
    IF doc = NoCarpool THEN NoCarpool ELSE [doc EXCEPT !.passengers = @ \ ps]

\* Document c as u's phone reads it.  An id is created once, and its deletion
\* is the last write a phone queues for it.
CarpoolSeenBy(u, c) ==
    LET created == QueuedFor(u, c, {"create"})
        dropped == {pending[u][i].user : i \in QueuedFor(u, c, {"dropPassenger"})}
    IN  IF QueuedFor(u, c, {"delete"}) # {} THEN NoCarpool
        ELSE IF created = {} THEN WithoutPassengers(carpoolCollection[c], dropped)
        ELSE [uuid |-> c, driver |-> u,
              passengers |-> UNION {pending[u][i].riders : i \in created} \ dropped]

Uuids(list) == {list[i].uuid : i \in DOMAIN list}

\* Array.firstIndex(of:) and remove(at:); carpools are equal when their ids are.
WithoutFirst(list, c) == RemoveFirstMatch(list, LAMBDA x : x.uuid = c)
-----------------------------------------------------------------------------
Init ==
    /\ carpoolCollection = [c \in Carpool |-> NoCarpool]
    /\ groups = [u \in User |-> {}]
    /\ pending = [u \in User |-> << >>]
    /\ destination = [u \in User |-> FALSE]
    /\ passengers = [u \in User |-> << >>]
    /\ carpools = [u \in User |-> << >>]
    /\ rows = [u \in User |-> {}]
    /\ listening = [u \in User |-> TRUE]
    /\ snapshot = [u \in User |-> {}]
    /\ refreshing = [u \in User |-> << >>]
    /\ cleanups = [u \in User |-> {}]
    /\ taps = 0
    /\ used = {}
    /\ strays = {}
    /\ orphaned = {}
    /\ departed = {}
    /\ separated = {}
    /\ missed = {}

Tap == taps < MaxTaps /\ taps' = taps + 1

Enqueue(u, ws) == pending' = [pending EXCEPT ![u] = @ \o ws]
-----------------------------------------------------------------------------
(* Creating a carpool.                                                      *)

\* A place chosen in the destination search.
selectDestination(u) ==
    /\ u \in Organizer
    /\ destination' = [destination EXCEPT ![u] = TRUE]
    /\ UNCHANGED <<carpoolCollection, groups, pending, passengers, carpools, rows,
                   listening, snapshot, refreshing, cleanups, taps, historyVars>>

\* A friend tapped in the passenger screen.  A second tap clears the colour
\* and removes nobody; nothing else ever empties the array.
selectPassenger(u, p) ==
    /\ u \in Organizer
    /\ p # u
    /\ p \notin ToSet(passengers[u])
    /\ passengers' = [passengers EXCEPT ![u] = Append(@, p)]
    /\ UNCHANGED <<carpoolCollection, groups, pending, destination, carpools, rows,
                   listening, snapshot, refreshing, cleanups, taps, historyVars>>

createCarpool(u, c) ==
    /\ destination[u]
    /\ c \notin used
    /\ destination' = [destination EXCEPT ![u] = FALSE]
    /\ Enqueue(u, << [op |-> "create", carpool |-> c, user |-> u,
                      riders |-> ToSet(passengers[u]), completes |-> TRUE] >>)
    /\ used' = used \cup {c}
    /\ UNCHANGED <<carpoolCollection, groups, passengers, carpools, rows, listening,
                   snapshot, refreshing, cleanups, taps, strays, orphaned, departed,
                   separated, missed>>

\* Faulty variants of some definitions stand before them, named ...Faulty...;
\* nothing uses them except the tests of the properties.
groupsFaultyDriverOnly(u, c, ps) == << enterGroup(c, u) >>

groupsFaultySwapped(u, c, ps) ==    \* the two ids of the path change places
    << enterGroup(u, c) >> \o [i \in DOMAIN ps |-> enterGroup(ps[i], c)]

\* addCarpoolToCurrentUsersGroup and addCarpoolToPassengersGroup: the riders
\* are those picked by the time the answer comes, not those of the document.
addCarpoolToGroups(u, c, ps) ==
    << enterGroup(c, u) >> \o [i \in DOMAIN ps |-> enterGroup(c, ps[i])]
-----------------------------------------------------------------------------
(* The list of carpools.                                                    *)

\* The list of a phone becomes `list`.  A refresh that has nothing left to wait
\* for notifies, and the list is sorted into work and play.
Refreshes(u, list, todo, notifies) ==
    /\ carpools' = [carpools EXCEPT ![u] = list]
    /\ refreshing' = [refreshing EXCEPT ![u] = todo]
    /\ rows' = IF notifies THEN [rows EXCEPT ![u] = ToSet(list)] ELSE rows

\* A refresh of the carpools ids starts.
StartsRefresh(u, ids) ==
    Refreshes(u, << >>, IF ids = {} THEN refreshing[u] ELSE Append(refreshing[u], ids),
              ids = {})

Others(u) == {pair \in missed : pair[1] # u}

fetchGroupsFaultyIgnoring(u) ==     \* a change during a refresh is let pass
    /\ listening[u]
    /\ OwnGroups(u) # snapshot[u]
    /\ snapshot' = [snapshot EXCEPT ![u] = OwnGroups(u)]
    /\ IF refreshing[u] = << >>
       THEN StartsRefresh(u, OwnGroups(u)) /\ missed' = Others(u)
       ELSE UNCHANGED <<carpools, refreshing, rows, missed>>
    /\ UNCHANGED <<carpoolCollection, groups, pending, destination, passengers, listening,
                   cleanups, taps, used, strays, orphaned, departed, separated>>

\* The groups listener reports a change: the list is emptied and a fetch of
\* every document starts; a refresh still under way goes on.
fetchGroupsForCurrentUser(u) ==
    /\ listening[u]
    /\ OwnGroups(u) # snapshot[u]
    /\ Len(refreshing[u]) < MaxRefreshes
    /\ snapshot' = [snapshot EXCEPT ![u] = OwnGroups(u)]
    /\ StartsRefresh(u, OwnGroups(u))
    /\ missed' = Others(u)
    /\ UNCHANGED <<carpoolCollection, groups, pending, destination, passengers, listening,
                   cleanups, taps, used, strays, orphaned, departed, separated>>

\* The backend ends the listener with an error, which is printed.  The listener is
\* registered once, when the screen is loaded.
listenerFails(u) ==
    /\ u \in Failing
    /\ listening[u]
    /\ listening' = [listening EXCEPT ![u] = FALSE]
    /\ UNCHANGED <<carpoolCollection, groups, pending, destination, passengers, carpools,
                   rows, snapshot, refreshing, cleanups, taps, historyVars>>

\* c leaves the DispatchGroup of the k-th refresh, and the list is `list`.
Leaves(u, k, c, list) ==
    IF refreshing[u][k] = {c}
    THEN Refreshes(u, list, RemoveAt(refreshing[u], k), TRUE)
    ELSE Refreshes(u, list, [refreshing[u] EXCEPT ![k] = @ \ {c}], FALSE)

\* The k-th refresh is answered about c.  A document that is gone is passed over,
\* and so is one whose read ends with an error: nothing asks for it again before
\* the groups change.
fetchCarpool(u, k, c) ==
    /\ k \in DOMAIN refreshing[u]
    /\ c \in refreshing[u][k]
    /\ LET doc == CarpoolSeenBy(u, c)
       IN  \/ /\ Leaves(u, k, c, IF doc = NoCarpool THEN carpools[u]
                                 ELSE Append(carpools[u], doc))
              /\ missed' = missed \ {<<u, c>>}
           \/ /\ u \in Failing
              /\ Leaves(u, k, c, carpools[u])
              /\ missed' = IF c \in Uuids(carpools[u]) THEN missed
                           ELSE missed \cup {<<u, c>>}
    /\ UNCHANGED <<carpoolCollection, groups, pending, destination, passengers, listening,
                   snapshot, cleanups, taps, used, strays, orphaned, departed, separated>>

leaveAllFaultyDriverOnly(u, ps, c) == << leaveGroup(c, u) >>

\* The rest of the deletion by the driver, for those the row names.
leaveAll(u, ps, c) ==
    << leaveGroup(c, u) >> \o [i \in DOMAIN ps |-> leaveGroup(c, ps[i])]

\* A row is deleted by the driver named in it: the carpool goes.
deleteAsDriver(u, row) ==
    /\ row \in rows[u]
    /\ row.driver = u
    /\ Tap
    /\ \E ps \in SetToSeqs(row.passengers) :
          Enqueue(u, << [write("delete", row.uuid, u) EXCEPT !.completes = TRUE] >>
                     \o leaveAll(u, ps, row.uuid))
    /\ UNCHANGED <<carpoolCollection, groups, phoneVars, historyVars>>

\* A row is deleted by somebody else: only the own entry goes, the passengers
\* of the document stay.  Nothing happens while the list is being refreshed
\* and lacks the carpool.
deleteAsPassenger(u, row) ==
    /\ row \in rows[u]
    /\ row.driver # u
    /\ row.uuid \in Uuids(carpools[u])
    /\ Tap
    /\ carpools' = [carpools EXCEPT ![u] = WithoutFirst(@, row.uuid)]
    /\ Enqueue(u, << leaveGroup(row.uuid, u) >>)
    /\ departed' = departed \cup {<<u, row.uuid>>}
    /\ UNCHANGED <<carpoolCollection, groups, destination, passengers, rows, listening,
                   snapshot, refreshing, cleanups, used, strays, orphaned, separated,
                   missed>>
-----------------------------------------------------------------------------
(* deleteUserFromCarpoolAfterBlockOrDeleleteOrUnFriend.                     *)

CleanUp(v, read, ids) == [user |-> v, read |-> read, ids |-> ids]

\* blockUser and unfriendUser end in a request for u's own groups.
separate(u, v) ==
    /\ u # v
    /\ CleanUp(v, FALSE, {}) \notin cleanups[u]
    /\ Tap
    /\ cleanups' = [cleanups EXCEPT ![u] = @ \cup {CleanUp(v, FALSE, {})}]
    /\ separated' = separated \cup {<<u, v>>}
    /\ UNCHANGED <<carpoolCollection, groups, pending, destination, passengers, carpools,
                   rows, listening, snapshot, refreshing, used, strays, orphaned,
                   departed, missed>>

\* The groups arrive, and the document of each is requested; or an error ends the
\* clean-up.
readGroups(u, v) ==
    /\ CleanUp(v, FALSE, {}) \in cleanups[u]
    /\ LET others == cleanups[u] \ {CleanUp(v, FALSE, {})}
       IN  \/ cleanups' = [cleanups EXCEPT ![u] =
                  IF OwnGroups(u) = {} THEN others
                  ELSE others \cup {CleanUp(v, TRUE, OwnGroups(u))}]
           \/ u \in Failing /\ cleanups' = [cleanups EXCEPT ![u] = others]
    /\ UNCHANGED <<carpoolCollection, groups, pending, destination, passengers, carpools,
                   rows, listening, snapshot, refreshing, taps, historyVars>>

cleanUpFaultyNameFirst(u, v, doc) ==        \* the name goes before the entry
    IF doc = NoCarpool THEN << >>
    ELSE IF doc.driver = u
    THEN IF v \in doc.passengers
         THEN << dropPassenger(doc.uuid, v), leaveGroup(doc.uuid, v) >> ELSE << >>
    ELSE IF v = doc.driver \/ v \in doc.passengers
         THEN << dropPassenger(doc.uuid, u), leaveGroup(doc.uuid, u) >> ELSE << >>

\* What u's phone writes on reading a carpool: u throws v out of u's own
\* carpools and leaves the carpools v rides in or drives.
cleanUpWrites(u, v, doc) ==
    IF doc = NoCarpool THEN << >>
    ELSE IF doc.driver = u
    THEN IF v \in doc.passengers
         THEN << leaveGroup(doc.uuid, v), dropPassenger(doc.uuid, v) >> ELSE << >>
    ELSE IF v = doc.driver \/ v \in doc.passengers
         THEN << leaveGroup(doc.uuid, u), dropPassenger(doc.uuid, u) >> ELSE << >>

\* One of these documents arrives; or an error, and this carpool is left as it is.
cleanUpCarpool(u, k, c) ==
    /\ k \in cleanups[u]
    /\ c \in k.ids
    /\ \/ Enqueue(u, cleanUpWrites(u, k.user, CarpoolSeenBy(u, c)))
       \/ u \in Failing /\ UNCHANGED pending
    /\ cleanups' = [cleanups EXCEPT ![u] =
           (@ \ {k}) \cup (IF k.ids = {c} THEN {} ELSE {[k EXCEPT !.ids = @ \ {c}]})]
    /\ UNCHANGED <<carpoolCollection, groups, destination, passengers, carpools, rows,
                   listening, snapshot, refreshing, taps, historyVars>>
-----------------------------------------------------------------------------
(* The Firestore client and the phone.                                      *)

ApplyFaultyUpsert(docs, w) ==       \* the update makes a missing document
    CASE w.op = "create" ->
            [docs EXCEPT ![w.carpool] =
                [uuid |-> w.carpool, driver |-> w.user, passengers |-> w.riders]]
      [] w.op = "delete" -> [docs EXCEPT ![w.carpool] = NoCarpool]
      [] w.op = "dropPassenger" ->
            [docs EXCEPT ![w.carpool] =
                IF @ = NoCarpool
                THEN [uuid |-> w.carpool, driver |-> w.user, passengers |-> {}]
                ELSE WithoutPassengers(@, {w.user})]
      [] OTHER -> docs

\* setData, updateData and delete: an update of a missing document is refused.
ApplyToCarpools(docs, w) ==
    CASE w.op = "create" ->
            [docs EXCEPT ![w.carpool] =
                [uuid |-> w.carpool, driver |-> w.user, passengers |-> w.riders]]
      [] w.op = "delete" -> [docs EXCEPT ![w.carpool] = NoCarpool]
      [] w.op = "dropPassenger" ->
            [docs EXCEPT ![w.carpool] = WithoutPassengers(@, {w.user})]
      [] OTHER -> docs

ApplyToGroups(entries, w) ==
    CASE w.op = "enter" -> [entries EXCEPT ![w.user] = @ \cup {w.carpool}]
      [] w.op = "leave" -> [entries EXCEPT ![w.user] = @ \ {w.carpool}]
      [] OTHER -> entries

\* The backend applies the oldest queued write of a phone and acknowledges it,
\* and the completion runs.
Deliver(u) ==
    /\ pending[u] # << >>
    /\ LET w == Head(pending[u])
           made == w.op = "create" /\ w.completes
           gone == w.op = "delete" /\ w.completes
       IN  /\ carpoolCollection' = ApplyToCarpools(carpoolCollection, w)
           /\ groups' = ApplyToGroups(groups, w)
           /\ pending' = [pending EXCEPT ![u] =
                  Tail(@) \o IF made THEN addCarpoolToGroups(u, w.carpool, passengers[u])
                             ELSE << >>]
           /\ strays' = IF made
                  THEN strays \cup ((ToSet(passengers[u]) \ w.riders) \X {w.carpool})
                  ELSE strays
           /\ carpools' = IF gone /\ w.carpool \in Uuids(carpools[u])
                  THEN [carpools EXCEPT ![u] = WithoutFirst(@, w.carpool)]
                  ELSE carpools
    /\ UNCHANGED <<destination, passengers, rows, listening, snapshot, refreshing, cleanups,
                   taps, used, orphaned, departed, separated, missed>>

RelaunchFaultyForgetting(u) ==      \* the queue is not persisted
    /\ u \in Restarting
    /\ Tap
    /\ destination' = [destination EXCEPT ![u] = FALSE]
    /\ passengers' = [passengers EXCEPT ![u] = << >>]
    /\ carpools' = [carpools EXCEPT ![u] = << >>]
    /\ rows' = [rows EXCEPT ![u] = {}]
    /\ listening' = [listening EXCEPT ![u] = TRUE]
    /\ snapshot' = [snapshot EXCEPT ![u] = {}]
    /\ refreshing' = [refreshing EXCEPT ![u] = << >>]
    /\ cleanups' = [cleanups EXCEPT ![u] = {}]
    /\ pending' = [pending EXCEPT ![u] = << >>]
    /\ missed' = Others(u)
    /\ UNCHANGED <<carpoolCollection, groups, used, strays, orphaned, departed, separated>>

\* The app is killed and started again: everything of the phone but its queue
\* of writes is lost, and with it the completions.
Relaunch(u) ==
    /\ u \in Restarting
    /\ Tap
    /\ destination' = [destination EXCEPT ![u] = FALSE]
    /\ passengers' = [passengers EXCEPT ![u] = << >>]
    /\ carpools' = [carpools EXCEPT ![u] = << >>]
    /\ rows' = [rows EXCEPT ![u] = {}]
    /\ listening' = [listening EXCEPT ![u] = TRUE]
    /\ snapshot' = [snapshot EXCEPT ![u] = {}]
    /\ refreshing' = [refreshing EXCEPT ![u] = << >>]
    /\ cleanups' = [cleanups EXCEPT ![u] = {}]
    /\ pending' = [pending EXCEPT ![u] =
                     [i \in DOMAIN @ |-> [@[i] EXCEPT !.completes = FALSE]]]
    /\ orphaned' = orphaned \cup
           {pending[u][i].carpool : i \in {j \in DOMAIN pending[u] : pending[u][j].op = "create"}}
    /\ missed' = Others(u)
    /\ UNCHANGED <<carpoolCollection, groups, used, strays, departed, separated>>
-----------------------------------------------------------------------------
Next ==
    \E u \in User :
        \/ selectDestination(u)
        \/ \E p \in User : selectPassenger(u, p)
        \/ \E c \in Carpool : createCarpool(u, c)
        \/ fetchGroupsForCurrentUser(u)
        \/ listenerFails(u)
        \/ \E k \in DOMAIN refreshing[u] : \E c \in refreshing[u][k] : fetchCarpool(u, k, c)
        \/ \E row \in rows[u] : deleteAsDriver(u, row)
        \/ \E row \in rows[u] : deleteAsPassenger(u, row)
        \/ \E v \in User : separate(u, v)
        \/ \E v \in User : readGroups(u, v)
        \/ \E k \in cleanups[u] : \E c \in k.ids : cleanUpCarpool(u, k, c)
        \/ Deliver(u)
        \/ Relaunch(u)

\* A read of the list is answered, if with an error, and a listener that is still
\* registered fires; no user is obliged to do anything.
Fairness ==
    \A u \in User :
        /\ WF_vars(Deliver(u))
        /\ WF_vars(fetchGroupsForCurrentUser(u))
        /\ WF_vars(\E k \in DOMAIN refreshing[u] : \E c \in refreshing[u][k] :
                      fetchCarpool(u, k, c))

Spec == Init /\ [][Next]_vars /\ Fairness
-----------------------------------------------------------------------------
(* Properties.                                                              *)

TypeOK ==
    /\ carpoolCollection \in [Carpool -> CarpoolObject \cup {NoCarpool}]
    /\ groups \in [User -> SUBSET Carpool]
    /\ pending \in [User -> Seq(QueuedWrite)]
    /\ destination \in [User -> BOOLEAN]
    /\ passengers \in [User -> Seq(User)]
    /\ carpools \in [User -> Seq(CarpoolObject)]
    /\ rows \in [User -> SUBSET CarpoolObject]
    /\ listening \in [User -> BOOLEAN]
    /\ snapshot \in [User -> SUBSET Carpool]
    /\ refreshing \in [User -> Seq(SUBSET Carpool)]
    /\ cleanups \in [User -> SUBSET [user : User, read : BOOLEAN, ids : SUBSET Carpool]]
    /\ taps \in Nat
    /\ used \in SUBSET Carpool
    /\ strays \in SUBSET (User \X Carpool)
    /\ orphaned \in SUBSET Carpool
    /\ departed \in SUBSET (User \X Carpool)
    /\ separated \in SUBSET (User \X User)
    /\ missed \in SUBSET (User \X Carpool)

Rides(p, doc) == p = doc.driver \/ p \in doc.passengers

\* Nobody has a carpool in the groups without being its driver or on its list
\* of passengers, except those its driver picked after saving it and before
\* the answer came.  The entry and the name are written by different writes,
\* of up to three phones, and every clean-up must take the entry away first.
EntriesBelong ==
    \A u \in User : \A c \in groups[u] :
        carpoolCollection[c] # NoCarpool /\ <<u, c>> \notin strays
            => Rides(u, carpoolCollection[c])

\* A deleted carpool leaves no entries behind: once no phone has writes of it
\* to send, nobody's groups name it, again except those strays.  The driver
\* removes the entries of the passengers a row named when it was fetched, which
\* may be long before.
NoEntryOutlives ==
    \A c \in used :
        /\ carpoolCollection[c] = NoCarpool
        /\ \A u \in User : QueuedFor(u, c, {"create", "delete", "enter", "leave"}) = {}
        => \A u \in User : c \in groups[u] => <<u, c>> \in strays

\* A deleted carpool stays deleted: the updates of a clean-up that comes late
\* do not bring its document back, not even in part, and nobody gets back on a
\* list of passengers.
CarpoolsNeverReturn ==
    [][\A c \in used :
          /\ \A u \in User : QueuedFor(u, c, {"create"}) = {}
          /\ carpoolCollection'[c] # NoCarpool
          => /\ carpoolCollection[c] # NoCarpool
             /\ carpoolCollection'[c].driver = carpoolCollection[c].driver
             /\ carpoolCollection'[c].passengers \subseteq carpoolCollection[c].passengers]_vars

\* Overlapping refreshes may leave a carpool twice in the list, or one that is
\* gone, but only an error loses one: with no refresh under way and no change left
\* to report, every carpool of the own groups that exists is listed and shown,
\* unless every answer about it since the last report was an error.
ListComplete ==
    \A u \in User :
        refreshing[u] = << >> /\ snapshot[u] = OwnGroups(u) =>
            \A c \in OwnGroups(u) :
                CarpoolSeenBy(u, c) # NoCarpool /\ <<u, c>> \notin missed =>
                    c \in Uuids(carpools[u]) /\ \E row \in rows[u] : row.uuid = c

\* Whoever is on a carpool's list of passengers gets to see it, unless it is
\* deleted or the user leaves or is thrown out first, or the creator's app was
\* killed before the backend had confirmed the creation, or an error was the answer
\* to the read of the carpool or ended the listener: neither is tried again.
PassengersGetToSee ==
    \A p \in User, c \in Carpool :
        /\ carpoolCollection[c] # NoCarpool
        /\ p \in carpoolCollection[c].passengers
        ~> \/ c \in Uuids(carpools[p])
           \/ carpoolCollection[c] = NoCarpool
           \/ p \notin carpoolCollection[c].passengers
           \/ <<p, c>> \in departed
           \/ c \in orphaned
           \/ <<p, c>> \in missed
           \/ ~listening[p]
-----------------------------------------------------------------------------
(* What the program's texts say and the code does not do.                   *)

\* "YOU WON'T BE IN THE SAME GROUP WITH YOUR BLOCK USER ANYMORE": when all is
\* settled, no carpool is in the groups of both.
SeparatedShareNoGroup ==
    (\A u \in User : pending[u] = << >> /\ cleanups[u] = {}) =>
        \A pair \in separated : groups[pair[1]] \cap groups[pair[2]] = {}
=============================================================================
