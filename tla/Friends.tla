------------------------------- MODULE Friends -------------------------------
(***************************************************************************)
(* The social graph of DriveTribe: friend requests, friendships and        *)
(* blocks.                                                                 *)
(*                                                                         *)
(* Every relation is stored twice, once in the document of each of its two *)
(* users, and every operation of UserController edits both documents from  *)
(* the phone of one of them by a row of independent single-array writes.   *)
(* No transaction, no batch and no server-side rule ties the writes        *)
(* together, so the writes of two phones interleave freely.  A phone       *)
(* checks what it is about to do only against copies it read earlier: the  *)
(* currentUser object (filled at login, never refreshed after it) and the  *)
(* lists its table views show.                                             *)
(*                                                                         *)
(* One phone per user, signed in to that user's account.  The documents    *)
(* exist throughout (account deletion is a component of its own), and the  *)
(* clean-up of shared carpools that blockUser and unfriendUser start at    *)
(* their end edits other collections and is not part of this state.        *)
(***************************************************************************)
EXTENDS Firestore, FiniteSets

CONSTANTS
    User,       \* the accounts, also the ids of their documents
    NoUser,     \* currentUser == nil
    Befriended, \* <<u, v>>: at the start u has accepted a request of v
    Requested,  \* <<u, v>>: at the start a request of u to v is pending
    Restarting, \* the phones on which the app may be killed and started again
    MaxTaps,    \* bound: operations all users together start
    MaxLoads    \* bound: list downloads a phone has in progress at once

\* The arrays of a user document, by the names of UserConstants.
friendsKey == "friends"
friendsRequestSentKey == "friendsRequestSent"
friendsRequestReceivedKey == "friendsRequestReceived"
blockedUsersKey == "blockedUsers"
blockedUsersByCurrentUserKey == "blockedUsersByCurrentUser"

Field == {friendsKey, friendsRequestSentKey, friendsRequestReceivedKey,
          blockedUsersKey, blockedUsersByCurrentUserKey}

\* The arrays some table view shows: three scopes of the friend list, and the
\* blocked users screen.
ShownField == Field \ {blockedUsersKey}

\* The arrays of currentUser that are read again, in sendFriendRequest.
CachedField == {friendsKey, friendsRequestSentKey, blockedUsersKey}

Document == [Field -> SUBSET User]
CachedUser == [CachedField -> SUBSET User]

ASSUME NoUserAssumption == NoUser \notin CachedUser /\ NoUser \notin User
ASSUME StartAssumption ==
    /\ Befriended \subseteq User \X User
    /\ Requested \subseteq User \X User
    /\ \A u \in User : <<u, u>> \notin Befriended \cup Requested
ASSUME BoundAssumption == MaxTaps \in Nat /\ MaxLoads \in Nat

VARIABLES
    users,        \* users[d]: document d of the "users" collection, at the backend
    pending,      \* pending[u]: the writes u's phone has queued, oldest first
    currentUser,  \* currentUser[u]: UserController.shared.currentUser on u's phone
    shown,        \* shown[u][f]: the rows u's screen lists for array f
    loads,        \* loads[u]: downloads of lists in progress on u's phone
    taps          \* operations started so far

VARIABLES         \* history, read by no action
    asked,        \* <<u, v>>: u has sent v a friend request
    accepted,     \* <<u, v>>: u has accepted a request of v
    blocking,     \* blocking[u]: whom u has blocked and not unblocked since
    raced         \* array elements both ends had opposite writes in flight for

appVars == <<users, pending, currentUser, shown, loads, taps>>
historyVars == <<asked, accepted, blocking, raced>>
vars == <<users, pending, currentUser, shown, loads, taps,
          asked, accepted, blocking, raced>>
-----------------------------------------------------------------------------
(* Writes. `drops` is the user whose row leaves the "sent" list when the    *)
(* write is acknowledged (the completion of cancelFriendRequest), or NoUser *)
(* when the completion changes nothing.                                     *)

WriteOp == {"union", "remove"}

QueuedWrite == [doc : User, field : Field, op : WriteOp, id : User,
                drops : User \cup {NoUser}]

arrayUnion(d, f, v) ==
    [doc |-> d, field |-> f, op |-> "union", id |-> v, drops |-> NoUser]

arrayRemove(d, f, v) ==
    [doc |-> d, field |-> f, op |-> "remove", id |-> v, drops |-> NoUser]

\* An element of an array: "v is in array f of document d".
Cell == User \X Field \X User

CellOf(w) == <<w.doc, w.field, w.id>>

\* The array in which the other end stores the same relation.
MirrorField(f) ==
    CASE f = friendsRequestSentKey -> friendsRequestReceivedKey
      [] f = friendsRequestReceivedKey -> friendsRequestSentKey
      [] OTHER -> f

Mirror(c) == <<c[3], MirrorField(c[2]), c[1]>>

\* Elements for which writes `ws` of u's phone contradict a write, of the
\* element or of its mirror, that another phone has queued.
Clashes(u, ws) ==
    {c \in Cell : \E k \in DOMAIN ws, x \in User \ {u} : \E i \in DOMAIN pending[x] :
        /\ CellOf(ws[k]) \in {c, Mirror(c)}
        /\ CellOf(pending[x][i]) \in {c, Mirror(c)}
        /\ pending[x][i].op # ws[k].op}

\* What u's phone reads of array f of its own document.
OwnArray(u, f) == SeenBy(users, pending[u], u, f)
-----------------------------------------------------------------------------
InitialArray(d, f) ==
    CASE f = friendsKey -> {v \in User : {<<d, v>>, <<v, d>>} \cap Befriended # {}}
      [] f = friendsRequestSentKey -> {v \in User : <<d, v>> \in Requested}
      [] f = friendsRequestReceivedKey -> {v \in User : <<v, d>> \in Requested}
      [] OTHER -> {}

\* The backend is settled: new accounts, or accounts some requests and
\* friendships of which lie in the past.
Init ==
    /\ users = [d \in User |-> [f \in Field |-> InitialArray(d, f)]]
    /\ pending = [u \in User |-> << >>]
    /\ currentUser = [u \in User |-> NoUser]
    /\ shown = [u \in User |-> [f \in ShownField |-> {}]]
    /\ loads = [u \in User |-> {}]
    /\ taps = 0
    /\ asked = Requested \cup {p \in User \X User : <<p[2], p[1]>> \in Befriended}
    /\ accepted = Befriended
    /\ blocking = [u \in User |-> {}]
    /\ raced = {}

\* What every operation of UserController does: it returns at once unless a
\* currentUser is there, and otherwise queues its writes in program order.
Start(u, ws) ==
    /\ currentUser[u] # NoUser
    /\ taps < MaxTaps
    /\ taps' = taps + 1
    /\ pending' = [pending EXCEPT ![u] = @ \o ws]
    /\ raced' = raced \cup Clashes(u, ws)
    /\ UNCHANGED <<users, currentUser>>

\* The row of v leaves the list the tapped button stands in.
DropRow(u, f, v) == shown' = [shown EXCEPT ![u][f] = @ \ {v}]

\* A list download that has read v's own array and now fetches, one by one,
\* the documents it names; `got` are those that have arrived.
Load(f, ids) == [field |-> f, ids |-> ids, got |-> {}]

\* Faulty variants of some definitions stand before them, named ...Faulty...;
\* nothing uses them except the tests of the properties.
sendFaultyByAuthID(u, v) ==     \* authID, which signup leaves empty, for uuid
    << [arrayUnion(v, friendsRequestReceivedKey, u) EXCEPT !.id = NoUser],
       arrayUnion(u, friendsRequestSentKey, v) >>

sendFaultyToSelf(u, v) ==       \* the request lands on the sender's own list
    << arrayUnion(u, friendsRequestReceivedKey, v),
       arrayUnion(u, friendsRequestSentKey, v) >>

sendFriendRequestWrites(u, v) ==
    << arrayUnion(v, friendsRequestReceivedKey, u),
       arrayUnion(u, friendsRequestSentKey, v) >>

\* The guard reads the copy made at login, not the document.
mayRequest(u, v) ==
    /\ v \notin currentUser[u][friendsKey]
    /\ v \notin currentUser[u][friendsRequestSentKey]
    /\ v \notin currentUser[u][blockedUsersKey]

\* The "+" of a search result.  A search lists any user but the searcher.
sendFriendRequest(u, v) ==
    /\ u # v
    /\ Start(u, sendFriendRequestWrites(u, v))
    /\ mayRequest(u, v)
    /\ asked' = asked \cup {<<u, v>>}
    /\ UNCHANGED <<shown, loads, accepted, blocking>>

\* Otherwise the tap only brings up an alert: "You have already sent friend
\* request to ...", the error being .repeatRequest.
repeatRequest(u, v) == u # v /\ currentUser[u] # NoUser /\ ~mayRequest(u, v)

acceptFaultyLeavingSent(u, v) ==        \* the sender's list keeps the request
    << arrayUnion(u, friendsKey, v),
       arrayRemove(u, friendsRequestReceivedKey, v),
       arrayUnion(v, friendsKey, u) >>

acceptFriendRequestWrites(u, v) ==
    << arrayUnion(u, friendsKey, v),
       arrayRemove(u, friendsRequestReceivedKey, v),
       arrayUnion(v, friendsKey, u),
       arrayRemove(v, friendsRequestSentKey, u) >>

\* Accept, in the "received" scope: any row shown, however old.
acceptFriendRequest(u, v) ==
    /\ v \in shown[u][friendsRequestReceivedKey]
    /\ Start(u, acceptFriendRequestWrites(u, v))
    /\ DropRow(u, friendsRequestReceivedKey, v)
    /\ accepted' = accepted \cup {<<u, v>>}
    /\ UNCHANGED <<loads, asked, blocking>>

\* The row goes only when the first write is acknowledged.
cancelFriendRequestWrites(u, v) ==
    << [arrayRemove(v, friendsRequestReceivedKey, u) EXCEPT !.drops = v],
       [arrayRemove(u, friendsRequestSentKey, v) EXCEPT !.drops = v] >>

cancelFriendRequest(u, v) ==
    /\ v \in shown[u][friendsRequestSentKey]
    /\ Start(u, cancelFriendRequestWrites(u, v))
    /\ UNCHANGED <<shown, loads, asked, accepted, blocking>>

blockFaultyBothLists(u, v) ==   \* the wrong key for the blocked user's mark
    << arrayRemove(u, friendsKey, v),
       arrayUnion(u, blockedUsersKey, v),
       arrayUnion(u, blockedUsersByCurrentUserKey, v),
       arrayRemove(v, friendsKey, u),
       arrayUnion(v, blockedUsersByCurrentUserKey, u) >>

blockUserWrites(u, v) ==
    << arrayRemove(u, friendsKey, v),
       arrayUnion(u, blockedUsersKey, v),
       arrayUnion(u, blockedUsersByCurrentUserKey, v),
       arrayRemove(v, friendsKey, u),
       arrayUnion(v, blockedUsersKey, u) >>

\* Block, which only the row of a friend offers.  Requests pending between
\* the two stay as they are.
blockUser(u, v) ==
    /\ v \in shown[u][friendsKey]
    /\ Start(u, blockUserWrites(u, v))
    /\ DropRow(u, friendsKey, v)
    /\ blocking' = [blocking EXCEPT ![u] = @ \cup {v}]
    /\ UNCHANGED <<loads, asked, accepted>>

unfriendFaultyOneSided(u, v) == << arrayRemove(u, friendsKey, v) >>

unfriendUserWrites(u, v) ==
    << arrayRemove(u, friendsKey, v),
       arrayRemove(v, friendsKey, u) >>

unfriendUser(u, v) ==
    /\ v \in shown[u][friendsKey]
    /\ Start(u, unfriendUserWrites(u, v))
    /\ DropRow(u, friendsKey, v)
    /\ UNCHANGED <<loads, asked, accepted, blocking>>

unblockedUserWrites(u, v) ==
    << arrayRemove(u, blockedUsersByCurrentUserKey, v),
       arrayRemove(u, blockedUsersKey, v),
       arrayRemove(v, blockedUsersKey, u) >>

\* Unblock, in the blocked users screen.  Its completion starts a download of
\* the list again; no download goes on when the array is empty by then.
unblockedUser(u, v) ==
    /\ v \in shown[u][blockedUsersByCurrentUserKey]
    /\ Start(u, unblockedUserWrites(u, v))
    /\ DropRow(u, blockedUsersByCurrentUserKey, v)
    /\ LET left == OwnArray(u, blockedUsersByCurrentUserKey) \ {v}
       IN  loads' = [loads EXCEPT ![u] =
               IF left = {} THEN @ ELSE @ \cup {Load(blockedUsersByCurrentUserKey, left)}]
    /\ blocking' = [blocking EXCEPT ![u] = @ \ {v}]
    /\ UNCHANGED <<asked, accepted>>
-----------------------------------------------------------------------------
(* Reads.                                                                   *)

\* Login, and the auto-login of a launch: the one place currentUser is set.
fetchCurrentUser(u) ==
    /\ currentUser[u] = NoUser
    /\ currentUser' = [currentUser EXCEPT ![u] = [f \in CachedField |-> OwnArray(u, f)]]
    /\ UNCHANGED <<users, pending, shown, loads, taps, historyVars>>

\* fetchFriendsFor and its three siblings: u's own document has arrived.  An
\* empty array ends the call without a completion: the old rows stay shown.
fetchList(u, f) ==
    /\ currentUser[u] # NoUser
    /\ OwnArray(u, f) # {}
    /\ Cardinality(loads[u]) < MaxLoads
    /\ loads' = [loads EXCEPT ![u] = @ \cup {Load(f, OwnArray(u, f))}]
    /\ UNCHANGED <<users, pending, currentUser, shown, taps, historyVars>>

\* One of the documents it names has arrived: the completion runs with those
\* that have come so far, and the screen shows exactly them.
fetchListMember(u, l, v) ==
    /\ l \in loads[u]
    /\ v \in l.ids \ l.got
    /\ LET got == l.got \cup {v}
           rest == loads[u] \ {l}
       IN  /\ loads' = [loads EXCEPT ![u] =
                 IF got = l.ids THEN rest ELSE rest \cup {[l EXCEPT !.got = got]}]
           /\ shown' = [shown EXCEPT ![u][l.field] = got]
    /\ UNCHANGED <<users, pending, currentUser, taps, historyVars>>
-----------------------------------------------------------------------------
(* The Firestore client and the phone.                                      *)

\* The backend applies the oldest queued write of a phone and acknowledges it.
Deliver(u) ==
    /\ pending[u] # << >>
    /\ LET w == Head(pending[u])
       IN  /\ users' = ApplyWrite(users, w)
           /\ shown' = IF w.drops = NoUser THEN shown
                       ELSE [shown EXCEPT ![u][friendsRequestSentKey] = @ \ {w.drops}]
    /\ pending' = [pending EXCEPT ![u] = Tail(@)]
    /\ UNCHANGED <<currentUser, loads, taps, historyVars>>

RelaunchFaultyForgetting(u) ==  \* the queue is not persisted
    /\ u \in Restarting
    /\ currentUser[u] # NoUser
    /\ currentUser' = [currentUser EXCEPT ![u] = NoUser]
    /\ shown' = [shown EXCEPT ![u] = [f \in ShownField |-> {}]]
    /\ loads' = [loads EXCEPT ![u] = {}]
    /\ pending' = [pending EXCEPT ![u] = << >>]
    /\ UNCHANGED <<users, taps, historyVars>>

\* The app is killed and started again: objects, screens, downloads and
\* completions are lost, the queued writes are not.
Relaunch(u) ==
    /\ u \in Restarting
    /\ currentUser[u] # NoUser
    /\ currentUser' = [currentUser EXCEPT ![u] = NoUser]
    /\ shown' = [shown EXCEPT ![u] = [f \in ShownField |-> {}]]
    /\ loads' = [loads EXCEPT ![u] = {}]
    /\ pending' = [pending EXCEPT ![u] =
                     [i \in DOMAIN @ |-> [@[i] EXCEPT !.drops = NoUser]]]
    /\ UNCHANGED <<users, taps, historyVars>>
-----------------------------------------------------------------------------
Next ==
    \/ \E u, v \in User :
          \/ sendFriendRequest(u, v)
          \/ acceptFriendRequest(u, v)
          \/ cancelFriendRequest(u, v)
          \/ blockUser(u, v)
          \/ unfriendUser(u, v)
          \/ unblockedUser(u, v)
    \/ \E u \in User :
          \/ fetchCurrentUser(u)
          \/ \E f \in ShownField : fetchList(u, f)
          \/ \E l \in loads[u] : \E v \in l.ids : fetchListMember(u, l, v)
          \/ Deliver(u)
          \/ Relaunch(u)

\* A phone is online now and then, and the client then sends its queue.
\* Nothing obliges a user to tap, to look at a list or to restart the app.
Fairness == \A u \in User : WF_vars(Deliver(u))

Spec == Init /\ [][Next]_vars /\ Fairness
-----------------------------------------------------------------------------
(* Properties.                                                              *)

LoadRecord == [field : ShownField, ids : SUBSET User, got : SUBSET User]

\* Every variable keeps its type; the documents of UserController never gain
\* an array entry that is not a user.
TypeOK ==
    /\ users \in [User -> Document]
    /\ pending \in [User -> Seq(QueuedWrite)]
    /\ currentUser \in [User -> CachedUser \cup {NoUser}]
    /\ shown \in [User -> [ShownField -> SUBSET User]]
    /\ loads \in [User -> SUBSET LoadRecord]
    /\ taps \in Nat
    /\ asked \in SUBSET (User \X User)
    /\ accepted \in SUBSET (User \X User)
    /\ blocking \in [User -> SUBSET User]
    /\ raced \in SUBSET Cell

\* The promise of the friend graph, with the "friends" arrays at the backend
\* as its friendships.
Promise == INSTANCE Consent WITH friends <- [u \in User |-> users[u][friendsKey]]

\* Friendship needs consent: a user enters a "friends" array, even only one of
\* the two, only after one of the pair asked and the other then accepted.
\* acceptFriendRequest checks nothing but the row tapped, so this rests on
\* every row of a "received" list being a request that was really sent, in
\* whatever order downloads, deliveries and cancellations came.
FriendsConsented == Promise!Spec

In(c) == c[3] \in users[c[1]][c[2]]

MirroredCell == {c \in Cell : c[2] # blockedUsersByCurrentUserKey}

\* No phone still has a write of c or of its mirror to send.
Settled(c) ==
    \A u \in User : \A i \in DOMAIN pending[u] : CellOf(pending[u][i]) \notin {c, Mirror(c)}

\* The two documents of a pair tell the same story (friends on both sides;
\* sent here and received there; blocked on both sides) once the writes of it
\* have landed, whatever was killed, restarted or delayed on the way, unless
\* both ends had contradicting writes of it in flight at the same time.
EndsAgree ==
    \A c \in MirroredCell : (In(c) <=> In(Mirror(c))) \/ c \in raced \/ ~Settled(c)

\* The list behind the blocked users screen is what its owner last decided
\* about each user, in the owner's own reads at any moment: no operation of
\* another user reaches it, and no queued write of it is lost or overtaken.
BlockListIsOwn ==
    \A u \in User : OwnArray(u, blockedUsersByCurrentUserKey) = blocking[u]

\* A block is not lost on the way: it reaches the blocker's document at the
\* backend unless the blocker takes it back first.
BlockTakesHold ==
    \A u, v \in User :
        v \in blocking[u] ~> \/ v \in users[u][blockedUsersByCurrentUserKey]
                             \/ v \notin blocking[u]
-----------------------------------------------------------------------------
(* What the program's texts say and the code does not do.                   *)

Quiet == \A u \in User : pending[u] = << >>

\* "If you blocked this user, you will be not able to associate with this
\* user anymore": with nothing left in flight, a user someone has blocked is
\* not that someone's friend.
BlockedNotAssociated ==
    Quiet => \A u, v \in User :
        v \in users[u][blockedUsersByCurrentUserKey] => v \notin users[u][friendsKey]

\* "This user already has a pending request from you": whoever is told so has
\* one, in the phone's own reading of the sender's document.
RefusedMeansPending ==
    \A u, v \in User :
        repeatRequest(u, v) => v \in OwnArray(u, friendsRequestSentKey)
=============================================================================
