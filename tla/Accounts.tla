------------------------------ MODULE Accounts ------------------------------
(***************************************************************************)
(* The life of an account on one phone: signup, login and logout, the      *)
(* profile, the home location, and the deletion of the account.            *)
(*                                                                         *)
(* UserController writes the document of a user in chains: each write is   *)
(* queued by the completion of the one before.  The deletion of an account *)
(* runs two such chains at once and asks Auth to delete the login besides; *)
(* what the user does meanwhile, a sign-out and a restart come between.    *)
(*                                                                         *)
(* The phone is one of many; other people make and delete the carpools its *)
(* user rides in.  A signup or login is answered at once, and the queue of *)
(* writes changes with the account at once: WritePipeline has the way in   *)
(* between.  A profile is four texts of one write and changes nothing here.*)
(***************************************************************************)
EXTENDS Naturals, FiniteSets, SequencesExt

CONSTANTS
    Account,    \* the accounts that sign up on the phone
    Nobody,     \* no account is signed in
    NoUser,     \* there is no user document
    NoField,    \* the document lacks its location
    Other,      \* a driver with another phone
    Carpool,    \* the ids of carpools
    NoCarpool,  \* there is no such carpool
    Location,   \* the pairs of coordinates a phone may report
    MaxTaps     \* bound: what the user does and how often the app is killed

Coordinate == UNION {ToSet(l) : l \in Location}

CarpoolObject == [driver : Account \cup {Other}, passengers : SUBSET Account]

ASSUME AccountsConstantsAssumption ==
    /\ Nobody \notin Account
    /\ Other \notin Account
    /\ Location \subseteq Seq(Nat)
    /\ \A l \in Location : Len(l) = 2
    /\ NoUser # NoField /\ NoUser \notin Seq(Nat) /\ NoField \notin Seq(Nat)
    /\ NoCarpool \notin CarpoolObject /\ NoCarpool \notin Carpool
    /\ MaxTaps \in Nat

VARIABLES
    accounts,     \* Firebase Auth: the logins there are
    users,        \* users[a]: the location in the document of a, at the backend
    deletedUsers, \* the documents copied to that collection
    carpools,     \* carpools[c]: document c at the backend
    groups,       \* groups[a]: the ids in a's groups collection there
    authUser,     \* Auth.auth().currentUser
    currentUser,  \* UserController.currentUser
    lastCurrentLocation, \* UserController.lastCurrentLocation
    screen,       \* "login", "waiting" behind the spinner, or "tabs"
    queue,        \* queue[a]: the writes queued while a was signed in
    reads,        \* what the phone has asked the backend for
    deleting,     \* the logins Auth has been asked to delete
    taps          \* what the user has done so far

VARIABLES         \* history; only `used` is read, for fresh ids
    used,         \* ids given to carpools
    meant,        \* meant[a]: the location last saved, << >> if it was disturbed
    killed,       \* accounts whose chains a restart cut off
    collected     \* <<a, c>>: the deletion of a read c while a was signed in

backendVars == <<accounts, users, deletedUsers, carpools, groups>>
sessionVars == <<authUser, currentUser, screen>>
phoneVars == <<sessionVars, lastCurrentLocation, queue, reads, deleting>>
historyVars == <<used, meant, killed, collected>>
vars == <<accounts, users, deletedUsers, carpools, groups, authUser, currentUser,
          lastCurrentLocation, screen, queue, reads, deleting, taps, used, meant,
          killed, collected>>
-----------------------------------------------------------------------------
(* Writes and reads.                                                        *)

LocationOp == {"clear", "addFirst", "addSecond"}

QueuedWrite ==
    [op : LocationOp \cup {"create", "profile", "copy", "remove", "deleteCarpool",
                           "leaveCarpool"},
     account : Account, location : Seq(Coordinate), carpool : Carpool \cup {NoCarpool},
     completes : BOOLEAN]

write(op, a, location) ==
    [op |-> op, account |-> a, location |-> location, carpool |-> NoCarpool,
     completes |-> TRUE]

carpoolWrite(op, a, c) ==
    [op |-> op, account |-> a, location |-> << >>, carpool |-> c, completes |-> FALSE]

Read == [what : {"user", "groups"}, account : Account, carpool : {NoCarpool}]
        \cup [what : {"carpool"}, account : Account, carpool : Carpool]

read(what, a) == [what |-> what, account |-> a, carpool |-> NoCarpool]

Missing(a) == users[a] = NoUser

\* arrayUnion: an equal number is not added a second time, and an array that
\* is missing is made.
Union(field, x) ==
    IF field = NoField THEN << x >>
    ELSE IF x \in ToSet(field) THEN field
    ELSE Append(field, x)

\* Faulty variants of some definitions stand before them, named ...Faulty...;
\* nothing uses them except the tests of the properties.
ApplyFaultyUpsert(doc, w) ==            \* an update makes a missing document
    CASE w.op = "create" -> w.location
      [] w.op = "remove" -> NoUser
      [] w.op = "clear" -> NoField
      [] w.op \in {"addFirst", "addSecond"} ->
            IF doc = NoUser THEN w.location ELSE Union(doc, w.location[1])
      [] OTHER -> doc

\* An update of a missing document is refused.
ApplyToUser(doc, w) ==
    CASE w.op = "create" -> w.location
      [] w.op = "remove" -> NoUser
      [] w.op = "clear" /\ doc # NoUser -> NoField
      [] w.op \in {"addFirst", "addSecond"} /\ doc # NoUser -> Union(doc, w.location[1])
      [] OTHER -> doc

Refused(w) == w.op \in LocationOp \cup {"profile"} /\ Missing(w.account)

\* The document of a as the phone reads it: its queued writes count, and of
\* those that make or take a thing the last one decides whether it is there.
Places(a, ops) ==
    {i \in DOMAIN queue[authUser] :
        queue[authUser][i].account = a /\ queue[authUser][i].op \in ops}

LastIs(a, ops, wanted) ==
    \E i \in Places(a, ops) :
        queue[authUser][i].op \in wanted /\ \A j \in Places(a, ops) : j <= i

UserSeen(a) ==
    LET ops == {"create", "remove"}
    IN  \/ Places(a, ops) = {} /\ ~Missing(a)
        \/ LastIs(a, ops, {"create"})

LocationSeen(a) ==
    LET ops == LocationOp \cup {"create"}
    IN  \/ Places(a, ops) = {} /\ users[a] # NoField
        \/ LastIs(a, ops, ops \ {"clear"})

Queued(a, ops) ==
    \E x \in DOMAIN queue : \E i \in DOMAIN queue[x] :
        queue[x][i].account = a /\ queue[x][i].op \in ops

Saving(a) == Queued(a, LocationOp)
-----------------------------------------------------------------------------
Init ==
    /\ accounts = {}
    /\ users = [a \in Account |-> NoUser]
    /\ deletedUsers = {}
    /\ carpools = [c \in Carpool |-> NoCarpool]
    /\ groups = [a \in Account |-> {}]
    /\ authUser = Nobody
    /\ currentUser = Nobody
    /\ lastCurrentLocation = << >>
    /\ screen = "login"
    /\ queue = [a \in Account \cup {Nobody} |-> << >>]
    /\ reads = {}
    /\ deleting = {}
    /\ taps = 0
    /\ used = {}
    /\ meant = [a \in Account |-> << >>]
    /\ killed = {}
    /\ collected = {}

Tap == taps < MaxTaps /\ taps' = taps + 1

Enqueue(ws) == queue' = [queue EXCEPT ![authUser] = @ \o ws]

\* The user is at work in the app.
AtWork == screen = "tabs" /\ currentUser # Nobody
-----------------------------------------------------------------------------
(* Session.                                                                 *)

\* The location manager or a search reports where the user is.
locationReported(l) ==
    /\ Tap
    /\ lastCurrentLocation' = l
    /\ meant' = [a \in Account |-> IF Saving(a) THEN << >> ELSE meant[a]]
    /\ UNCHANGED <<backendVars, sessionVars, queue, reads, deleting, used, killed,
                   collected>>

\* createUser succeeds, and the new document is queued.
signupNewUser(a) ==
    /\ screen = "login"
    /\ a \notin accounts \cup deletedUsers      \* every signup makes a new uuid
    /\ Missing(a) /\ ~Queued(a, {"create"})
    /\ lastCurrentLocation # << >>
    /\ Tap
    /\ accounts' = accounts \cup {a}
    /\ authUser' = a
    /\ screen' = "waiting"
    /\ queue' = [queue EXCEPT ![a] = Append(@, write("create", a, lastCurrentLocation))]
    /\ lastCurrentLocation' = << >>
    /\ meant' = [meant EXCEPT ![a] = lastCurrentLocation]
    /\ UNCHANGED <<users, deletedUsers, carpools, groups, currentUser, reads, deleting,
                   used, killed, collected>>

\* signIn succeeds, and the document is asked for.
loginWith(a) ==
    /\ screen = "login"
    /\ a \in accounts
    /\ Tap
    /\ authUser' = a
    /\ screen' = "waiting"
    /\ reads' = reads \cup {read("user", a)}
    /\ UNCHANGED <<backendVars, currentUser, lastCurrentLocation, queue, deleting,
                   historyVars>>

\* currentUser and all the controllers hold is kept.
logout ==
    /\ AtWork
    /\ Tap
    /\ authUser' = Nobody
    /\ screen' = "login"
    /\ UNCHANGED <<backendVars, currentUser, lastCurrentLocation, queue, reads, deleting,
                   historyVars>>

\* The document arrives.  One that is not there calls no completion, and the
\* spinner stays.  It is an error if it cannot be decoded or the query fails.
fetchCurrentUser(a) ==
    /\ read("user", a) \in reads
    /\ reads' = reads \ {read("user", a)}
    /\ \/ /\ ~UserSeen(a)
          /\ UNCHANGED <<currentUser, screen>>
       \/ /\ UserSeen(a) /\ LocationSeen(a)
          /\ currentUser' = a
          /\ screen' = "tabs"
       \/ /\ screen' = "login"
          /\ UNCHANGED currentUser
    /\ UNCHANGED <<backendVars, authUser, lastCurrentLocation, queue, deleting, taps,
                   historyVars>>

autoLoginFaulty(u) ==               \* whether or not somebody is signed in
    /\ screen' = "waiting"
    /\ reads' = reads \cup {read("user", u)}

\* viewDidLoad of the login screen, when u is signed in.
autoLogin(u) ==
    /\ screen' = IF u = Nobody THEN "login" ELSE "waiting"
    /\ reads' = reads \cup (IF u = Nobody THEN {} ELSE {read("user", u)})

\* The app is killed, or crashes, and is started again: the login and the
\* queues are kept, the completions are not; a request to Auth that was under way
\* may have got there or not.
Restarts ==
    /\ currentUser' = Nobody
    /\ lastCurrentLocation' = << >>
    /\ screen' = IF authUser = Nobody THEN "login" ELSE "waiting"
    /\ reads' = IF authUser = Nobody THEN {} ELSE {read("user", authUser)}
    /\ killed' = killed \cup {a \in Account : Saving(a)}
    /\ meant' = [a \in Account |-> IF Saving(a) THEN << >> ELSE meant[a]]
    /\ deleting' \in {deleting, {}}
    /\ UNCHANGED authUser

Forgotten(ws) == [i \in DOMAIN ws |-> [ws[i] EXCEPT !.completes = FALSE]]

Relaunch ==
    /\ Tap
    /\ Restarts
    /\ queue' = [x \in DOMAIN queue |-> Forgotten(queue[x])]
    /\ UNCHANGED <<backendVars, used, collected>>
-----------------------------------------------------------------------------
(* Profile and location.                                                    *)

updateUserProfile ==
    /\ AtWork
    /\ Tap
    /\ Enqueue(<< write("profile", currentUser, << >>) >>)
    /\ UNCHANGED <<backendVars, sessionVars, lastCurrentLocation, reads, deleting,
                   historyVars>>

\* The field is deleted first; the coordinates follow one by one.
updateUserLocation ==
    /\ AtWork
    /\ Tap
    /\ Enqueue(<< write("clear", currentUser, << >>) >>)
    /\ meant' = [meant EXCEPT ![currentUser] =
                     IF Saving(currentUser) THEN << >> ELSE lastCurrentLocation]
    /\ UNCHANGED <<backendVars, sessionVars, lastCurrentLocation, reads, deleting, used,
                   killed, collected>>

NextCoordinateFaultyTwice(w, rest) ==       \* the first coordinate again
    /\ lastCurrentLocation # << >>
    /\ queue' = [queue EXCEPT ![authUser] =
           Append(rest, write(IF w.op = "clear" THEN "addFirst" ELSE "addSecond",
                              w.account, << lastCurrentLocation[1] >>))]
    /\ UNCHANGED <<sessionVars, lastCurrentLocation, reads, deleting, meant, killed>>

NextCoordinateFaultyReturn(w, rest) ==      \* without a location, nothing
    /\ queue' = [queue EXCEPT ![authUser] =
           IF lastCurrentLocation = << >> THEN rest
           ELSE Append(rest,
                       IF w.op = "clear"
                       THEN write("addFirst", w.account, << lastCurrentLocation[1] >>)
                       ELSE write("addSecond", w.account, << lastCurrentLocation[2] >>))]
    /\ UNCHANGED <<sessionVars, lastCurrentLocation, reads, deleting, meant, killed>>

\* The next coordinate is that of the location the phone knows by now; there
\* is none if it knows no location, and the app stops.
NextCoordinate(w, rest) ==
    \/ /\ lastCurrentLocation # << >>
       /\ queue' = [queue EXCEPT ![authUser] =
              Append(rest,
                     IF w.op = "clear"
                     THEN write("addFirst", w.account, << lastCurrentLocation[1] >>)
                     ELSE write("addSecond", w.account, << lastCurrentLocation[2] >>))]
       /\ UNCHANGED <<sessionVars, lastCurrentLocation, reads, deleting, meant, killed>>
    \/ /\ lastCurrentLocation = << >>
       /\ Restarts
       /\ queue' = [x \in DOMAIN queue |->
                       Forgotten(IF x = authUser THEN rest ELSE queue[x])]
-----------------------------------------------------------------------------
(* Deleting the account.                                                    *)

\* deleteDataOfDeletedAccount asks for the groups, and the copy is queued.  The
\* screen stays as it is until that is answered.
deleteUser ==
    /\ AtWork
    /\ Tap
    /\ reads' = reads \cup {read("groups", currentUser)}
    /\ Enqueue(<< write("copy", currentUser, << >>) >>)
    /\ UNCHANGED <<backendVars, sessionVars, lastCurrentLocation, deleting, historyVars>>

\* The document is deleted and, at the same time, the login; the user is sent
\* to the login screen, which finds an account signed in.
DocumentCopied(w, rest) ==
    /\ queue' = [queue EXCEPT ![authUser] = Append(rest, write("remove", w.account, << >>))]
    /\ deleting' = deleting \cup ({authUser} \ {Nobody})
    /\ autoLogin(authUser)
    /\ UNCHANGED <<authUser, currentUser, lastCurrentLocation, meant, killed>>

DocumentRemoved(w, rest) ==
    /\ queue' = [queue EXCEPT ![authUser] = rest]
    /\ authUser' = Nobody
    /\ UNCHANGED <<currentUser, screen, lastCurrentLocation, reads, deleting, meant, killed>>

\* Auth deletes the login and signs its user out.
LoginDeleted(a) ==
    /\ a \in deleting
    /\ deleting' = deleting \ {a}
    /\ accounts' = accounts \ {a}
    /\ authUser' = IF authUser = a THEN Nobody ELSE authUser
    /\ UNCHANGED <<users, deletedUsers, carpools, groups, currentUser, screen,
                   lastCurrentLocation, queue, reads, taps, historyVars>>

\* It refuses, as it does when the last login is long ago.
LoginNotDeleted(a) ==
    /\ a \in deleting
    /\ deleting' = deleting \ {a}
    /\ UNCHANGED <<backendVars, sessionVars, lastCurrentLocation, queue, reads, taps,
                   historyVars>>

\* The groups arrive, and each carpool is asked for.
groupsRead(a) ==
    /\ read("groups", a) \in reads
    /\ reads' = (reads \ {read("groups", a)}) \cup
           {[what |-> "carpool", account |-> a, carpool |-> c] : c \in groups[a]}
    /\ UNCHANGED <<backendVars, sessionVars, lastCurrentLocation, queue, deleting, taps,
                   historyVars>>

leavingFaultyDriverToo(a, c, doc) ==        \* the driver only steps down
    IF doc = NoCarpool \/ a \notin doc.passengers THEN << >>
    ELSE << carpoolWrite("leaveCarpool", a, c) >>

\* What is written on reading carpool c: a driver's goes, a passenger leaves.
leaving(a, c, doc) ==
    IF doc = NoCarpool THEN << >>
    ELSE IF doc.driver = a THEN << carpoolWrite("deleteCarpool", a, c) >>
    ELSE IF a \in doc.passengers THEN << carpoolWrite("leaveCarpool", a, c) >>
    ELSE << >>

\* One of them arrives; the writes go to the queue of whoever is signed in.
deleteDataOfDeletedAccount(a, c) ==
    LET r == [what |-> "carpool", account |-> a, carpool |-> c]
    IN  /\ r \in reads
        /\ reads' = reads \ {r}
        /\ Enqueue(leaving(a, c, carpools[c]))
        /\ collected' = IF authUser = a THEN collected \cup {<<a, c>>} ELSE collected
        /\ UNCHANGED <<backendVars, sessionVars, lastCurrentLocation, deleting, taps, used,
                       meant, killed>>
-----------------------------------------------------------------------------
(* The backend and the others.                                              *)

WithoutPassenger(doc, a) ==
    IF doc = NoCarpool THEN NoCarpool ELSE [doc EXCEPT !.passengers = @ \ {a}]

\* A completed signup: the new user is at work.
SignedUp(w, rest) ==
    /\ queue' = [queue EXCEPT ![authUser] = rest]
    /\ currentUser' = w.account
    /\ screen' = "tabs"
    /\ UNCHANGED <<authUser, lastCurrentLocation, reads, deleting, meant, killed>>

\* No completion is left, or it does nothing but report.
Settled(rest) ==
    /\ queue' = [queue EXCEPT ![authUser] = rest]
    /\ UNCHANGED <<sessionVars, lastCurrentLocation, reads, deleting, meant, killed>>

Completion(w, rest) ==
    \/ w.op = "create" /\ SignedUp(w, rest)
    \/ w.op \in {"clear", "addFirst"} /\ NextCoordinate(w, rest)
    \/ w.op = "copy" /\ DocumentCopied(w, rest)
    \/ w.op = "remove" /\ DocumentRemoved(w, rest)
    \/ w.op \in {"profile", "addSecond"} /\ Settled(rest)

ApplyToCarpool(doc, w) ==
    CASE w.op = "deleteCarpool" -> NoCarpool
      [] w.op = "leaveCarpool" -> WithoutPassenger(doc, w.account)
      [] OTHER -> doc

\* The oldest write of the account signed in is applied and answered.
Deliver ==
    /\ queue[authUser] # << >>
    /\ LET w == Head(queue[authUser])
           rest == Tail(queue[authUser])
       IN  /\ users' = [users EXCEPT ![w.account] = ApplyToUser(@, w)]
           /\ deletedUsers' = deletedUsers \cup (IF w.op = "copy" THEN {w.account} ELSE {})
           /\ carpools' = IF w.carpool = NoCarpool THEN carpools
                          ELSE [carpools EXCEPT ![w.carpool] = ApplyToCarpool(@, w)]
           /\ IF w.completes /\ ~Refused(w) THEN Completion(w, rest) ELSE Settled(rest)
    /\ UNCHANGED <<accounts, groups, taps, used, collected>>

\* A write queued while nobody was signed in may be refused.
Deny ==
    /\ authUser = Nobody
    /\ queue[Nobody] # << >>
    /\ queue' = [queue EXCEPT ![Nobody] = Tail(@)]
    /\ meant' = [meant EXCEPT ![Head(queue[Nobody]).account] = << >>]
    /\ UNCHANGED <<backendVars, sessionVars, lastCurrentLocation, reads, deleting, taps,
                   used, killed, collected>>

\* A carpool is made, by a user of this phone or with a user of it on board.
carpoolMade(c, doc) ==
    /\ Tap
    /\ c \notin used
    /\ used' = used \cup {c}
    /\ \A a \in Account : a \in {doc.driver} \cup doc.passengers => a \in accounts
    /\ doc.driver \notin doc.passengers
    /\ carpools' = [carpools EXCEPT ![c] = doc]
    /\ groups' = [a \in Account |->
           IF a = doc.driver \/ a \in doc.passengers THEN groups[a] \cup {c} ELSE groups[a]]
    /\ UNCHANGED <<accounts, users, deletedUsers, phoneVars, meant, killed, collected>>

\* Another driver deletes one.
carpoolDeleted(c) ==
    /\ Tap
    /\ carpools[c] # NoCarpool
    /\ carpools[c].driver = Other
    /\ carpools' = [carpools EXCEPT ![c] = NoCarpool]
    /\ groups' = [a \in Account |->
           IF a \in carpools[c].passengers THEN groups[a] \ {c} ELSE groups[a]]
    /\ UNCHANGED <<accounts, users, deletedUsers, phoneVars, historyVars>>
-----------------------------------------------------------------------------
Next ==
    \/ \E l \in Location : locationReported(l)
    \/ \E a \in Account : signupNewUser(a)
    \/ \E a \in Account : loginWith(a)
    \/ logout
    \/ \E a \in Account : fetchCurrentUser(a)
    \/ Relaunch
    \/ updateUserProfile
    \/ updateUserLocation
    \/ deleteUser
    \/ \E a \in deleting : LoginDeleted(a)
    \/ \E a \in deleting : LoginNotDeleted(a)
    \/ \E a \in Account : groupsRead(a)
    \/ \E a \in Account, c \in Carpool : deleteDataOfDeletedAccount(a, c)
    \/ Deliver
    \/ Deny
    \/ \E c \in Carpool, doc \in CarpoolObject : carpoolMade(c, doc)
    \/ \E c \in Carpool : carpoolDeleted(c)

\* The backend answers the phone; nobody is obliged to do anything.
Fairness == WF_vars(Deliver)

Spec == Init /\ [][Next]_vars /\ Fairness
-----------------------------------------------------------------------------
(* Properties.                                                              *)

TypeOK ==
    /\ accounts \in SUBSET Account
    /\ users \in [Account -> Seq(Coordinate) \cup {NoUser, NoField}]
    /\ deletedUsers \in SUBSET Account
    /\ carpools \in [Carpool -> CarpoolObject \cup {NoCarpool}]
    /\ groups \in [Account -> SUBSET Carpool]
    /\ authUser \in Account \cup {Nobody}
    /\ currentUser \in Account \cup {Nobody}
    /\ lastCurrentLocation \in Location \cup {<< >>}
    /\ screen \in {"login", "waiting", "tabs"}
    /\ queue \in [Account \cup {Nobody} -> Seq(QueuedWrite)]
    /\ reads \in SUBSET Read
    /\ deleting \in SUBSET Account
    /\ taps \in Nat
    /\ used \in SUBSET Carpool
    /\ meant \in [Account -> Location \cup {<< >>}]
    /\ killed \in SUBSET Account
    /\ collected \in SUBSET (Account \X Carpool)

\* A document is deleted only when its copy is safe, and no write that was
\* under way (a profile, a step of a location, a second deletion) brings it
\* back, not even in part.
GoneForGood ==
    [][\A a \in Account :
          /\ ~Missing(a) /\ users'[a] = NoUser => a \in deletedUsers
          /\ Missing(a) /\ a \in deletedUsers => users'[a] = NoUser]_vars

\* Three writes save a location, each with what the phone knows by then: unless
\* the location changed, another save began, the app stopped or a write was
\* denied meanwhile, what is stored in the end is what was saved, in its order.
\* Two equal coordinates are kept as one.
SavedIsStored ==
    \A a \in Account :
        /\ meant[a] # << >> /\ meant[a][1] # meant[a][2]
        /\ ~Saving(a) /\ ~Queued(a, {"create"})
        /\ ~Missing(a)
        => users[a] = meant[a]

\* While the field is missing nobody can read the user's document.  As long as
\* the account stays signed in it comes back, unless the app was killed, or
\* stopped because it knew no location.
LocationComesBack ==
    \A a \in Account :
        users[a] = NoField ~> users[a] # NoField \/ authUser # a \/ a \in killed

\* A carpool the deletion has read before the user was signed out no longer
\* names the user, once what was queued for it is done.
CollectedIsLeft ==
    \A a \in Account, c \in Carpool :
        /\ <<a, c>> \in collected
        /\ carpools[c] # NoCarpool
        /\ ~Queued(a, {"deleteCarpool", "leaveCarpool"})
        => carpools[c].driver # a /\ a \notin carpools[c].passengers
-----------------------------------------------------------------------------
(* What the program's texts say and the code does not do.                   *)

\* "The account will be deleted from the database": whoever deleted an account
\* and can no longer sign in has no document left there.
AccountDeleted ==
    \A a \in deletedUsers : a \notin accounts /\ authUser # a => Missing(a)
=============================================================================
