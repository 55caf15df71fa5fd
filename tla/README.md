# DriveTribe, modelled in TLA+

DriveTribe is an iOS application (Swift, about 5200 lines under
`src/DriveTribe/DriveTribe`) for sharing rides among friends. It has no server
code of its own: every phone reads and writes a Cloud Firestore database
directly, and everything the program promises about friends, blocks and
carpools rests on the order in which independent single-document writes of
several phones, and the answers to reads made earlier, happen to come.
There are no tests and no documents beyond a short README; the code, its alerts
and its log lines are what the models are checked against.

## 1. Inventory

| Part | State | Operations | Interacts with |
|---|---|---|---|
| Friend graph (`UserController`, `FriendListTableViewController`, `BlockedUsersTableViewController`, `User`) | five arrays in each `users` document; `currentUser`; the lists on the screens | send, accept, cancel a request; block, unfriend, unblock; four list downloads | writes the documents of both users; block and unfriend start the clean-up |
| Carpools and groups (`CarpoolController`, `AddPassengerViewController`, `CarpoolListViewController`, ...) | `carpools` documents; a `groups` collection per user; `passengers`, `destination`, `carpools`, `work`, `play` | choose destination and passengers, create, list, delete | the groups listener of every rider's phone |
| Clean-up (`deleteUserFromCarpoolAfterBlockOrDeleleteOrUnFriend`) | none of its own | reads own groups, then each carpool, then writes | groups and carpools of both users |
| Session (`signup...`, `loginWith`, `logout`, `fetchCurrentUser`) | the signed-in account; `currentUser` | signup, login, auto-login, logout | everything reads `currentUser` |
| Account deletion (`deleteUser`, `deleteDataOfDeletedAccount`) | `deletedUsers` | one long row of steps | groups, carpools, the documents of friends |
| Home location and profile (`updateUserLocation`, `updateUserProfile`) | two fields of the user document | update | route creation of others |
| Chat (`sendMessage`, `getAllMessages`, `ChatViewController`) | `messages` of a carpool | send, listen | the riders of the carpool |
| Search, pictures, directions, views | rows, caches | I/O and layout | - |
| Firestore client (vendored pod) | documents cached, the queue of writes of a phone | `setData`, `updateData`, `delete`, `getDocument`, listeners | the backend |
| Its write path (`SyncEngine`, `LocalStore`, `RemoteStore`, `WriteStream`, `FirebaseCredentialsProvider`, `FIRAuth`) | mutation queues on disk, one per account; ids; completions; the pipeline; the stream, its token, backoff and idle timer | write, acknowledge, reject, close, retry, change of account, restart | Auth by notifications and tokens over the main queue; the backend by one stream |

What makes it hard:

* **Interleaving.** Each relation stands in two documents; an operation edits
  both by up to five writes, without a transaction or batch. Two phones do so
  at once.
* **Stale copies.** Guards read `currentUser`, filled at login and never
  refreshed, and taps act on rows downloaded any time before. A download of an
  empty list calls no completion, so old rows stay.
* **Queues and restarts.** A phone that is offline keeps its writes, also when
  the app is killed; completions, objects and screens do not survive.
* **Completions.** A carpool's riders are entered into their groups only when
  the creation is confirmed, and are those picked by then.
* **Accounts change.** A sign-in takes effect in Auth first, on the main queue
  later and in the Firestore client last; writes of an account that is put aside
  wait until it comes back, and the chains of completions behind them too.
* **Streams.** The client gets no name with an answer, sends again what it got
  no answer for, and cannot recall what an old stream carries.
* **Failed reads.** A read may end with an error, offline without a cached copy for
  instance. The error is reported, the other answers are worked on, and nothing asks
  again.
* **Overlap.** A list download answers once per member and replaces the whole
  list; a refresh of the carpools empties a list that another refresh is still
  appending to.

What makes each part correct: the two ends of a relation agree in the end; a
friendship needs a request and its acceptance; a block is kept and is its owner's;
groups and carpools name the same riders; a deleted carpool stays deleted and
leaves nothing behind; lists are complete; passengers get to see their carpool; a
saved location is the one stored; a deleted account is gone; the queue of writes
is worked off in order, its completions tell the truth, and each account's
writes travel under its own token.
`PROJECT.json` lists the hazards at their lines with the properties that
cover them.

## 2. Modules

* `Firestore` - operators for the array transforms and latency compensated
  reads: `SeenBy` is what the owner of a queue reads.
* `Friends` (EXTENDS `Firestore`) - the friend graph. `Consent` is its
  abstract specification, instantiated as `Promise` with `friends` the arrays
  at the backend. `MCFriends` holds the instances.
* `FriendsProofs` - the theorems on it.
* `Carpools` - carpools, groups, the listener, and the clean-up;
  `MCCarpools` holds its instances. `CarpoolsProofs` and `CarpoolsEntries` hold
  the theorems on it.
* `Accounts` - signup, login, logout, profile, home location and the deletion of
  an account, on one phone; `MCAccounts` holds its instances and `AccountsProofs`
  the theorems on it.
* `WritePipeline` - how the Firestore client carries writes to the backend.
  `WriteQueue` is its abstract specification, instantiated as `Promise` with
  `queue` the writes of the mutation queues. `MCWritePipeline` holds its
  instance.
* `WritePipelineLemmas`, `WritePipelineStream`, `WritePipelineAccount`,
  `WritePipelinePromise` - the theorems on it.

How they fit: `Friends`, `Carpools` and `Accounts` take the write queue of a
phone to be a sequence whose oldest write is applied and answered in one step.
That is a behaviour of `WriteQueue`; that the client implements `WriteQueue` is
what `WritePipeline` shows. It also shows what the simple queue hides: a write
may be applied again later, if its answer was lost. The writes of the app bear it
in one sense: array transforms and deletions applied twice in a row are
applied once. A late copy that arrives after newer writes is not
covered in the modules of the app, and nothing in the client rules it out.

### Friends: correspondence

| Model | Code |
|---|---|
| `users[d][f]` | array `f` of document `d` at the backend (a set: the app only tests membership and loops, and transforms keep elements distinct) |
| `pending[u]` | mutation queue of u's phone, oldest first |
| `currentUser[u]` | `UserController.shared.currentUser`; only the three arrays read again (`UserController.swift:291`) |
| `shown[u][f]` | `friends`, `friendRequestsSent`, `friendRequestsReceived` of the friend list, `blockedUsers` of the blocked users screen |
| `loads[u]` | closures of the `fetch...` functions: ids read, members arrived |
| `sendFriendRequest` ... `unblockedUser` | the button handler together with the function of `UserController` it calls; the `...Writes` operator is that function's row of `updateData` calls in order |
| `Start` | the `guard let currentUser` and the queueing of the writes |
| `Deliver` | the backend applies the oldest write and acknowledges it; the completion of a cancel removes the row |
| `fetchList`, `fetchListMember` | own document read; one member's document arrives and the list is replaced |
| `Relaunch` | app killed and started; `fetchCurrentUser` is the auto-login or login |

History variables: `asked`, `accepted` (what taps did), `blocking` (what the
owner last decided) and `raced` (array elements for which two phones had
contradicting writes in flight at the same time). No action reads them.

Abstractions. One phone per account, always the same account. User documents
exist throughout and can be decoded (deletion, and the change of location that
takes a field away for a moment, are later modules). The own document is read when its
answer is processed, and `DispatchQueue.main.async` blocks run with the
completion that posts them. A search may list any other user. A download that ends with an
error changes nothing and is one that is never answered: nothing obliges a download
to be. The refresh that ends an unblock is
not limited by `MaxLoads`. In blockUser and unfriendUser the clean-up they start
changes other collections and is modelled in `Carpools`, together
(the action `separate` is that start).

### Carpools: correspondence

| Model | Code |
|---|---|
| `carpoolCollection`, `groups` | the two collections at the backend |
| `pending[u]` | the mutation queue; `completes` says the completion is still in memory |
| `destination`, `passengers`, `carpools` | properties of `CarpoolController` |
| `rows` | `work` and `play`, which `dataSource` shows by turns; a deletion takes the row from `dataSource` only, so it is back when the segment changes |
| `listening` | the snapshot listener has not ended with an error |
| `snapshot`, `refreshing` | last report of the listener; the `DispatchGroup`s under way, each the documents to come |
| `fetchGroupsForCurrentUser`, `listenerFails` | the listener's closure: a report, or its error |
| `fetchCarpool` | the closure of `getDocument`: the document, none, or an error |
| `cleanups` | closures of the clean-up |
| `createCarpool` | `saveCarpoolButtonTapped` and `createCarpool` |
| `Deliver` | backend and completions: `addCarpoolTo...Group` after a creation, removal from the list after a deletion |
| `deleteAsDriver`, `deleteAsPassenger` | the branches of `delete(carpool:)` |
| `separate`, `readGroups`, `cleanUpCarpool` | the clean-up, step by step |

Abstractions. Every user is signed in throughout; a restart includes the
auto-login. Any other user may be picked as a passenger, blocked or unfriended
(who is a friend is the state of `Friends`, and a picker's rows may be
stale). The chat message a creation posts, and the deletion of a message with
a fresh id, touch nothing here. The placeholder document signup puts into the
groups names no carpool, is passed over by every loop, and is left out. Two
identical clean-ups waiting for their first answer are one. Appending a
passenger twice changes nothing (`Set(passengers)`, and entering a group twice
is entering it), so `selectPassenger` adds only new ones. `used`
stands for the freshness of UUIDs. `strays`, `orphaned`, `departed`,
`separated` and `missed` are history; `<<u, c>>` is in `missed` if an error was the
answer about `c` since the listener of `u` last reported, and `c` has not been listed.

Any read may end with an error on the phones of `Failing`; which documents
are cached, and so may be read offline, is not modelled. An error of the listener ends
it for good, one in a refresh passes over its carpool, one in a clean-up ends the clean-up
(the groups) or leaves out its carpool. Reads that an offline phone answers from an old
copy in its cache are not modelled.

### Accounts: correspondence

| Model | Code |
|---|---|
| `accounts`, `authUser` | the logins of Firebase Auth, and `Auth.auth().currentUser` |
| `users[a]` | `lastCurrentLocation` of the document of `a`: the array, `NoField` while it is deleted, `NoUser` without document |
| `deletedUsers` | that collection |
| `currentUser`, `lastCurrentLocation` | the properties of `UserController` |
| `screen` | login screen, spinner, tab bar |
| `queue[x]` | mutation queue of account `x`; there is one for nobody too |
| `reads` | queries under way, with their closures |
| `signupNewUser`, `SignedUp` | `signupNewUserAndCreateNewUserWith` and the completion of its `setData` |
| `loginWith`, `fetchCurrentUser`, `autoLogin`, `logout` | the functions of these names |
| `updateUserLocation`, `NextCoordinate` | its first write; the completions that queue the second and third |
| `deleteUser`, `DocumentCopied`, `DocumentRemoved`, `LoginDeleted` | the function, the completions of `setData` and `delete`, the deletion of the login in Auth |
| `groupsRead`, `deleteDataOfDeletedAccount` | the two levels of queries of that function |
| `Deliver` | the backend applies the oldest write of the account signed in; the completion runs, unless an update found no document or the app was restarted since |
| `carpoolMade`, `carpoolDeleted` | what `Carpools` has in detail, in one step |

Abstractions. Auth answers a signup or a login at once. A location is a pair of
two numbers, so that two may be equal or mixed. A save with no location
known reads index 0 of an empty array: the app stops after the field was deleted,
which `NextCoordinate` has as a restart. A query of a
deletion that ends with an error is one never answered: nothing obliges it to
be. Of the phone's own document a read
tells only whether it is there and has a location; the queued writes count, and
the last one that decides wins (`UserSeen`, `LocationSeen`). Writes of nobody may be refused
by the rules of the backend, which are not in the repository (`Deny`). `meant`,
`killed` and `collected` are history.

### WritePipeline: correspondence

| Model | Code |
|---|---|
| `authUser` | `FIRAuth`'s user |
| `mainQueue` | notifications and tokens dispatched to the main queue |
| `workerQueue` | what the client put on its `AsyncQueue` |
| `mutations[u]`, `nextBatchId` | mutation table of LevelDB and `next_batch_id_` |
| `callbacks[u]` | `mutation_callbacks_` of `SyncEngine` |
| `remote.pipeline` | `write_pipeline_` |
| `remote.state`, `handshakeComplete`, `idle` | `Stream::state_`, `handshake_complete_`, `idleness_timer_` |
| `remote.asked`, `tokenOf` | a `GetToken` under way: whether `token_counter` still is what it was, and whose token Auth is fetching |
| `remote.wire` | the gRPC stream: requests not taken up, responses not read |
| `lingering` | streams closed by the client whose requests the backend may still hold |
| `FillWritePipeline`, `Close`, `NotifyStreamClose`, `RestartNetwork`, ... | the functions of these names, on the record `remote` |
| `WriteLocally`, `Answered` | `SyncEngine::WriteMutations`; `HandleSuccessfulWrite` or `HandleRejectedWrite` with what they call |
| `OnStreamFinish` | `Stream::OnStreamFinish`, `OnWriteStreamClose`, `HandleWriteError` |
| `Relaunch` | process killed, `FirestoreClient::Initialize` |
| `Serve`, `Refuse`, `ServeLate` | the backend (external) |

`GrpcStream::Start` calls `OnStreamStart` itself, so opening a stream and sending
its handshake are one step. `close_count_` is modelled by what it does: a token
on its way to a stream that is closed becomes `Ignored` where it is. Left
out: the watch stream, the stream token (the handshake carries none), the
documents written, `disableNetwork` and `InvalidateToken`. `applied`, `refused`,
`outcome`, `told`, `orphaned` and `resent` are history.

## 3. Runs

All `pass` runs explore their whole state space.

| Run | Bounds | Shows |
|---|---|---|
| `Friends_requests` | 2 users, strangers, 4 operations, symmetry (727 thousand states) | `TypeOK`, `EndsAgree`, and that Friends implements Consent |
| `Friends_restarts` | 2 friends, 3 operations, both apps may restart at any time (241 thousand) | `EndsAgree`, `BlockListIsOwn`, and the liveness of a block, `BlockTakesHold` |
| `Friends_three` | 3 users, 2 friendships, 2 operations, symmetry of the two friends (458 thousand) | `EndsAgree` with lists of two members and three writers |
| `Carpools_riders` | 3 users, 1 carpool, 2 deletions or blocks (577 thousand) | `EntriesBelong`, `NoEntryOutlives`, `CarpoolsNeverReturn` |
| `Carpools_lists` | 2 users, 2 carpools, 2 overlapping refreshes, 1 deletion, block or restart, the reads of one phone may fail (3.06 million) | `ListComplete` |
| `Carpools_restarts` | 2 users, 1 carpool, 3 deletions, blocks or restarts, every read may fail (212 thousand) | `TypeOK`, `NoEntryOutlives`, `PassengersGetToSee` |
| `WritePipeline_accounts` | 2 accounts, a pipeline of 2, 3 writes, 1 change of account, 1 failure, change of connectivity or restart (131 thousand) | the invariants of the write path, `KeepsPromise`, `EveryWriteAnswered` |
| `Accounts_deletion` | 2 accounts, 1 carpool, 3 places, 6 taps or restarts (357 thousand) | `TypeOK`, `SavedIsStored`, `CollectedIsLeft`, `GoneForGood`, `LocationComesBack` |
| `Friends_associate`, `Friends_refused`, `Carpools_separated`, `Accounts_remains` | - | four texts of the program that the code does not keep (below) |

Why the bounds are enough: a disagreement between two ends needs two
operations of different phones on one pair (four give request, accept, unfriend
and a late cancel; three with restarts give block, unblock and an interrupted
third). Three users are needed for a list of two members and for a
clean-up that meets a carpool of a third; two carpools for refreshes that
differ; two refreshes for overlap. `MaxLoads`, `MaxRefreshes`, `MaxTaps`,
`Organizer`, `Restarting` and `Failing` are the only bounds in guards. One download of a
list at a time (`MaxLoads`) leaves its answers to come after later taps and writes; that
several overlap is covered by the theorems only, which hold for any `MaxLoads`. In
`Carpools_lists` one phone of the two has no errors, to save states; in
`Carpools_riders` none has, and its properties are theorems for any `Failing`. A larger instance
of Carpools (3 users, 3 deletions or blocks, 7.3 million states) found nothing more.

Three writes and a pipeline of two give a write on the wire, one in the
pipeline and one waiting; one failure and one change of account may fall between any two
steps of each other. The way back to the first account is a second change, which this
run does not have. WritePipeline with
2 writes, 2 changes and 2 failures (761 thousand states) and with 3, 1 and 2 (1.5
million) passed as well; the theorems hold for any number of changes. Six taps are a signup, a location saved, a deletion, a
restart and two more; seven, with 1.9 million states, found nothing new.
`MaxWrites`, `MaxChanges`, `MaxFaults` and `MaxTaps` are the only bounds in
guards of these two.

What the properties say and where they are careful:

* `EndsAgree`: for an array element and its mirror in the other user's
  document, once no write of them is queued, both hold or neither. Elements
  written in opposite ways by both phones at the same time (`raced`) are
  excluded: there the backend may apply the two rows of writes in different
  orders at the two documents, and the program has nothing against it. This is
  a limit of the code, not of the model.
* `EntriesBelong`, `NoEntryOutlives`: except for users in `strays`, those picked
  after the carpool was saved and before the answer; the completion
  enters them although the carpool does not name them.
* `ListComplete`: except for carpools in `missed`. A `getDocument` that ends with
  an error leaves the `DispatchGroup` without appending, the group notifies all the
  same, and nothing reads that carpool again before the groups change.
* `PassengersGetToSee`: except for carpools in `orphaned`. If the app is
  killed before the answer, the completion never runs and nobody, not
  even the driver, gets to see the carpool. Except also for carpools in
  `missed`, and for phones whose listener has ended: the code tries neither again.

* `SavedIsStored`: except where another report of the place, another save or a
  restart came between the three writes: then two places may be mixed, and the
  code has nothing against it. Equal coordinates are stored as one number.
* `LocationComesBack`: while the account stays signed in, and no restart cut off
  the chain. A restart in the middle leaves a document nobody can decode.
* `CollectedIsLeft`: for carpools read while the user was still signed in. What a
  later read finds is written into the queue of nobody, or of the next account.
* `OnlyResentAgain`: only writes unanswered when their stream closed. That these may
  be applied twice, or after a rejection, is how the client is made: its
  handshake carries no stream token.
* `EveryWriteAnswered`: as long as the account stays signed in in Auth.

Deadlock is checked in `Friends_restarts`; in the other runs the system may
really stop: nobody is obliged to act, and the bound on taps ends the rest.

### Fairness

`Deliver` is weakly fair: the Firestore client sends its queue whenever the phone
is online, and retries. In `Carpools`, a listener that has not ended and the fetches of a
refresh too, since they are answers to requests of the app. A fetch is only obliged
to be answered: an error is an answer, and nothing obliges the code to try again.
No clean-up is obliged to be answered, and no error to happen.
In `WritePipeline` the work queued on the phone's serial queues is done, Auth
answers, a backoff elapses, and the backend takes up what it is sent; failures
are bounded, and no obligation rests on streams given up. Nothing a user
does, including restarting the app, is fair, nor a change of account.

### Where the texts and the code part

* `Friends_associate`: "If you blocked this user, you will be not able to
  associate with this user anymore" (`FriendListTableViewController.swift:334`).
  A request pending from before the block stays, and accepting it makes friends
  of the two.
* `Friends_refused`: "This user already has a pending request from you"
  (`NetworkError.swift:29`). The guard of `sendFriendRequest` refuses for two
  other reasons, and on old data.
* `Carpools_separated`: "YOU WON'T BE IN THE SAME GROUP WITH YOUR BLOCK USER
  ANYMORE" (`UserController.swift:437`). Not if a common carpool is
  being created.
* `Accounts_remains`: "The account will be deleted from the database. You will
  not be able to use this app with this account anymore"
  (`SettingsTableViewController.swift:44`), and "DeleteMySelf From Everywhere"
  (`UserController.swift:697`). The login is deleted while the deletion of the
  document is queued; the user is signed out, the queue is put aside, and the
  document stays.

## 4. Proofs

For every set of users, every settled start (`StartAssumption`: the initial
pairs are pairs of different users), any bounds, and with restarts:

* `TypeCorrect`: `Spec => []TypeOK`. `TypeOK` is inductive as it stands; the
  work is in lemmas on queues (`SeqElement`, `IsASeq`) and on one change in a
  table of arrays (`TableUpdate`).
* `FriendshipNeedsConsent`: `Spec => FriendsConsented`, the refinement of
  Consent. The invariant (`ConsentInv`, theorem `ConsentTrail`) follows a
  request on its way: whoever stands in a received array, in a queued write of
  one, in a download of it or in a row of it has really asked. Only this makes
  an accept answer a request, since the code checks nothing but the row tapped;
  and whoever stands in a friends array or a queued write of one was agreed upon.
  Each step then maps to a step of Consent or to a stutter: a delivery to
  `Befriend` or `Part`, a tap to `Ask` or `Accept`.
* `OwnersDecide`: `Spec => []BlockListIsOwn`. The invariant says that only its
  owner's phone has writes of the list in its queue (`OnlyOwners`), and that the
  last queued write of an element, or the backend where there is none, agrees
  with the owner's last decision (`Decided`). The lemmas are about the
  owner's reads in general: an operation changes them only where it
  writes, and there its last write counts (`StartView`); a delivery of its own
  write changes nothing (`DeliverView`), nor does a delivery of another phone
  that does not write that array (`ForeignDeliverView`), nor a restart
  (`RelaunchView`).
* `EndsMeet`: `Spec => []EndsAgree`. That settled documents agree says nothing
  of the writes before the last one; the invariant (`EndsInv`) says of each pair
  of mirrored elements that was not raced for: phones with writes of it in flight
  write the same (`OneOp`), and each of them reads both ends alike, as do the
  documents when nothing is in flight (`SameStory`). A tap writes both ends
  together; what it finds in flight elsewhere either says the same or makes the
  pair raced. A delivery of another phone only repeats what its reader's own
  writes will say (`LeastNatural` picks the first of them).

For any finite set of users, any carpools and any bounds (`Carpools`):

* `TypeCorrect` of `CarpoolsProofs`: `Spec => []TypeOK`. That the users are finitely
  many is needed for the driver's loop over the passengers to be a sequence.
* `DeletedForGood`: `Spec => CarpoolsNeverReturn`, from the types alone: of the
  writes only a creation makes a document, and an update of a missing one is
  refused.
* `EntriesAreRiders` and `DeletionLeavesNothing`: `Spec => []EntriesBelong` and
  `Spec => []NoEntryOutlives`. Neither is inductive: a write on its way, or an
  old row still on a screen, may break it later. The invariant (`CarpoolsInv`)
  says of each user and carpool that an entry is either sure not to be and never to
  come (`Gone`), or about to be taken away by some queue (`LeaveQueued`), or belongs
  to a stray, whenever the name is missing from a document at the
  backend (`DocumentsCover`), from a document any phone holds (`ListsCover`), or when
  the carpool is deleted or about to be (`DeletedCovered`). That a queued
  removal really ends the entry rests on the order of writes: a carpool's
  entries are written by its driver's phone only (`DriverEnters`), each once
  (`EnteredOnce`), and no removal is queued elsewhere before they are sent
  (`EntersBeforeLeaves`), because nobody hears of a carpool before the own entry
  is at the backend (`SeenAfterEntered`, `UnbornUntouched`). Steps that only queue
  writes, and those that only deliver one, have a lemma each (`AppendStep`,
  `TailStep`; `CreateStep` for the answer to a creation); each action refers to it.
* `ListsAreComplete`: `Spec => []ListComplete`. On top of that invariant: what the
  listener has reported and is still live is listed, or awaited by a refresh, or
  could not be read (`ListedOrAwaited`), and without a refresh the rows show the whole list. The
  work is to show that nothing a phone was told of becomes live again
  (`StandsAppended`, `StandsDelivered`) without a new report.

For any accounts, any length of the pipeline and any bounds (`WritePipeline`):

* `StreamInvariant`: `Spec => []StreamInv`. None of the properties is inductive. A
  response is for the head of the pipeline only because the pipeline is a
  prefix of the table (`PipelineIsHead`), the rows of the table are ordered by
  ids below `nextBatchId` (so that the search by id finds the right row), what is on
  the wire after the handshake is the pipeline without what was answered,
  before the handshake nothing but it is, and a stream that is not open has no
  wire, a timer, a token or a backoff as its state says. The functions on
  `remote` have lemmas of their own in `WritePipelineLemmas` (`FillWritePipeline`
  keeps the prefix, `Close` and `RestartNetwork` give a state fit to start);
  each action then has one lemma for the types and one for the rest.
* `PipelineTypes`, `StreamAssertions`, `PipelineFollowsQueue`,
  `ResponsesAttributed`: conjuncts of that invariant, as `Spec => []...` each.
* `TokensAreOwn`: `Spec => []OwnToken`. The invariant (`AccountInv`) follows the
  account from Auth to the client: if notifications are under way, the last of
  them names Auth's user and the client is that user after it; if none is, the client
  is it now. A token fetched for another account is therefore either behind
  a notification that will outdate it or in front of one that will close its
  stream, and a stream that is open carries the client's own.
* `CompletionsAreTrue`: `Spec => []CompletionsTellTheTruth`. The invariant
  (`TruthInv`) ties each completion to its row: the rows of all queues are
  writes issued and not answered, each in one queue only and in the order of the
  app; every waiting completion has its row, with the same id and write; and every
  row has its completion, unless that died with the app. So an answer to the
  head of the pipeline calls exactly the completion of that write, even though
  ids are used again after a restart or a change of account.
* `WritesInOrder`: `Spec => KeepsPromise`, the refinement of `WriteQueue`. The
  invariant (`PromiseInv`) says that a write is either answered or still a row
  (`Accounted`), and, for every stream the client has given up and the backend may
  still work off, that what precedes one of its requests in the queue has been
  applied or precedes it on that stream as well (`InTurn`). A `Serve` or `ServeLate`
  is then an `Apply`, a `MutationResult` or a rejection an `Answer`, a
  `WriteLocally` its namesake, and everything else a stutter.
* `SentOnceAppliedOnce`: `Spec => []OnlyResentAgain`. The invariant (`AgainInv`)
  says of every write that was not sent again that it is applied at most once
  (`Once`); if it is applied, its completion has run or its answer is on the
  wire, unread (`Known`), so the backend is not asked for it again on this
  stream; and no stream given up holds it (`NotLate`), so it is not asked there.
  It rests on the pipeline following the queue (`StreamInv`) and on each row
  being a write not yet answered (`TruthInv`).

For any accounts, any carpools, places and taps (`Accounts`):

* `TypeCorrect` of `AccountsProofs`: `Spec => []TypeOK`. Types alone are not
  inductive, since a location grows by `arrayUnion`; the queued writes that do
  so carry one coordinate each (`OneNumber`).
* `GoneStaysGone`: `Spec => GoneForGood`. A document may only come back by the
  write that makes it, so the invariant (`GoneInv`) is about when that may
  still be queued: it is the first write of its account's queue (`CreateHead`),
  and while it is, the account has no copy and no other queue has a write of its
  document (`Creating`, `Undisturbed`). Nothing knows of an account nobody signed up for
  (`Fresh`, `Unused`), and a removal is queued only behind its copy (`CopiedFirst`).
* `LocationIsSaved`: `Spec => []SavedIsStored`. The invariant (`SaveInv`) follows
  an undisturbed save through its three writes: there is one of them at a time
  in all queues, it carries the coordinate that is next, and the document has got
  as far as the one before (`OneSave`, `OnItsWay`); with none under way the
  document has the place, or the write that makes it does (`Saved`). It needs
  `GoneInv`: a document that came back with another place would end it.
* `RidesAreLeft`: `Spec => []CollectedIsLeft`. The invariant (`CollectedInv`)
  says that while a collected carpool still names the user the write that ends it
  is in the queue of that account (`LeftOrAwaited`), the one fit for driver or
  passenger, wherever the queue is put aside; and that a collected carpool is an
  old one, so that no creation uses its id again (`IdsInUse`).

Assumptions of the proofs are those named in `Friends`, `Carpools`,
`WritePipeline` and `Accounts`; every run of these modules evaluates them. They say
that marks such as `Nobody` or `NoUser` are no values, that bounds are numbers and a
start is settled, and nothing about behaviour. Each theorem was also proved with
the provers' time cut to a third, so that a slower machine finds the proofs too.

Every invariant and every action property of a passing run is stated by a
theorem. Only model-checked is liveness: `BlockTakesHold`, `PassengersGetToSee`,
`LocationComesBack` and `EveryWriteAnswered`. Liveness under fairness and ENABLED
are out of the prover's reach; so is induction over data by the library's theorems,
which take an operator as a parameter. Where a proof needs a first element, as
`EndsMeet` does, the well-foundedness of the numbers gives it as a fact about
sets (`NatLessThanWellFounded`, `WFMin`). RECURSIVE operators the project has
none. That the texts under "Where the texts and the code part" are not kept is
shown by behaviours of the small instances.

## 5. Not modelled

* Chat: messages are appended and listened to; their order is that of dates
  written by the senders' clocks, and the code promises nothing about it.
* The search screen beyond `Friends`, where a search may list any other user.
* Pictures and their cache, directions, views, cells, styles and the application
  delegates: I/O and layout.
* Of the Firestore client: the watch stream and targets, queries, the cache and
  its garbage collection, transactions (the app uses none). Friends, Carpools
  and Accounts rely only on reads that count the own queued writes.
* When the backend returns an error, and its security rules, are not in the
  repository: an error may come at any read, and a write may be refused
  (`Refuse`, `Deny`).
* The vendored pods are by far the largest part of `src/` in C and C++ (650
  thousand lines: BoringSSL, gRPC, LevelDB, Abseil, generated tables). Of them,
  `WritePipeline`, `Firestore` and a few operators model the parts of
  Firestore and Auth on which the application's writes depend; the rest is
  transport and storage below them, tested in its own projects, and is left
  out. Nearly all of the application's own code that changes state is modelled.

## 6. What could follow

1. Proofs of more than the runs ask for: which of the four texts hold under
   what condition (a block keeps friends apart if no request was pending; a
   separation leaves no common group if no common carpool was being
   created), and what the properties that are left can be reduced to without
   fairness.
2. `Friends` and `Carpools` over a queue that may apply a write again later, as
   `WriteQueue` allows.
3. The watch stream, with the same method as the write stream.
