---------------------------- MODULE WritePipeline ----------------------------
(***************************************************************************)
(* How the Firestore client brings the writes of the app to the backend:   *)
(* the mutation queues on disk, one per account, the pipeline of           *)
(* RemoteStore, the write stream, and the way a change of the signed-in    *)
(* account travels from FirebaseAuth to them.                              *)
(*                                                                         *)
(* Three serial queues work together: the work queue of Auth, the main     *)
(* queue, on which notifications and tokens are handed over, and the       *)
(* worker queue of the client, on which everything else happens.  A        *)
(* response of the backend names no write: the client takes it for the     *)
(* first one of its pipeline.  A new stream knows nothing of the one       *)
(* before (its handshake carries no stream token), and the backend may go  *)
(* on applying what it received over a stream the client has given up.     *)
(*                                                                         *)
(* One phone; its network is enabled throughout.  The gRPC layer delivers  *)
(* the messages of a stream in order and its status after them, and the    *)
(* backend ends a stream only with an error.                               *)
(***************************************************************************)
EXTENDS Naturals, Integers, FiniteSets, SequencesExt

CONSTANTS
    Account,            \* the accounts that sign in on the phone
    FirstAccount,       \* the one signed in at the start
    NoToken,            \* Auth could not get a token
    NoWire,             \* there is no gRPC stream
    Handshake,          \* the first request of a stream
    kMaxPendingWrites,
    MaxWrites,          \* bound: writes the app makes
    MaxChanges,         \* bound: changes of the signed-in account
    MaxFaults           \* bound: failures, changes of connectivity, restarts

ASSUME PipelineConstantsAssumption ==
    /\ FirstAccount \in Account
    /\ NoToken \notin Account
    /\ kMaxPendingWrites \in Nat \ {0}
    /\ MaxWrites \in Nat
    /\ MaxChanges \in Nat
    /\ MaxFaults \in Nat

Write == 1 .. MaxWrites
kBatchIdUnknown == -1

\* A row of the mutation table; `write` tells apart batches that have had the
\* same id.
Batch == [user : Account, batchId : Nat, write : Write]

Error == {"transient", "permanent"}

\* A gRPC stream: the account whose token opened it, the requests the backend
\* has not taken up, and the responses the client has not read.
Wire == [token : Account, requests : Seq(Batch \cup {Handshake}),
         responses : Seq({"handshake", "result"} \cup Error)]

\* A stream the client has given up, and what the backend may still hold of it.
GivenUpStream == [token : Account, requests : Seq(Batch) \ {<< >>}]

ASSUME StreamConstantsAssumption == Handshake \notin Batch /\ NoWire \notin Wire

\* RemoteStore and its write stream.  `asked` is a token request Auth has not
\* answered, "outdated" when the account has changed since; `tokenOf` is the
\* account Auth fetches it for, once it has taken the request up.
RemoteStore == [pipeline : Seq(Batch),
                state : {"Initial", "Starting", "Open", "Error", "Backoff"},
                handshakeComplete : BOOLEAN, idle : BOOLEAN,
                asked : {"no", "current", "outdated"}, tokenOf : Account \cup {NoToken},
                wire : Wire \cup {NoWire}]

\* What waits on the main queue and on the worker queue.
AccountChanged(u) == [kind |-> "account", user |-> u, current |-> TRUE]
TokenReady(t, current) == [kind |-> "token", user |-> t, current |-> current]
Ignored == [kind |-> "ignored", user |-> NoToken, current |-> FALSE]
Message == [kind : {"account"}, user : Account, current : {TRUE}]
           \cup [kind : {"token"}, user : Account \cup {NoToken}, current : BOOLEAN]
           \cup {Ignored}

VARIABLES
    authUser,     \* FIRAuth: the account signed in
    mainQueue,
    workerQueue,
    currentUser,  \* SyncEngine: the account whose mutation queue is in use
    mutations,    \* mutations[u]: the rows of u in the mutation table on disk
    nextBatchId,
    callbacks,    \* mutation_callbacks_[u]: the completions waiting
    remote,       \* the RemoteStore
    lingering,    \* streams given up whose requests the backend may still hold
    changes,      \* changes of the account so far
    faults        \* faults so far

VARIABLES         \* history; only the number of writes issued is used
    issued,       \* writes the app has made
    applied,      \* the writes the backend applied, in its order
    refused,      \* writes the backend refused for good
    outcome,      \* outcome[w]: how the client took write w to have ended
    told,         \* told[w]: what the completion of write w was told
    orphaned,     \* writes whose completion died with the app
    resent        \* writes that were unanswered when their stream was closed

authVars == <<authUser, mainQueue>>
localVars == <<currentUser, mutations, nextBatchId, callbacks>>
backendVars == <<applied, refused>>
historyVars == <<issued, outcome, told, orphaned, resent>>
vars == <<authUser, mainQueue, workerQueue, currentUser, mutations, nextBatchId,
          callbacks, remote, lingering, changes, faults, issued, applied, refused,
          outcome, told, orphaned, resent>>
-----------------------------------------------------------------------------
(* The write stream and the pipeline, as functions of a RemoteStore.        *)

Stopped == [pipeline |-> << >>, state |-> "Initial", handshakeComplete |-> FALSE,
            idle |-> FALSE, asked |-> "no", tokenOf |-> NoToken, wire |-> NoWire]

IsStarted(r) == r.state \in {"Starting", "Open", "Backoff"}

Ready(r) == r.state = "Open" /\ r.handshakeComplete

\* Stream::Start: after an error the stream backs off first.
Start(r) ==
    IF r.state = "Error" THEN [r EXCEPT !.state = "Backoff"]
    ELSE [r EXCEPT !.state = "Starting", !.asked = "current"]

StartWriteStream(r) ==
    IF IsStarted(r) \/ r.pipeline = << >> THEN r ELSE Start(r)

\* Faulty variants of some definitions stand before them, named ...Faulty...;
\* nothing uses them except the tests of the properties.
WriteMutationsFaulty(r, batches) ==     \* the idle timer goes on
    IF Ready(r) /\ batches # << >> THEN [r EXCEPT !.wire.requests = @ \o batches] ELSE r

\* WriteMutations on an open stream, once per batch; it cancels the idle timer.
WriteMutations(r, batches) ==
    IF Ready(r) /\ batches # << >>
    THEN [r EXCEPT !.wire.requests = @ \o batches, !.idle = FALSE]
    ELSE r

LastBatchId(r) ==
    IF r.pipeline = << >> THEN kBatchIdUnknown ELSE Last(r.pipeline).batchId

\* How many rows of queue q, which is in the order of the ids, come up to id.
UpTo(q, id) ==
    CHOOSE k \in 0 .. Len(q) : \A i \in DOMAIN q : q[i].batchId <= id <=> i <= k

\* Rows k + 1 and on of q, as many as the pipeline has room for.
RowsAfter(r, q, k) ==
    LET room == kMaxPendingWrites - Len(r.pipeline)
    IN  SubSeq(q, k + 1, IF Len(q) < k + room THEN Len(q) ELSE k + room)

NextBatchesFaultyLast(r, q) ==      \* from the last one in the pipeline on
    RowsAfter(r, q, UpTo(q, LastBatchId(r) - 1))

NextBatchesFaultyNewest(r, q) ==    \* the newest come first
    LET room == kMaxPendingWrites - Len(r.pipeline)
        later == SelectSeq(q, LAMBDA b : b \notin ToSet(r.pipeline))
    IN  IF Len(later) <= room THEN later
        ELSE SubSeq(later, Len(later) - room + 1, Len(later))

\* The batches FillWritePipeline reads from queue q: those after the last one
\* in the pipeline.
NextBatches(r, q) == RowsAfter(r, q, UpTo(q, LastBatchId(r)))

FillWritePipelineFaultyAll(r, q) ==     \* what is in the pipeline is sent again
    LET full == [r EXCEPT !.pipeline = @ \o NextBatches(r, q)]
        sent == WriteMutations(full, full.pipeline)
    IN  StartWriteStream(IF sent.pipeline = << >> /\ sent.state = "Open"
                         THEN [sent EXCEPT !.idle = TRUE] ELSE sent)

FillWritePipeline(r, q) ==
    LET sent == WriteMutations(r, NextBatches(r, q))
        full == [sent EXCEPT !.pipeline = @ \o NextBatches(r, q)]
    IN  StartWriteStream(IF full.pipeline = << >> /\ full.state = "Open"
                         THEN [full EXCEPT !.idle = TRUE] ELSE full)

\* Stream::Close up to the notification of the RemoteStore.
Close(r, state) ==
    [r EXCEPT !.state = state, !.idle = FALSE, !.asked = "no", !.tokenOf = NoToken,
              !.wire = NoWire]

NotifyStreamCloseFaultyFlag(r) == StartWriteStream(r)   \* the flag stays set

NotifyStreamCloseFaultyEnd(r) == [r EXCEPT !.handshakeComplete = FALSE]  \* no new start

\* The notification; the handshake is forgotten only after it.
NotifyStreamClose(r) == [StartWriteStream(r) EXCEPT !.handshakeComplete = FALSE]

RestartNetworkFaulty(r, q) ==       \* the stream goes on
    FillWritePipeline([r EXCEPT !.pipeline = << >>], q)

\* RestartNetwork: the stream is stopped and the pipeline emptied, the backoff
\* is forgotten, and the pipeline is filled again.
RestartNetwork(r, q) == FillWritePipeline(Stopped, q)

RequestsFaulty(wire) ==             \* the handshake is taken for a write
    IF wire = NoWire THEN << >> ELSE wire.requests

\* What the backend may still hold of the stream of r when it is closed, and
\* the writes the client will send again.
Requests(wire) ==
    IF wire = NoWire \/ \E i \in DOMAIN wire.responses : wire.responses[i] \in Error
    THEN << >> ELSE IF wire.requests = << Handshake >> THEN << >> ELSE wire.requests

GivenUp(r) ==
    IF Requests(r.wire) = << >> THEN << >>
    ELSE << [token |-> r.wire.token, requests |-> Requests(r.wire)] >>

InFlight(r) ==
    IF Ready(r) THEN {r.pipeline[i].write : i \in DOMAIN r.pipeline} ELSE {}

\* A token on its way to a stream that has been closed since will be ignored.
IgnoringToken(messages) ==
    [i \in DOMAIN messages |->
        IF messages[i].kind = "token" THEN Ignored ELSE messages[i]]
-----------------------------------------------------------------------------
MaxBatchId(table) ==
    LET ids == {0} \cup UNION {{table[u][i].batchId : i \in DOMAIN table[u]} : u \in Account}
    IN  CHOOSE k \in ids : \A j \in ids : j <= k

Init ==
    /\ authUser = FirstAccount
    /\ mainQueue = << >>
    /\ workerQueue = << >>
    /\ currentUser = FirstAccount
    /\ mutations = [u \in Account |-> << >>]
    /\ nextBatchId = 1
    /\ callbacks = [u \in Account |-> {}]
    /\ remote = Stopped
    /\ lingering = << >>
    /\ changes = 0
    /\ faults = 0
    /\ issued = 0
    /\ applied = << >>
    /\ refused = {}
    /\ outcome = [w \in Write |-> "none"]
    /\ told = [w \in Write |-> "none"]
    /\ orphaned = {}
    /\ resent = {}

Fault == faults < MaxFaults /\ faults' = faults + 1
-----------------------------------------------------------------------------
(* The app's writes and their answers.                                      *)

\* SyncEngine::WriteMutations.
WriteLocally ==
    /\ issued < MaxWrites
    /\ LET u == currentUser
           batch == [user |-> u, batchId |-> nextBatchId, write |-> issued + 1]
       IN  /\ mutations' = [mutations EXCEPT ![u] = Append(@, batch)]
           /\ callbacks' = [callbacks EXCEPT ![u] =
                  IF \E k \in @ : k.batchId = batch.batchId THEN @
                  ELSE @ \cup {[batchId |-> batch.batchId, write |-> batch.write]}]
           /\ remote' = FillWritePipeline(remote, mutations'[u])
    /\ nextBatchId' = nextBatchId + 1
    /\ issued' = issued + 1
    /\ UNCHANGED <<authVars, workerQueue, currentUser, lingering, changes, faults,
                   backendVars, outcome, told, orphaned, resent>>

RemoveMutationBatch(q, id) ==
    IF \E i \in DOMAIN q : q[i].batchId = id
    THEN RemoveAt(q, CHOOSE i \in DOMAIN q : q[i].batchId = id) ELSE q

\* The first batch of the pipeline is answered: its completion runs, and its
\* row leaves the table.
Answered(answer) ==
    LET batch == Head(remote.pipeline)
        called == {k \in callbacks[currentUser] : k.batchId = batch.batchId}
    IN  /\ callbacks' = [callbacks EXCEPT ![currentUser] = @ \ called]
        /\ mutations' = [mutations EXCEPT ![currentUser] =
               RemoveMutationBatch(@, batch.batchId)]
        /\ outcome' = [outcome EXCEPT ![batch.write] = answer]
        /\ told' = [w \in Write |->
               IF \E k \in called : k.write = w THEN answer ELSE told[w]]
        /\ UNCHANGED <<currentUser, nextBatchId, issued, orphaned>>

NextResponse(response) ==
    /\ remote.wire # NoWire
    /\ remote.wire.responses # << >>
    /\ Head(remote.wire.responses) = response

\* The first response of a stream: everything in the pipeline is sent.
HandshakeComplete ==
    /\ NextResponse("handshake")
    /\ LET r == [remote EXCEPT !.wire.responses = Tail(@), !.handshakeComplete = TRUE]
       IN  remote' = WriteMutations(r, r.pipeline)
    /\ UNCHANGED <<authVars, workerQueue, localVars, lingering, changes, faults,
                   backendVars, historyVars>>

\* Any later one: it acknowledges the first batch of the pipeline.
MutationResult ==
    /\ NextResponse("result")
    /\ Answered("acknowledged")
    /\ remote' = FillWritePipeline([remote EXCEPT !.wire.responses = Tail(@),
                                                  !.pipeline = Tail(@)],
                                   mutations'[currentUser])
    /\ UNCHANGED <<authVars, workerQueue, lingering, changes, faults, backendVars,
                   resent>>

RejectsFaulty(error) == error = "permanent" /\ remote.pipeline # << >>

\* A permanent error after the handshake is put down to the first batch.
Rejects(error) ==
    /\ error = "permanent"
    /\ remote.handshakeComplete
    /\ remote.pipeline # << >>

\* Stream::Close with an error: that batch is given up, the rest is sent again.
OnStreamFinish(error) ==
    LET closed == Close(remote, "Error")
    IN  /\ IF Rejects(error)
           THEN /\ Answered("rejected")
                /\ remote' = NotifyStreamClose(FillWritePipeline(
                       [closed EXCEPT !.pipeline = Tail(@), !.state = "Initial"],
                       mutations'[currentUser]))
           ELSE /\ remote' = NotifyStreamClose(closed)
                /\ UNCHANGED <<localVars, issued, outcome, told, orphaned>>
        /\ lingering' = lingering \o GivenUp(remote)

\* The backend has ended the stream; all its earlier answers have been read.
StreamEnds(error) ==
    /\ NextResponse(error)
    /\ OnStreamFinish(error)
    /\ UNCHANGED <<authVars, workerQueue, changes, faults, backendVars, resent>>

\* The connection breaks: answers not read are lost, and what was sent may
\* have reached the backend or not.
ConnectionBreaks ==
    /\ remote.wire # NoWire
    /\ Fault
    /\ OnStreamFinish("transient")
    /\ resent' = resent \cup InFlight(remote)
    /\ UNCHANGED <<authVars, workerQueue, changes, backendVars>>

\* Nothing has been sent for a minute.
IdleTimeout ==
    /\ remote.idle
    /\ remote' = NotifyStreamClose(Close(remote, "Initial"))
    /\ lingering' = lingering \o GivenUp(remote)
    /\ resent' = resent \cup InFlight(remote)
    /\ UNCHANGED <<authVars, workerQueue, localVars, changes, faults, backendVars,
                   issued, outcome, told, orphaned>>

BackoffElapses ==
    /\ remote.state = "Backoff"
    /\ remote' = Start([remote EXCEPT !.state = "Initial"])
    /\ UNCHANGED <<authVars, workerQueue, localVars, lingering, changes, faults,
                   backendVars, historyVars>>

\* The streams are restarted for queue q of the table.
Restarts(q) ==
    /\ remote' = RestartNetwork(remote, q)
    /\ lingering' = lingering \o GivenUp(remote)
    /\ resent' = resent \cup InFlight(remote)

ConnectivityChanges ==
    /\ Fault
    /\ Restarts(mutations[currentUser])
    /\ mainQueue' = IgnoringToken(mainQueue)
    /\ workerQueue' = IgnoringToken(workerQueue)
    /\ UNCHANGED <<authUser, localVars, changes, backendVars, issued, outcome, told,
                   orphaned>>

\* The app is killed and started again: the disk is all that is left.
Relaunch ==
    /\ Fault
    /\ currentUser' = authUser
    /\ mainQueue' = << >>
    /\ workerQueue' = << >>
    /\ nextBatchId' = MaxBatchId(mutations) + 1
    /\ callbacks' = [u \in Account |-> {}]
    /\ orphaned' = orphaned \cup {k.write : k \in UNION {callbacks[u] : u \in Account}}
    /\ Restarts(mutations[authUser])
    /\ UNCHANGED <<authUser, mutations, changes, backendVars, issued, outcome, told>>
-----------------------------------------------------------------------------
(* The account.                                                             *)

\* A sign-in or sign-out takes effect in Auth, which posts a notification; a
\* refreshed token of the same account is notified as well.
AuthStateChanges(u) ==
    /\ changes < MaxChanges
    /\ changes' = changes + 1
    /\ authUser' = u
    /\ mainQueue' = Append(mainQueue, AccountChanged(u))
    /\ UNCHANGED <<workerQueue, localVars, remote, lingering, faults, backendVars,
                   historyVars>>

\* Auth takes a token request up for the account signed in there, and answers
\* it, perhaps after having fetched a new token.
TakeUpToken ==
    /\ remote.asked # "no"
    /\ remote.tokenOf = NoToken
    /\ remote' = [remote EXCEPT !.tokenOf = authUser]
    /\ UNCHANGED <<authVars, workerQueue, localVars, lingering, changes, faults,
                   backendVars, historyVars>>

AnswersToken(token) ==
    /\ remote.tokenOf # NoToken
    /\ mainQueue' = Append(mainQueue, TokenReady(token, remote.asked = "current"))
    /\ remote' = [remote EXCEPT !.asked = "no", !.tokenOf = NoToken]
    /\ UNCHANGED <<authUser, workerQueue, localVars, lingering, changes, backendVars,
                   historyVars>>

TokenArrives == AnswersToken(remote.tokenOf) /\ UNCHANGED faults

TokenFails == AnswersToken(NoToken) /\ Fault

\* Tokens on their way when the account changes.
Outdated(messages) ==
    [i \in DOMAIN messages |->
        IF messages[i].kind = "token" THEN TokenReady(messages[i].user, FALSE)
        ELSE messages[i]]

\* The notification reaches FirebaseCredentialsProvider: token requests under
\* way are outdated, and the client is told on its worker queue.
NotifyAccount ==
    /\ mainQueue # << >>
    /\ Head(mainQueue).kind = "account"
    /\ mainQueue' = Outdated(Tail(mainQueue))
    /\ workerQueue' = Append(workerQueue, Head(mainQueue))
    /\ remote' = [remote EXCEPT !.asked = IF @ = "no" THEN "no" ELSE "outdated"]
    /\ UNCHANGED <<authUser, localVars, lingering, changes, faults, backendVars,
                   historyVars>>

\* A token reaches it: it is handed on, or requested again if outdated.
PassToken ==
    /\ mainQueue # << >>
    /\ Head(mainQueue).kind = "token"
    /\ mainQueue' = Tail(mainQueue)
    /\ IF Head(mainQueue).current
       THEN /\ workerQueue' = Append(workerQueue, Head(mainQueue))
            /\ UNCHANGED remote
       ELSE /\ remote' = [remote EXCEPT !.asked = "current"]
            /\ UNCHANGED workerQueue
    /\ UNCHANGED <<authUser, localVars, lingering, changes, faults, backendVars,
                   historyVars>>

\* A token for a stream that is closed is dropped, where it has got to.
IgnoreToken ==
    /\ \/ /\ mainQueue # << >>
          /\ Head(mainQueue) = Ignored
          /\ mainQueue' = Tail(mainQueue)
          /\ UNCHANGED workerQueue
       \/ /\ workerQueue # << >>
          /\ Head(workerQueue) = Ignored
          /\ workerQueue' = Tail(workerQueue)
          /\ UNCHANGED mainQueue
    /\ UNCHANGED <<authUser, localVars, remote, lingering, changes, faults, backendVars,
                   historyVars>>

\* ResumeStartWithCredentials: the stream opens and the handshake is sent.
OpenStream ==
    /\ workerQueue # << >>
    /\ Head(workerQueue).kind = "token"
    /\ workerQueue' = Tail(workerQueue)
    /\ LET token == Head(workerQueue).user
       IN  IF token = NoToken
           THEN OnStreamFinish("transient")
           ELSE /\ remote' = [remote EXCEPT !.state = "Open", !.wire =
                       [token |-> token, requests |-> << Handshake >>, responses |-> << >>]]
                /\ UNCHANGED <<localVars, lingering, issued, outcome, told, orphaned>>
    /\ UNCHANGED <<authVars, changes, faults, backendVars, resent>>

\* SyncEngine::HandleCredentialChange: the mutation queue is exchanged, and the
\* streams are restarted even for the same account.
HandleCredentialChange ==
    /\ workerQueue # << >>
    /\ Head(workerQueue).kind = "account"
    /\ LET u == Head(workerQueue).user
       IN  /\ currentUser' = u
           /\ nextBatchId' = IF u = currentUser THEN nextBatchId
                             ELSE MaxBatchId(mutations) + 1
           /\ Restarts(mutations[u])
    /\ mainQueue' = IgnoringToken(mainQueue)
    /\ workerQueue' = IgnoringToken(Tail(workerQueue))
    /\ UNCHANGED <<authUser, mutations, callbacks, changes, faults, backendVars, issued,
                   outcome, told, orphaned>>
-----------------------------------------------------------------------------
(* The backend.                                                             *)

NextRequest ==
    /\ remote.wire # NoWire
    /\ remote.wire.requests # << >>
    /\ \A i \in DOMAIN remote.wire.responses : remote.wire.responses[i] \notin Error

\* It takes up the next request of the stream.
Serve ==
    /\ NextRequest
    /\ LET request == Head(remote.wire.requests)
       IN  /\ remote' = [remote EXCEPT
                  !.wire.requests = Tail(@),
                  !.wire.responses = Append(@, IF request = Handshake THEN "handshake"
                                               ELSE "result")]
           /\ applied' = IF request = Handshake THEN applied
                         ELSE Append(applied, request.write)
    /\ UNCHANGED <<authVars, workerQueue, localVars, lingering, changes, faults, refused,
                   historyVars>>

\* It refuses the request, for good or for now, and ends the stream.
Refuse(error) ==
    /\ NextRequest
    /\ LET request == Head(remote.wire.requests)
       IN  /\ IF error = "transient" \/ request = Handshake THEN Fault
              ELSE UNCHANGED faults
           /\ refused' = IF error = "permanent" /\ request # Handshake
                         THEN refused \cup {request.write} ELSE refused
    /\ remote' = [remote EXCEPT !.wire.requests = << >>,
                                !.wire.responses = Append(@, error)]
    /\ UNCHANGED <<authVars, workerQueue, localVars, lingering, changes, applied,
                   historyVars>>

\* It goes on with a stream the client has given up; it need not.
ServeLate(k) ==
    /\ applied' = Append(applied, Head(lingering[k].requests).write)
    /\ lingering' = IF Tail(lingering[k].requests) = << >> THEN RemoveAt(lingering, k)
                    ELSE [lingering EXCEPT ![k].requests = Tail(@)]
    /\ UNCHANGED <<authVars, workerQueue, localVars, remote, changes, faults, refused,
                   historyVars>>

-----------------------------------------------------------------------------
Client ==
    \/ HandshakeComplete
    \/ MutationResult
    \/ \E error \in Error : StreamEnds(error)
    \/ BackoffElapses
    \/ TakeUpToken
    \/ TokenArrives
    \/ NotifyAccount
    \/ PassToken
    \/ IgnoreToken
    \/ OpenStream
    \/ HandleCredentialChange

Next ==
    \/ Client
    \/ WriteLocally
    \/ ConnectionBreaks
    \/ IdleTimeout
    \/ ConnectivityChanges
    \/ Relaunch
    \/ \E u \in Account : AuthStateChanges(u)
    \/ TokenFails
    \/ Serve
    \/ \E error \in Error : Refuse(error)
    \/ \E k \in DOMAIN lingering : ServeLate(k)

\* The queues of the phone are worked off, Auth answers, a backoff elapses, the
\* backend takes up what it is sent.  Nothing obliges the app to write, the
\* account or the network to change, or a request to be refused.
Fairness ==
    /\ WF_vars(Client)
    /\ WF_vars(Serve \/ \E error \in Error : Refuse(error))

Spec == Init /\ [][Next]_vars /\ Fairness
-----------------------------------------------------------------------------
(* Properties.                                                              *)

TypeOK ==
    /\ authUser \in Account
    /\ mainQueue \in Seq(Message)
    /\ workerQueue \in Seq(Message)
    /\ currentUser \in Account
    /\ mutations \in [Account -> Seq(Batch)]
    /\ nextBatchId \in Nat
    /\ callbacks \in [Account -> SUBSET [batchId : Nat, write : Write]]
    /\ remote \in RemoteStore
    /\ lingering \in Seq(GivenUpStream)
    /\ changes \in Nat /\ faults \in Nat /\ issued \in Nat
    /\ applied \in Seq(Write)
    /\ refused \in SUBSET Write
    /\ outcome \in [Write -> {"none", "acknowledged", "rejected"}]
    /\ told \in [Write -> {"none", "acknowledged", "rejected"}]
    /\ orphaned \in SUBSET Write
    /\ resent \in SUBSET Write

\* What the assertions of Stream and RemoteStore rely on, each across several
\* callbacks: a token arrives only while the stream is starting, a stream is
\* under way whenever something is to be sent, and the idle timer runs only
\* when nothing is.
AssertionsHold ==
    /\ \A i \in DOMAIN workerQueue :
          workerQueue[i].kind = "token" => remote.state = "Starting"
    /\ remote.pipeline # << >> => IsStarted(remote)
    /\ remote.idle => remote.pipeline = << >> /\ remote.state = "Open"
    /\ remote.wire # NoWire <=> remote.state = "Open"

\* The pipeline holds the first writes of the account's queue, as many as it
\* may: through acknowledgements, rejections, restarts and changes of the
\* account none is passed over, taken twice or left waiting for the next write.
PipelineIsHead ==
    LET q == mutations[currentUser]
    IN  remote.pipeline =
            SubSeq(q, 1, IF Len(q) < kMaxPendingWrites THEN Len(q) ELSE kMaxPendingWrites)

\* A response names no write.  That the client takes it for the first of its
\* pipeline is right: responses unread and requests outstanding are the
\* pipeline, in its order, and the backend has applied what it has answered.
ResponsesMatch ==
    Ready(remote) =>
        LET responses == remote.wire.responses
            ended == responses # << >> /\ Last(responses) \in Error
            k == IF ended THEN Len(responses) - 1 ELSE Len(responses)
        IN  /\ k <= Len(remote.pipeline)
            /\ \A i \in 1 .. k : /\ responses[i] = "result"
                                 /\ remote.pipeline[i].write \in ToSet(applied)
            /\ ~ended => SubSeq(remote.pipeline, k + 1, Len(remote.pipeline))
                            = remote.wire.requests
            /\ ended /\ Last(responses) = "permanent" =>
                  /\ k < Len(remote.pipeline)
                  /\ remote.pipeline[k + 1].write \in refused

\* No stream carries writes under the token of another account, although the
\* account changes in Auth first and in the client two queues later.
OwnToken ==
    remote.wire # NoWire => remote.wire.token = currentUser

\* A completion without an error runs only for a write the backend has
\* applied, one with an error only for a write it has refused; and the client
\* is done with no write without telling its completion, also when the account
\* has been changed and changed back, unless the app was killed in between.
CompletionsTellTheTruth ==
    \A w \in Write :
        /\ told[w] = "acknowledged" => w \in ToSet(applied)
        /\ told[w] = "rejected" => w \in refused
        /\ told[w] # outcome[w] => w \in orphaned /\ told[w] = "none"

\* Only a write that was unanswered when its stream was closed is applied a
\* second time, or after it was reported as rejected.
OnlyResentAgain ==
    \A w \in Write \ resent :
        LET times == {i \in DOMAIN applied : applied[i] = w}
        IN  /\ Cardinality(times) <= 1
            /\ outcome[w] = "rejected" => times = {}

\* The client keeps the promise of WriteQueue.
Writes(batches) == [i \in DOMAIN batches |-> batches[i].write]

Promise == INSTANCE WriteQueue WITH queue <- [u \in Account |-> Writes(mutations[u])]

KeepsPromise == Promise!Spec

\* Every write is answered in the end, as long as its account stays signed in:
\* through failures, restarts and rejections of the writes before it.
EveryWriteAnswered ==
    \A w \in Write, u \in Account :
        w \in ToSet(Writes(mutations[u])) ~> (outcome[w] # "none" \/ authUser # u)
=============================================================================
