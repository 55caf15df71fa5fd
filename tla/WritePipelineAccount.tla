------------------------ MODULE WritePipelineAccount ------------------------
(***************************************************************************)
(* Theorem about WritePipeline for any accounts and any number of changes  *)
(* of the account: no stream carries writes under the token of another     *)
(* account, although the account changes in Auth first, is notified on the *)
(* main queue and is exchanged in the client on the worker queue, while    *)
(* tokens are on their way along the same queues.                          *)
(***************************************************************************)
EXTENDS WritePipelineStream

-----------------------------------------------------------------------------
(* The inductive invariant.                                                 *)

\* Notices of a change of account that wait on a queue.
HasNotice(messages) == \E i \in DOMAIN messages : messages[i].kind = "account"

\* The last of them names account u.
Newest(messages, u) ==
    \E i \in DOMAIN messages :
        /\ messages[i].kind = "account" /\ messages[i].user = u
        /\ \A j \in DOMAIN messages : i < j => messages[j].kind # "account"

\* A token that no notice will overtake, and that is not outdated, is one of u.
TokensFor(messages, u) ==
    \A i \in DOMAIN messages :
        /\ messages[i].kind = "token" /\ messages[i].current
        /\ \A j \in DOMAIN messages : j < i => messages[j].kind # "account"
        => messages[i].user \in {u, NoToken}

AllCurrent(messages) ==
    \A i \in DOMAIN messages : messages[i].kind = "token" => messages[i].current

\* The account of Auth is on its way to the client, or has arrived; and tokens
\* on their way are of the account the client has, or will be dropped.
AccountInv ==
    /\ HasNotice(mainQueue) => Newest(mainQueue, authUser)
    /\ ~ HasNotice(mainQueue) /\ HasNotice(workerQueue) => Newest(workerQueue, authUser)
    /\ ~ HasNotice(mainQueue) /\ ~ HasNotice(workerQueue) =>
          /\ currentUser = authUser
          /\ remote.asked = "current" /\ remote.tokenOf # NoToken =>
                remote.tokenOf = currentUser
    /\ ~ HasNotice(workerQueue) => TokensFor(mainQueue, currentUser)
    /\ TokensFor(workerQueue, currentUser)
    /\ AllCurrent(workerQueue)
    /\ OwnToken
-----------------------------------------------------------------------------
(* The queues.                                                              *)

LEMMA AppendNotice ==
    ASSUME NEW m \in Seq(Message), NEW x \in Message, NEW s, s = Append(m, x)
    PROVE  /\ HasNotice(s) <=> HasNotice(m) \/ x.kind = "account"
           /\ x.kind = "account" => Newest(s, x.user)
           /\ \A u : x.kind # "account" /\ Newest(m, u) => Newest(s, u)
           /\ \A u : TokensFor(m, u) /\ (x.kind = "token" /\ x.current /\ ~ HasNotice(m) =>
                                            x.user \in {u, NoToken})
                        => TokensFor(s, u)
           /\ AllCurrent(m) /\ (x.kind = "token" => x.current) => AllCurrent(s)
<1>1. Len(m) \in Nat /\ DOMAIN m = 1 .. Len(m)
  BY MessageElements
<1>2. /\ DOMAIN s = 1 .. Len(m) + 1 /\ s[Len(m) + 1] = x
      /\ \A i \in 1 .. Len(m) : s[i] = m[i]
  BY AppendProperties, LenProperties
<1>3. /\ \A i \in 1 .. Len(m) + 1 : i \in 1 .. Len(m) \/ i = Len(m) + 1
      /\ 1 .. Len(m) \subseteq 1 .. Len(m) + 1 /\ Len(m) + 1 \in 1 .. Len(m) + 1
      /\ \A i \in 1 .. Len(m) : i < Len(m) + 1 /\ ~ (Len(m) + 1 < i)
      /\ ~ (Len(m) + 1 < Len(m) + 1)
  BY <1>1
<1> HIDE DEF HasNotice
<1>4. HasNotice(s) <=> HasNotice(m) \/ x.kind = "account"
  BY <1>1, <1>2, <1>3 DEF HasNotice
<1>5. x.kind = "account" => Newest(s, x.user)
  BY <1>1, <1>2, <1>3 DEF Newest
<1>6. \A u : x.kind # "account" /\ Newest(m, u) => Newest(s, u)
  <2>1. ASSUME NEW u, x.kind # "account", Newest(m, u) PROVE Newest(s, u)
    <3>1. PICK i \in 1 .. Len(m) :
                 /\ m[i].kind = "account" /\ m[i].user = u
                 /\ \A j \in 1 .. Len(m) : i < j => m[j].kind # "account"
      BY <1>1, <2>1 DEF Newest
    <3>2. \A j \in 1 .. Len(m) + 1 : i < j => s[j].kind # "account"
      BY <1>2, <1>3, <2>1, <3>1
    <3> QED  BY <1>2, <1>3, <3>1, <3>2 DEF Newest
  <2> QED  BY <2>1
<1>7. \A u : TokensFor(m, u) /\ (x.kind = "token" /\ x.current /\ ~ HasNotice(m) =>
                                    x.user \in {u, NoToken})
                => TokensFor(s, u)
  <2>1. ASSUME NEW u, TokensFor(m, u),
               x.kind = "token" /\ x.current /\ ~ HasNotice(m) => x.user \in {u, NoToken},
               NEW i \in 1 .. Len(m) + 1, s[i].kind = "token", s[i].current,
               \A j \in 1 .. Len(m) + 1 : j < i => s[j].kind # "account"
        PROVE  s[i].user \in {u, NoToken}
    <3>1. CASE i \in 1 .. Len(m)
      BY <1>1, <1>2, <1>3, <2>1, <3>1 DEF TokensFor
    <3>2. CASE i = Len(m) + 1
      BY <1>1, <1>2, <1>3, <2>1, <3>2 DEF HasNotice
    <3> QED  BY <1>3, <3>1, <3>2
  <2> QED  BY <1>2, <2>1 DEF TokensFor
<1>8. AllCurrent(m) /\ (x.kind = "token" => x.current) => AllCurrent(s)
  BY <1>1, <1>2, <1>3 DEF AllCurrent
<1> QED  BY <1>4, <1>5, <1>6, <1>7, <1>8

LEMMA TailNotice ==
    ASSUME NEW m \in Seq(Message), m # << >>, NEW s, s = Tail(m)
    PROVE  /\ HasNotice(s) => HasNotice(m)
           /\ Head(m).kind # "account" => (HasNotice(s) <=> HasNotice(m))
           /\ \A u : Newest(m, u) /\ HasNotice(s) => Newest(s, u)
           /\ \A u : Newest(m, u) /\ ~ HasNotice(s) => Head(m).user = u
           /\ \A u : Head(m).kind # "account" /\ TokensFor(m, u) => TokensFor(s, u)
           /\ \A u : Head(m).kind = "token" /\ Head(m).current /\ TokensFor(m, u) =>
                        Head(m).user \in {u, NoToken}
           /\ AllCurrent(m) => AllCurrent(s)
           /\ Head(m).kind = "token" /\ AllCurrent(m) => Head(m).current
           /\ Head(m).kind = "account" => HasNotice(m)
<1>1. Len(m) \in Nat \ {0} /\ DOMAIN m = 1 .. Len(m) /\ Head(m) = m[1] /\ 1 \in 1 .. Len(m)
  BY MessageElements, EmptySeq
<1>2. DOMAIN s = 1 .. Len(m) - 1 /\ \A i \in 1 .. Len(m) - 1 : s[i] = m[i + 1]
  BY HeadTailProperties, LenProperties
<1>3. /\ \A i \in 1 .. Len(m) - 1 : i + 1 \in 1 .. Len(m)
      /\ \A i \in 1 .. Len(m) : i = 1 \/ (i - 1 \in 1 .. Len(m) - 1 /\ i - 1 + 1 = i)
      /\ \A i, j \in 1 .. Len(m) - 1 : i < j <=> i + 1 < j + 1
  BY <1>1
<1>4. /\ HasNotice(s) => HasNotice(m)
      /\ Head(m).kind # "account" => (HasNotice(s) <=> HasNotice(m))
      /\ Head(m).kind = "account" => HasNotice(m)
  <2>1. ASSUME HasNotice(s) PROVE HasNotice(m)
    BY <1>1, <1>2, <1>3, <2>1 DEF HasNotice
  <2>2. ASSUME HasNotice(m), Head(m).kind # "account" PROVE HasNotice(s)
    <3>1. PICK i \in 1 .. Len(m) : m[i].kind = "account"
      BY <1>1, <2>2 DEF HasNotice
    <3>2. i - 1 \in 1 .. Len(m) - 1 /\ s[i - 1] = m[i]
      BY <1>1, <1>2, <1>3, <2>2, <3>1
    <3> QED  BY <1>2, <3>1, <3>2 DEF HasNotice
  <2>3. ASSUME Head(m).kind = "account" PROVE HasNotice(m)
    BY <1>1, <2>3 DEF HasNotice
  <2> QED  BY <2>1, <2>2, <2>3
<1>5. ASSUME NEW u, Newest(m, u)
      PROVE  /\ HasNotice(s) => Newest(s, u)
             /\ ~ HasNotice(s) => Head(m).user = u
  <2>1. PICK i \in 1 .. Len(m) :
               /\ m[i].kind = "account" /\ m[i].user = u
               /\ \A j \in 1 .. Len(m) : i < j => m[j].kind # "account"
    BY <1>1, <1>5 DEF Newest
  <2>2. CASE i = 1
    <3>1. ~ HasNotice(s)
      <4>1. ASSUME NEW j \in 1 .. Len(m) - 1 PROVE s[j].kind # "account"
        <5>1. i < j + 1
          BY <1>1, <2>2
        <5> QED  BY <1>2, <1>3, <2>1, <5>1
      <4> QED  BY <1>2, <4>1 DEF HasNotice
    <3> QED  BY <1>1, <2>1, <2>2, <3>1
  <2>3. CASE i # 1
    <3>1. i - 1 \in 1 .. Len(m) - 1 /\ i - 1 + 1 = i /\ s[i - 1] = m[i]
      BY <1>1, <1>2, <1>3, <2>3
    <3>2. \A j \in 1 .. Len(m) - 1 : i - 1 < j => s[j].kind # "account"
      BY <1>1, <1>2, <1>3, <2>1
    <3>3. Newest(s, u) /\ HasNotice(s)
      BY <1>2, <2>1, <3>1, <3>2 DEF Newest, HasNotice
    <3> QED  BY <3>3
  <2> QED  BY <2>2, <2>3
<1>6. ASSUME NEW u, Head(m).kind # "account", TokensFor(m, u) PROVE TokensFor(s, u)
  <2>1. ASSUME NEW i \in 1 .. Len(m) - 1, s[i].kind = "token", s[i].current,
               \A j \in 1 .. Len(m) - 1 : j < i => s[j].kind # "account"
        PROVE  s[i].user \in {u, NoToken}
    <3>1. ASSUME NEW j \in 1 .. Len(m), j < i + 1 PROVE m[j].kind # "account"
      <4>1. CASE j = 1
        BY <1>1, <1>6, <4>1
      <4>2. CASE j # 1
        <5>1. j - 1 \in 1 .. Len(m) - 1 /\ s[j - 1] = m[j] /\ j - 1 < i
          BY <1>1, <1>2, <1>3, <3>1, <4>2
        <5> QED  BY <2>1, <5>1
      <4> QED  BY <4>1, <4>2
    <3>2. i + 1 \in 1 .. Len(m) /\ m[i + 1] = s[i]
      BY <1>2, <1>3
    <3> QED  BY <1>1, <1>6, <2>1, <3>1, <3>2 DEF TokensFor
  <2> QED  BY <1>2, <2>1 DEF TokensFor
<1>7. ASSUME NEW u, Head(m).kind = "token", Head(m).current, TokensFor(m, u)
      PROVE  Head(m).user \in {u, NoToken}
  <2>1. \A j \in 1 .. Len(m) : ~ (j < 1)
    BY <1>1
  <2> QED  BY <1>1, <1>7, <2>1 DEF TokensFor
<1>8. /\ AllCurrent(m) => AllCurrent(s)
      /\ Head(m).kind = "token" /\ AllCurrent(m) => Head(m).current
  BY <1>1, <1>2, <1>3 DEF AllCurrent
<1> QED  BY <1>4, <1>5, <1>6, <1>7, <1>8

LEMMA IgnoringNotice ==
    ASSUME NEW m \in Seq(Message), NEW s, s = IgnoringToken(m)
    PROVE  /\ HasNotice(s) <=> HasNotice(m)
           /\ \A u : Newest(m, u) => Newest(s, u)
           /\ \A u : TokensFor(s, u)
           /\ AllCurrent(s)
<1>1. /\ DOMAIN s = DOMAIN m
      /\ \A i \in DOMAIN m : s[i] = IF m[i].kind = "token" THEN Ignored ELSE m[i]
      /\ Ignored.kind = "ignored"
  BY IgnoringForm, MessageTypes
<1>2. \A i \in DOMAIN m : /\ s[i].kind = "account" <=> m[i].kind = "account"
                          /\ m[i].kind = "account" => s[i] = m[i]
                          /\ s[i].kind # "token"
  BY <1>1
<1> QED  BY <1>1, <1>2 DEF HasNotice, Newest, TokensFor, AllCurrent

LEMMA OutdatedNotice ==
    ASSUME NEW m \in Seq(Message), NEW s, s = Outdated(m)
    PROVE  /\ HasNotice(s) <=> HasNotice(m)
           /\ \A u : Newest(m, u) => Newest(s, u)
           /\ \A u : TokensFor(s, u)
<1>1. /\ DOMAIN s = DOMAIN m
      /\ \A i \in DOMAIN m : s[i] = IF m[i].kind = "token"
                                    THEN TokenReady(m[i].user, FALSE) ELSE m[i]
  BY OutdatedForm
<1>2. ASSUME NEW i \in DOMAIN m
      PROVE  /\ s[i].kind = "account" <=> m[i].kind = "account"
             /\ m[i].kind = "account" => s[i] = m[i]
             /\ s[i].kind = "token" => ~ s[i].current
  <2>1. m[i] \in Message
    BY MessageElements
  <2>2. m[i].kind = "token" => /\ TokenReady(m[i].user, FALSE).kind = "token"
                               /\ ~ TokenReady(m[i].user, FALSE).current
    BY <2>1, MessageTypes
  <2> QED  BY <1>1, <2>2
<1> QED  BY <1>1, <1>2 DEF HasNotice, Newest, TokensFor
-----------------------------------------------------------------------------
(* Every step keeps the invariant.                                          *)

\* What a step does to the stream and the token request of a RemoteStore: the
\* stream is given up, or stays as it was.
SameStream(r, s) ==
    /\ s.wire # NoWire => r.wire # NoWire /\ s.wire.token = r.wire.token
    /\ s.asked = "current" /\ s.tokenOf # NoToken =>
          r.asked = "current" /\ s.tokenOf = r.tokenOf

\* What is said of the queues after a step.
LEMMA NoticesAfter ==
    /\ HasNotice(mainQueue)' <=> HasNotice(mainQueue')
    /\ HasNotice(workerQueue)' <=> HasNotice(workerQueue')
    /\ Newest(mainQueue, authUser)' <=> Newest(mainQueue', authUser')
    /\ Newest(workerQueue, authUser)' <=> Newest(workerQueue', authUser')
    /\ TokensFor(mainQueue, currentUser)' <=> TokensFor(mainQueue', currentUser')
    /\ TokensFor(workerQueue, currentUser)' <=> TokensFor(workerQueue', currentUser')
    /\ AllCurrent(workerQueue)' <=> AllCurrent(workerQueue')
BY DEF HasNotice, Newest, TokensFor, AllCurrent

LEMMA SameStreamStep ==
    ASSUME AccountInv, SameStream(remote, remote'),
           UNCHANGED <<authVars, workerQueue, currentUser>>
    PROVE  AccountInv'
<1>1. OwnToken'
  BY DEF AccountInv, OwnToken, SameStream
<1>2. /\ HasNotice(mainQueue)' = HasNotice(mainQueue)
      /\ HasNotice(workerQueue)' = HasNotice(workerQueue)
      /\ Newest(mainQueue, authUser)' = Newest(mainQueue, authUser)
      /\ Newest(workerQueue, authUser)' = Newest(workerQueue, authUser)
      /\ TokensFor(mainQueue, currentUser)' = TokensFor(mainQueue, currentUser)
      /\ TokensFor(workerQueue, currentUser)' = TokensFor(workerQueue, currentUser)
      /\ AllCurrent(workerQueue)' = AllCurrent(workerQueue)
  BY DEF HasNotice, Newest, TokensFor, AllCurrent, authVars
<1> QED  BY <1>1, <1>2 DEF AccountInv, SameStream, authVars

\* The pipeline is filled again from a RemoteStore that was in order.
LEMMA FilledStream ==
    ASSUME NEW r, StreamOK(r), NEW q, NEW s, Filled(r, q, s),
           r.wire # NoWire => r.wire \in Wire
    PROVE  SameStream(r, s)
<1>1. CASE Ready(r)
  <2>1. /\ r.state = "Open" /\ r.wire \in Wire /\ r.tokenOf = NoToken
    BY <1>1 DEF Ready, StreamOK, Phases
  <2>2. s.wire.token = r.wire.token /\ s.tokenOf = NoToken
    BY <1>1, <2>1 DEF Filled, Wire
  <2> QED  BY <2>1, <2>2, StreamConstantsAssumption DEF SameStream
<1>2. CASE ~ Ready(r)
  <2>1. s.wire = r.wire /\ s.tokenOf = r.tokenOf
    BY <1>2 DEF Filled
  <2>2. s.tokenOf # NoToken => s.asked = r.asked
    BY <2>1 DEF Filled, StreamOK, Phases, IsStarted
  <2> QED  BY <2>1, <2>2 DEF SameStream
<1> QED  BY <1>1, <1>2

LEMMA WriteLocallyStream ==
    ASSUME StreamInv, WriteLocally
    PROVE  SameStream(remote, remote')
<1> DEFINE q == mutations[currentUser]
           batch == [user |-> currentUser, batchId |-> nextBatchId, write |-> issued + 1]
<1>1. /\ mutations' = [mutations EXCEPT ![currentUser] = Append(q, batch)]
      /\ remote' = FillWritePipeline(remote, mutations'[currentUser])
      /\ issued < MaxWrites
  BY DEF WriteLocally
<1>2. batch \in Batch /\ batch.batchId = nextBatchId
  BY <1>1, InvFacts, PipelineConstantsAssumption DEF Batch, Write, StreamInv, TypeOK
<1> HIDE DEF batch
<1>3. /\ q \in Seq(Batch) /\ InOrder(q) /\ IdsBelow(q, nextBatchId)
      /\ remote \in RemoteStore /\ remote.pipeline = SubSeq(q, 1, Room(q))
      /\ Room(q) \in Nat /\ (remote.state = "Open" => remote.wire \in Wire)
  BY InvFacts
<1>4. /\ Append(q, batch) \in Seq(Batch) /\ InOrder(Append(q, batch))
      /\ FirstRows(q) = SubSeq(Append(q, batch), 1, Room(q))
      /\ Room(q) <= Room(Append(q, batch))
  BY <1>2, <1>3, AppendQueue
<1>5. remote' = FillWritePipeline(remote, Append(q, batch))
  BY <1>1, InvFacts DEF StreamInv, TypeOK
<1>6. remote.pipeline = SubSeq(Append(q, batch), 1, Room(q))
  BY <1>3, <1>4 DEF FirstRows
<1>7. Filled(remote, Append(q, batch), remote')
  BY <1>3, <1>4, <1>5, <1>6, FillForm
<1> QED  BY <1>7, InvFacts, RemoteFields, FilledStream DEF StreamInv

LEMMA HandshakeCompleteStream ==
    ASSUME StreamInv, HandshakeComplete
    PROVE  SameStream(remote, remote')
<1>1. /\ remote.wire # NoWire
      /\ remote' = LET r == [remote EXCEPT !.wire.responses = Tail(@),
                                           !.handshakeComplete = TRUE]
                   IN  WriteMutations(r, r.pipeline)
  BY DEF HandshakeComplete, NextResponse
<1>2. /\ remote.state = "Open" /\ remote \in RemoteStore /\ remote.wire \in Wire
      /\ remote.tokenOf = NoToken
  BY <1>1, InvFacts DEF StreamInv, StreamOK, Phases
<1>3. remote'.tokenOf = NoToken /\ remote'.wire.token = remote.wire.token
  BY <1>1, <1>2 DEF WriteMutations, RemoteStore, Wire
<1> QED  BY <1>1, <1>3 DEF SameStream

LEMMA MutationResultStream ==
    ASSUME StreamInv, MutationResult
    PROVE  SameStream(remote, remote')
<1> DEFINE q == mutations[currentUser]
           r == [remote EXCEPT !.wire.responses = Tail(@), !.pipeline = Tail(@)]
<1>1. /\ NextResponse("result") /\ Answered("acknowledged")
      /\ remote' = FillWritePipeline(r, mutations'[currentUser])
  BY DEF MutationResult
<1>2. /\ Ready(remote) /\ remote.wire \in Wire /\ remote \in RemoteStore
      /\ remote.wire.responses # << >> /\ Head(remote.wire.responses) = "result"
  BY <1>1, ResultFacts, InvFacts
<1>3. PICK k \in 0 .. Len(remote.pipeline) : AnsweredUpTo(remote, k, applied, refused)
  BY <1>1, ResultFacts
<1>4. remote.pipeline # << >> /\ r \in RemoteStore /\ r.wire \in Wire
  BY <1>2, <1>3, AnsweredOnce
<1>5. /\ q # << >> /\ mutations' = [mutations EXCEPT ![currentUser] = Tail(q)]
      /\ nextBatchId' = nextBatchId
      /\ Tail(q) \in Seq(Batch) /\ InOrder(Tail(q))
      /\ Tail(remote.pipeline) = SubSeq(Tail(q), 1, Room(q) - 1)
      /\ Room(q) - 1 \in Nat /\ Room(q) - 1 <= Room(Tail(q))
  BY <1>1, <1>4, AnsweredForm
<1>6. mutations'[currentUser] = Tail(q)
  BY <1>5, QueuesShrink
<1>7. /\ r.pipeline = Tail(remote.pipeline) /\ r.state = "Open" /\ Ready(r)
      /\ r.tokenOf = NoToken /\ r.wire.token = remote.wire.token
  BY <1>2, InvFacts DEF RemoteStore, Ready, StreamInv, StreamOK, Phases, Wire
<1> HIDE DEF r
<1>8. Filled(r, Tail(q), remote')
  BY <1>1, <1>4, <1>5, <1>6, <1>7, FillForm
<1>9. remote'.tokenOf = NoToken /\ remote'.wire.token = r.wire.token
  BY <1>4, <1>7, <1>8 DEF Filled, Wire
<1>10. remote.wire # NoWire
  BY <1>2, StreamConstantsAssumption
<1> QED  BY <1>7, <1>9, <1>10 DEF SameStream

\* A stream that is closed is gone, and so is its token request.
LEMMA GoneStream ==
    ASSUME NEW r, NEW s, s.wire = NoWire, s.tokenOf = NoToken
    PROVE  SameStream(r, s)
BY DEF SameStream

LEMMA BackendStream ==
    ASSUME StreamInv, (\E error \in Error : Refuse(error)) \/ Serve
    PROVE  SameStream(remote, remote')
<1>1. /\ NextRequest /\ remote.wire \in Wire /\ remote \in RemoteStore
      /\ remote.wire # NoWire
  BY InvFacts, RequestFacts DEF Serve, Refuse, NextRequest
<1>2. \E requests, responses :
         remote' = [remote EXCEPT !.wire = [remote.wire EXCEPT !.requests = requests,
                                                               !.responses = responses]]
  <2>1. CASE Serve
    <3>1. PICK response : remote' = [remote EXCEPT !.wire.requests = Tail(@),
                                                   !.wire.responses = Append(@, response)]
      BY <2>1 DEF Serve
    <3>2. remote' = [remote EXCEPT !.wire =
                        [remote.wire EXCEPT !.requests = Tail(remote.wire.requests),
                             !.responses = Append(remote.wire.responses, response)]]
      BY <1>1, <3>1 DEF RemoteStore, Wire
    <3> QED  BY <3>2
  <2>2. ASSUME NEW error \in Error, Refuse(error)
        PROVE  remote' = [remote EXCEPT !.wire = [remote.wire EXCEPT !.requests = << >>,
                             !.responses = Append(remote.wire.responses, error)]]
    BY <1>1, <2>2 DEF Refuse, RemoteStore, Wire
  <2> QED  BY <2>1, <2>2
<1>3. /\ remote'.wire.token = remote.wire.token
      /\ remote'.tokenOf = remote.tokenOf /\ remote'.asked = remote.asked
  <2>1. PICK wire : /\ remote' = [remote EXCEPT !.wire = wire]
                    /\ wire.token = remote.wire.token
    BY <1>1, <1>2 DEF Wire
  <2> QED  BY <1>1, <2>1 DEF RemoteStore
<1> QED  BY <1>1, <1>3 DEF SameStream

LEMMA AuthStateChangesAccount ==
    ASSUME StreamInv, AccountInv, NEW u \in Account, AuthStateChanges(u)
    PROVE  AccountInv'
<1>1. /\ authUser' = u /\ mainQueue' = Append(mainQueue, AccountChanged(u))
      /\ workerQueue' = workerQueue /\ remote' = remote /\ currentUser' = currentUser
  BY DEF AuthStateChanges, localVars
<1>2. /\ mainQueue \in Seq(Message) /\ AccountChanged(u) \in Message
      /\ AccountChanged(u).kind = "account" /\ AccountChanged(u).user = u
  BY InvFacts, MessageTypes
<1>3. /\ HasNotice(mainQueue') /\ Newest(mainQueue', u)
      /\ TokensFor(mainQueue, currentUser) => TokensFor(mainQueue', currentUser)
  BY <1>1, <1>2, AppendNotice
<1>4. OwnToken'
  BY <1>1 DEF AccountInv, OwnToken
<1> QED  BY <1>1, <1>3, <1>4, NoticesAfter DEF AccountInv

LEMMA TakeUpTokenAccount ==
    ASSUME StreamInv, AccountInv, TakeUpToken
    PROVE  AccountInv'
<1>1. /\ remote' = [remote EXCEPT !.tokenOf = authUser]
      /\ UNCHANGED <<authVars, workerQueue, currentUser>>
  BY DEF TakeUpToken, localVars
<1>2. remote'.tokenOf = authUser /\ remote'.asked = remote.asked /\ remote'.wire = remote.wire
  BY <1>1, InvFacts DEF RemoteStore
<1>3. OwnToken'
  BY <1>1, <1>2 DEF AccountInv, OwnToken
<1> QED  BY <1>1, <1>2, <1>3, NoticesAfter DEF AccountInv, authVars

LEMMA AnswersTokenAccount ==
    ASSUME StreamInv, AccountInv, AnswersToken(NoToken) \/ AnswersToken(remote.tokenOf)
    PROVE  AccountInv'
<1>1. PICK token \in {NoToken, remote.tokenOf} :
             /\ remote.tokenOf # NoToken
             /\ mainQueue' = Append(mainQueue, TokenReady(token, remote.asked = "current"))
             /\ remote' = [remote EXCEPT !.asked = "no", !.tokenOf = NoToken]
             /\ UNCHANGED <<authUser, workerQueue, currentUser>>
  BY DEF AnswersToken, localVars
<1> DEFINE message == TokenReady(token, remote.asked = "current")
<1>2. remote.tokenOf \in Account \cup {NoToken} /\ mainQueue \in Seq(Message)
  BY InvFacts, RemoteFields
<1>3. /\ message \in Message /\ message.kind = "token" /\ message.user = token
      /\ message.current = (remote.asked = "current")
  <2>1. token \in Account \cup {NoToken} /\ (remote.asked = "current") \in BOOLEAN
    BY <1>2
  <2> QED  BY <2>1, MessageTypes
<1> HIDE DEF message
<1>4. ~ HasNotice(mainQueue) /\ ~ HasNotice(workerQueue) /\ message.current =>
         message.user \in {currentUser, NoToken}
  BY <1>1, <1>3 DEF AccountInv
<1>5. /\ HasNotice(mainQueue') <=> HasNotice(mainQueue)
      /\ Newest(mainQueue, authUser) => Newest(mainQueue', authUser)
      /\ ~ HasNotice(workerQueue) => TokensFor(mainQueue', currentUser)
  <2>1. mainQueue' = Append(mainQueue, message)
    BY <1>1 DEF message
  <2> QED  BY <1>2, <1>3, <1>4, <2>1, AppendNotice DEF AccountInv
<1>6. remote'.asked = "no" /\ remote'.wire = remote.wire
  BY <1>1, InvFacts DEF RemoteStore
<1>7. OwnToken'
  BY <1>1, <1>6 DEF AccountInv, OwnToken
<1> QED  BY <1>1, <1>5, <1>6, <1>7, NoticesAfter DEF AccountInv

LEMMA NotifyAccountAccount ==
    ASSUME StreamInv, AccountInv, NotifyAccount
    PROVE  AccountInv'
<1>1. /\ mainQueue # << >> /\ Head(mainQueue).kind = "account"
      /\ mainQueue' = Outdated(Tail(mainQueue))
      /\ workerQueue' = Append(workerQueue, Head(mainQueue))
      /\ remote' = [remote EXCEPT !.asked = IF @ = "no" THEN "no" ELSE "outdated"]
      /\ authUser' = authUser /\ currentUser' = currentUser
  BY DEF NotifyAccount, localVars
<1>2. /\ mainQueue \in Seq(Message) /\ workerQueue \in Seq(Message)
      /\ Head(mainQueue) \in Message /\ Tail(mainQueue) \in Seq(Message)
  BY <1>1, InvFacts, TailMessage
<1>3. /\ Newest(mainQueue, authUser)
      /\ HasNotice(Tail(mainQueue)) => Newest(Tail(mainQueue), authUser)
      /\ ~ HasNotice(Tail(mainQueue)) => Head(mainQueue).user = authUser
  BY <1>1, <1>2, TailNotice DEF AccountInv
<1>4. /\ HasNotice(mainQueue') <=> HasNotice(Tail(mainQueue))
      /\ HasNotice(mainQueue') => Newest(mainQueue', authUser)
      /\ TokensFor(mainQueue', currentUser)
  BY <1>1, <1>2, <1>3, OutdatedNotice
<1>5. /\ HasNotice(workerQueue') /\ Newest(workerQueue', Head(mainQueue).user)
      /\ TokensFor(workerQueue', currentUser) /\ AllCurrent(workerQueue')
  BY <1>1, <1>2, AppendNotice DEF AccountInv
<1>6. remote'.wire = remote.wire
  BY <1>1, InvFacts DEF RemoteStore
<1>7. OwnToken'
  BY <1>1, <1>6 DEF AccountInv, OwnToken
<1> QED  BY <1>1, <1>3, <1>4, <1>5, <1>7, NoticesAfter DEF AccountInv

LEMMA PassTokenAccount ==
    ASSUME StreamInv, AccountInv, PassToken
    PROVE  AccountInv'
<1>1. /\ mainQueue # << >> /\ Head(mainQueue).kind = "token"
      /\ mainQueue' = Tail(mainQueue)
      /\ authUser' = authUser /\ currentUser' = currentUser
  BY DEF PassToken, localVars
<1>2. /\ mainQueue \in Seq(Message) /\ workerQueue \in Seq(Message)
      /\ Head(mainQueue) \in Message
  BY <1>1, InvFacts, TailMessage
<1>3. /\ HasNotice(mainQueue') <=> HasNotice(mainQueue)
      /\ HasNotice(mainQueue') => Newest(mainQueue', authUser)
      /\ ~ HasNotice(workerQueue) => TokensFor(mainQueue', currentUser)
      /\ ~ HasNotice(workerQueue) /\ Head(mainQueue).current =>
            Head(mainQueue).user \in {currentUser, NoToken}
  BY <1>1, <1>2, TailNotice DEF AccountInv
<1>4. CASE Head(mainQueue).current
  <2>1. workerQueue' = Append(workerQueue, Head(mainQueue)) /\ remote' = remote
    BY <1>4 DEF PassToken
  <2>2. /\ HasNotice(workerQueue') <=> HasNotice(workerQueue)
        /\ Newest(workerQueue, authUser) => Newest(workerQueue', authUser)
        /\ TokensFor(workerQueue', currentUser) /\ AllCurrent(workerQueue')
    BY <1>1, <1>2, <1>3, <1>4, <2>1, AppendNotice DEF AccountInv
  <2>3. OwnToken'
    BY <1>1, <2>1 DEF AccountInv, OwnToken
  <2> QED  BY <1>1, <1>3, <2>1, <2>2, <2>3, NoticesAfter DEF AccountInv
<1>5. CASE ~ Head(mainQueue).current
  <2>1. workerQueue' = workerQueue /\ remote' = [remote EXCEPT !.asked = "current"]
    BY <1>5 DEF PassToken
  <2>2. /\ remote.asked = "no" /\ remote.tokenOf = NoToken /\ remote'.tokenOf = NoToken
        /\ remote'.wire = remote.wire
    <3>1. HasToken(mainQueue)
      BY <1>1, <1>2, TailMessage
    <3>2. remote.asked = "no"
      BY <3>1 DEF StreamInv, TokensOK
    <3> QED  BY <2>1, <3>2, InvFacts DEF StreamInv, StreamOK, Phases, RemoteStore
  <2>3. OwnToken'
    BY <1>1, <2>2 DEF AccountInv, OwnToken
  <2> QED  BY <1>1, <1>3, <2>1, <2>2, <2>3, NoticesAfter DEF AccountInv
<1> QED  BY <1>4, <1>5

LEMMA IgnoreTokenAccount ==
    ASSUME StreamInv, AccountInv, IgnoreToken
    PROVE  AccountInv'
<1>1. UNCHANGED <<authUser, currentUser, remote>>
  BY DEF IgnoreToken, localVars
<1>2. mainQueue \in Seq(Message) /\ workerQueue \in Seq(Message) /\ Ignored.kind = "ignored"
  BY InvFacts, MessageTypes
<1>3. OwnToken'
  BY <1>1 DEF AccountInv, OwnToken
<1>4. CASE /\ mainQueue # << >> /\ Head(mainQueue) = Ignored
           /\ mainQueue' = Tail(mainQueue) /\ workerQueue' = workerQueue
  <2>1. /\ HasNotice(mainQueue') <=> HasNotice(mainQueue)
        /\ HasNotice(mainQueue') => Newest(mainQueue', authUser)
        /\ ~ HasNotice(workerQueue) => TokensFor(mainQueue', currentUser)
    BY <1>2, <1>4, TailNotice DEF AccountInv
  <2> QED  BY <1>1, <1>3, <1>4, <2>1, NoticesAfter DEF AccountInv
<1>5. CASE /\ workerQueue # << >> /\ Head(workerQueue) = Ignored
           /\ workerQueue' = Tail(workerQueue) /\ mainQueue' = mainQueue
  <2>1. /\ HasNotice(workerQueue') <=> HasNotice(workerQueue)
        /\ \A u : Newest(workerQueue, u) /\ HasNotice(workerQueue') => Newest(workerQueue', u)
        /\ TokensFor(workerQueue', currentUser) /\ AllCurrent(workerQueue')
    BY <1>2, <1>5, TailNotice DEF AccountInv
  <2> QED  BY <1>1, <1>3, <1>5, <2>1, NoticesAfter DEF AccountInv
<1> QED  BY <1>4, <1>5 DEF IgnoreToken

LEMMA OpenStreamAccount ==
    ASSUME StreamInv, AccountInv, OpenStream
    PROVE  AccountInv'
<1> DEFINE token == Head(workerQueue).user
<1>1. /\ workerQueue # << >> /\ Head(workerQueue).kind = "token"
      /\ workerQueue' = Tail(workerQueue) /\ UNCHANGED authVars
  BY DEF OpenStream
<1>2. workerQueue \in Seq(Message) /\ token \in Account \cup {NoToken}
  BY <1>1, InvFacts, TailMessage, MessageTypes
<1>3. /\ HasNotice(workerQueue') <=> HasNotice(workerQueue)
      /\ \A u : Newest(workerQueue, u) /\ HasNotice(workerQueue') => Newest(workerQueue', u)
      /\ TokensFor(workerQueue', currentUser) /\ AllCurrent(workerQueue')
      /\ token \in {currentUser, NoToken}
  BY <1>1, <1>2, TailNotice DEF AccountInv
<1>4. /\ currentUser' = currentUser /\ remote'.tokenOf = NoToken
      /\ remote'.wire # NoWire => remote'.wire.token = currentUser
  <2>1. CASE token = NoToken
    <3>1. OnStreamFinish("transient") /\ "transient" \in Error
      BY <2>1 DEF OpenStream, Error
    <3> QED  BY <3>1, FinishForm
  <2>2. CASE token # NoToken
    <3>1. /\ remote' = [remote EXCEPT !.state = "Open", !.wire =
                 [token |-> token, requests |-> << Handshake >>, responses |-> << >>]]
          /\ currentUser' = currentUser
      BY <2>2 DEF OpenStream, localVars
    <3>2. remote.tokenOf = NoToken
      <4>1. HasToken(workerQueue)
        BY <1>1, <1>2, TailMessage
      <4>2. remote.asked = "no"
        BY <4>1 DEF StreamInv, TokensOK
      <4> QED  BY <4>2 DEF StreamInv, StreamOK, Phases
    <3> QED  BY <1>3, <2>2, <3>1, <3>2, InvFacts DEF RemoteStore
  <2> QED  BY <2>1, <2>2
<1>5. OwnToken'
  BY <1>4 DEF OwnToken
<1> HIDE DEF token
<1> QED  BY <1>1, <1>3, <1>4, <1>5, NoticesAfter DEF AccountInv, authVars

LEMMA ConnectivityChangesAccount ==
    ASSUME StreamInv, AccountInv, ConnectivityChanges
    PROVE  AccountInv'
<1>1. /\ Restarts(mutations[currentUser])
      /\ mainQueue' = IgnoringToken(mainQueue) /\ workerQueue' = IgnoringToken(workerQueue)
      /\ authUser' = authUser /\ currentUser' = currentUser
  BY DEF ConnectivityChanges, localVars
<1>2. remote'.wire = NoWire /\ remote'.tokenOf = NoToken
  BY <1>1, InvFacts, RestartsForm
<1>3. /\ HasNotice(mainQueue') <=> HasNotice(mainQueue)
      /\ Newest(mainQueue, authUser) => Newest(mainQueue', authUser)
      /\ TokensFor(mainQueue', currentUser)
      /\ HasNotice(workerQueue') <=> HasNotice(workerQueue)
      /\ Newest(workerQueue, authUser) => Newest(workerQueue', authUser)
      /\ TokensFor(workerQueue', currentUser) /\ AllCurrent(workerQueue')
  BY <1>1, InvFacts, IgnoringNotice
<1>4. OwnToken'
  BY <1>2 DEF OwnToken
<1> QED  BY <1>1, <1>2, <1>3, <1>4, NoticesAfter DEF AccountInv

LEMMA RelaunchAccount ==
    ASSUME StreamInv, AccountInv, Relaunch
    PROVE  AccountInv'
<1>1. /\ Restarts(mutations[authUser]) /\ mainQueue' = << >> /\ workerQueue' = << >>
      /\ authUser' = authUser /\ currentUser' = authUser
  BY DEF Relaunch
<1>2. remote'.wire = NoWire /\ remote'.tokenOf = NoToken
  BY <1>1, InvFacts, RestartsForm
<1>3. OwnToken'
  BY <1>2 DEF OwnToken
<1>4. /\ ~ HasNotice(<< >>) /\ AllCurrent(<< >>)
      /\ TokensFor(<< >>, authUser)
  BY EmptySeq, LenProperties DEF HasNotice, TokensFor, AllCurrent
<1> QED  BY <1>1, <1>2, <1>3, <1>4, NoticesAfter DEF AccountInv

LEMMA HandleCredentialChangeAccount ==
    ASSUME StreamInv, AccountInv, HandleCredentialChange
    PROVE  AccountInv'
<1> DEFINE u == Head(workerQueue).user
<1>1. /\ workerQueue # << >> /\ Head(workerQueue).kind = "account"
      /\ currentUser' = u /\ Restarts(mutations[u])
      /\ mainQueue' = IgnoringToken(mainQueue)
      /\ workerQueue' = IgnoringToken(Tail(workerQueue))
      /\ authUser' = authUser
  BY DEF HandleCredentialChange
<1>2. /\ u \in Account /\ Tail(workerQueue) \in Seq(Message)
      /\ workerQueue \in Seq(Message) /\ mainQueue \in Seq(Message)
  BY <1>1, InvFacts, TailMessage, MessageTypes
<1>3. remote'.wire = NoWire /\ remote'.tokenOf = NoToken
  BY <1>1, <1>2, InvFacts, RestartsForm
<1>4. /\ HasNotice(workerQueue)
      /\ \A v : Newest(workerQueue, v) /\ HasNotice(Tail(workerQueue)) =>
                   Newest(Tail(workerQueue), v)
      /\ \A v : Newest(workerQueue, v) /\ ~ HasNotice(Tail(workerQueue)) => u = v
  BY <1>1, <1>2, TailNotice
<1> HIDE DEF u
<1>5. /\ HasNotice(mainQueue') <=> HasNotice(mainQueue)
      /\ Newest(mainQueue, authUser) => Newest(mainQueue', authUser)
      /\ TokensFor(mainQueue', u)
  BY <1>1, <1>2, IgnoringNotice
<1>6. /\ HasNotice(workerQueue') <=> HasNotice(Tail(workerQueue))
      /\ \A v : Newest(Tail(workerQueue), v) => Newest(workerQueue', v)
      /\ TokensFor(workerQueue', u) /\ AllCurrent(workerQueue')
  BY <1>1, <1>2, IgnoringNotice
<1>7. OwnToken'
  BY <1>3 DEF OwnToken
<1> QED  BY <1>1, <1>3, <1>4, <1>5, <1>6, <1>7, NoticesAfter DEF AccountInv
-----------------------------------------------------------------------------
LEMMA AccountInit ==
    ASSUME Init
    PROVE  AccountInv
<1>1. DOMAIN << >> = {}
  BY EmptySeq, LenProperties
<1>2. remote.wire = NoWire /\ remote.tokenOf = NoToken
  BY DEF Init, Stopped
<1> QED  BY <1>1, <1>2 DEF Init, AccountInv, HasNotice, TokensFor, AllCurrent, OwnToken

LEMMA AccountStep ==
    ASSUME StreamInv, AccountInv, [Next]_vars
    PROVE  AccountInv'
<1>1. CASE WriteLocally
  BY <1>1, WriteLocallyStream, SameStreamStep DEF WriteLocally
<1>2. CASE HandshakeComplete
  BY <1>2, HandshakeCompleteStream, SameStreamStep DEF HandshakeComplete, localVars
<1>3. CASE MutationResult
  BY <1>3, MutationResultStream, SameStreamStep DEF MutationResult, Answered
<1>4. CASE \E error \in Error : StreamEnds(error)
  <2>1. PICK error \in Error : OnStreamFinish(error) /\ UNCHANGED <<authVars, workerQueue>>
    BY <1>4 DEF StreamEnds
  <2>2. remote'.wire = NoWire /\ remote'.tokenOf = NoToken /\ currentUser' = currentUser
    BY <2>1, FinishForm
  <2> QED  BY <2>1, <2>2, GoneStream, SameStreamStep
<1>5. CASE ConnectionBreaks
  <2>1. /\ OnStreamFinish("transient") /\ "transient" \in Error
        /\ UNCHANGED <<authVars, workerQueue>>
    BY <1>5 DEF ConnectionBreaks, Error
  <2>2. remote'.wire = NoWire /\ remote'.tokenOf = NoToken /\ currentUser' = currentUser
    BY <2>1, FinishForm
  <2> QED  BY <2>1, <2>2, GoneStream, SameStreamStep
<1>6. CASE IdleTimeout
  <2>1. /\ remote' = NotifyStreamClose(Close(remote, "Initial"))
        /\ UNCHANGED <<authVars, workerQueue, currentUser>>
    BY <1>6 DEF IdleTimeout, localVars
  <2> DEFINE closed == Close(remote, "Initial")
  <2>2. /\ closed \in RemoteStore /\ Phases(closed) /\ closed.state = "Initial"
        /\ closed.tokenOf = NoToken
    BY InvFacts, CloseForm
  <2>3. remote'.wire = NoWire /\ remote'.tokenOf = NoToken
    <3> HIDE DEF closed
    <3>1. remote' = NotifyStreamClose(closed)
      BY <2>1 DEF closed
    <3> QED  BY <2>2, <3>1, NotifyForm
  <2> QED  BY <2>1, <2>3, GoneStream, SameStreamStep
<1>7. CASE BackoffElapses
  <2>1. /\ remote.state = "Backoff" /\ remote' = Start([remote EXCEPT !.state = "Initial"])
        /\ UNCHANGED <<authVars, workerQueue, currentUser>>
    BY <1>7 DEF BackoffElapses, localVars
  <2>2. /\ remote'.wire = remote.wire /\ remote'.tokenOf = remote.tokenOf
        /\ remote.tokenOf = NoToken
    BY <2>1, InvFacts DEF Start, RemoteStore, StreamInv, StreamOK, Phases
  <2> QED  BY <2>1, <2>2, SameStreamStep DEF SameStream
<1>8. CASE Serve \/ \E error \in Error : Refuse(error)
  BY <1>8, BackendStream, SameStreamStep DEF Serve, Refuse, localVars
<1>9. CASE (\E k \in DOMAIN lingering : ServeLate(k)) \/ UNCHANGED vars
  <2>1. remote' = remote /\ UNCHANGED <<authVars, workerQueue, currentUser>>
    BY <1>9 DEF ServeLate, localVars, vars, authVars
  <2> QED  BY <2>1, SameStreamStep DEF SameStream
<1>10. CASE TokenArrives \/ TokenFails
  BY <1>10, AnswersTokenAccount DEF TokenArrives, TokenFails
<1> QED  BY <1>1, <1>2, <1>3, <1>4, <1>5, <1>6, <1>7, <1>8, <1>9, <1>10,
            AuthStateChangesAccount, TakeUpTokenAccount, NotifyAccountAccount,
            PassTokenAccount, IgnoreTokenAccount, OpenStreamAccount,
            ConnectivityChangesAccount, RelaunchAccount, HandleCredentialChangeAccount
         DEF Next, Client

\* No write is sent under the token of another account, whatever the order in
\* which changes of account, tokens, failures and restarts meet on the queues.
THEOREM TokensAreOwn == Spec => []OwnToken
<1>1. Init => AccountInv
  BY AccountInit
<1>2. StreamInv /\ AccountInv /\ [Next]_vars => AccountInv'
  BY AccountStep
<1>3. AccountInv => OwnToken
  BY DEF AccountInv
<1> QED  BY <1>1, <1>2, <1>3, StreamInvariant, PTL DEF Spec
=============================================================================
