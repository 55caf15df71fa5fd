------------------------ MODULE WritePipelineStream ------------------------
(***************************************************************************)
(* Theorems about WritePipeline for any accounts, any size of the pipeline *)
(* and any number of writes, changes of account and faults: its types, the *)
(* assertions of Stream and RemoteStore, that the pipeline is the head of  *)
(* the queue, and that responses are put down to the right writes.         *)
(***************************************************************************)
EXTENDS WritePipelineLemmas

-----------------------------------------------------------------------------
(* What several actions have in common.                                     *)

LEMMA InvFacts ==
    ASSUME StreamInv
    PROVE  /\ remote \in RemoteStore /\ currentUser \in Account /\ authUser \in Account
           /\ mainQueue \in Seq(Message) /\ workerQueue \in Seq(Message)
           /\ nextBatchId \in Nat \ {0}
           /\ \A u \in Account : /\ mutations[u] \in Seq(Batch)
                                 /\ InOrder(mutations[u])
                                 /\ IdsBelow(mutations[u], nextBatchId)
           /\ lingering \in Seq(GivenUpStream)
           /\ remote.state = "Open" => remote.wire \in Wire
           /\ Room(mutations[currentUser]) \in Nat
           /\ remote.pipeline = SubSeq(mutations[currentUser], 1, Room(mutations[currentUser]))
<1>1. /\ remote \in RemoteStore /\ currentUser \in Account /\ authUser \in Account
      /\ mainQueue \in Seq(Message) /\ workerQueue \in Seq(Message)
      /\ nextBatchId \in Nat \ {0}
      /\ mutations \in [Account -> Seq(Batch)]
      /\ lingering \in Seq(GivenUpStream)
  BY DEF StreamInv, TypeOK
<1>2. \A u \in Account : /\ mutations[u] \in Seq(Batch)
                         /\ InOrder(mutations[u])
                         /\ IdsBelow(mutations[u], nextBatchId)
  BY <1>1 DEF StreamInv, QueuesOK
<1>3. remote.state = "Open" => remote.wire \in Wire
  BY <1>1, RemoteFields DEF StreamInv, StreamOK, Phases
<1>4. Room(mutations[currentUser]) \in Nat
  BY <1>1, <1>2, RoomType
<1> QED  BY <1>1, <1>2, <1>3, <1>4 DEF StreamInv, FirstRows

LEMMA GivenUpType ==
    ASSUME StreamInv
    PROVE  lingering \o GivenUp(remote) \in Seq(GivenUpStream)
<1>1. GivenUp(remote) \in Seq(GivenUpStream)
  BY InvFacts, GivenUpForm DEF StreamInv
<1> QED  BY <1>1, InvFacts, ConcatProperties

LEMMA InFlightType ==
    ASSUME StreamInv
    PROVE  InFlight(remote) \in SUBSET Write
<1>1. remote.pipeline \in Seq(Batch)
  BY InvFacts, RemoteFields
<1> QED  BY <1>1, QueueElements DEF InFlight

LEMMA RestartsForm ==
    ASSUME StreamInv, NEW q \in Seq(Batch), InOrder(q), Restarts(q)
    PROVE  /\ remote' \in RemoteStore /\ StreamOK(remote')
           /\ remote'.pipeline = FirstRows(q) /\ remote'.state # "Open"
           /\ remote'.wire = NoWire
           /\ remote'.asked \in {"no", "current"} /\ remote'.tokenOf = NoToken
           /\ lingering' \in Seq(GivenUpStream)
           /\ resent' \in SUBSET Write
<1>1. /\ remote' = RestartNetwork(remote, q)
      /\ lingering' = lingering \o GivenUp(remote)
      /\ resent' = resent \cup InFlight(remote)
  BY DEF Restarts
<1>2. /\ remote' \in RemoteStore /\ StreamOK(remote')
      /\ remote'.pipeline = FirstRows(q) /\ remote'.state # "Open" /\ remote'.wire = NoWire
      /\ remote'.asked \in {"no", "current"} /\ remote'.tokenOf = NoToken
  BY <1>1, RestartForm
<1>3. resent' \in SUBSET Write
  BY <1>1, InFlightType DEF StreamInv, TypeOK
<1> QED  BY <1>1, <1>2, <1>3, GivenUpType

\* The first write of the pipeline is answered, and its row is gone.
LEMMA AnsweredForm ==
    ASSUME StreamInv, remote.pipeline # << >>,
           NEW answer \in {"acknowledged", "rejected"}, Answered(answer)
    PROVE  LET q == mutations[currentUser]
           IN  /\ q # << >> /\ Head(remote.pipeline) = q[1]
               /\ mutations' = [mutations EXCEPT ![currentUser] = Tail(q)]
               /\ callbacks' \in [Account -> SUBSET [batchId : Nat, write : Write]]
               /\ outcome' \in [Write -> {"none", "acknowledged", "rejected"}]
               /\ told' \in [Write -> {"none", "acknowledged", "rejected"}]
               /\ currentUser' = currentUser /\ nextBatchId' = nextBatchId
               /\ issued' = issued /\ orphaned' = orphaned
               /\ Tail(q) \in Seq(Batch) /\ InOrder(Tail(q))
               /\ Tail(remote.pipeline) = SubSeq(Tail(q), 1, Room(q) - 1)
               /\ Room(q) - 1 \in Nat /\ Room(q) - 1 <= Room(Tail(q))
<1> DEFINE q == mutations[currentUser]
<1>1. q \in Seq(Batch) /\ InOrder(q) /\ remote.pipeline = FirstRows(q)
  BY InvFacts DEF StreamInv
<1>2. q # << >>
  <2>1. Len(<< >>) = 0
    BY EmptySeq
  <2>2. q = << >> => Room(q) = 0 /\ FirstRows(q) = << >>
    BY <2>1, SubSeqEmpty, PipelineConstantsAssumption DEF Room, FirstRows
  <2> QED  BY <1>1, <2>2
<1>3. /\ RemoveMutationBatch(q, q[1].batchId) = Tail(q)
      /\ Tail(q) \in Seq(Batch) /\ InOrder(Tail(q))
      /\ Head(remote.pipeline) = q[1]
      /\ Tail(remote.pipeline) = SubSeq(Tail(q), 1, Room(q) - 1)
      /\ Room(q) - 1 \in Nat /\ Room(q) - 1 <= Room(Tail(q))
  BY <1>1, <1>2, PopQueue
<1>4. /\ currentUser' = currentUser /\ nextBatchId' = nextBatchId
      /\ issued' = issued /\ orphaned' = orphaned
  BY DEF Answered
<1>5. mutations' = [mutations EXCEPT ![currentUser] = Tail(q)]
  BY <1>3 DEF Answered
<1>6. callbacks' \in [Account -> SUBSET [batchId : Nat, write : Write]]
  BY DEF Answered, StreamInv, TypeOK
<1>7. outcome' \in [Write -> {"none", "acknowledged", "rejected"}]
  BY DEF Answered, StreamInv, TypeOK
<1>8. told' \in [Write -> {"none", "acknowledged", "rejected"}]
  BY DEF Answered, StreamInv, TypeOK
<1> QED  BY <1>2, <1>3, <1>4, <1>5, <1>6, <1>7, <1>8

LEMMA QueuesShrink ==
    ASSUME StreamInv, mutations[currentUser] # << >>, nextBatchId' = nextBatchId,
           mutations' = [mutations EXCEPT ![currentUser] = Tail(mutations[currentUser])]
    PROVE  /\ mutations' \in [Account -> Seq(Batch)]
           /\ QueuesOK'
           /\ mutations'[currentUser] = Tail(mutations[currentUser])
<1>1. /\ Tail(mutations[currentUser]) \in Seq(Batch)
      /\ InOrder(Tail(mutations[currentUser]))
      /\ IdsBelow(Tail(mutations[currentUser]), nextBatchId)
  BY InvFacts, PopQueue
<1>2. mutations \in [Account -> Seq(Batch)] /\ currentUser \in Account
  BY DEF StreamInv, TypeOK
<1>3. /\ mutations' \in [Account -> Seq(Batch)]
      /\ mutations'[currentUser] = Tail(mutations[currentUser])
      /\ \A u \in Account : u # currentUser => mutations'[u] = mutations[u]
  BY <1>1, <1>2
<1>4. QueuesOK'
  BY <1>1, <1>3, InvFacts DEF QueuesOK
<1> QED  BY <1>3, <1>4

\* A stream that is closed: the write an error is put down to is given up.
LEMMA FinishForm ==
    ASSUME StreamInv, NEW error \in Error, OnStreamFinish(error)
    PROVE  /\ remote' \in RemoteStore /\ StreamOK(remote') /\ remote'.state # "Open"
           /\ remote'.pipeline = FirstRows(mutations'[currentUser'])
           /\ remote'.wire = NoWire /\ remote'.tokenOf = NoToken
           /\ remote'.asked \in {"no", "current"}
           /\ currentUser' = currentUser /\ nextBatchId' = nextBatchId
           /\ mutations' \in [Account -> Seq(Batch)] /\ QueuesOK'
           /\ callbacks' \in [Account -> SUBSET [batchId : Nat, write : Write]]
           /\ outcome' \in [Write -> {"none", "acknowledged", "rejected"}]
           /\ told' \in [Write -> {"none", "acknowledged", "rejected"}]
           /\ issued' = issued /\ orphaned' = orphaned
           /\ lingering' \in Seq(GivenUpStream)
<1> DEFINE closed == Close(remote, "Error")
           q == mutations[currentUser]
<1>1. /\ closed \in RemoteStore /\ Phases(closed)
      /\ closed.pipeline = remote.pipeline /\ closed.state = "Error"
      /\ closed.handshakeComplete = remote.handshakeComplete
      /\ closed.wire = NoWire /\ closed.idle = FALSE /\ closed.asked = "no"
      /\ closed.tokenOf = NoToken
  BY InvFacts, CloseForm
<1>2. lingering' \in Seq(GivenUpStream)
  BY GivenUpType DEF OnStreamFinish
<1>3. CASE Rejects(error)
  <2> DEFINE popped == [closed EXCEPT !.pipeline = Tail(@), !.state = "Initial"]
             filled == FillWritePipeline(popped, mutations'[currentUser])
  <2>1. /\ remote.pipeline # << >> /\ Answered("rejected")
        /\ remote' = NotifyStreamClose(filled)
    BY <1>3 DEF OnStreamFinish, Rejects
  <2>2. /\ q # << >>
        /\ mutations' = [mutations EXCEPT ![currentUser] = Tail(q)]
        /\ callbacks' \in [Account -> SUBSET [batchId : Nat, write : Write]]
        /\ outcome' \in [Write -> {"none", "acknowledged", "rejected"}]
        /\ told' \in [Write -> {"none", "acknowledged", "rejected"}]
        /\ currentUser' = currentUser /\ nextBatchId' = nextBatchId
        /\ issued' = issued /\ orphaned' = orphaned
        /\ Tail(q) \in Seq(Batch) /\ InOrder(Tail(q))
        /\ Tail(remote.pipeline) = SubSeq(Tail(q), 1, Room(q) - 1)
        /\ Room(q) - 1 \in Nat /\ Room(q) - 1 <= Room(Tail(q))
    BY <2>1, AnsweredForm
  <2>3. /\ mutations' \in [Account -> Seq(Batch)] /\ QueuesOK'
        /\ mutations'[currentUser] = Tail(q)
    BY <2>2, QueuesShrink
  <2>4. /\ popped \in RemoteStore /\ popped.pipeline = SubSeq(Tail(q), 1, Room(q) - 1)
        /\ popped.state = "Initial" /\ popped.wire = NoWire /\ popped.idle = FALSE
        /\ popped.asked = "no" /\ popped.tokenOf = NoToken
        /\ popped.handshakeComplete = closed.handshakeComplete
    <3>1. Tail(remote.pipeline) \in Seq(Batch)
      BY <2>1, InvFacts, RemoteFields, HeadTailProperties
    <3> HIDE DEF closed
    <3> QED  BY <1>1, <2>2, <3>1 DEF RemoteStore
  <2> HIDE DEF popped
  <2>5. Phases(popped)
    BY <2>4 DEF Phases, IsStarted
  <2>6. Phases(filled)
    BY <2>2, <2>3, <2>4, <2>5, FillPhases
  <2>7. /\ filled \in RemoteStore /\ filled.pipeline = FirstRows(Tail(q))
        /\ filled.state \in {"Initial", "Starting"} /\ filled.wire = NoWire
        /\ filled.asked \in {"no", "current"} /\ filled.tokenOf = NoToken
    <3>0. /\ filled = FillWritePipeline(popped, Tail(q))
          /\ popped.state = "Open" => popped.wire \in Wire
      BY <2>3, <2>4
    <3> HIDE DEF filled
    <3>1. Filled(popped, Tail(q), filled)
      BY <2>2, <2>4, <3>0, FillForm
    <3> QED  BY <2>4, <3>1 DEF Filled, IsStarted, Ready
  <2> HIDE DEF filled
  <2>8. /\ remote' \in RemoteStore /\ StreamOK(remote') /\ remote'.state # "Open"
        /\ remote'.pipeline = filled.pipeline /\ remote'.wire = NoWire
        /\ remote'.asked # "no" => remote'.asked = filled.asked \/ remote'.asked = "current"
        /\ remote'.tokenOf = filled.tokenOf
    BY <2>1, <2>6, <2>7, NotifyForm
  <2> QED  BY <1>2, <2>2, <2>3, <2>7, <2>8
<1>4. CASE ~ Rejects(error)
  <2>1. /\ remote' = NotifyStreamClose(closed)
        /\ UNCHANGED <<localVars, issued, outcome, told, orphaned>>
    BY <1>4 DEF OnStreamFinish
  <2>2. /\ remote' \in RemoteStore /\ StreamOK(remote')
        /\ remote'.pipeline = closed.pipeline /\ remote'.state # "Open"
        /\ remote'.wire = NoWire
        /\ remote'.asked # "no" => remote'.asked = closed.asked \/ remote'.asked = "current"
        /\ remote'.tokenOf = closed.tokenOf
    BY <1>1, <2>1, NotifyForm
  <2>3. /\ mutations' \in [Account -> Seq(Batch)] /\ QueuesOK'
        /\ callbacks' \in [Account -> SUBSET [batchId : Nat, write : Write]]
        /\ outcome' \in [Write -> {"none", "acknowledged", "rejected"}]
        /\ told' \in [Write -> {"none", "acknowledged", "rejected"}]
    BY <2>1 DEF StreamInv, TypeOK, QueuesOK, localVars
  <2>4. remote.pipeline = FirstRows(mutations'[currentUser'])
    BY <2>1 DEF StreamInv, localVars
  <2> HIDE DEF closed
  <2> QED  BY <1>1, <1>2, <2>1, <2>2, <2>3, <2>4 DEF localVars
<1> QED  BY <1>3, <1>4

LEMMA NoTokens ==
    ASSUME StreamInv, remote.state # "Starting"
    PROVE  ~ HasToken(mainQueue) /\ ~ HasToken(workerQueue)
BY DEF StreamInv, TokensOK

LEMMA NoTokensOK ==
    ASSUME ~ HasToken(mainQueue)', ~ HasToken(workerQueue)'
    PROVE  TokensOK'
BY DEF TokensOK, HasToken, OneToken
-----------------------------------------------------------------------------
(* Every step keeps the invariant.                                          *)

LEMMA WriteLocallyStep ==
    ASSUME StreamInv, WriteLocally
    PROVE  StreamInv'
<1> DEFINE u == currentUser
           q == mutations[u]
           batch == [user |-> u, batchId |-> nextBatchId, write |-> issued + 1]
           new == NextBatches(remote, Append(q, batch))
<1>1. /\ q \in Seq(Batch) /\ InOrder(q) /\ IdsBelow(q, nextBatchId)
      /\ u \in Account /\ remote \in RemoteStore
      /\ remote.pipeline = SubSeq(q, 1, Room(q)) /\ remote.pipeline = FirstRows(q)
      /\ Room(q) \in Nat /\ nextBatchId \in Nat \ {0}
      /\ remote.state = "Open" => remote.wire \in Wire
      /\ mutations \in [Account -> Seq(Batch)]
  BY InvFacts DEF FirstRows, StreamInv, TypeOK
<1>2. batch \in Batch /\ batch.batchId = nextBatchId
  BY <1>1, PipelineConstantsAssumption DEF WriteLocally, Batch, Write, StreamInv, TypeOK
<1>3. /\ mutations' = [mutations EXCEPT ![u] = Append(q, batch)]
      /\ remote' = FillWritePipeline(remote, mutations'[u])
      /\ callbacks' = [callbacks EXCEPT ![u] =
             IF \E k \in @ : k.batchId = batch.batchId THEN @
             ELSE @ \cup {[batchId |-> batch.batchId, write |-> batch.write]}]
      /\ nextBatchId' = nextBatchId + 1 /\ issued' = issued + 1
      /\ UNCHANGED <<authVars, workerQueue, currentUser, lingering, changes, faults,
                     backendVars, outcome, told, orphaned, resent>>
  BY DEF WriteLocally
<1> HIDE DEF batch
<1>4. /\ Append(q, batch) \in Seq(Batch) /\ InOrder(Append(q, batch))
      /\ IdsBelow(Append(q, batch), nextBatchId + 1)
      /\ FirstRows(q) = SubSeq(Append(q, batch), 1, Room(q))
      /\ Room(q) <= Room(Append(q, batch)) /\ Append(q, batch) # << >>
  BY <1>1, <1>2, AppendQueue
<1>5. /\ mutations' \in [Account -> Seq(Batch)] /\ mutations'[u] = Append(q, batch)
      /\ \A v \in Account : v # u => mutations'[v] = mutations[v]
  BY <1>1, <1>3, <1>4
<1>6. QueuesOK'
  <2>1. ASSUME NEW v \in Account
        PROVE  InOrder(mutations'[v]) /\ IdsBelow(mutations'[v], nextBatchId + 1)
    <3>1. CASE v = u
      BY <1>4, <1>5, <3>1
    <3>2. CASE v # u
      <4>1. /\ mutations[v] \in Seq(Batch) /\ InOrder(mutations[v])
            /\ IdsBelow(mutations[v], nextBatchId)
        BY InvFacts
      <4>2. \A i \in DOMAIN mutations[v] : mutations[v][i].batchId \in Nat
        BY <4>1, QueueElements
      <4> QED  BY <1>1, <1>5, <3>2, <4>1, <4>2 DEF IdsBelow
    <3> QED  BY <3>1, <3>2
  <2> QED  BY <1>3, <2>1 DEF QueuesOK
<1>7. /\ Phases(remote') /\ (remote'.pipeline # << >> => IsStarted(remote'))
  BY <1>1, <1>3, <1>4, <1>5, FillPhases DEF StreamInv, StreamOK
<1>8. Filled(remote, Append(q, batch), remote')
  <2>1. remote' = FillWritePipeline(remote, Append(q, batch))
    BY <1>3, <1>5
  <2>2. remote.pipeline = SubSeq(Append(q, batch), 1, Room(q))
    BY <1>1, <1>4
  <2> QED  BY <1>1, <1>4, <2>1, <2>2, FillForm
<1>9. StreamOK(remote')
  BY <1>7, <1>8 DEF Filled, StreamOK, StreamInv, IsStarted
<1>10. WireOK(remote', applied', refused')
  <2>1. CASE Ready(remote)
    <3>1. remote.pipeline \o new = FirstRows(Append(q, batch)) /\ new \in Seq(Batch)
      BY <1>1, <1>4, NextBatchesIs
    <3>2. PICK k \in 0 .. Len(remote.pipeline) : AnsweredUpTo(remote, k, applied, refused)
      BY <2>1 DEF StreamInv, WireOK, Ready
    <3>3. /\ remote'.pipeline = remote.pipeline \o new
          /\ remote'.wire = [remote.wire EXCEPT !.requests = @ \o new]
          /\ remote.wire \in Wire
      BY <1>1, <1>8, <2>1, <3>1 DEF Filled, Ready
    <3> HIDE DEF new
    <3>4. k \in 0 .. Len(remote'.pipeline) /\ AnsweredUpTo(remote', k, applied, refused)
      BY <1>1, <3>1, <3>2, <3>3, AnsweredLonger
    <3> QED  BY <1>3, <1>8, <2>1, <3>4 DEF Filled, WireOK, Ready, backendVars
  <2>2. CASE ~ Ready(remote)
    <3>1. remote'.state = "Open" => remote.state = "Open"
      BY <1>8 DEF Filled, IsStarted
    <3> QED  BY <1>3, <1>8, <2>2, <3>1 DEF Filled, StreamInv, WireOK, Ready, backendVars
  <2> QED  BY <2>1, <2>2
<1>11. TokensOK'
  <2>1. remote.state = "Starting" => remote'.state = "Starting" /\ remote'.asked = remote.asked
    BY <1>8 DEF Filled, IsStarted
  <2> QED  BY <1>3, <2>1 DEF StreamInv, TokensOK, HasToken, OneToken, authVars
<1>12. TypeOK'
  <2>1. callbacks' \in [Account -> SUBSET [batchId : Nat, write : Write]]
    BY <1>1, <1>2, <1>3 DEF StreamInv, TypeOK, Batch
  <2>2. issued' \in Nat /\ nextBatchId' \in Nat
    BY <1>1, <1>3 DEF StreamInv, TypeOK
  <2> QED  BY <1>3, <1>5, <1>8, <2>1, <2>2 DEF Filled, StreamInv, TypeOK, authVars, backendVars
<1>13. nextBatchId' # 0 /\ remote'.pipeline = FirstRows(mutations'[currentUser'])
  BY <1>1, <1>3, <1>5, <1>8 DEF Filled
<1> QED  BY <1>6, <1>9, <1>10, <1>11, <1>12, <1>13 DEF StreamInv

LEMMA HandshakeCompleteStep ==
    ASSUME StreamInv, HandshakeComplete
    PROVE  StreamInv'
<1> DEFINE r == [remote EXCEPT !.wire.responses = Tail(@), !.handshakeComplete = TRUE]
<1>1. /\ remote.wire # NoWire /\ remote.wire.responses # << >>
      /\ Head(remote.wire.responses) = "handshake"
      /\ remote' = WriteMutations(r, r.pipeline)
      /\ UNCHANGED <<authVars, workerQueue, localVars, lingering, changes, faults,
                     backendVars, historyVars>>
  BY DEF HandshakeComplete, NextResponse
<1>2. remote.state = "Open" /\ remote \in RemoteStore /\ remote.wire \in Wire
  BY <1>1, InvFacts DEF StreamInv, StreamOK, Phases
<1>3. /\ Len(remote.wire.responses) \in Nat \ {0}
      /\ remote.wire.responses[1] = "handshake"
  <2>1. remote.wire.responses \in Seq({"handshake", "result"} \cup Error)
    BY <1>2 DEF Wire
  <2> QED  BY <1>1, <2>1, EmptySeq
<1>4. ~ remote.handshakeComplete
  <2>1. ASSUME remote.handshakeComplete PROVE FALSE
    <3>1. PICK k \in 0 .. Len(remote.pipeline) : AnsweredUpTo(remote, k, applied, refused)
      BY <1>2, <2>1 DEF StreamInv, WireOK
    <3>2. CASE k = 0
      <4>1. remote.wire.responses[1] \in Error
        BY <1>3, <3>1, <3>2 DEF AnsweredUpTo
      <4> QED  BY <1>3, <4>1 DEF Error
    <3>3. CASE k # 0
      <4>1. 1 \in 1 .. k
        <5>1. Len(remote.pipeline) \in Nat
          BY <1>2, RemoteFields, LenProperties
        <5> QED  BY <3>3, <5>1
      <4> QED  BY <1>3, <3>1, <4>1 DEF AnsweredUpTo
    <3> QED  BY <3>2, <3>3
  <2> QED  BY <2>1
<1>5. remote.wire.requests = << >> /\ remote.wire.responses = << "handshake" >>
  <2>1. HandshakeUnderWay(remote.wire)
    BY <1>2, <1>4 DEF StreamInv, WireOK
  <2>2. ASSUME NEW error \in Error PROVE << error >>[1] # "handshake"
    BY DEF Error
  <2> QED  BY <1>1, <1>3, <2>1, <2>2 DEF HandshakeUnderWay
<1>6. /\ r \in RemoteStore /\ r.wire \in Wire /\ r.wire.requests = << >>
      /\ r.wire.responses = << >> /\ r.pipeline = remote.pipeline /\ r.state = "Open"
      /\ r.handshakeComplete = TRUE /\ r.idle = remote.idle /\ r.asked = remote.asked
      /\ r.tokenOf = remote.tokenOf
  <2>1. r = [remote EXCEPT !.wire = [remote.wire EXCEPT !.responses = << >>],
                           !.handshakeComplete = TRUE]
    BY <1>2, <1>5 DEF RemoteStore
  <2>2. << >> \in Seq({"handshake", "result"} \cup Error)
    BY EmptySeq
  <2>3. /\ [remote.wire EXCEPT !.responses = << >>] \in Wire
        /\ [remote.wire EXCEPT !.responses = << >>].responses = << >>
        /\ [remote.wire EXCEPT !.responses = << >>].requests = << >>
    BY <1>2, <1>5, <2>2 DEF Wire
  <2> QED  BY <1>2, <2>1, <2>3 DEF RemoteStore
<1> HIDE DEF r
<1>7. r.pipeline \in Seq(Batch) /\ r.pipeline # << >> /\ Ready(r)
  BY <1>2, <1>4, <1>6, RemoteFields DEF StreamInv, StreamOK, Phases, Ready, IsStarted
<1>8. Sent(r, r.pipeline, remote')
  BY <1>1, <1>6, <1>7, WriteMutationsForm
<1>9. /\ remote'.wire.requests = remote'.pipeline /\ remote'.wire.responses = << >>
      /\ remote'.wire \in Wire
  <2>1. << >> \o r.pipeline = r.pipeline
    BY <1>7, ConcatEmptySeq
  <2>2. [r.wire EXCEPT !.requests = @ \o r.pipeline] \in Wire
    BY <1>6, <1>7, Sending
  <2>3. /\ [r.wire EXCEPT !.requests = @ \o r.pipeline].requests = r.pipeline
        /\ [r.wire EXCEPT !.requests = @ \o r.pipeline].responses = << >>
    BY <1>6, <2>1 DEF Wire
  <2> QED  BY <1>7, <1>8, <2>2, <2>3 DEF Sent
<1>10. StreamOK(remote')
  <2>1. remote.pipeline # << >> /\ remote.asked = "no" /\ remote.tokenOf = NoToken
    BY <1>2, <1>6, <1>7 DEF StreamInv, StreamOK, Phases
  <2>2. /\ remote'.state = "Open" /\ remote'.handshakeComplete /\ remote'.wire # NoWire
        /\ remote'.pipeline # << >> /\ remote'.asked = "no" /\ remote'.tokenOf = NoToken
        /\ remote'.idle = FALSE
    BY <1>6, <1>7, <1>8, <1>9, <2>1, StreamConstantsAssumption DEF Sent
  <2> QED  BY <2>2 DEF StreamOK, Phases, IsStarted
<1>11. WireOK(remote', applied', refused')
  <2>1. /\ SubSeq(remote'.pipeline, 0 + 1, Len(remote'.pipeline)) = remote'.pipeline
        /\ Len(remote'.pipeline) \in Nat /\ Len(<< >>) = 0
    BY <1>7, <1>8, SubSeqFull, LenProperties, EmptySeq DEF Sent
  <2>2. AnsweredUpTo(remote', 0, applied', refused')
    BY <1>9, <2>1 DEF AnsweredUpTo
  <2> QED  BY <1>6, <1>8, <2>1, <2>2 DEF Sent, WireOK
<1>12. TokensOK'
  BY <1>1, <1>2, NoTokens DEF TokensOK, HasToken, OneToken, authVars
<1>13. TypeOK' /\ QueuesOK' /\ nextBatchId' # 0
  BY <1>1, <1>8 DEF Sent, StreamInv, TypeOK, QueuesOK, authVars, localVars, backendVars,
                    historyVars
<1>14. remote'.pipeline = FirstRows(mutations'[currentUser'])
  BY <1>1, <1>6, <1>8 DEF Sent, StreamInv, localVars
<1> QED  BY <1>10, <1>11, <1>12, <1>13, <1>14 DEF StreamInv

\* A result is read only after the handshake, and answers the first write.
LEMMA ResultFacts ==
    ASSUME StreamInv, NextResponse("result")
    PROVE  /\ Ready(remote) /\ remote.wire \in Wire /\ remote.wire.responses # << >>
           /\ Head(remote.wire.responses) = "result"
           /\ \E k \in 0 .. Len(remote.pipeline) : AnsweredUpTo(remote, k, applied, refused)
<1>1. /\ remote.wire # NoWire /\ remote.wire.responses # << >>
      /\ Head(remote.wire.responses) = "result"
  BY DEF NextResponse
<1>2. remote.state = "Open" /\ remote.wire \in Wire
  BY <1>1, InvFacts DEF StreamInv, StreamOK, Phases
<1>3. remote.handshakeComplete
  <2>1. ASSUME HandshakeUnderWay(remote.wire) PROVE FALSE
    <3>1. \A error \in Error : Head(<< error >>) # "result"
      BY DEF Error
    <3> QED  BY <1>1, <2>1, <3>1 DEF HandshakeUnderWay
  <2> QED  BY <1>2, <2>1, InvFacts, RemoteFields DEF StreamInv, WireOK
<1> QED  BY <1>1, <1>2, <1>3 DEF Ready, StreamInv, WireOK

LEMMA MutationResultStep ==
    ASSUME StreamInv, MutationResult
    PROVE  StreamInv'
<1> DEFINE q == mutations[currentUser]
           r == [remote EXCEPT !.wire.responses = Tail(@), !.pipeline = Tail(@)]
           new == NextBatches(r, Tail(q))
<1>0. r = [remote EXCEPT !.wire.responses = Tail(@), !.pipeline = Tail(@)]
  OBVIOUS
<1> HIDE DEF r
<1>1. /\ NextResponse("result") /\ Answered("acknowledged")
      /\ remote' = FillWritePipeline(r, mutations'[currentUser])
      /\ UNCHANGED <<authVars, workerQueue, lingering, changes, faults, backendVars, resent>>
  BY <1>0 DEF MutationResult
<1>2. /\ Ready(remote) /\ remote.wire \in Wire /\ remote.wire.responses # << >>
      /\ Head(remote.wire.responses) = "result" /\ remote \in RemoteStore
      /\ currentUser \in Account
  BY <1>1, ResultFacts, InvFacts
<1>3. PICK k \in 0 .. Len(remote.pipeline) : AnsweredUpTo(remote, k, applied, refused)
  BY <1>1, ResultFacts
<1>4. /\ k # 0 /\ remote.pipeline # << >>
      /\ r \in RemoteStore /\ r.wire \in Wire
      /\ k - 1 \in 0 .. Len(r.pipeline) /\ AnsweredUpTo(r, k - 1, applied, refused)
  BY <1>0, <1>2, <1>3, AnsweredOnce
<1>5. /\ q # << >>
      /\ mutations' = [mutations EXCEPT ![currentUser] = Tail(q)]
      /\ callbacks' \in [Account -> SUBSET [batchId : Nat, write : Write]]
      /\ outcome' \in [Write -> {"none", "acknowledged", "rejected"}]
      /\ told' \in [Write -> {"none", "acknowledged", "rejected"}]
      /\ currentUser' = currentUser /\ nextBatchId' = nextBatchId
      /\ issued' = issued /\ orphaned' = orphaned
      /\ Tail(q) \in Seq(Batch) /\ InOrder(Tail(q))
      /\ Tail(remote.pipeline) = SubSeq(Tail(q), 1, Room(q) - 1)
      /\ Room(q) - 1 \in Nat /\ Room(q) - 1 <= Room(Tail(q))
  BY <1>1, <1>4, AnsweredForm
<1>6. /\ mutations' \in [Account -> Seq(Batch)] /\ QueuesOK'
      /\ mutations'[currentUser] = Tail(q)
  BY <1>5, QueuesShrink
<1>7. /\ r.pipeline = SubSeq(Tail(q), 1, Room(q) - 1) /\ r.state = "Open" /\ Ready(r)
      /\ r.idle = FALSE /\ r.asked = "no" /\ r.tokenOf = NoToken
  <2>1. /\ r.pipeline = Tail(remote.pipeline) /\ r.state = remote.state
        /\ r.handshakeComplete = remote.handshakeComplete /\ r.idle = remote.idle
        /\ r.asked = remote.asked /\ r.tokenOf = remote.tokenOf
    BY <1>0, <1>2 DEF RemoteStore
  <2> QED  BY <1>2, <1>4, <1>5, <2>1, RemoteFields DEF Ready, StreamInv, StreamOK, Phases
<1>8. Phases(r)
  BY <1>4, <1>7, StreamConstantsAssumption DEF Phases
<1>9. remote' = FillWritePipeline(r, Tail(q))
  BY <1>1, <1>6
<1>10. Phases(remote') /\ (remote'.pipeline # << >> => IsStarted(remote'))
  BY <1>4, <1>5, <1>7, <1>8, <1>9, FillPhases
<1>11. Filled(r, Tail(q), remote')
  BY <1>4, <1>5, <1>7, <1>9, FillForm
<1>12. StreamOK(remote')
  BY <1>7, <1>10, <1>11 DEF StreamOK, Filled, Ready, IsStarted
<1>13. WireOK(remote', applied', refused')
  <2>1. r.pipeline \o new = FirstRows(Tail(q)) /\ new \in Seq(Batch)
    BY <1>4, <1>5, <1>7, NextBatchesIs
  <2>2. /\ remote'.pipeline = r.pipeline \o new
        /\ remote'.wire = [r.wire EXCEPT !.requests = @ \o new]
    BY <1>7, <1>11, <2>1 DEF Filled
  <2> HIDE DEF new
  <2>3. k - 1 \in 0 .. Len(remote'.pipeline) /\ AnsweredUpTo(remote', k - 1, applied, refused)
    BY <1>4, <2>1, <2>2, AnsweredLonger
  <2> QED  BY <1>1, <1>7, <1>11, <2>3 DEF WireOK, Filled, Ready, backendVars
<1>14. TokensOK'
  <2>1. ~ HasToken(mainQueue) /\ ~ HasToken(workerQueue)
    BY <1>2, NoTokens DEF Ready
  <2> QED  BY <1>1, <2>1 DEF TokensOK, HasToken, OneToken, authVars
<1>15. TypeOK'
  BY <1>1, <1>5, <1>6, <1>11 DEF StreamInv, TypeOK, Filled, authVars, backendVars
<1>16. nextBatchId' # 0 /\ remote'.pipeline = FirstRows(mutations'[currentUser'])
  BY <1>5, <1>6, <1>11 DEF StreamInv, Filled
<1> QED  BY <1>6, <1>12, <1>13, <1>14, <1>15, <1>16 DEF StreamInv

\* A stream that is closed on an error, no token being under way.
LEMMA FinishStep ==
    ASSUME StreamInv, NEW error \in Error, OnStreamFinish(error),
           authUser' = authUser, changes' = changes, faults' \in Nat,
           mainQueue' \in Seq(Message), workerQueue' \in Seq(Message),
           ~ HasToken(mainQueue)', ~ HasToken(workerQueue)',
           applied' = applied, refused' = refused, resent' \in SUBSET Write
    PROVE  StreamInv'
<1>1. /\ remote' \in RemoteStore /\ StreamOK(remote') /\ remote'.state # "Open"
      /\ remote'.pipeline = FirstRows(mutations'[currentUser'])
      /\ currentUser' = currentUser /\ nextBatchId' = nextBatchId
      /\ mutations' \in [Account -> Seq(Batch)] /\ QueuesOK'
      /\ callbacks' \in [Account -> SUBSET [batchId : Nat, write : Write]]
      /\ outcome' \in [Write -> {"none", "acknowledged", "rejected"}]
      /\ told' \in [Write -> {"none", "acknowledged", "rejected"}]
      /\ issued' = issued /\ orphaned' = orphaned
      /\ lingering' \in Seq(GivenUpStream)
  BY FinishForm
<1>2. WireOK(remote', applied', refused')
  BY <1>1 DEF WireOK
<1>3. TokensOK'
  BY NoTokensOK
<1>4. TypeOK' /\ nextBatchId' # 0
  BY <1>1 DEF StreamInv, TypeOK
<1> QED  BY <1>1, <1>2, <1>3, <1>4 DEF StreamInv

LEMMA FaultType ==
    ASSUME StreamInv, Fault
    PROVE  faults' \in Nat
BY DEF Fault, StreamInv, TypeOK

LEMMA StreamEndsStep ==
    ASSUME StreamInv, NEW error \in Error, StreamEnds(error)
    PROVE  StreamInv'
<1>1. /\ remote.wire # NoWire /\ OnStreamFinish(error)
      /\ UNCHANGED <<authVars, workerQueue, changes, faults, backendVars, resent>>
  BY DEF StreamEnds, NextResponse
<1>2. ~ HasToken(mainQueue) /\ ~ HasToken(workerQueue)
  BY <1>1, NoTokens DEF StreamInv, StreamOK, Phases
<1> QED  BY <1>1, <1>2, FinishStep
            DEF HasToken, StreamInv, TypeOK, authVars, backendVars

LEMMA ConnectionBreaksStep ==
    ASSUME StreamInv, ConnectionBreaks
    PROVE  StreamInv'
<1>1. /\ remote.wire # NoWire /\ Fault /\ OnStreamFinish("transient")
      /\ resent' = resent \cup InFlight(remote)
      /\ UNCHANGED <<authVars, workerQueue, changes, backendVars>>
  BY DEF ConnectionBreaks
<1>2. ~ HasToken(mainQueue) /\ ~ HasToken(workerQueue)
  BY <1>1, NoTokens DEF StreamInv, StreamOK, Phases
<1>3. resent' \in SUBSET Write /\ "transient" \in Error
  BY <1>1, InFlightType DEF StreamInv, TypeOK, Error
<1> QED  BY <1>1, <1>2, <1>3, FaultType, FinishStep
            DEF HasToken, StreamInv, TypeOK, authVars, backendVars

LEMMA IdleTimeoutStep ==
    ASSUME StreamInv, IdleTimeout
    PROVE  StreamInv'
<1> DEFINE closed == Close(remote, "Initial")
<1>1. /\ remote.idle /\ remote' = NotifyStreamClose(closed)
      /\ lingering' = lingering \o GivenUp(remote)
      /\ resent' = resent \cup InFlight(remote)
      /\ UNCHANGED <<authVars, workerQueue, localVars, changes, faults, backendVars,
                     issued, outcome, told, orphaned>>
  BY DEF IdleTimeout
<1>2. /\ closed \in RemoteStore /\ Phases(closed)
      /\ closed.pipeline = remote.pipeline /\ closed.state = "Initial"
  BY InvFacts, CloseForm
<1>3. /\ remote' \in RemoteStore /\ StreamOK(remote')
      /\ remote'.pipeline = closed.pipeline /\ remote'.state # "Open"
  BY <1>1, <1>2, NotifyForm
<1> HIDE DEF closed
<1>4. ~ HasToken(mainQueue) /\ ~ HasToken(workerQueue)
  BY <1>1, NoTokens DEF StreamInv, StreamOK, Phases
<1>5. TokensOK'
  BY <1>1, <1>4, NoTokensOK DEF HasToken, authVars
<1>6. /\ lingering' \in Seq(GivenUpStream)
      /\ resent' \in SUBSET Write
  BY <1>1, GivenUpType, InFlightType DEF StreamInv, TypeOK
<1>7. TypeOK' /\ QueuesOK' /\ nextBatchId' # 0
  BY <1>1, <1>3, <1>6 DEF StreamInv, TypeOK, QueuesOK, authVars, localVars, backendVars
<1>8. remote'.pipeline = FirstRows(mutations'[currentUser'])
  BY <1>1, <1>2, <1>3 DEF StreamInv, localVars
<1>9. WireOK(remote', applied', refused')
  BY <1>3 DEF WireOK
<1> QED  BY <1>3, <1>5, <1>7, <1>8, <1>9 DEF StreamInv

LEMMA BackoffElapsesStep ==
    ASSUME StreamInv, BackoffElapses
    PROVE  StreamInv'
<1>1. /\ remote.state = "Backoff" /\ remote' = Start([remote EXCEPT !.state = "Initial"])
      /\ UNCHANGED <<authVars, workerQueue, localVars, lingering, changes, faults,
                     backendVars, historyVars>>
  BY DEF BackoffElapses
<1>2. remote \in RemoteStore
  BY InvFacts
<1>3. remote' = [remote EXCEPT !.state = "Starting", !.asked = "current"]
  BY <1>1, <1>2 DEF Start, RemoteStore
<1>4. /\ remote' \in RemoteStore /\ remote'.state = "Starting"
      /\ remote'.pipeline = remote.pipeline /\ remote'.idle = remote.idle
      /\ remote'.wire = remote.wire /\ remote'.tokenOf = remote.tokenOf
      /\ remote'.handshakeComplete = remote.handshakeComplete /\ remote'.asked = "current"
  BY <1>2, <1>3 DEF RemoteStore
<1>5. StreamOK(remote')
  BY <1>1, <1>4 DEF StreamInv, StreamOK, Phases, IsStarted, Ready
<1>6. TokensOK' /\ WireOK(remote', applied', refused')
  <2>1. ~ HasToken(mainQueue) /\ ~ HasToken(workerQueue)
    BY <1>1, NoTokens
  <2> QED  BY <1>1, <1>4, <2>1, NoTokensOK DEF HasToken, WireOK, authVars
<1>7. TypeOK' /\ QueuesOK' /\ nextBatchId' # 0
  BY <1>1, <1>4 DEF StreamInv, TypeOK, QueuesOK, authVars, localVars, backendVars,
                    historyVars
<1>8. remote'.pipeline = FirstRows(mutations'[currentUser'])
  BY <1>1, <1>4 DEF StreamInv, localVars
<1> QED  BY <1>5, <1>6, <1>7, <1>8 DEF StreamInv

\* The streams are restarted, and no token is under way any more.
LEMMA RestartsStep ==
    ASSUME StreamInv, NEW u \in Account, Restarts(mutations[u]), currentUser' = u,
           mutations' = mutations, nextBatchId' \in Nat \ {0},
           \A v \in Account : IdsBelow(mutations[v], nextBatchId'),
           authUser' \in Account, changes' = changes, faults' \in Nat,
           mainQueue' \in Seq(Message), workerQueue' \in Seq(Message),
           ~ HasToken(mainQueue)', ~ HasToken(workerQueue)',
           callbacks' \in [Account -> SUBSET [batchId : Nat, write : Write]],
           orphaned' \in SUBSET Write,
           UNCHANGED <<applied, refused, issued, outcome, told>>
    PROVE  StreamInv'
<1>1. mutations[u] \in Seq(Batch) /\ InOrder(mutations[u])
  BY InvFacts
<1>2. /\ remote' \in RemoteStore /\ StreamOK(remote')
      /\ remote'.pipeline = FirstRows(mutations[u]) /\ remote'.state # "Open"
      /\ lingering' \in Seq(GivenUpStream)
      /\ resent' \in SUBSET Write
  BY <1>1, RestartsForm
<1>3. QueuesOK'
  BY InvFacts DEF QueuesOK
<1>4. TypeOK' /\ nextBatchId' # 0
  BY <1>2 DEF StreamInv, TypeOK
<1>5. TokensOK' /\ WireOK(remote', applied', refused')
  BY <1>2, NoTokensOK DEF WireOK
<1> QED  BY <1>2, <1>3, <1>4, <1>5 DEF StreamInv

LEMMA NextIdAfresh ==
    ASSUME StreamInv
    PROVE  /\ MaxBatchId(mutations) + 1 \in Nat \ {0}
           /\ \A v \in Account : IdsBelow(mutations[v], MaxBatchId(mutations) + 1)
<1>1. /\ mutations \in [Account -> Seq(Batch)] /\ nextBatchId \in Nat
      /\ \A v \in Account : IdsBelow(mutations[v], nextBatchId)
  BY InvFacts DEF StreamInv, TypeOK
<1>2. /\ MaxBatchId(mutations) \in Nat
      /\ \A v \in Account : IdsBelow(mutations[v], MaxBatchId(mutations) + 1)
  BY <1>1, MaxBatchIdForm
<1> QED  BY <1>2

LEMMA ConnectivityChangesStep ==
    ASSUME StreamInv, ConnectivityChanges
    PROVE  StreamInv'
<1>1. /\ Fault /\ Restarts(mutations[currentUser])
      /\ mainQueue' = IgnoringToken(mainQueue)
      /\ workerQueue' = IgnoringToken(workerQueue)
      /\ UNCHANGED <<authUser, localVars, changes, backendVars, issued, outcome, told,
                     orphaned>>
  BY DEF ConnectivityChanges
<1>2. /\ mainQueue' \in Seq(Message) /\ workerQueue' \in Seq(Message)
      /\ ~ HasToken(mainQueue') /\ ~ HasToken(workerQueue')
  BY <1>1, InvFacts, IgnoringForm
<1>3. ~ HasToken(mainQueue)' /\ ~ HasToken(workerQueue)'
  BY <1>2 DEF HasToken
<1>4. currentUser \in Account /\ nextBatchId \in Nat \ {0} /\ authUser \in Account
  BY InvFacts
<1>5. \A v \in Account : IdsBelow(mutations[v], nextBatchId)
  BY InvFacts
<1> QED  BY <1>1, <1>2, <1>3, <1>4, <1>5, FaultType, RestartsStep
            DEF StreamInv, TypeOK, localVars, backendVars

LEMMA RelaunchStep ==
    ASSUME StreamInv, Relaunch
    PROVE  StreamInv'
<1>1. /\ Fault /\ currentUser' = authUser /\ mainQueue' = << >> /\ workerQueue' = << >>
      /\ nextBatchId' = MaxBatchId(mutations) + 1
      /\ callbacks' = [u \in Account |-> {}]
      /\ orphaned' = orphaned \cup {k.write : k \in UNION {callbacks[u] : u \in Account}}
      /\ Restarts(mutations[authUser])
      /\ UNCHANGED <<authUser, mutations, changes, backendVars, issued, outcome, told>>
  BY DEF Relaunch
<1>2. << >> \in Seq(Message) /\ ~ HasToken(<< >>)
  BY EmptySeq DEF HasToken
<1>3. ~ HasToken(mainQueue)' /\ ~ HasToken(workerQueue)'
  BY <1>1, <1>2 DEF HasToken
<1>4. /\ nextBatchId' \in Nat \ {0}
      /\ \A v \in Account : IdsBelow(mutations[v], nextBatchId')
  BY <1>1, NextIdAfresh
<1>5. orphaned' \in SUBSET Write
  BY <1>1 DEF StreamInv, TypeOK
<1>6. authUser \in Account
  BY InvFacts
<1> QED  BY <1>1, <1>2, <1>3, <1>4, <1>5, <1>6, FaultType, RestartsStep
            DEF backendVars

LEMMA HandleCredentialChangeStep ==
    ASSUME StreamInv, HandleCredentialChange
    PROVE  StreamInv'
<1> DEFINE u == Head(workerQueue).user
<1>1. /\ workerQueue # << >> /\ Head(workerQueue).kind = "account" /\ currentUser' = u
      /\ nextBatchId' = IF u = currentUser THEN nextBatchId ELSE MaxBatchId(mutations) + 1
      /\ Restarts(mutations[u])
      /\ mainQueue' = IgnoringToken(mainQueue)
      /\ workerQueue' = IgnoringToken(Tail(workerQueue))
      /\ UNCHANGED <<authUser, mutations, callbacks, changes, faults, backendVars, issued,
                     outcome, told, orphaned>>
  BY DEF HandleCredentialChange
<1>2. u \in Account /\ Tail(workerQueue) \in Seq(Message)
  BY <1>1, InvFacts, TailMessage, MessageTypes
<1>3. /\ mainQueue' \in Seq(Message) /\ workerQueue' \in Seq(Message)
      /\ ~ HasToken(mainQueue') /\ ~ HasToken(workerQueue')
  BY <1>1, <1>2, InvFacts, IgnoringForm
<1>4. ~ HasToken(mainQueue)' /\ ~ HasToken(workerQueue)'
  BY <1>3 DEF HasToken
<1>5. /\ nextBatchId' \in Nat \ {0}
      /\ \A v \in Account : IdsBelow(mutations[v], nextBatchId')
  <2>1. CASE u = currentUser
    BY <1>1, <2>1, InvFacts
  <2>2. CASE u # currentUser
    BY <1>1, <2>2, NextIdAfresh
  <2> QED  BY <2>1, <2>2
<1> HIDE DEF u
<1> QED  BY <1>1, <1>2, <1>3, <1>4, <1>5, RestartsStep DEF StreamInv, TypeOK, backendVars

\* A step of Auth, or on the way between the queues: of the RemoteStore it
\* changes at most what is under way of a token.
LEMMA HandOverStep ==
    ASSUME StreamInv,
           NEW asked \in {"no", "current", "outdated"}, NEW tokenOf \in Account \cup {NoToken},
           remote' = [remote EXCEPT !.asked = asked, !.tokenOf = tokenOf],
           asked # "no" => remote.state = "Starting",
           tokenOf # NoToken => asked # "no",
           authUser' \in Account, changes' \in Nat, faults' \in Nat,
           mainQueue' \in Seq(Message), workerQueue' \in Seq(Message), TokensOK',
           UNCHANGED <<localVars, lingering, backendVars, historyVars>>
    PROVE  StreamInv'
<1>1. remote \in RemoteStore
  BY InvFacts
<1>2. /\ remote' \in RemoteStore
      /\ remote'.pipeline = remote.pipeline /\ remote'.state = remote.state
      /\ remote'.handshakeComplete = remote.handshakeComplete
      /\ remote'.idle = remote.idle /\ remote'.wire = remote.wire
      /\ remote'.asked = asked /\ remote'.tokenOf = tokenOf
  BY <1>1 DEF RemoteStore
<1>3. StreamOK(remote')
  BY <1>2 DEF StreamInv, StreamOK, Phases, IsStarted, Ready
<1>4. WireOK(remote', applied', refused')
  <2>1. \A k : AnsweredUpTo(remote, k, applied, refused) =>
               AnsweredUpTo(remote', k, applied, refused)
    BY <1>2 DEF AnsweredUpTo
  <2> QED  BY <1>2, <2>1 DEF StreamInv, WireOK, backendVars
<1>5. TypeOK' /\ QueuesOK' /\ nextBatchId' # 0
  BY <1>2 DEF StreamInv, TypeOK, QueuesOK, localVars, backendVars, historyVars
<1>6. remote'.pipeline = FirstRows(mutations'[currentUser'])
  BY <1>2 DEF StreamInv, localVars
<1> QED  BY <1>3, <1>4, <1>5, <1>6 DEF StreamInv

\* The same, if nothing of the RemoteStore changes.
LEMMA MessageStep ==
    ASSUME StreamInv, remote' = remote,
           authUser' \in Account, changes' \in Nat, faults' \in Nat,
           mainQueue' \in Seq(Message), workerQueue' \in Seq(Message), TokensOK',
           UNCHANGED <<localVars, lingering, backendVars, historyVars>>
    PROVE  StreamInv'
<1>1. remote' = [remote EXCEPT !.asked = remote.asked, !.tokenOf = remote.tokenOf]
  BY InvFacts DEF RemoteStore
<1>2. /\ remote.asked \in {"no", "current", "outdated"}
      /\ remote.tokenOf \in Account \cup {NoToken}
      /\ remote.asked # "no" => remote.state = "Starting"
      /\ remote.tokenOf # NoToken => remote.asked # "no"
  BY InvFacts, RemoteFields DEF StreamInv, StreamOK, Phases
<1> QED  BY <1>1, <1>2, HandOverStep

LEMMA AuthStateChangesStep ==
    ASSUME StreamInv, NEW u \in Account, AuthStateChanges(u)
    PROVE  StreamInv'
<1>1. /\ changes' = changes + 1 /\ authUser' = u
      /\ mainQueue' = Append(mainQueue, AccountChanged(u))
      /\ UNCHANGED <<workerQueue, localVars, remote, lingering, faults, backendVars,
                     historyVars>>
  BY DEF AuthStateChanges
<1>2. /\ mainQueue' \in Seq(Message)
      /\ HasToken(mainQueue') <=> HasToken(mainQueue)
      /\ OneToken(mainQueue) => OneToken(mainQueue')
  BY <1>1, InvFacts, MessageTypes, AppendMessage
<1>3. TokensOK'
  BY <1>1, <1>2 DEF StreamInv, TokensOK, HasToken, OneToken
<1>4. authUser' \in Account /\ changes' \in Nat /\ faults' \in Nat
  BY <1>1 DEF StreamInv, TypeOK
<1>5. workerQueue' \in Seq(Message)
  BY <1>1 DEF StreamInv, TypeOK
<1> QED  BY <1>1, <1>2, <1>3, <1>4, <1>5, MessageStep

LEMMA TakeUpTokenStep ==
    ASSUME StreamInv, TakeUpToken
    PROVE  StreamInv'
<1>1. /\ remote.asked # "no" /\ remote' = [remote EXCEPT !.tokenOf = authUser]
      /\ UNCHANGED <<authVars, workerQueue, localVars, lingering, changes, faults,
                     backendVars, historyVars>>
  BY DEF TakeUpToken
<1>2. remote' = [remote EXCEPT !.asked = remote.asked, !.tokenOf = authUser]
  BY <1>1, InvFacts DEF RemoteStore
<1>3. /\ remote.asked \in {"no", "current", "outdated"} /\ remote.state = "Starting"
      /\ authUser \in Account
  BY <1>1, InvFacts, RemoteFields DEF StreamInv, StreamOK, Phases
<1>4. TokensOK'
  <2>1. ~ HasToken(mainQueue) /\ ~ HasToken(workerQueue)
    BY <1>1 DEF StreamInv, TokensOK
  <2> QED  BY <1>1, <2>1, NoTokensOK DEF HasToken, authVars
<1> QED  BY <1>1, <1>2, <1>3, <1>4, HandOverStep DEF StreamInv, TypeOK, authVars

LEMMA AnswersTokenStep ==
    ASSUME StreamInv, NEW token \in Account \cup {NoToken}, AnswersToken(token),
           faults' \in Nat
    PROVE  StreamInv'
<1> DEFINE message == TokenReady(token, remote.asked = "current")
<1>1. /\ remote.tokenOf # NoToken /\ mainQueue' = Append(mainQueue, message)
      /\ remote' = [remote EXCEPT !.asked = "no", !.tokenOf = NoToken]
      /\ UNCHANGED <<authUser, workerQueue, localVars, lingering, changes, backendVars,
                     historyVars>>
  BY DEF AnswersToken
<1>2. remote.asked # "no" /\ remote.state = "Starting" /\ remote \in RemoteStore
  BY <1>1, InvFacts DEF StreamInv, StreamOK, Phases
<1>3. ~ HasToken(mainQueue) /\ ~ HasToken(workerQueue) /\ OneToken(mainQueue)
  BY <1>2 DEF StreamInv, TokensOK
<1>4. message \in Message /\ message.kind = "token"
  BY MessageTypes
<1> HIDE DEF message
<1>5. mainQueue' \in Seq(Message) /\ OneToken(mainQueue')
  BY <1>1, <1>3, <1>4, InvFacts, AppendMessage
<1>6. remote'.asked = "no" /\ remote'.state = "Starting"
  BY <1>1, <1>2 DEF RemoteStore
<1>7. TokensOK'
  BY <1>1, <1>3, <1>5, <1>6 DEF TokensOK, HasToken, OneToken
<1> QED  BY <1>1, <1>5, <1>7, HandOverStep DEF StreamInv, TypeOK

LEMMA NotifyAccountStep ==
    ASSUME StreamInv, NotifyAccount
    PROVE  StreamInv'
<1> DEFINE asked == IF remote.asked = "no" THEN "no" ELSE "outdated"
<1>1. /\ mainQueue # << >> /\ Head(mainQueue).kind = "account"
      /\ mainQueue' = Outdated(Tail(mainQueue))
      /\ workerQueue' = Append(workerQueue, Head(mainQueue))
      /\ remote' = [remote EXCEPT !.asked = asked]
      /\ UNCHANGED <<authUser, localVars, lingering, changes, faults, backendVars,
                     historyVars>>
  BY InvFacts DEF NotifyAccount, RemoteStore
<1>2. /\ asked \in {"no", "current", "outdated"} /\ (asked # "no" <=> remote.asked # "no")
      /\ remote.tokenOf \in Account \cup {NoToken}
      /\ asked # "no" => remote.state = "Starting"
      /\ remote.tokenOf # NoToken => asked # "no"
  BY InvFacts, RemoteFields DEF StreamInv, StreamOK, Phases
<1> HIDE DEF asked
<1>3. remote' = [remote EXCEPT !.asked = asked, !.tokenOf = remote.tokenOf]
  BY <1>1, InvFacts DEF RemoteStore
<1>4. /\ Head(mainQueue) \in Message /\ Tail(mainQueue) \in Seq(Message)
      /\ HasToken(Tail(mainQueue)) => HasToken(mainQueue)
      /\ OneToken(mainQueue) => OneToken(Tail(mainQueue))
  BY <1>1, InvFacts, TailMessage
<1>5. /\ mainQueue' \in Seq(Message)
      /\ HasToken(mainQueue') => HasToken(mainQueue)
      /\ OneToken(mainQueue) => OneToken(mainQueue')
  BY <1>1, <1>4, OutdatedForm
<1>6. /\ workerQueue' \in Seq(Message)
      /\ HasToken(workerQueue') => HasToken(workerQueue)
      /\ OneToken(workerQueue) => OneToken(workerQueue')
  BY <1>1, <1>4, InvFacts, AppendMessage
<1>7. remote'.asked = asked /\ remote'.state = remote.state
  BY <1>1, InvFacts DEF RemoteStore
<1>8. TokensOK'
  BY <1>2, <1>5, <1>6, <1>7 DEF StreamInv, TokensOK, HasToken, OneToken
<1> QED  BY <1>1, <1>2, <1>3, <1>5, <1>6, <1>8, HandOverStep DEF StreamInv, TypeOK

LEMMA PassTokenStep ==
    ASSUME StreamInv, PassToken
    PROVE  StreamInv'
<1>1. /\ mainQueue # << >> /\ Head(mainQueue).kind = "token"
      /\ mainQueue' = Tail(mainQueue)
      /\ UNCHANGED <<authUser, localVars, lingering, changes, faults, backendVars,
                     historyVars>>
  BY DEF PassToken
<1>2. /\ Head(mainQueue) \in Message /\ mainQueue' \in Seq(Message)
      /\ HasToken(mainQueue) /\ OneToken(mainQueue') /\ ~ HasToken(mainQueue')
  BY <1>1, InvFacts, TailMessage DEF StreamInv, TokensOK
<1>3. /\ remote.asked = "no" /\ remote.state = "Starting" /\ ~ HasToken(workerQueue)
      /\ OneToken(workerQueue)
  BY <1>2 DEF StreamInv, TokensOK
<1>4. CASE Head(mainQueue).current
  <2>1. workerQueue' = Append(workerQueue, Head(mainQueue)) /\ remote' = remote
    BY <1>4 DEF PassToken
  <2>2. workerQueue' \in Seq(Message) /\ OneToken(workerQueue')
    BY <1>2, <1>3, <2>1, InvFacts, AppendMessage
  <2>3. TokensOK'
    BY <1>2, <1>3, <2>1, <2>2 DEF TokensOK, HasToken, OneToken
  <2> QED  BY <1>1, <1>2, <2>1, <2>2, <2>3, MessageStep DEF StreamInv, TypeOK
<1>5. CASE ~ Head(mainQueue).current
  <2>1. workerQueue' = workerQueue /\ remote' = [remote EXCEPT !.asked = "current"]
    BY <1>5 DEF PassToken
  <2>2. remote' = [remote EXCEPT !.asked = "current", !.tokenOf = remote.tokenOf]
    BY <2>1, InvFacts DEF RemoteStore
  <2>3. TokensOK'
    BY <1>2, <1>3, <2>1, NoTokensOK DEF HasToken
  <2>4. remote.tokenOf \in Account \cup {NoToken}
    BY InvFacts, RemoteFields
  <2> QED  BY <1>1, <1>2, <1>3, <2>1, <2>2, <2>3, <2>4, HandOverStep DEF StreamInv, TypeOK
<1> QED  BY <1>4, <1>5

LEMMA IgnoreTokenStep ==
    ASSUME StreamInv, IgnoreToken
    PROVE  StreamInv'
<1>1. UNCHANGED <<authUser, localVars, remote, lingering, changes, faults, backendVars,
                  historyVars>>
  BY DEF IgnoreToken
<1>2. /\ mainQueue' \in Seq(Message) /\ workerQueue' \in Seq(Message)
      /\ HasToken(mainQueue') => HasToken(mainQueue)
      /\ HasToken(workerQueue') => HasToken(workerQueue)
      /\ OneToken(mainQueue') /\ OneToken(workerQueue')
  <2>1. CASE mainQueue # << >> /\ mainQueue' = Tail(mainQueue) /\ workerQueue' = workerQueue
    BY <2>1, InvFacts, TailMessage DEF StreamInv, TokensOK
  <2>2. CASE workerQueue # << >> /\ workerQueue' = Tail(workerQueue) /\ mainQueue' = mainQueue
    BY <2>2, InvFacts, TailMessage DEF StreamInv, TokensOK
  <2> QED  BY <2>1, <2>2 DEF IgnoreToken
<1>3. TokensOK'
  BY <1>1, <1>2 DEF StreamInv, TokensOK, HasToken, OneToken
<1> QED  BY <1>1, <1>2, <1>3, MessageStep DEF StreamInv, TypeOK

LEMMA OpenStreamStep ==
    ASSUME StreamInv, OpenStream
    PROVE  StreamInv'
<1> DEFINE token == Head(workerQueue).user
           wire == [token |-> token, requests |-> << Handshake >>, responses |-> << >>]
<1>1. /\ workerQueue # << >> /\ Head(workerQueue).kind = "token"
      /\ workerQueue' = Tail(workerQueue)
      /\ UNCHANGED <<authVars, changes, faults, backendVars, resent>>
  BY DEF OpenStream
<1>2. /\ Head(workerQueue) \in Message /\ workerQueue' \in Seq(Message)
      /\ HasToken(workerQueue) /\ ~ HasToken(workerQueue') /\ OneToken(workerQueue')
      /\ token \in Account \cup {NoToken}
  BY <1>1, InvFacts, TailMessage, MessageTypes DEF StreamInv, TokensOK
<1>3. remote.asked = "no" /\ remote.state = "Starting" /\ ~ HasToken(mainQueue)
  BY <1>2 DEF StreamInv, TokensOK
<1>4. ~ HasToken(mainQueue)' /\ ~ HasToken(workerQueue)'
  BY <1>1, <1>2, <1>3 DEF HasToken, authVars
<1>5. CASE token = NoToken
  <2>1. OnStreamFinish("transient") /\ "transient" \in Error
    BY <1>5 DEF OpenStream, Error
  <2> QED  BY <1>1, <1>2, <1>4, <2>1, FinishStep
              DEF StreamInv, TypeOK, authVars, backendVars
<1>6. CASE token # NoToken
  <2>1. /\ remote' = [remote EXCEPT !.state = "Open", !.wire = wire]
        /\ UNCHANGED <<localVars, lingering, issued, outcome, told, orphaned>>
    BY <1>6 DEF OpenStream
  <2>2. wire \in Wire
    <3>1. /\ << Handshake >> \in Seq(Batch \cup {Handshake})
          /\ << >> \in Seq({"handshake", "result"} \cup Error)
      BY EmptySeq
    <3> QED  BY <1>2, <1>6, <3>1 DEF Wire
  <2>3. wire.requests = << Handshake >> /\ wire.responses = << >>
    OBVIOUS
  <2> HIDE DEF wire
  <2>4. /\ remote' \in RemoteStore /\ remote'.state = "Open" /\ remote'.wire = wire
        /\ remote'.pipeline = remote.pipeline /\ remote'.idle = remote.idle
        /\ remote'.asked = "no" /\ remote'.tokenOf = remote.tokenOf
        /\ remote'.handshakeComplete = remote.handshakeComplete
    BY <1>3, <2>1, <2>2, InvFacts DEF RemoteStore
  <2>5. /\ remote.pipeline # << >> /\ remote.idle = FALSE /\ remote.tokenOf = NoToken
        /\ remote.handshakeComplete = FALSE
    BY <1>3, InvFacts, RemoteFields DEF StreamInv, StreamOK, Phases, IsStarted, Ready
  <2>6. StreamOK(remote')
    BY <2>2, <2>4, <2>5, StreamConstantsAssumption DEF StreamOK, Phases, IsStarted
  <2>7. WireOK(remote', applied', refused')
    BY <2>3, <2>4, <2>5 DEF WireOK, HandshakeUnderWay
  <2>8. TypeOK' /\ QueuesOK' /\ nextBatchId' # 0
    BY <1>1, <1>2, <2>1, <2>4 DEF StreamInv, TypeOK, QueuesOK, authVars, localVars,
                                  backendVars
  <2>9. remote'.pipeline = FirstRows(mutations'[currentUser'])
    BY <2>1, <2>4 DEF StreamInv, localVars
  <2> QED  BY <1>4, <2>6, <2>7, <2>8, <2>9, NoTokensOK DEF StreamInv
<1> QED  BY <1>5, <1>6

\* A stream that has not ended, on which something is requested.
LEMMA RequestFacts ==
    ASSUME StreamInv, NextRequest
    PROVE  /\ remote.state = "Open" /\ remote.wire \in Wire
           /\ Len(remote.wire.responses) \in Nat
           /\ ~ remote.handshakeComplete =>
                 remote.wire.requests = << Handshake >> /\ remote.wire.responses = << >>
           /\ remote.handshakeComplete =>
                 \E k \in 0 .. Len(remote.pipeline) :
                    /\ AnsweredUpTo(remote, k, applied, refused)
                    /\ Len(remote.wire.responses) = k
                    /\ remote.wire.requests =
                           SubSeq(remote.pipeline, k + 1, Len(remote.pipeline))
                    /\ k < Len(remote.pipeline)
                    /\ Head(remote.wire.requests) = remote.pipeline[k + 1]
                    /\ remote.pipeline[k + 1] \in Batch
<1>1. /\ remote.wire # NoWire /\ remote.wire.requests # << >>
      /\ \A i \in DOMAIN remote.wire.responses : remote.wire.responses[i] \notin Error
  BY DEF NextRequest
<1>2. remote.state = "Open" /\ remote.wire \in Wire
  BY <1>1, InvFacts DEF StreamInv, StreamOK, Phases
<1>3. /\ Len(remote.wire.responses) \in Nat
      /\ DOMAIN remote.wire.responses = 1 .. Len(remote.wire.responses)
  BY <1>2, LenProperties DEF Wire
<1>4. ASSUME ~ remote.handshakeComplete
      PROVE  remote.wire.requests = << Handshake >> /\ remote.wire.responses = << >>
  BY <1>1, <1>2, <1>4 DEF StreamInv, WireOK, HandshakeUnderWay
<1>5. ASSUME remote.handshakeComplete
      PROVE  \E k \in 0 .. Len(remote.pipeline) :
                /\ AnsweredUpTo(remote, k, applied, refused)
                /\ Len(remote.wire.responses) = k
                /\ remote.wire.requests =
                       SubSeq(remote.pipeline, k + 1, Len(remote.pipeline))
                /\ k < Len(remote.pipeline)
                /\ Head(remote.wire.requests) = remote.pipeline[k + 1]
                /\ remote.pipeline[k + 1] \in Batch
  <2>1. PICK k \in 0 .. Len(remote.pipeline) : AnsweredUpTo(remote, k, applied, refused)
    BY <1>2, <1>5 DEF StreamInv, WireOK
  <2>2. /\ remote.pipeline \in Seq(Batch) /\ Len(remote.pipeline) \in Nat
        /\ DOMAIN remote.pipeline = 1 .. Len(remote.pipeline)
    BY InvFacts, RemoteFields, LenProperties
  <2>3. k \in Nat /\ (Len(remote.wire.responses) = k + 1 => k + 1 \in DOMAIN remote.wire.responses)
    BY <1>3, <2>2
  <2>4. /\ Len(remote.wire.responses) = k
        /\ remote.wire.requests = SubSeq(remote.pipeline, k + 1, Len(remote.pipeline))
    BY <1>1, <2>1, <2>3 DEF AnsweredUpTo
  <2>5. /\ SubSeq(remote.pipeline, k + 1, Len(remote.pipeline)) \in Seq(Batch)
        /\ Len(SubSeq(remote.pipeline, k + 1, Len(remote.pipeline))) = Len(remote.pipeline) - k
        /\ \A i \in 1 .. Len(remote.pipeline) - k :
              SubSeq(remote.pipeline, k + 1, Len(remote.pipeline))[i] = remote.pipeline[k + i]
    BY <2>2, RestOf
  <2>6. k < Len(remote.pipeline)
    <3>1. Len(remote.wire.requests) # 0
      BY <1>1, <2>4, <2>5, EmptySeq
    <3> QED  BY <2>2, <2>4, <2>5, <3>1
  <2>7. 1 \in 1 .. Len(remote.pipeline) - k /\ k + 1 \in 1 .. Len(remote.pipeline)
    BY <2>2, <2>6
  <2>8. Head(remote.wire.requests) = remote.pipeline[k + 1]
    BY <1>1, <2>4, <2>5, <2>7, HeadTailProperties
  <2>9. remote.pipeline[k + 1] \in Batch
    BY <2>2, <2>7, ElementOfSeq
  <2> QED  BY <2>1, <2>4, <2>6, <2>8, <2>9
<1> QED  BY <1>2, <1>3, <1>4, <1>5

\* The backend answers: the pipeline and the phase of the stream stay.
LEMMA BackendStep ==
    ASSUME StreamInv, NextRequest, NEW wire \in Wire,
           remote' = [remote EXCEPT !.wire = wire],
           applied' \in Seq(Write), refused' \in SUBSET Write, faults' \in Nat,
           UNCHANGED <<authVars, workerQueue, localVars, lingering, changes, historyVars>>,
           WireOK(remote', applied', refused')
    PROVE  StreamInv'
<1>1. remote \in RemoteStore /\ remote.state = "Open" /\ remote.wire # NoWire
  BY InvFacts, RequestFacts DEF NextRequest
<1>2. /\ remote' \in RemoteStore /\ remote'.wire = wire
      /\ remote'.pipeline = remote.pipeline /\ remote'.state = remote.state
      /\ remote'.handshakeComplete = remote.handshakeComplete
      /\ remote'.idle = remote.idle /\ remote'.asked = remote.asked
      /\ remote'.tokenOf = remote.tokenOf
  BY <1>1 DEF RemoteStore
<1>3. StreamOK(remote')
  BY <1>1, <1>2, StreamConstantsAssumption
     DEF StreamInv, StreamOK, Phases, IsStarted, Ready
<1>4. TokensOK'
  BY <1>2 DEF StreamInv, TokensOK, HasToken, OneToken, authVars
<1>5. TypeOK' /\ QueuesOK' /\ nextBatchId' # 0
  BY <1>2 DEF StreamInv, TypeOK, QueuesOK, authVars, localVars, historyVars
<1>6. remote'.pipeline = FirstRows(mutations'[currentUser'])
  BY <1>2 DEF StreamInv, localVars
<1> QED  BY <1>3, <1>4, <1>5, <1>6 DEF StreamInv

LEMMA ServeStep ==
    ASSUME StreamInv, Serve
    PROVE  StreamInv'
<1> DEFINE request == Head(remote.wire.requests)
           response == IF request = Handshake THEN "handshake" ELSE "result"
           wire == [remote.wire EXCEPT !.requests = Tail(@), !.responses = Append(@, response)]
<1>1. /\ NextRequest
      /\ applied' = IF request = Handshake THEN applied ELSE Append(applied, request.write)
      /\ UNCHANGED <<authVars, workerQueue, localVars, lingering, changes, faults, refused,
                     historyVars>>
  BY DEF Serve
<1>2. /\ remote.state = "Open" /\ remote.wire \in Wire /\ remote \in RemoteStore
      /\ remote.wire.requests # << >> /\ Len(remote.wire.responses) \in Nat
  BY <1>1, InvFacts, RequestFacts DEF NextRequest
<1>3. remote' = [remote EXCEPT !.wire = wire]
  BY <1>2 DEF Serve, RemoteStore
<1>4. /\ remote.wire.requests \in Seq(Batch \cup {Handshake})
      /\ remote.wire.responses \in Seq({"handshake", "result"} \cup Error)
      /\ response \in {"handshake", "result"} \cup Error
  BY <1>2 DEF Wire
<1>5. /\ Tail(remote.wire.requests) \in Seq(Batch \cup {Handshake})
      /\ Append(remote.wire.responses, response) \in Seq({"handshake", "result"} \cup Error)
  BY <1>2, <1>4, HeadTailProperties, AppendProperties
<1>6. /\ wire \in Wire /\ wire.requests = Tail(remote.wire.requests)
      /\ wire.responses = Append(remote.wire.responses, response)
  <2> HIDE DEF response
  <2> QED  BY <1>2, <1>5 DEF Wire
<1>7. /\ remote'.wire = wire /\ remote'.pipeline = remote.pipeline
      /\ remote'.state = remote.state /\ remote'.handshakeComplete = remote.handshakeComplete
  BY <1>2, <1>3 DEF RemoteStore
<1> HIDE DEF wire
<1>8. CASE ~ remote.handshakeComplete
  <2>1. remote.wire.requests = << Handshake >> /\ remote.wire.responses = << >>
    BY <1>1, <1>8, RequestFacts
  <2>2. request = Handshake
    BY <2>1
  <2>3. wire.requests = << >> /\ wire.responses = << "handshake" >>
    BY <1>6, <2>1, <2>2
  <2>4. WireOK(remote', applied', refused')
    BY <1>7, <1>8, <2>3 DEF WireOK, HandshakeUnderWay
  <2> QED  BY <1>1, <1>3, <1>6, <2>2, <2>4, BackendStep DEF StreamInv, TypeOK
<1>9. CASE remote.handshakeComplete
  <2>1. PICK k \in 0 .. Len(remote.pipeline) :
               /\ AnsweredUpTo(remote, k, applied, refused)
               /\ Len(remote.wire.responses) = k
               /\ remote.wire.requests =
                      SubSeq(remote.pipeline, k + 1, Len(remote.pipeline))
               /\ k < Len(remote.pipeline)
               /\ request = remote.pipeline[k + 1]
               /\ remote.pipeline[k + 1] \in Batch
    BY <1>1, <1>9, RequestFacts
  <2>2. request \in Batch /\ request # Handshake /\ response = "result"
        /\ request.write \in Write
    BY <2>1, StreamConstantsAssumption DEF Batch
  <2> HIDE DEF request, response
  <2>3. /\ remote.pipeline \in Seq(Batch) /\ Len(remote.pipeline) \in Nat
        /\ applied \in Seq(Write) /\ Len(applied) \in Nat
        /\ DOMAIN applied = 1 .. Len(applied) /\ k \in Nat
    BY <1>2, RemoteFields, LenProperties DEF StreamInv, TypeOK
  <2>4. /\ applied' = Append(applied, request.write) /\ applied' \in Seq(Write)
        /\ DOMAIN applied' = 1 .. Len(applied) + 1
        /\ \A j \in DOMAIN applied : applied'[j] = applied[j]
        /\ applied'[Len(applied) + 1] = request.write
        /\ Len(applied) + 1 \in DOMAIN applied' /\ DOMAIN applied \subseteq DOMAIN applied'
    BY <1>1, <2>2, <2>3, AppendProperties
  <2>5. AnsweredUpTo(remote, k, applied', refused)
    BY <2>1, <2>4, AnsweredMore
  <2>6. /\ Len(wire.responses) = k + 1
        /\ \A i \in 1 .. k : wire.responses[i] = remote.wire.responses[i]
        /\ wire.responses[k + 1] = "result"
    BY <1>4, <1>6, <2>1, <2>2, AppendProperties
  <2>7. wire.requests = SubSeq(remote.pipeline, k + 1 + 1, Len(remote.pipeline))
    <3>1. wire.requests = Tail(SubSeq(remote.pipeline, k + 1, Len(remote.pipeline)))
      BY <1>6, <2>1
    <3> QED  BY <2>1, <2>3, <3>1, TailRest
  <2>8. AnsweredUpTo(remote', k + 1, applied', refused')
    <3>1. \A i \in 1 .. k :
             /\ wire.responses[i] = "result"
             /\ \E j \in DOMAIN applied' : applied'[j] = remote.pipeline[i].write
      BY <2>5, <2>6 DEF AnsweredUpTo
    <3>2. \A i \in 1 .. k + 1 :
             /\ wire.responses[i] = "result"
             /\ \E j \in DOMAIN applied' : applied'[j] = remote.pipeline[i].write
      <4>1. \A i \in 1 .. k + 1 : i \in 1 .. k \/ i = k + 1
        BY <2>3
      <4>2. \E j \in DOMAIN applied' : applied'[j] = remote.pipeline[k + 1].write
        BY <2>1, <2>4
      <4> QED  BY <2>6, <3>1, <4>1, <4>2
    <3>3. /\ remote'.wire.responses = wire.responses
          /\ remote'.pipeline = remote.pipeline /\ remote'.wire.requests = wire.requests
      BY <1>7
    <3> QED  BY <2>6, <2>7, <3>2, <3>3, AnsweredIntro
  <2>9. k + 1 \in 0 .. Len(remote'.pipeline)
    BY <1>7, <2>1, <2>3
  <2>10. WireOK(remote', applied', refused')
    BY <1>7, <1>9, <2>8, <2>9 DEF WireOK
  <2> QED  BY <1>1, <1>3, <1>6, <2>4, <2>10, BackendStep DEF StreamInv, TypeOK
<1> QED  BY <1>8, <1>9

LEMMA RefuseStep ==
    ASSUME StreamInv, NEW error \in Error, Refuse(error)
    PROVE  StreamInv'
<1> DEFINE request == Head(remote.wire.requests)
           wire == [remote.wire EXCEPT !.requests = << >>, !.responses = Append(@, error)]
<1>1. /\ NextRequest /\ faults' \in Nat
      /\ refused' = IF error = "permanent" /\ request # Handshake
                    THEN refused \cup {request.write} ELSE refused
      /\ UNCHANGED <<authVars, workerQueue, localVars, lingering, changes, applied,
                     historyVars>>
  BY FaultType DEF Refuse, StreamInv, TypeOK
<1>2. /\ remote.state = "Open" /\ remote.wire \in Wire /\ remote \in RemoteStore
      /\ remote.wire.requests # << >> /\ Len(remote.wire.responses) \in Nat
  BY <1>1, InvFacts, RequestFacts DEF NextRequest
<1>3. remote' = [remote EXCEPT !.wire = wire]
  BY <1>2 DEF Refuse, RemoteStore
<1>4. remote.wire.responses \in Seq({"handshake", "result"} \cup Error)
  BY <1>2 DEF Wire
<1>5. Append(remote.wire.responses, error) \in Seq({"handshake", "result"} \cup Error)
  BY <1>4, AppendProperties
<1>6. /\ wire \in Wire /\ wire.requests = << >>
      /\ wire.responses = Append(remote.wire.responses, error)
  <2>1. << >> \in Seq(Batch \cup {Handshake})
    BY EmptySeq
  <2> QED  BY <1>2, <1>5, <2>1 DEF Wire
<1>7. /\ remote'.wire = wire /\ remote'.pipeline = remote.pipeline
      /\ remote'.state = remote.state /\ remote'.handshakeComplete = remote.handshakeComplete
  BY <1>2, <1>3 DEF RemoteStore
<1> HIDE DEF wire
<1>8. CASE ~ remote.handshakeComplete
  <2>1. remote.wire.requests = << Handshake >> /\ remote.wire.responses = << >>
    BY <1>1, <1>8, RequestFacts
  <2>2. request = Handshake
    BY <2>1
  <2>3. wire.requests = << >> /\ wire.responses = << error >>
    BY <1>6, <2>1
  <2>4. WireOK(remote', applied', refused')
    BY <1>7, <1>8, <2>3 DEF WireOK, HandshakeUnderWay
  <2> QED  BY <1>1, <1>3, <1>6, <2>2, <2>4, BackendStep DEF StreamInv, TypeOK
<1>9. CASE remote.handshakeComplete
  <2>1. PICK k \in 0 .. Len(remote.pipeline) :
               /\ AnsweredUpTo(remote, k, applied, refused)
               /\ Len(remote.wire.responses) = k
               /\ k < Len(remote.pipeline)
               /\ request = remote.pipeline[k + 1]
               /\ remote.pipeline[k + 1] \in Batch
    BY <1>1, <1>9, RequestFacts
  <2>2. request \in Batch /\ request # Handshake /\ request.write \in Write
    BY <2>1, StreamConstantsAssumption DEF Batch
  <2>3. refused' \in SUBSET Write /\ refused \subseteq refused'
        /\ (error = "permanent" => request.write \in refused')
    BY <1>1, <2>2 DEF StreamInv, TypeOK
  <2>4. AnsweredUpTo(remote, k, applied, refused')
    BY <2>1, <2>3, AnsweredMore
  <2>5. /\ Len(wire.responses) = k + 1
        /\ \A i \in 1 .. k : wire.responses[i] = remote.wire.responses[i]
        /\ wire.responses[k + 1] = error
    BY <1>4, <1>6, <2>1, AppendProperties
  <2>6. wire.requests \in Seq(Batch)
    BY <1>6, EmptySeq
  <2> HIDE DEF request
  <2>7. AnsweredUpTo(remote', k, applied', refused')
    <3>1. applied' = applied
      BY <1>1
    <3>2. \A i \in 1 .. k :
             /\ remote'.wire.responses[i] = "result"
             /\ \E j \in DOMAIN applied' : applied'[j] = remote'.pipeline[i].write
      BY <1>7, <2>4, <2>5, <3>1 DEF AnsweredUpTo
    <3>3. /\ Len(remote'.wire.responses) = k + 1 /\ remote'.wire.requests \in Seq(Batch)
          /\ remote'.wire.responses[k + 1] \in Error
      BY <1>7, <2>5, <2>6
    <3>4. remote'.wire.responses[k + 1] = "permanent" =>
             k < Len(remote'.pipeline) /\ remote'.pipeline[k + 1].write \in refused'
      BY <1>7, <2>1, <2>3, <2>5
    <3> QED  BY <3>2, <3>3, <3>4, AnsweredIntro
  <2>8. WireOK(remote', applied', refused')
    BY <1>7, <1>9, <2>7 DEF WireOK
  <2>9. applied' \in Seq(Write)
    BY <1>1 DEF StreamInv, TypeOK
  <2> QED  BY <1>1, <1>3, <1>6, <2>3, <2>8, <2>9, BackendStep
<1> QED  BY <1>8, <1>9

LEMMA ServeLateStep ==
    ASSUME StreamInv, NEW k \in DOMAIN lingering, ServeLate(k)
    PROVE  StreamInv'
<1> DEFINE write == Head(lingering[k].requests).write
<1>1. /\ applied' = Append(applied, write)
      /\ lingering' = IF Tail(lingering[k].requests) = << >> THEN RemoveAt(lingering, k)
                      ELSE [lingering EXCEPT ![k].requests = Tail(@)]
      /\ UNCHANGED <<authVars, workerQueue, localVars, remote, changes, faults, refused,
                     historyVars>>
  BY DEF ServeLate
<1>2. /\ lingering \in Seq(GivenUpStream) /\ Len(lingering) \in Nat
      /\ DOMAIN lingering = 1 .. Len(lingering) /\ lingering[k] \in GivenUpStream
  BY InvFacts, LenProperties, ElementOfSeq
<1>3. /\ lingering[k].requests \in Seq(Batch) /\ lingering[k].requests # << >>
      /\ lingering[k].token \in Account
  BY <1>2 DEF GivenUpStream
<1>4. /\ write \in Write /\ Tail(lingering[k].requests) \in Seq(Batch)
  <2>1. Head(lingering[k].requests) \in Batch /\ Tail(lingering[k].requests) \in Seq(Batch)
    BY <1>3, HeadTailProperties
  <2> QED  BY <2>1 DEF Batch
<1> HIDE DEF write
<1>5. lingering' \in Seq(GivenUpStream)
  <2>1. CASE Tail(lingering[k].requests) = << >>
    <3>1. RemoveAt(lingering, k) \in Seq(GivenUpStream)
      BY <1>2, RemoveAtType
    <3> QED  BY <1>1, <2>1, <3>1
  <2>2. CASE Tail(lingering[k].requests) # << >>
    <3>1. [lingering[k] EXCEPT !.requests = Tail(@)] \in GivenUpStream
      BY <1>2, <1>4, <2>2 DEF GivenUpStream
    <3>2. lingering' = [lingering EXCEPT ![k] = [lingering[k] EXCEPT !.requests = Tail(@)]]
      BY <1>1, <2>2
    <3> QED  BY <1>2, <3>1, <3>2, ExceptSeq
  <2> QED  BY <2>1, <2>2
<1>6. /\ applied' \in Seq(Write) /\ DOMAIN applied \subseteq DOMAIN applied'
      /\ \A j \in DOMAIN applied : applied'[j] = applied[j]
  <2>1. applied \in Seq(Write) /\ Len(applied) \in Nat /\ DOMAIN applied = 1 .. Len(applied)
    BY LenProperties DEF StreamInv, TypeOK
  <2> QED  BY <1>1, <1>4, <2>1, AppendProperties
<1>7. WireOK(remote', applied', refused')
  <2>1. \A n \in 0 .. Len(remote.pipeline) : AnsweredUpTo(remote, n, applied, refused) =>
               AnsweredUpTo(remote, n, applied', refused)
    BY <1>6, AnsweredMore
  <2> QED  BY <1>1, <2>1 DEF StreamInv, WireOK
<1>8. TokensOK'
  BY <1>1 DEF StreamInv, TokensOK, HasToken, OneToken, authVars
<1>9. TypeOK' /\ QueuesOK' /\ nextBatchId' # 0
  BY <1>1, <1>5, <1>6 DEF StreamInv, TypeOK, QueuesOK, authVars, localVars, historyVars
<1>10. remote'.pipeline = FirstRows(mutations'[currentUser']) /\ StreamOK(remote')
  BY <1>1 DEF StreamInv, localVars
<1> QED  BY <1>7, <1>8, <1>9, <1>10 DEF StreamInv
-----------------------------------------------------------------------------
LEMMA InitInv ==
    ASSUME Init
    PROVE  StreamInv
<1>1. /\ << >> \in Seq(Batch) /\ << >> \in Seq(Message) /\ << >> \in Seq(Write)
      /\ << >> \in Seq(GivenUpStream) /\ Len(<< >>) = 0 /\ DOMAIN << >> = {}
  BY EmptySeq, LenProperties
<1>2. Stopped \in RemoteStore /\ Phases(Stopped)
  BY StoppedForm
<1>3. /\ Stopped.pipeline = << >> /\ Stopped.state = "Initial"
      /\ Stopped.handshakeComplete = FALSE
  BY DEF Stopped
<1>4. FirstAccount \in Account
  BY PipelineConstantsAssumption
<1>5. TypeOK
  <2>1. /\ mutations \in [Account -> Seq(Batch)]
        /\ callbacks \in [Account -> SUBSET [batchId : Nat, write : Write]]
    BY <1>1 DEF Init
  <2>2. /\ outcome \in [Write -> {"none", "acknowledged", "rejected"}]
        /\ told \in [Write -> {"none", "acknowledged", "rejected"}]
    BY DEF Init
  <2> QED  BY <1>1, <1>2, <1>4, <2>1, <2>2 DEF Init, TypeOK
<1>6. QueuesOK
  BY <1>1 DEF Init, QueuesOK, InOrder, IdsBelow
<1>7. remote.pipeline = FirstRows(mutations[currentUser])
  <2>1. mutations[currentUser] = << >>
    BY <1>4 DEF Init
  <2>2. Room(<< >>) = 0
    BY <1>1, PipelineConstantsAssumption DEF Room
  <2>3. SubSeq(<< >>, 1, 0) = << >>
    BY SubSeqEmpty
  <2> QED  BY <1>3, <2>1, <2>2, <2>3 DEF Init, FirstRows
<1>8. StreamOK(remote) /\ WireOK(remote, applied, refused)
  BY <1>2, <1>3 DEF Init, StreamOK, WireOK
<1>9. TokensOK
  BY <1>1 DEF Init, TokensOK, HasToken, OneToken
<1>10. nextBatchId # 0
  BY DEF Init
<1> QED  BY <1>5, <1>6, <1>7, <1>8, <1>9, <1>10 DEF StreamInv

LEMMA StutterStep ==
    ASSUME StreamInv, UNCHANGED vars
    PROVE  StreamInv'
<1>1. /\ UNCHANGED <<authVars, workerQueue, localVars, remote, lingering, changes, faults,
                     backendVars, historyVars>>
  BY DEF vars, authVars, localVars, backendVars, historyVars
<1>2. TokensOK'
  BY <1>1 DEF StreamInv, TokensOK, HasToken, OneToken, authVars
<1> QED  BY <1>1, <1>2, MessageStep DEF StreamInv, TypeOK, authVars

LEMMA NextStep ==
    ASSUME StreamInv, [Next]_vars
    PROVE  StreamInv'
<1>1. CASE Client
  <2>1. CASE TokenArrives
    BY <2>1, InvFacts, RemoteFields, AnswersTokenStep DEF TokenArrives, StreamInv, TypeOK
  <2> QED  BY <1>1, <2>1, HandshakeCompleteStep, MutationResultStep, StreamEndsStep,
              BackoffElapsesStep, TakeUpTokenStep, NotifyAccountStep, PassTokenStep,
              IgnoreTokenStep, OpenStreamStep, HandleCredentialChangeStep
           DEF Client
<1>2. CASE TokenFails
  BY <1>2, FaultType, AnswersTokenStep DEF TokenFails
<1>3. CASE UNCHANGED vars
  BY <1>3, StutterStep
<1> QED  BY <1>1, <1>2, <1>3, WriteLocallyStep, ConnectionBreaksStep, IdleTimeoutStep,
            ConnectivityChangesStep, RelaunchStep, AuthStateChangesStep, ServeStep,
            RefuseStep, ServeLateStep
         DEF Next

\* The invariant holds throughout; what follows are its consequences.
THEOREM StreamInvariant == Spec => []StreamInv
<1>1. Init => StreamInv
  BY InitInv
<1>2. StreamInv /\ [Next]_vars => StreamInv'
  BY NextStep
<1> QED  BY <1>1, <1>2, PTL DEF Spec

\* Every variable of the client, of Auth and of the backend keeps its type; in
\* particular there is a write behind whatever is answered.
THEOREM PipelineTypes == Spec => []TypeOK
<1>1. StreamInv => TypeOK
  BY DEF StreamInv
<1> QED  BY <1>1, StreamInvariant, PTL

\* The assertions of Stream and of RemoteStore hold: no token, no write and no
\* idle timer meets a stream in a state it is not meant for.
THEOREM StreamAssertions == Spec => []AssertionsHold
<1>1. ASSUME StreamInv PROVE AssertionsHold
  <2>1. \A i \in DOMAIN workerQueue : workerQueue[i].kind = "token" => remote.state = "Starting"
    BY <1>1 DEF StreamInv, TokensOK, HasToken
  <2> QED  BY <1>1, <2>1 DEF AssertionsHold, StreamInv, StreamOK, Phases
<1> QED  BY <1>1, StreamInvariant, PTL

\* The pipeline is the head of the mutation queue of the account in use, however
\* many writes are made, answered, refused or sent again.
THEOREM PipelineFollowsQueue == Spec => []PipelineIsHead
<1>1. StreamInv => PipelineIsHead
  BY DEF StreamInv, PipelineIsHead, FirstRows, Room
<1> QED  BY <1>1, StreamInvariant, PTL

\* Every response is put down to the write the backend gave it for, although it
\* names none: WriteStream and RemoteStore count in step with the backend.
THEOREM ResponsesAttributed == Spec => []ResponsesMatch
<1>1. ASSUME StreamInv PROVE ResponsesMatch
  <2> SUFFICES ASSUME Ready(remote) PROVE ResponsesMatch
    BY DEF ResponsesMatch
  <2> DEFINE responses == remote.wire.responses
             ended == responses # << >> /\ Last(responses) \in Error
             k == IF ended THEN Len(responses) - 1 ELSE Len(responses)
  <2>1. PICK n \in 0 .. Len(remote.pipeline) : AnsweredUpTo(remote, n, applied, refused)
    BY <1>1 DEF StreamInv, WireOK, Ready
  <2>2. /\ remote.wire \in Wire /\ remote.pipeline \in Seq(Batch)
        /\ Len(remote.pipeline) \in Nat /\ n \in Nat
        /\ applied \in Seq(Write) /\ DOMAIN applied = 1 .. Len(applied)
    BY <1>1, InvFacts, RemoteFields, LenProperties DEF Ready, StreamInv, TypeOK
  <2>3. /\ responses \in Seq({"handshake", "result"} \cup Error) /\ Len(responses) \in Nat
        /\ responses # << >> => Len(responses) # 0 /\ Last(responses) = responses[Len(responses)]
        /\ Len(responses) # 0 => responses # << >>
    <3>1. responses \in Seq({"handshake", "result"} \cup Error)
      BY <2>2 DEF Wire
    <3> HIDE DEF responses
    <3> QED  BY <3>1, LenProperties, EmptySeq DEF Last
  <2>4. \A i \in 1 .. n : remote.pipeline[i].write \in ToSet(applied)
    BY <2>1, <2>2 DEF AnsweredUpTo, ToSet
  <2>5. k = n /\ (ended <=> Len(responses) = n + 1)
    <3>1. CASE Len(responses) = n
      <4>1. n # 0 => responses[n] = "result"
        BY <2>1, <2>2 DEF AnsweredUpTo
      <4>2. ~ ended
        <5> HIDE DEF responses
        <5> QED  BY <2>3, <3>1, <4>1 DEF Error
      <4> HIDE DEF responses, ended
      <4> QED  BY <2>2, <3>1, <4>2
    <3>2. CASE Len(responses) = n + 1
      <4>1. responses[n + 1] \in Error
        BY <2>1, <2>2, <3>2 DEF AnsweredUpTo
      <4>2. ended
        <5> HIDE DEF responses
        <5> QED  BY <2>2, <2>3, <3>2, <4>1
      <4> HIDE DEF responses, ended
      <4> QED  BY <2>2, <3>2, <4>2
    <3> QED  BY <2>1, <3>1, <3>2 DEF AnsweredUpTo
  <2>6. ASSUME ~ ended
        PROVE  SubSeq(remote.pipeline, k + 1, Len(remote.pipeline)) = remote.wire.requests
    <3> HIDE DEF ended
    <3> QED  BY <2>1, <2>5, <2>6 DEF AnsweredUpTo
  <2>7. ASSUME ended, Last(responses) = "permanent"
        PROVE  k < Len(remote.pipeline) /\ remote.pipeline[k + 1].write \in refused
    <3>1. responses[n + 1] = "permanent"
      BY <2>3, <2>5, <2>7
    <3> HIDE DEF ended
    <3> QED  BY <2>1, <2>2, <2>5, <2>7, <3>1 DEF AnsweredUpTo
  <2>8. \A i \in 1 .. k : /\ responses[i] = "result"
                          /\ remote.pipeline[i].write \in ToSet(applied)
    <3> HIDE DEF ended
    <3> QED  BY <2>1, <2>4, <2>5 DEF AnsweredUpTo
  <2>9. k <= Len(remote.pipeline)
    BY <2>2, <2>5
  <2> HIDE DEF responses, ended, k
  <2> QED  BY <2>6, <2>7, <2>8, <2>9 DEF ResponsesMatch, responses, ended, k
<1> QED  BY <1>1, StreamInvariant, PTL
=============================================================================
