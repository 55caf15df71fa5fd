------------------------- MODULE WritePipelineLemmas -------------------------
(***************************************************************************)
(* The inductive invariant of the local store, the pipeline and the stream *)
(* of WritePipeline, and lemmas about the operators the client is built    *)
(* from, for any size of the pipeline.  WritePipelineStream proves the     *)
(* invariant, and the modules after it what follows.                       *)
(***************************************************************************)
EXTENDS WritePipeline, SequenceTheorems, FiniteSetTheorems, WellFoundedInduction, TLAPS

-----------------------------------------------------------------------------
(* The inductive invariant.                                                 *)

\* The phases of the stream: it is under way exactly as long as something is
\* to be sent, and a token is wanted only while it is starting.
Phases(r) ==
    /\ r.wire # NoWire <=> r.state = "Open"
    /\ IsStarted(r) /\ ~Ready(r) => r.pipeline # << >>
    /\ r.idle => r.pipeline = << >> /\ r.state = "Open"
    /\ r.asked # "no" => r.state = "Starting"
    /\ r.tokenOf # NoToken => r.asked # "no"

StreamOK(r) ==
    /\ Phases(r)
    /\ r.handshakeComplete => r.state = "Open"
    /\ r.pipeline # << >> => IsStarted(r)

\* What is on the wire before the answer to the handshake has been read.
HandshakeUnderWay(wire) ==
    \/ wire.requests = << Handshake >> /\ wire.responses = << >>
    \/ wire.requests = << >> /\ wire.responses = << "handshake" >>
    \/ wire.requests = << >> /\ \E error \in Error : wire.responses = << error >>

\* The first k writes of the pipeline are answered: the backend has applied
\* them.  The others are still to come, or the stream has ended.
AnsweredUpTo(r, k, ap, rf) ==
    LET responses == r.wire.responses
        rest == SubSeq(r.pipeline, k + 1, Len(r.pipeline))
    IN  /\ \A i \in 1 .. k : /\ responses[i] = "result"
                             /\ \E j \in DOMAIN ap : ap[j] = r.pipeline[i].write
        /\ \/ /\ Len(responses) = k
              /\ r.wire.requests = rest
           \/ /\ Len(responses) = k + 1
              /\ r.wire.requests \in Seq(Batch)
              /\ responses[k + 1] \in Error
              /\ responses[k + 1] = "permanent" =>
                    k < Len(r.pipeline) /\ r.pipeline[k + 1].write \in rf

WireOK(r, ap, rf) ==
    r.state = "Open" =>
        IF r.handshakeComplete
        THEN \E k \in 0 .. Len(r.pipeline) : AnsweredUpTo(r, k, ap, rf)
        ELSE HandshakeUnderWay(r.wire)

\* At most one token request or token is under way, and only for a stream that
\* is starting.
HasToken(messages) == \E i \in DOMAIN messages : messages[i].kind = "token"

OneToken(messages) ==
    \A i, j \in DOMAIN messages :
        messages[i].kind = "token" /\ messages[j].kind = "token" => i = j

TokensOK ==
    /\ OneToken(mainQueue)
    /\ OneToken(workerQueue)
    /\ ~ (HasToken(mainQueue) /\ HasToken(workerQueue))
    /\ HasToken(mainQueue) \/ HasToken(workerQueue) =>
          remote.asked = "no" /\ remote.state = "Starting"

\* Every queue is in the order of its ids, which are smaller than the next one.
InOrder(q) == \A i, j \in DOMAIN q : i < j => q[i].batchId < q[j].batchId

IdsBelow(q, n) == \A i \in DOMAIN q : q[i].batchId < n

QueuesOK ==
    \A u \in Account : InOrder(mutations[u]) /\ IdsBelow(mutations[u], nextBatchId)

\* How many rows of q the pipeline has room for.
Room(q) == IF Len(q) < kMaxPendingWrites THEN Len(q) ELSE kMaxPendingWrites

FirstRows(q) == SubSeq(q, 1, Room(q))

StreamInv ==
    /\ TypeOK
    /\ nextBatchId # 0
    /\ QueuesOK
    /\ remote.pipeline = FirstRows(mutations[currentUser])
    /\ StreamOK(remote)
    /\ WireOK(remote, applied, refused)
    /\ TokensOK
-----------------------------------------------------------------------------
(* Sequences and the queues.                                                *)

LEMMA MaxExists ==
    ASSUME NEW S \in SUBSET Nat, NEW x \in S, NEW n \in Nat, \A i \in S : i <= n
    PROVE  \E k \in S : \A i \in S : i <= k
<1> DEFINE bound == {k \in Nat : \A i \in S : i <= k}
           T == {0 .. k : k \in bound}
           R == StrictSubsetOrdering(Nat)
<1>1. T \subseteq FiniteSubsetsOf(Nat)
  <2>1. ASSUME NEW k \in bound PROVE 0 .. k \in FiniteSubsetsOf(Nat)
    <3>1. IsFiniteSet(0 .. k)
      BY FS_Interval
    <3> QED  BY <3>1 DEF FiniteSubsetsOf
  <2> QED  BY <2>1
<1>2. T # {}
  BY n \in bound
<1>3. IsWellFoundedOn(R, FiniteSubsetsOf(Nat))
  BY FS_StrictSubsetOrderingWellFounded
<1>4. PICK s \in T : \A t \in T : ~ (<<t, s>> \in R)
  <2> HIDE DEF T, R
  <2> QED  BY <1>1, <1>2, <1>3, WFMin
<1>5. PICK k \in bound : s = 0 .. k
  OBVIOUS
<1>6. \A j \in bound : k <= j
  <2> SUFFICES ASSUME NEW j \in bound, j < k PROVE FALSE
    OBVIOUS
  <2>1. 0 .. j \subseteq 0 .. k /\ 0 .. j # 0 .. k /\ 0 .. j \in SUBSET Nat /\ 0 .. k \in SUBSET Nat
    <3>1. k \in 0 .. k /\ k \notin 0 .. j
      OBVIOUS
    <3> QED  BY <3>1
  <2>2. <<0 .. j, 0 .. k>> \in R
    BY <2>1 DEF StrictSubsetOrdering
  <2> QED  BY <1>4, <1>5, <2>2
<1>7. k \in S
  <2> SUFFICES ASSUME k \notin S PROVE FALSE
    OBVIOUS
  <2>1. k # 0
    BY x <= k
  <2>2. k - 1 \in bound
    BY <2>1
  <2> QED  BY <1>6, <2>2
<1> QED  BY <1>7

\* Parts of a sequence of any elements.
LEMMA PartType ==
    ASSUME NEW S, NEW s \in Seq(S), NEW m \in Nat \ {0}, NEW n \in 0 .. Len(s)
    PROVE  /\ SubSeq(s, m, n) \in Seq(S)
           /\ Len(SubSeq(s, m, n)) = IF m <= n THEN n - m + 1 ELSE 0
           /\ \A i \in 1 .. n - m + 1 : SubSeq(s, m, n)[i] = s[m + i - 1]
<1>1. \A i \in m .. n : s[i] \in S
  BY ElementOfSeq
<1> QED  BY <1>1, SubSeqProperties

LEMMA RestOf ==
    ASSUME NEW S, NEW s \in Seq(S), NEW k \in 0 .. Len(s)
    PROVE  /\ SubSeq(s, k + 1, Len(s)) \in Seq(S)
           /\ Len(SubSeq(s, k + 1, Len(s))) = Len(s) - k
           /\ \A i \in 1 .. Len(s) - k : SubSeq(s, k + 1, Len(s))[i] = s[k + i]
<1>1. Len(s) \in Nat
  BY LenProperties
<1>2. k + 1 \in Nat \ {0} /\ Len(s) \in 0 .. Len(s)
  BY <1>1
<1>3. /\ Len(s) - (k + 1) + 1 = Len(s) - k
      /\ ~ (k + 1 <= Len(s)) => Len(s) - k = 0
      /\ \A i \in 1 .. Len(s) - k : k + 1 + i - 1 = k + i
  BY <1>1
<1>4. /\ SubSeq(s, k + 1, Len(s)) \in Seq(S)
      /\ Len(SubSeq(s, k + 1, Len(s))) = IF k + 1 <= Len(s) THEN Len(s) - (k + 1) + 1 ELSE 0
      /\ \A i \in 1 .. Len(s) - (k + 1) + 1 : SubSeq(s, k + 1, Len(s))[i] = s[k + 1 + i - 1]
  BY <1>2, PartType
<1> QED  BY <1>3, <1>4

LEMMA RestOfConcat ==
    ASSUME NEW S, NEW s \in Seq(S), NEW t \in Seq(S), NEW k \in 0 .. Len(s),
           NEW w, w = s \o t
    PROVE  SubSeq(w, k + 1, Len(w)) = SubSeq(s, k + 1, Len(s)) \o t
<1> DEFINE a == SubSeq(w, k + 1, Len(w))
           b == SubSeq(s, k + 1, Len(s))
<1>1. Len(s) \in Nat /\ Len(t) \in Nat
  BY LenProperties
<1>2. /\ w \in Seq(S) /\ Len(w) = Len(s) + Len(t)
      /\ \A i \in 1 .. Len(s) + Len(t) : w[i] = IF i <= Len(s) THEN s[i] ELSE t[i - Len(s)]
  BY ConcatProperties
<1>3. /\ a \in Seq(S) /\ Len(a) = Len(w) - k
      /\ \A i \in 1 .. Len(w) - k : a[i] = w[k + i]
  <2>1. k \in 0 .. Len(w)
    BY <1>1, <1>2
  <2> QED  BY <1>2, <2>1, RestOf
<1>4. /\ b \in Seq(S) /\ Len(b) = Len(s) - k
      /\ \A i \in 1 .. Len(s) - k : b[i] = s[k + i]
  BY RestOf
<1> HIDE DEF a, b
<1>5. /\ b \o t \in Seq(S) /\ Len(b \o t) = Len(b) + Len(t)
      /\ \A i \in 1 .. Len(b) + Len(t) : (b \o t)[i] = IF i <= Len(b) THEN b[i] ELSE t[i - Len(b)]
  BY <1>4, ConcatProperties
<1>6. ASSUME NEW i \in 1 .. Len(a) PROVE a[i] = (b \o t)[i]
  <2>1. /\ k + i \in 1 .. Len(s) + Len(t) /\ i \in 1 .. Len(b) + Len(t)
        /\ i \in 1 .. Len(w) - k
    BY <1>1, <1>2, <1>3, <1>4
  <2>2. a[i] = w[k + i]
    BY <1>3, <2>1
  <2>3. w[k + i] = IF k + i <= Len(s) THEN s[k + i] ELSE t[k + i - Len(s)]
    BY <1>2, <2>1
  <2>4. (b \o t)[i] = IF i <= Len(b) THEN b[i] ELSE t[i - Len(b)]
    BY <1>5, <2>1
  <2>5. CASE i <= Len(b)
    <3>1. k + i <= Len(s) /\ i \in 1 .. Len(s) - k
      BY <1>1, <1>4, <2>1, <2>5
    <3> QED  BY <1>4, <2>2, <2>3, <2>4, <2>5, <3>1
  <2>6. CASE ~ (i <= Len(b))
    <3>1. ~ (k + i <= Len(s)) /\ k + i - Len(s) = i - Len(b)
      BY <1>1, <1>4, <2>1, <2>6
    <3> QED  BY <2>2, <2>3, <2>4, <2>6, <3>1
  <2> QED  BY <2>5, <2>6
<1>7. Len(a) = Len(b \o t)
  BY <1>1, <1>2, <1>3, <1>4, <1>5
<1>8. a = b \o t
  BY <1>3, <1>5, <1>6, <1>7, SeqEqual
<1> QED  BY <1>8 DEF a, b

LEMMA UpToIs ==
    ASSUME NEW q \in Seq(Batch), NEW id \in Int, NEW k \in 0 .. Len(q),
           \A i \in DOMAIN q : q[i].batchId <= id <=> i <= k
    PROVE  UpTo(q, id) = k
<1>1. ASSUME NEW j \in 0 .. Len(q), \A i \in DOMAIN q : q[i].batchId <= id <=> i <= j
      PROVE  j = k
  <2>1. Len(q) \in Nat /\ DOMAIN q = 1 .. Len(q)
    BY LenProperties
  <2>2. \A i \in 1 .. Len(q) : i <= j <=> i <= k
    BY <1>1, <2>1
  <2> QED  BY <2>1, <2>2
<1> QED  BY <1>1 DEF UpTo

LEMMA RoomType ==
    ASSUME NEW q \in Seq(Batch)
    PROVE  /\ Room(q) \in Nat /\ Room(q) <= Len(q) /\ Room(q) <= kMaxPendingWrites
           /\ Len(q) \in Nat
           /\ q # << >> => Room(q) # 0
           /\ FirstRows(q) \in Seq(Batch)
           /\ Len(FirstRows(q)) = Room(q)
           /\ \A i \in 1 .. Room(q) : FirstRows(q)[i] = q[i]
<1>1. /\ Len(q) \in Nat /\ (q # << >> => Len(q) # 0)
      /\ kMaxPendingWrites \in Nat \ {0}
  BY LenProperties, EmptySeq, PipelineConstantsAssumption
<1>2. Room(q) \in 0 .. Len(q) /\ Room(q) <= kMaxPendingWrites /\ (q # << >> => Room(q) # 0)
  BY <1>1 DEF Room
<1> QED  BY <1>1, <1>2, PartType DEF FirstRows

\* FillWritePipeline reads the rows that follow those of the pipeline.
LEMMA NextBatchesIs ==
    ASSUME NEW r \in RemoteStore, NEW q \in Seq(Batch), InOrder(q),
           NEW p \in Nat, p <= Room(q), r.pipeline = SubSeq(q, 1, p)
    PROVE  /\ NextBatches(r, q) = SubSeq(q, p + 1, Room(q))
           /\ NextBatches(r, q) \in Seq(Batch)
           /\ Len(NextBatches(r, q)) = Room(q) - p
           /\ r.pipeline \o NextBatches(r, q) = FirstRows(q)
           /\ Len(r.pipeline) = p
<1>1. /\ Len(q) \in Nat /\ DOMAIN q = 1 .. Len(q) /\ Room(q) <= Len(q) /\ Room(q) \in Nat
      /\ kMaxPendingWrites \in Nat \ {0}
  BY LenProperties, RoomType, PipelineConstantsAssumption
<1>2. \A i \in DOMAIN q : q[i].batchId \in Nat
  <2>1. \A i \in DOMAIN q : q[i] \in Batch
    BY <1>1, ElementOfSeq
  <2> QED  BY <2>1 DEF Batch
<1>3. Len(r.pipeline) = p /\ \A i \in 1 .. p : r.pipeline[i] = q[i]
  BY <1>1, PartType
<1>4. LastBatchId(r) \in Int /\ \A i \in DOMAIN q : q[i].batchId <= LastBatchId(r) <=> i <= p
  <2>1. CASE p = 0
    <3>1. r.pipeline = << >>
      BY <2>1, <1>1, SubSeqEmpty
    <3> QED  BY <2>1, <3>1, <1>1, <1>2 DEF LastBatchId, kBatchIdUnknown
  <2>2. CASE p # 0
    <3>1. LastBatchId(r) = q[p].batchId
      <4>1. Len(<< >>) = 0
        BY EmptySeq
      <4>2. p \in 1 .. p
        BY <2>2
      <4> QED  BY <2>2, <4>1, <4>2, <1>3 DEF LastBatchId, Last
    <3>2. \A i \in 1 .. Len(q) : /\ i < p => q[i].batchId < q[p].batchId
                                 /\ p < i => q[p].batchId < q[i].batchId
      BY <2>2, <1>1 DEF InOrder
    <3>3. p \in 1 .. Len(q) /\ q[p].batchId \in Nat
      BY <2>2, <1>1, <1>2
    <3>4. ASSUME NEW i \in 1 .. Len(q) PROVE q[i].batchId <= q[p].batchId <=> i <= p
      <4>1. i < p \/ i = p \/ p < i
        BY <1>1
      <4>2. q[i].batchId \in Nat
        BY <1>1, <1>2
      <4>3. (i < p => q[i].batchId < q[p].batchId) /\ (p < i => q[p].batchId < q[i].batchId)
        BY <3>2
      <4> QED  BY <1>1, <3>3, <4>1, <4>2, <4>3
    <3> QED  BY <3>1, <3>3, <3>4, <1>1
  <2> QED  BY <2>1, <2>2
<1>5. UpTo(q, LastBatchId(r)) = p
  <2>1. p \in 0 .. Len(q)
    BY <1>1
  <2> QED  BY <1>4, <2>1, UpToIs
<1>6. NextBatches(r, q) = SubSeq(q, p + 1, Room(q))
  BY <1>1, <1>3, <1>5 DEF NextBatches, RowsAfter, Room
<1>7. NextBatches(r, q) \in Seq(Batch) /\ Len(NextBatches(r, q)) = Room(q) - p
  BY <1>1, <1>6, PartType
<1>8. SubSeq(q, 1, p) \o SubSeq(q, p + 1, Room(q)) = SubSeq(q, 1, Room(q))
  <2>1. 1 \in 1 .. Len(q) + 1 /\ p \in 1 - 1 .. Len(q) /\ Room(q) \in p .. Len(q)
    BY <1>1
  <2> QED  BY <2>1, ConcatAdjacentSubSeq
<1> QED  BY <1>3, <1>6, <1>7, <1>8 DEF FirstRows
-----------------------------------------------------------------------------
(* The operators on a RemoteStore.                                          *)

LEMMA RemoteFields ==
    ASSUME NEW r \in RemoteStore
    PROVE  /\ r.pipeline \in Seq(Batch)
           /\ r.state \in {"Initial", "Starting", "Open", "Error", "Backoff"}
           /\ r.handshakeComplete \in BOOLEAN /\ r.idle \in BOOLEAN
           /\ r.asked \in {"no", "current", "outdated"}
           /\ r.tokenOf \in Account \cup {NoToken}
           /\ r.wire \in Wire \cup {NoWire}
BY DEF RemoteStore

\* The requests of a stream are extended.
LEMMA Sending ==
    ASSUME NEW wire \in Wire, NEW batches \in Seq(Batch)
    PROVE  [wire EXCEPT !.requests = @ \o batches] \in Wire
<1>1. wire.requests \in Seq(Batch \cup {Handshake}) /\ batches \in Seq(Batch \cup {Handshake})
  <2>1. batches \in Seq(Batch \cup {Handshake})
    BY SeqMonotonic
  <2> QED  BY <2>1 DEF Wire
<1>2. wire.requests \o batches \in Seq(Batch \cup {Handshake})
  BY <1>1, ConcatProperties
<1> QED  BY <1>2 DEF Wire

\* What WriteMutations makes of r.
Sent(r, batches, s) ==
    /\ s \in RemoteStore
    /\ s.pipeline = r.pipeline /\ s.handshakeComplete = r.handshakeComplete
    /\ s.state = r.state /\ s.asked = r.asked /\ s.tokenOf = r.tokenOf
    /\ s.wire = IF Ready(r) THEN [r.wire EXCEPT !.requests = @ \o batches] ELSE r.wire
    /\ s.idle = (r.idle /\ (Ready(r) => batches = << >>))

LEMMA WriteMutationsForm ==
    ASSUME NEW r \in RemoteStore, NEW batches \in Seq(Batch),
           r.state = "Open" => r.wire \in Wire,
           NEW s, s = WriteMutations(r, batches)
    PROVE  Sent(r, batches, s)
<1>1. CASE Ready(r) /\ batches # << >>
  <2>1. s = [r EXCEPT !.wire = [r.wire EXCEPT !.requests = @ \o batches], !.idle = FALSE]
    BY <1>1 DEF WriteMutations, RemoteStore
  <2>2. [r.wire EXCEPT !.requests = @ \o batches] \in Wire
    BY <1>1, Sending DEF Ready
  <2> QED  BY <1>1, <2>1, <2>2 DEF RemoteStore, Sent
<1>2. CASE ~ Ready(r)
  BY <1>2, RemoteFields DEF WriteMutations, Sent
<1>3. CASE Ready(r) /\ batches = << >>
  <2>1. r.wire.requests \o << >> = r.wire.requests
    <3>1. r.wire.requests \in Seq(Batch \cup {Handshake})
      BY <1>3 DEF Ready, Wire
    <3> QED  BY <3>1, ConcatEmptySeq
  <2>2. [r.wire EXCEPT !.requests = @ \o << >>] = r.wire
    BY <1>3, <2>1 DEF Ready, Wire
  <2> QED  BY <1>3, <2>2, RemoteFields DEF WriteMutations, Sent
<1> QED  BY <1>1, <1>2, <1>3

LEMMA StartForm ==
    ASSUME NEW r \in RemoteStore, NEW s, s = StartWriteStream(r)
    PROVE  /\ s \in RemoteStore
           /\ s.pipeline = r.pipeline /\ s.handshakeComplete = r.handshakeComplete
           /\ s.tokenOf = r.tokenOf /\ s.wire = r.wire /\ s.idle = r.idle
           /\ IF IsStarted(r) \/ r.pipeline = << >>
              THEN s.state = r.state /\ s.asked = r.asked
              ELSE IF r.state = "Error"
              THEN s.state = "Backoff" /\ s.asked = r.asked
              ELSE s.state = "Starting" /\ s.asked = "current"
BY DEF StartWriteStream, Start, RemoteStore

\* What FillWritePipeline makes of r.
Filled(r, q, s) ==
    /\ s \in RemoteStore
    /\ s.pipeline = FirstRows(q)
    /\ s.handshakeComplete = r.handshakeComplete
    /\ s.tokenOf = r.tokenOf
    /\ IF IsStarted(r) \/ FirstRows(q) = << >>
       THEN s.state = r.state /\ s.asked = r.asked
       ELSE IF r.state = "Error"
       THEN s.state = "Backoff" /\ s.asked = r.asked
       ELSE s.state = "Starting" /\ s.asked = "current"
    /\ s.wire = IF Ready(r) THEN [r.wire EXCEPT !.requests = @ \o NextBatches(r, q)]
                ELSE r.wire
    /\ s.idle = \/ FirstRows(q) = << >> /\ r.state = "Open"
                \/ r.idle /\ (Ready(r) => NextBatches(r, q) = << >>)

\* FillWritePipeline on a pipeline that holds the first p rows of q.
LEMMA FillForm ==
    ASSUME NEW r \in RemoteStore, NEW q \in Seq(Batch), InOrder(q),
           NEW p \in Nat, p <= Room(q), r.pipeline = SubSeq(q, 1, p),
           r.state = "Open" => r.wire \in Wire,
           NEW s, s = FillWritePipeline(r, q)
    PROVE  Filled(r, q, s)
<1> DEFINE new == NextBatches(r, q)
           sent == WriteMutations(r, new)
           filled == [sent EXCEPT !.pipeline = @ \o new]
           timed == IF filled.pipeline = << >> /\ filled.state = "Open"
                    THEN [filled EXCEPT !.idle = TRUE] ELSE filled
<1>1. /\ new \in Seq(Batch)
      /\ r.pipeline \o new = FirstRows(q) /\ FirstRows(q) \in Seq(Batch)
  <2>1. FirstRows(q) \in Seq(Batch)
    BY RoomType
  <2> QED  BY <2>1, NextBatchesIs
<1>2. s = StartWriteStream(timed)
  BY <1>1 DEF FillWritePipeline
<1>3. Sent(r, new, sent)
  BY <1>1, WriteMutationsForm
<1>4. /\ timed \in RemoteStore /\ timed.pipeline = FirstRows(q)
      /\ timed.handshakeComplete = r.handshakeComplete
      /\ timed.state = r.state /\ timed.asked = r.asked /\ timed.tokenOf = r.tokenOf
      /\ timed.wire = sent.wire
      /\ timed.idle = (\/ FirstRows(q) = << >> /\ r.state = "Open"
                       \/ r.idle /\ (Ready(r) => new = << >>))
  <2> HIDE DEF sent
  <2>1. /\ filled \in RemoteStore /\ filled.pipeline = FirstRows(q)
        /\ filled.handshakeComplete = r.handshakeComplete
        /\ filled.state = r.state /\ filled.asked = r.asked /\ filled.tokenOf = r.tokenOf
        /\ filled.wire = sent.wire /\ filled.idle = sent.idle
    BY <1>1, <1>3 DEF RemoteStore, Sent
  <2> HIDE DEF filled
  <2>2. CASE filled.pipeline = << >> /\ filled.state = "Open"
    BY <1>3, <2>1, <2>2 DEF RemoteStore, Sent
  <2>3. CASE ~ (filled.pipeline = << >> /\ filled.state = "Open")
    BY <1>3, <2>1, <2>3 DEF Sent
  <2> QED  BY <2>2, <2>3
<1> HIDE DEF timed, sent
<1>5. /\ s \in RemoteStore
      /\ s.pipeline = timed.pipeline /\ s.handshakeComplete = timed.handshakeComplete
      /\ s.tokenOf = timed.tokenOf /\ s.wire = timed.wire /\ s.idle = timed.idle
      /\ IF IsStarted(timed) \/ timed.pipeline = << >>
         THEN s.state = timed.state /\ s.asked = timed.asked
         ELSE IF timed.state = "Error"
         THEN s.state = "Backoff" /\ s.asked = timed.asked
         ELSE s.state = "Starting" /\ s.asked = "current"
  BY <1>2, <1>4, StartForm
<1>6. IsStarted(timed) <=> IsStarted(r)
  BY <1>4 DEF IsStarted
<1>7. s.wire = IF Ready(r) THEN [r.wire EXCEPT !.requests = @ \o new] ELSE r.wire
  BY <1>3, <1>4, <1>5 DEF Sent
<1> QED  BY <1>4, <1>5, <1>6, <1>7 DEF Filled, new

\* It leaves the stream in order, whatever the state it is called in.
LEMMA FillPhases ==
    ASSUME NEW r \in RemoteStore, Phases(r), NEW q \in Seq(Batch), InOrder(q),
           NEW p \in Nat, p <= Room(q), r.pipeline = SubSeq(q, 1, p),
           NEW s, s = FillWritePipeline(r, q)
    PROVE  Phases(s) /\ (s.pipeline # << >> => IsStarted(s))
<1> DEFINE new == NextBatches(r, q)
<1>1. r.state = "Open" => r.wire \in Wire
  BY RemoteFields DEF Phases
<1>2. Filled(r, q, s)
  BY <1>1, FillForm
<1>3. /\ r.pipeline # << >> => FirstRows(q) # << >>
      /\ r.pipeline = << >> /\ new = << >> => FirstRows(q) = << >>
  <2>1. r.pipeline \o new = FirstRows(q) /\ r.pipeline \in Seq(Batch) /\ new \in Seq(Batch)
    BY NextBatchesIs, RemoteFields
  <2>2. r.pipeline \o new = << >> <=> r.pipeline = << >> /\ new = << >>
    BY <2>1, ConcatEqualIffEmpty
  <2> QED  BY <2>1, <2>2
<1>4. Ready(r) => s.wire # NoWire
  <2>1. new \in Seq(Batch)
    BY NextBatchesIs
  <2>2. ASSUME Ready(r) PROVE [r.wire EXCEPT !.requests = @ \o new] \in Wire
    BY <1>1, <2>1, <2>2, Sending DEF Ready
  <2> QED  BY <1>2, <2>2, StreamConstantsAssumption DEF Filled
<1>5. s.wire # NoWire <=> s.state = "Open"
  BY <1>2, <1>4 DEF Filled, Phases, IsStarted, Ready
<1>6. IsStarted(s) /\ ~Ready(s) => s.pipeline # << >>
  BY <1>2, <1>3 DEF Filled, Phases, new, IsStarted, Ready
<1>7. s.idle => s.pipeline = << >> /\ s.state = "Open"
  BY <1>2, <1>3 DEF Filled, Phases, new, IsStarted, Ready
<1>8. (s.asked # "no" => s.state = "Starting") /\ (s.tokenOf # NoToken => s.asked # "no")
  BY <1>2 DEF Filled, Phases, IsStarted
<1>9. s.pipeline # << >> => IsStarted(s)
  BY <1>2 DEF Filled, IsStarted
<1> QED  BY <1>5, <1>6, <1>7, <1>8, <1>9 DEF Phases

LEMMA CloseForm ==
    ASSUME NEW r \in RemoteStore, NEW state \in {"Initial", "Error"},
           NEW s, s = Close(r, state)
    PROVE  /\ s \in RemoteStore /\ Phases(s)
           /\ s.pipeline = r.pipeline /\ s.state = state
           /\ s.handshakeComplete = r.handshakeComplete
           /\ s.wire = NoWire /\ ~ s.idle /\ s.asked = "no" /\ s.tokenOf = NoToken
<1>1. /\ s \in RemoteStore
      /\ s.pipeline = r.pipeline /\ s.state = state
      /\ s.handshakeComplete = r.handshakeComplete
      /\ s.wire = NoWire /\ s.idle = FALSE /\ s.asked = "no" /\ s.tokenOf = NoToken
  BY DEF Close, RemoteStore
<1> QED  BY <1>1 DEF Phases, IsStarted

\* After the notification the stream is under way again if it has to be.
LEMMA NotifyForm ==
    ASSUME NEW r \in RemoteStore, Phases(r), r.state # "Open",
           NEW s, s = NotifyStreamClose(r)
    PROVE  /\ s \in RemoteStore /\ StreamOK(s)
           /\ s.pipeline = r.pipeline /\ s.state # "Open" /\ s.wire = NoWire
           /\ s.asked # "no" => s.asked = r.asked \/ s.asked = "current"
           /\ s.tokenOf = r.tokenOf
           /\ s.handshakeComplete = FALSE
<1> DEFINE t == StartWriteStream(r)
<1>1. /\ t \in RemoteStore
      /\ t.pipeline = r.pipeline /\ t.tokenOf = r.tokenOf /\ t.wire = r.wire
      /\ t.idle = r.idle
      /\ IF IsStarted(r) \/ r.pipeline = << >>
         THEN t.state = r.state /\ t.asked = r.asked
         ELSE IF r.state = "Error"
         THEN t.state = "Backoff" /\ t.asked = r.asked
         ELSE t.state = "Starting" /\ t.asked = "current"
  BY StartForm
<1> HIDE DEF t
<1>2. /\ s \in RemoteStore /\ s.handshakeComplete = FALSE
      /\ s.pipeline = t.pipeline /\ s.tokenOf = t.tokenOf /\ s.wire = t.wire
      /\ s.idle = t.idle /\ s.state = t.state /\ s.asked = t.asked
  BY <1>1 DEF NotifyStreamClose, RemoteStore, t
<1> QED  BY <1>1, <1>2 DEF Phases, StreamOK, IsStarted, Ready

LEMMA StoppedForm ==
    /\ Stopped \in RemoteStore
    /\ Phases(Stopped)
<1>1. << >> \in Seq(Batch)
  BY EmptySeq
<1> QED  BY <1>1 DEF Stopped, RemoteStore, Phases, IsStarted

LEMMA RestartForm ==
    ASSUME NEW r, NEW q \in Seq(Batch), InOrder(q), NEW s, s = RestartNetwork(r, q)
    PROVE  /\ s \in RemoteStore /\ StreamOK(s)
           /\ s.pipeline = FirstRows(q) /\ s.state # "Open" /\ s.wire = NoWire
           /\ s.asked \in {"no", "current"} /\ s.tokenOf = NoToken
<1>1. Stopped.pipeline = SubSeq(q, 1, 0)
  BY SubSeqEmpty DEF Stopped
<1>2. 0 <= Room(q) /\ s = FillWritePipeline(Stopped, q)
  BY RoomType DEF RestartNetwork
<1>3. Phases(s) /\ (s.pipeline # << >> => IsStarted(s))
  BY <1>1, <1>2, StoppedForm, FillPhases
<1>4. /\ s \in RemoteStore
      /\ s.pipeline = FirstRows(q) /\ s.handshakeComplete = FALSE /\ s.tokenOf = NoToken
      /\ s.state \in {"Initial", "Starting"} /\ s.asked \in {"no", "current"}
      /\ s.wire = NoWire
  <2>1. /\ Stopped.state = "Initial" /\ Stopped.handshakeComplete = FALSE
        /\ Stopped.wire = NoWire /\ Stopped.asked = "no" /\ Stopped.tokenOf = NoToken
    BY DEF Stopped
  <2>2. Filled(Stopped, q, s)
    BY <1>1, <1>2, <2>1, StoppedForm, FillForm
  <2> QED  BY <2>1, <2>2 DEF Filled, IsStarted, Ready
<1> QED  BY <1>3, <1>4 DEF StreamOK

\* What may linger of a stream are the writes it has not answered.
LEMMA GivenUpForm ==
    ASSUME NEW r \in RemoteStore, NEW ap, NEW rf, StreamOK(r), WireOK(r, ap, rf)
    PROVE  /\ GivenUp(r) \in Seq(GivenUpStream)
           /\ GivenUp(r) # << >> =>
                 /\ Ready(r)
                 /\ \E k \in 0 .. Len(r.pipeline) :
                       /\ AnsweredUpTo(r, k, ap, rf)
                       /\ GivenUp(r) = << [token |-> r.wire.token,
                              requests |-> SubSeq(r.pipeline, k + 1, Len(r.pipeline))] >>
                       /\ SubSeq(r.pipeline, k + 1, Len(r.pipeline)) # << >>
<1>1. CASE Requests(r.wire) = << >>
  BY <1>1, EmptySeq DEF GivenUp
<1>2. CASE Requests(r.wire) # << >>
  <2>1. /\ r.wire # NoWire /\ Requests(r.wire) = r.wire.requests
        /\ r.wire.requests # << Handshake >>
        /\ \A i \in DOMAIN r.wire.responses : r.wire.responses[i] \notin Error
    BY <1>2 DEF Requests
  <2>2. r.state = "Open" /\ r.wire \in Wire
    BY <2>1, RemoteFields DEF StreamOK, Phases
  <2>3. r.handshakeComplete
    BY <1>2, <2>1, <2>2 DEF WireOK, HandshakeUnderWay
  <2>4. PICK k \in 0 .. Len(r.pipeline) : AnsweredUpTo(r, k, ap, rf)
    BY <2>2, <2>3 DEF WireOK
  <2>5. Len(r.wire.responses) # k + 1 \/ r.wire.responses[k + 1] \notin Error
    <3>1. DOMAIN r.wire.responses = 1 .. Len(r.wire.responses)
      BY <2>2, LenProperties DEF Wire
    <3> QED  BY <2>1, <3>1
  <2>6. r.wire.requests = SubSeq(r.pipeline, k + 1, Len(r.pipeline))
    BY <2>4, <2>5 DEF AnsweredUpTo
  <2>7. SubSeq(r.pipeline, k + 1, Len(r.pipeline)) \in Seq(Batch)
    BY RemoteFields, LenProperties, PartType
  <2>8. GivenUp(r) = << [token |-> r.wire.token, requests |-> r.wire.requests] >>
    BY <1>2, <2>1 DEF GivenUp
  <2>9. r.wire.token \in Account
    BY <2>2 DEF Wire
  <2>10. [token |-> r.wire.token, requests |-> r.wire.requests]
            \in GivenUpStream
    BY <1>2, <2>1, <2>6, <2>7, <2>9 DEF GivenUpStream
  <2>11. GivenUp(r) \in Seq(GivenUpStream)
    BY <2>8, <2>10
  <2> QED  BY <1>2, <2>1, <2>2, <2>3, <2>4, <2>6, <2>8, <2>11 DEF Ready
<1> QED  BY <1>1, <1>2
-----------------------------------------------------------------------------
(* Answers and requests.                                                    *)

\* AnsweredUpTo part by part.
LEMMA AnsweredIntro ==
    ASSUME NEW r, NEW k, NEW ap, NEW rf,
           \A i \in 1 .. k : /\ r.wire.responses[i] = "result"
                             /\ \E j \in DOMAIN ap : ap[j] = r.pipeline[i].write,
           \/ /\ Len(r.wire.responses) = k
              /\ r.wire.requests = SubSeq(r.pipeline, k + 1, Len(r.pipeline))
           \/ /\ Len(r.wire.responses) = k + 1
              /\ r.wire.requests \in Seq(Batch)
              /\ r.wire.responses[k + 1] \in Error
              /\ r.wire.responses[k + 1] = "permanent" =>
                    k < Len(r.pipeline) /\ r.pipeline[k + 1].write \in rf
    PROVE  AnsweredUpTo(r, k, ap, rf)
BY DEF AnsweredUpTo

LEMMA AnsweredMore ==
    ASSUME NEW r, NEW k, NEW ap, NEW rf, NEW ap2, NEW rf2, AnsweredUpTo(r, k, ap, rf),
           k \in 0 .. Len(r.pipeline), DOMAIN ap \subseteq DOMAIN ap2,
           \A j \in DOMAIN ap : ap2[j] = ap[j], rf \subseteq rf2
    PROVE  AnsweredUpTo(r, k, ap2, rf2)
BY DEF AnsweredUpTo

\* New writes go to the end of the pipeline and of the requests.
LEMMA AnsweredLonger ==
    ASSUME NEW r \in RemoteStore, r.wire \in Wire, NEW ap, NEW rf,
           NEW k \in 0 .. Len(r.pipeline), AnsweredUpTo(r, k, ap, rf),
           NEW new \in Seq(Batch), NEW s,
           s.pipeline = r.pipeline \o new,
           s.wire = [r.wire EXCEPT !.requests = @ \o new]
    PROVE  k \in 0 .. Len(s.pipeline) /\ AnsweredUpTo(s, k, ap, rf)
<1> DEFINE p == r.pipeline
<1>1. p \in Seq(Batch) /\ Len(p) \in Nat /\ Len(new) \in Nat
  BY RemoteFields, LenProperties
<1>2. /\ s.pipeline \in Seq(Batch) /\ Len(s.pipeline) = Len(p) + Len(new)
      /\ \A i \in 1 .. Len(p) : s.pipeline[i] = p[i]
  BY <1>1, ConcatProperties
<1>3. SubSeq(s.pipeline, k + 1, Len(s.pipeline)) = SubSeq(p, k + 1, Len(p)) \o new
  <2> DEFINE w == s.pipeline
  <2>1. w = p \o new /\ k \in 0 .. Len(p)
    OBVIOUS
  <2> HIDE DEF w, p
  <2>2. SubSeq(w, k + 1, Len(w)) = SubSeq(p, k + 1, Len(p)) \o new
    BY <1>1, <2>1, RestOfConcat
  <2> QED  BY <2>2 DEF w
<1>4. /\ s.wire.responses = r.wire.responses
      /\ s.wire.requests = r.wire.requests \o new
  BY DEF Wire
<1>5. r.wire.requests \in Seq(Batch) => s.wire.requests \in Seq(Batch)
  BY <1>4, ConcatProperties
<1>6. \A i \in 1 .. k : s.pipeline[i] = r.pipeline[i]
  BY <1>1, <1>2
<1>7. k < Len(p) => k < Len(s.pipeline) /\ s.pipeline[k + 1] = r.pipeline[k + 1]
  BY <1>1, <1>2
<1>8. k \in 0 .. Len(s.pipeline)
  BY <1>1, <1>2
<1>9. \A i \in 1 .. k : /\ s.wire.responses[i] = "result"
                         /\ \E j \in DOMAIN ap : ap[j] = s.pipeline[i].write
  BY <1>4, <1>6 DEF AnsweredUpTo
<1>10. CASE Len(r.wire.responses) = k
  <2>1. k # k + 1
    OBVIOUS
  <2>2. r.wire.requests = SubSeq(p, k + 1, Len(p))
    BY <1>10, <2>1 DEF AnsweredUpTo
  <2> QED  BY <1>3, <1>4, <1>8, <1>9, <1>10, <2>2, AnsweredIntro
<1>11. CASE Len(r.wire.responses) # k
  <2>1. /\ Len(r.wire.responses) = k + 1 /\ r.wire.requests \in Seq(Batch)
        /\ r.wire.responses[k + 1] \in Error
        /\ r.wire.responses[k + 1] = "permanent" =>
              k < Len(p) /\ p[k + 1].write \in rf
    BY <1>11 DEF AnsweredUpTo
  <2> QED  BY <1>4, <1>5, <1>7, <1>8, <1>9, <2>1, AnsweredIntro
<1> QED  BY <1>10, <1>11

LEMMA ResponsesOf ==
    ASSUME NEW w \in Wire, NEW res \in Seq({"handshake", "result"} \cup Error)
    PROVE  [w EXCEPT !.responses = res] \in Wire
BY DEF Wire

\* The first answer is read, and the first write leaves the pipeline.
LEMMA AnsweredOnce ==
    ASSUME NEW r \in RemoteStore, r.wire \in Wire, NEW ap, NEW rf,
           NEW k \in 0 .. Len(r.pipeline), AnsweredUpTo(r, k, ap, rf),
           r.wire.responses # << >>, Head(r.wire.responses) = "result",
           NEW s, s = [r EXCEPT !.wire.responses = Tail(@), !.pipeline = Tail(@)]
    PROVE  /\ k # 0 /\ r.pipeline # << >>
           /\ \E j \in DOMAIN ap : ap[j] = Head(r.pipeline).write
           /\ s \in RemoteStore /\ s.wire \in Wire
           /\ k - 1 \in 0 .. Len(s.pipeline) /\ AnsweredUpTo(s, k - 1, ap, rf)
<1> DEFINE p == r.pipeline
           res == r.wire.responses
           Response == {"handshake", "result"} \cup Error
<1>1. p \in Seq(Batch) /\ Len(p) \in Nat
  BY RemoteFields, LenProperties
<1>2. res \in Seq(Response) /\ Len(res) \in Nat \ {0} /\ res[1] = "result"
  <2>1. res \in Seq(Response)
    BY DEF Wire
  <2> QED  BY <2>1, EmptySeq, LenProperties
<1>3. k # 0
  <2>1. k = 0 => res[1] \in Error
    BY <1>2 DEF AnsweredUpTo
  <2> QED  BY <1>2, <2>1 DEF Error
<1>4. Len(p) # 0 /\ p # << >> /\ Head(p) = p[1]
  <2>1. Len(<< >>) = 0
    BY EmptySeq
  <2> QED  BY <1>1, <1>3, <2>1
<1>5. \E j \in DOMAIN ap : ap[j] = p[1].write
  <2>1. 1 \in 1 .. k
    BY <1>3
  <2> QED  BY <2>1 DEF AnsweredUpTo
<1>6. /\ Tail(p) \in Seq(Batch) /\ Len(Tail(p)) = Len(p) - 1
      /\ \A i \in 1 .. Len(p) - 1 : Tail(p)[i] = p[i + 1]
  BY <1>1, <1>4, HeadTailProperties
<1>7. /\ Tail(res) \in Seq(Response) /\ Len(Tail(res)) = Len(res) - 1
      /\ \A i \in 1 .. Len(res) - 1 : Tail(res)[i] = res[i + 1]
  BY <1>2, HeadTailProperties
<1> HIDE DEF p, res, Response
<1>8. /\ s.pipeline = Tail(p) /\ s \in RemoteStore /\ s.wire \in Wire
      /\ s.wire.responses = Tail(res)
      /\ s.wire.requests = r.wire.requests
  <2>1. s = [r EXCEPT !.wire = [r.wire EXCEPT !.responses = Tail(res)],
                      !.pipeline = Tail(p)]
    BY DEF RemoteStore, p, res
  <2>2. [r.wire EXCEPT !.responses = Tail(res)] \in Wire
    BY <1>7, ResponsesOf DEF Response
  <2> DEFINE wire == [r.wire EXCEPT !.responses = Tail(res)]
  <2>3. wire.responses = Tail(res) /\ wire.requests = r.wire.requests
    BY DEF Wire
  <2> HIDE DEF wire
  <2>4. s.pipeline = Tail(p) /\ s.wire = wire /\ s \in RemoteStore
    BY <1>6, <2>1, <2>2 DEF RemoteStore, wire
  <2> QED  BY <2>2, <2>3, <2>4 DEF wire
<1>9. SubSeq(Tail(p), k, Len(Tail(p))) = SubSeq(p, k + 1, Len(p))
  <2>1. Tail(p) = SubSeq(p, 2, Len(p))
    BY <1>1, <1>4, TailIsSubSeq
  <2> DEFINE a == SubSeq(Tail(p), k, Len(p) - 1)
             b == SubSeq(p, k + 1, Len(p))
  <2>2. /\ a \in Seq(Batch) /\ Len(a) = Len(p) - k
        /\ \A i \in 1 .. Len(p) - k : a[i] = p[k + i]
    <3>1. /\ a \in Seq(Batch) /\ Len(a) = Len(p) - k
          /\ \A i \in 1 .. Len(p) - k : a[i] = Tail(p)[k + i - 1]
      <4>1. k \in Nat \ {0} /\ Len(p) - 1 \in 0 .. Len(Tail(p))
        BY <1>1, <1>3, <1>4, <1>6 DEF p
      <4>2. Len(p) - 1 - k + 1 = Len(p) - k /\ (~ (k <= Len(p) - 1) => Len(p) - k = 0)
        BY <1>1, <4>1 DEF p
      <4> QED  BY <1>6, <4>1, <4>2, PartType
    <3>2. ASSUME NEW i \in 1 .. Len(p) - k
          PROVE  k + i - 1 \in 1 .. Len(p) - 1 /\ (k + i - 1) + 1 = k + i
      BY <1>1, <1>3 DEF p
    <3> HIDE DEF a
    <3> QED  BY <3>1, <3>2, <1>6
  <2>3. /\ b \in Seq(Batch) /\ Len(b) = Len(p) - k
        /\ \A i \in 1 .. Len(p) - k : b[i] = p[k + i]
    BY <1>1, RestOf DEF p
  <2>4. a = b
    <3> HIDE DEF a, b
    <3> QED  BY <2>2, <2>3, SeqEqual
  <2> QED  BY <1>6, <2>4
<1>10. k - 1 \in 0 .. Len(s.pipeline)
  BY <1>1, <1>3, <1>6, <1>8 DEF p
<1>11. \A i \in 1 .. k - 1 : /\ Tail(res)[i] = "result"
                             /\ \E j \in DOMAIN ap : ap[j] = Tail(p)[i].write
  <2>1. ASSUME NEW i \in 1 .. k - 1 PROVE /\ i + 1 \in 1 .. k /\ i \in 1 .. Len(p) - 1
                                          /\ i \in 1 .. Len(res) - 1
    <3>1. Len(res) = k \/ Len(res) = k + 1
      BY DEF AnsweredUpTo, res
    <3> QED  BY <1>1, <1>3, <3>1 DEF p
  <2> QED  BY <2>1, <1>6, <1>7 DEF AnsweredUpTo, p, res
<1>12. \/ Len(Tail(res)) = k - 1 /\ r.wire.requests = SubSeq(p, k + 1, Len(p))
       \/ /\ Len(Tail(res)) = (k - 1) + 1 /\ r.wire.requests \in Seq(Batch)
          /\ Tail(res)[(k - 1) + 1] \in Error
          /\ Tail(res)[(k - 1) + 1] = "permanent" =>
                k - 1 < Len(Tail(p)) /\ Tail(p)[(k - 1) + 1].write \in rf
  <2>1. CASE Len(res) = k /\ r.wire.requests = SubSeq(p, k + 1, Len(p))
    BY <1>7, <2>1
  <2>2. CASE /\ Len(res) = k + 1 /\ r.wire.requests \in Seq(Batch)
             /\ res[k + 1] \in Error
             /\ res[k + 1] = "permanent" => k < Len(p) /\ p[k + 1].write \in rf
    <3>1. (k - 1) + 1 = k /\ k \in 1 .. Len(res) - 1
      BY <1>3, <2>2
    <3>2. k < Len(p) => k \in 1 .. Len(p) - 1 /\ k - 1 < Len(p) - 1
      BY <1>1, <1>3
    <3> QED  BY <1>1, <1>6, <1>7, <2>2, <3>1, <3>2
  <2> QED  BY <2>1, <2>2 DEF AnsweredUpTo, p, res
<1>13. (k - 1) + 1 = k
  BY <1>3
<1>14. AnsweredUpTo(s, k - 1, ap, rf)
  BY <1>8, <1>9, <1>11, <1>12, <1>13 DEF AnsweredUpTo
<1> QED  BY <1>3, <1>4, <1>5, <1>8, <1>10, <1>14 DEF p
-----------------------------------------------------------------------------
(* The queues of batches and of messages.                                   *)

LEMMA QueueElements ==
    ASSUME NEW q \in Seq(Batch)
    PROVE  /\ Len(q) \in Nat /\ DOMAIN q = 1 .. Len(q)
           /\ \A i \in DOMAIN q : /\ q[i] \in Batch /\ q[i].batchId \in Nat
                                  /\ q[i].write \in Write
<1>1. Len(q) \in Nat /\ DOMAIN q = 1 .. Len(q)
  BY LenProperties
<1>2. \A i \in DOMAIN q : q[i] \in Batch
  BY <1>1, ElementOfSeq
<1> QED  BY <1>1, <1>2 DEF Batch

LEMMA PopQueue ==
    ASSUME NEW q \in Seq(Batch), InOrder(q), q # << >>
    PROVE  /\ RemoveMutationBatch(q, q[1].batchId) = Tail(q)
           /\ Tail(q) \in Seq(Batch) /\ InOrder(Tail(q))
           /\ \A n \in Nat : IdsBelow(q, n) => IdsBelow(Tail(q), n)
           /\ FirstRows(q) # << >> /\ Head(FirstRows(q)) = q[1]
           /\ Room(q) - 1 \in Nat /\ Room(q) - 1 <= Room(Tail(q))
           /\ Tail(FirstRows(q)) = SubSeq(Tail(q), 1, Room(q) - 1)
<1>1. /\ Len(q) \in Nat \ {0} /\ DOMAIN q = 1 .. Len(q) /\ Len(<< >>) = 0
      /\ \A i \in DOMAIN q : q[i].batchId \in Nat
  BY QueueElements, EmptySeq
<1>2. /\ Tail(q) \in Seq(Batch) /\ Len(Tail(q)) = Len(q) - 1
      /\ \A i \in 1 .. Len(q) - 1 : Tail(q)[i] = q[i + 1]
      /\ DOMAIN Tail(q) = 1 .. Len(q) - 1
      /\ Tail(q) = SubSeq(q, 2, Len(q))
  <2>1. /\ Tail(q) \in Seq(Batch) /\ Len(Tail(q)) = Len(q) - 1
        /\ \A i \in 1 .. Len(q) - 1 : Tail(q)[i] = q[i + 1]
    BY HeadTailProperties
  <2> QED  BY <2>1, LenProperties, TailIsSubSeq
<1>3. RemoveMutationBatch(q, q[1].batchId) = Tail(q)
  <2>1. \A i \in DOMAIN q : q[i].batchId = q[1].batchId => i = 1
    BY <1>1 DEF InOrder
  <2>2. (CHOOSE i \in DOMAIN q : q[i].batchId = q[1].batchId) = 1
    BY <1>1, <2>1
  <2>3. RemoveMutationBatch(q, q[1].batchId) = SubSeq(q, 1, 1 - 1) \o SubSeq(q, 1 + 1, Len(q))
    <3>1. \E i \in DOMAIN q : q[i].batchId = q[1].batchId
      BY <1>1
    <3> QED  BY <2>2, <3>1 DEF RemoveMutationBatch, RemoveAt
  <2>4. SubSeq(q, 1, 1 - 1) = << >> /\ 1 + 1 = 2
    BY SubSeqEmpty
  <2> QED  BY <1>2, <2>3, <2>4, ConcatEmptySeq
<1>4. InOrder(Tail(q))
  <2>1. ASSUME NEW i \in DOMAIN Tail(q), NEW j \in DOMAIN Tail(q), i < j
        PROVE  Tail(q)[i].batchId < Tail(q)[j].batchId
    <3>1. /\ i + 1 \in DOMAIN q /\ j + 1 \in DOMAIN q /\ i + 1 < j + 1
          /\ Tail(q)[i] = q[i + 1] /\ Tail(q)[j] = q[j + 1]
      BY <1>1, <1>2, <2>1
    <3> QED  BY <3>1 DEF InOrder
  <2> QED  BY <2>1 DEF InOrder
<1>5. \A n \in Nat : IdsBelow(q, n) => IdsBelow(Tail(q), n)
  <2>1. \A i \in DOMAIN Tail(q) : i + 1 \in DOMAIN q /\ Tail(q)[i] = q[i + 1]
    BY <1>1, <1>2
  <2> QED  BY <2>1 DEF IdsBelow
<1>6. /\ Room(q) \in Nat \ {0} /\ Room(q) <= Len(q)
      /\ FirstRows(q) \in Seq(Batch) /\ Len(FirstRows(q)) = Room(q)
      /\ \A i \in 1 .. Room(q) : FirstRows(q)[i] = q[i]
  BY RoomType
<1>7. FirstRows(q) # << >> /\ Head(FirstRows(q)) = q[1]
  BY <1>1, <1>6
<1>8. Room(q) - 1 \in Nat /\ Room(q) - 1 <= Room(Tail(q))
  BY <1>1, <1>2, <1>6, PipelineConstantsAssumption DEF Room
<1>9. Tail(FirstRows(q)) = SubSeq(Tail(q), 1, Room(q) - 1)
  <2> DEFINE a == Tail(FirstRows(q))
             b == SubSeq(Tail(q), 1, Room(q) - 1)
  <2>1. /\ a \in Seq(Batch) /\ Len(a) = Room(q) - 1
        /\ \A i \in 1 .. Room(q) - 1 : a[i] = FirstRows(q)[i + 1]
    BY <1>6, <1>7, HeadTailProperties
  <2>2. /\ b \in Seq(Batch) /\ Len(b) = Room(q) - 1
        /\ \A i \in 1 .. Room(q) - 1 : b[i] = Tail(q)[i]
    <3>1. Room(q) - 1 \in 0 .. Len(Tail(q)) /\ 1 \in Nat \ {0}
      BY <1>1, <1>2, <1>6
    <3>2. Room(q) - 1 - 1 + 1 = Room(q) - 1 /\ (~ (1 <= Room(q) - 1) => Room(q) - 1 = 0)
      BY <1>6
    <3>3. \A i \in 1 .. Room(q) - 1 : 1 + i - 1 = i
      BY <1>6
    <3>4. /\ b \in Seq(Batch)
          /\ Len(b) = IF 1 <= Room(q) - 1 THEN Room(q) - 1 - 1 + 1 ELSE 0
          /\ \A i \in 1 .. Room(q) - 1 - 1 + 1 : b[i] = Tail(q)[1 + i - 1]
      BY <1>2, <3>1, PartType
    <3> HIDE DEF b
    <3> QED  BY <3>2, <3>3, <3>4
  <2>3. \A i \in 1 .. Room(q) - 1 : FirstRows(q)[i + 1] = Tail(q)[i]
    BY <1>1, <1>2, <1>6
  <2>4. a = b
    <3> HIDE DEF a, b
    <3> QED  BY <2>1, <2>2, <2>3, SeqEqual
  <2> QED  BY <2>4
<1> QED  BY <1>2, <1>3, <1>4, <1>5, <1>7, <1>8, <1>9

LEMMA AppendQueue ==
    ASSUME NEW q \in Seq(Batch), InOrder(q), NEW b \in Batch, IdsBelow(q, b.batchId)
    PROVE  /\ Append(q, b) \in Seq(Batch) /\ InOrder(Append(q, b))
           /\ IdsBelow(Append(q, b), b.batchId + 1)
           /\ FirstRows(q) = SubSeq(Append(q, b), 1, Room(q))
           /\ Room(q) <= Room(Append(q, b))
           /\ Append(q, b) # << >>
<1>1. /\ Len(q) \in Nat /\ DOMAIN q = 1 .. Len(q) /\ b.batchId \in Nat
      /\ \A i \in DOMAIN q : q[i].batchId \in Nat
  BY QueueElements DEF Batch
<1>2. /\ Append(q, b) \in Seq(Batch) /\ Append(q, b) # << >>
      /\ Len(Append(q, b)) = Len(q) + 1
      /\ DOMAIN Append(q, b) = 1 .. Len(q) + 1
      /\ \A i \in 1 .. Len(q) : Append(q, b)[i] = q[i]
      /\ Append(q, b)[Len(q) + 1] = b
  BY AppendProperties, LenProperties
<1>3. InOrder(Append(q, b)) /\ IdsBelow(Append(q, b), b.batchId + 1)
  <2>1. \A i \in 1 .. Len(q) : Append(q, b)[i].batchId < b.batchId
    BY <1>1, <1>2 DEF IdsBelow
  <2>2. \A i, j \in 1 .. Len(q) : i < j => Append(q, b)[i].batchId < Append(q, b)[j].batchId
    BY <1>1, <1>2 DEF InOrder
  <2>3. \A i \in 1 .. Len(q) + 1 : i \in 1 .. Len(q) \/ i = Len(q) + 1
    BY <1>1
  <2>4. InOrder(Append(q, b))
    <3>1. ASSUME NEW i \in 1 .. Len(q) + 1, NEW j \in 1 .. Len(q) + 1, i < j
          PROVE  Append(q, b)[i].batchId < Append(q, b)[j].batchId
      <4>1. i \in 1 .. Len(q)
        BY <1>1, <3>1
      <4> QED  BY <1>2, <2>1, <2>2, <2>3, <3>1, <4>1
    <3> QED  BY <1>2, <3>1 DEF InOrder
  <2>5. \A i \in 1 .. Len(q) + 1 : Append(q, b)[i].batchId < b.batchId + 1
    <3>1. \A i \in 1 .. Len(q) : Append(q, b)[i].batchId \in Nat
      BY <1>1, <1>2
    <3> QED  BY <1>1, <1>2, <2>1, <2>3, <3>1
  <2> QED  BY <1>2, <2>4, <2>5 DEF IdsBelow
<1>4. Room(q) <= Room(Append(q, b))
  BY <1>1, <1>2, PipelineConstantsAssumption DEF Room
<1>5. FirstRows(q) = SubSeq(Append(q, b), 1, Room(q))
  <2>1. /\ Room(q) \in Nat /\ Room(q) <= Len(q)
        /\ FirstRows(q) \in Seq(Batch) /\ Len(FirstRows(q)) = Room(q)
        /\ \A i \in 1 .. Room(q) : FirstRows(q)[i] = q[i]
    BY RoomType
  <2> DEFINE a == SubSeq(Append(q, b), 1, Room(q))
  <2>2. /\ a \in Seq(Batch) /\ Len(a) = Room(q)
        /\ \A i \in 1 .. Room(q) : a[i] = Append(q, b)[i]
    <3>1. Room(q) \in 0 .. Len(Append(q, b)) /\ 1 \in Nat \ {0}
      BY <1>1, <1>2, <2>1
    <3>2. /\ a \in Seq(Batch)
          /\ Len(a) = IF 1 <= Room(q) THEN Room(q) - 1 + 1 ELSE 0
          /\ \A i \in 1 .. Room(q) - 1 + 1 : a[i] = Append(q, b)[1 + i - 1]
      BY <1>2, <3>1, PartType
    <3>3. Room(q) - 1 + 1 = Room(q) /\ (~ (1 <= Room(q)) => Room(q) = 0)
      BY <2>1
    <3>4. \A i \in 1 .. Room(q) : 1 + i - 1 = i
      BY <2>1
    <3> HIDE DEF a
    <3> QED  BY <3>2, <3>3, <3>4
  <2>3. \A i \in 1 .. Room(q) : Append(q, b)[i] = q[i]
    BY <1>1, <1>2, <2>1
  <2>4. FirstRows(q) = a
    <3> HIDE DEF a
    <3> QED  BY <2>1, <2>2, <2>3, SeqEqual
  <2> QED  BY <2>4
<1> QED  BY <1>2, <1>3, <1>4, <1>5

\* The next id after a restart or a change of account is a new one.
LEMMA MaxBatchIdForm ==
    ASSUME NEW table \in [Account -> Seq(Batch)], NEW n \in Nat,
           \A u \in Account : IdsBelow(table[u], n)
    PROVE  /\ MaxBatchId(table) \in Nat
           /\ \A u \in Account : IdsBelow(table[u], MaxBatchId(table) + 1)
<1> DEFINE ids == {0} \cup
                  UNION {{table[u][i].batchId : i \in DOMAIN table[u]} : u \in Account}
<1>1. \A u \in Account : \A i \in DOMAIN table[u] :
         table[u][i].batchId \in ids /\ table[u][i].batchId \in Nat
  <2>1. ASSUME NEW u \in Account, NEW i \in DOMAIN table[u]
        PROVE  table[u][i].batchId \in ids /\ table[u][i].batchId \in Nat
    <3>1. table[u] \in Seq(Batch)
      OBVIOUS
    <3> QED  BY <3>1, QueueElements
  <2> QED  BY <2>1
<1>2. ids \in SUBSET Nat /\ 0 \in ids
  BY <1>1
<1>3. \A k \in ids : k <= n
  <2>1. \A u \in Account : \A i \in DOMAIN table[u] : table[u][i].batchId < n
    BY DEF IdsBelow
  <2> QED  BY <1>1, <2>1
<1>4. MaxBatchId(table) = CHOOSE k \in ids : \A j \in ids : j <= k
  BY DEF MaxBatchId
<1> HIDE DEF ids
<1>5. \E k \in ids : \A j \in ids : j <= k
  BY <1>2, <1>3, MaxExists
<1>6. MaxBatchId(table) \in ids /\ \A j \in ids : j <= MaxBatchId(table)
  BY <1>4, <1>5
<1>7. \A u \in Account : \A i \in DOMAIN table[u] :
         table[u][i].batchId < MaxBatchId(table) + 1
  <2>1. ASSUME NEW u \in Account, NEW i \in DOMAIN table[u]
        PROVE  table[u][i].batchId < MaxBatchId(table) + 1
    <3>1. table[u][i].batchId \in Nat /\ table[u][i].batchId <= MaxBatchId(table)
      BY <1>1, <1>6
    <3>2. MaxBatchId(table) \in Nat
      BY <1>2, <1>6
    <3> QED  BY <3>1, <3>2
  <2> QED  BY <2>1
<1> QED  BY <1>2, <1>6, <1>7 DEF IdsBelow

LEMMA MessageElements ==
    ASSUME NEW m \in Seq(Message)
    PROVE  Len(m) \in Nat /\ DOMAIN m = 1 .. Len(m) /\ \A i \in DOMAIN m : m[i] \in Message
<1>1. Len(m) \in Nat /\ DOMAIN m = 1 .. Len(m)
  BY LenProperties
<1> QED  BY <1>1, ElementOfSeq

LEMMA MessageTypes ==
    /\ \A u \in Account : /\ AccountChanged(u) \in Message
                          /\ AccountChanged(u).kind = "account"
                          /\ AccountChanged(u).user = u
    /\ \A t \in Account \cup {NoToken}, c \in BOOLEAN :
          /\ TokenReady(t, c) \in Message /\ TokenReady(t, c).kind = "token"
          /\ TokenReady(t, c).user = t /\ TokenReady(t, c).current = c
    /\ Ignored \in Message /\ Ignored.kind = "ignored"
    /\ \A x \in Message : /\ x.kind = "account" => x.user \in Account
                          /\ x.kind = "token" => /\ x.user \in Account \cup {NoToken}
                                                 /\ x.current \in BOOLEAN
<1>1. \A u \in Account : /\ AccountChanged(u) \in Message
                         /\ AccountChanged(u).kind = "account"
                         /\ AccountChanged(u).user = u
  BY DEF Message, AccountChanged
<1>2. \A t \in Account \cup {NoToken}, c \in BOOLEAN :
         /\ TokenReady(t, c) \in Message /\ TokenReady(t, c).kind = "token"
         /\ TokenReady(t, c).user = t /\ TokenReady(t, c).current = c
  BY DEF Message, TokenReady
<1>3. Ignored \in Message /\ Ignored.kind = "ignored"
  BY DEF Message, Ignored
<1>4. ASSUME NEW x \in Message
      PROVE  /\ x.kind = "account" => x.user \in Account
             /\ x.kind = "token" => x.user \in Account \cup {NoToken} /\ x.current \in BOOLEAN
  <2>1. CASE x \in [kind : {"account"}, user : Account, current : {TRUE}]
    BY <2>1
  <2>2. CASE x \in [kind : {"token"}, user : Account \cup {NoToken}, current : BOOLEAN]
    BY <2>2
  <2>3. CASE x = Ignored
    BY <2>3 DEF Ignored
  <2> QED  BY <2>1, <2>2, <2>3 DEF Message
<1> QED  BY <1>1, <1>2, <1>3, <1>4

LEMMA AppendMessage ==
    ASSUME NEW m \in Seq(Message), NEW x \in Message
    PROVE  /\ Append(m, x) \in Seq(Message)
           /\ HasToken(Append(m, x)) <=> HasToken(m) \/ x.kind = "token"
           /\ OneToken(m) /\ (x.kind = "token" => ~ HasToken(m)) => OneToken(Append(m, x))
<1>1. Len(m) \in Nat /\ DOMAIN m = 1 .. Len(m)
  BY MessageElements
<1>2. /\ Append(m, x) \in Seq(Message)
      /\ DOMAIN Append(m, x) = 1 .. Len(m) + 1
      /\ \A i \in 1 .. Len(m) : Append(m, x)[i] = m[i]
      /\ Append(m, x)[Len(m) + 1] = x
  BY AppendProperties, LenProperties
<1>3. \A i \in 1 .. Len(m) + 1 : i \in 1 .. Len(m) \/ i = Len(m) + 1
  BY <1>1
<1>4. 1 .. Len(m) \subseteq 1 .. Len(m) + 1 /\ Len(m) + 1 \in 1 .. Len(m) + 1
  BY <1>1
<1>5. HasToken(Append(m, x)) <=> HasToken(m) \/ x.kind = "token"
  BY <1>1, <1>2, <1>3, <1>4 DEF HasToken
<1>6. ASSUME OneToken(m), x.kind = "token" => ~ HasToken(m) PROVE OneToken(Append(m, x))
  BY <1>1, <1>2, <1>3, <1>6 DEF HasToken, OneToken
<1> QED  BY <1>2, <1>5, <1>6

LEMMA TailMessage ==
    ASSUME NEW m \in Seq(Message), m # << >>
    PROVE  /\ Head(m) \in Message /\ Tail(m) \in Seq(Message)
           /\ HasToken(Tail(m)) => HasToken(m)
           /\ OneToken(m) => OneToken(Tail(m))
           /\ Head(m).kind = "token" => HasToken(m)
           /\ OneToken(m) /\ Head(m).kind = "token" => ~ HasToken(Tail(m))
<1>1. Len(m) \in Nat \ {0} /\ DOMAIN m = 1 .. Len(m) /\ Head(m) = m[1]
  BY MessageElements, EmptySeq
<1>2. /\ Head(m) \in Message /\ Tail(m) \in Seq(Message)
      /\ DOMAIN Tail(m) = 1 .. Len(m) - 1
      /\ \A i \in 1 .. Len(m) - 1 : Tail(m)[i] = m[i + 1]
  BY HeadTailProperties, LenProperties
<1>3. \A i \in 1 .. Len(m) - 1 : i + 1 \in DOMAIN m /\ i + 1 # 1
  BY <1>1
<1>4. HasToken(Tail(m)) => HasToken(m)
  BY <1>2, <1>3 DEF HasToken
<1>5. OneToken(m) => OneToken(Tail(m))
  <2>1. ASSUME OneToken(m), NEW i \in DOMAIN Tail(m), NEW j \in DOMAIN Tail(m),
               Tail(m)[i].kind = "token", Tail(m)[j].kind = "token"
        PROVE  i = j
    <3>1. i + 1 = j + 1
      BY <1>2, <1>3, <2>1 DEF OneToken
    <3> QED  BY <1>1, <1>2, <3>1
  <2> QED  BY <2>1 DEF OneToken
<1>6. Head(m).kind = "token" => HasToken(m)
  BY <1>1 DEF HasToken
<1>7. OneToken(m) /\ Head(m).kind = "token" => ~ HasToken(Tail(m))
  <2>1. 1 \in DOMAIN m
    BY <1>1
  <2> QED  BY <1>1, <1>2, <1>3, <2>1 DEF OneToken, HasToken
<1> QED  BY <1>2, <1>4, <1>5, <1>6, <1>7

LEMMA FunctionIsSeq ==
    ASSUME NEW S, NEW n \in Nat, NEW s \in [1 .. n -> S]
    PROVE  s \in Seq(S) /\ DOMAIN s = 1 .. n
BY SeqDef

LEMMA IgnoringForm ==
    ASSUME NEW m \in Seq(Message)
    PROVE  /\ IgnoringToken(m) \in Seq(Message) /\ ~ HasToken(IgnoringToken(m))
           /\ DOMAIN IgnoringToken(m) = DOMAIN m
           /\ \A i \in DOMAIN m :
                 IgnoringToken(m)[i] = IF m[i].kind = "token" THEN Ignored ELSE m[i]
<1>1. Len(m) \in Nat /\ DOMAIN m = 1 .. Len(m) /\ \A i \in DOMAIN m : m[i] \in Message
  BY MessageElements
<1>2. IgnoringToken(m) \in [1 .. Len(m) -> Message]
  BY <1>1, MessageTypes DEF IgnoringToken
<1>3. \A i \in DOMAIN m :
         IgnoringToken(m)[i] = IF m[i].kind = "token" THEN Ignored ELSE m[i]
  BY DEF IgnoringToken
<1>4. IgnoringToken(m) \in Seq(Message) /\ DOMAIN IgnoringToken(m) = DOMAIN m
  BY <1>1, <1>2, FunctionIsSeq
<1>5. ~ HasToken(IgnoringToken(m))
  BY <1>3, <1>4, MessageTypes DEF HasToken
<1> QED  BY <1>3, <1>4, <1>5

LEMMA OutdatedForm ==
    ASSUME NEW m \in Seq(Message)
    PROVE  /\ Outdated(m) \in Seq(Message) /\ DOMAIN Outdated(m) = DOMAIN m
           /\ HasToken(Outdated(m)) <=> HasToken(m)
           /\ OneToken(m) => OneToken(Outdated(m))
           /\ \A i \in DOMAIN m :
                 Outdated(m)[i] = IF m[i].kind = "token" THEN TokenReady(m[i].user, FALSE)
                                  ELSE m[i]
<1>1. Len(m) \in Nat /\ DOMAIN m = 1 .. Len(m) /\ \A i \in DOMAIN m : m[i] \in Message
  BY MessageElements
<1>2. Outdated(m) \in [1 .. Len(m) -> Message]
  BY <1>1, MessageTypes DEF Outdated
<1>3. \A i \in DOMAIN m :
         Outdated(m)[i] = IF m[i].kind = "token" THEN TokenReady(m[i].user, FALSE) ELSE m[i]
  BY DEF Outdated
<1>4. Outdated(m) \in Seq(Message) /\ DOMAIN Outdated(m) = DOMAIN m
  BY <1>1, <1>2, FunctionIsSeq
<1>5. \A i \in DOMAIN m : Outdated(m)[i].kind = "token" <=> m[i].kind = "token"
  <2>1. ASSUME NEW i \in DOMAIN m
        PROVE  Outdated(m)[i].kind = "token" <=> m[i].kind = "token"
    <3>1. m[i] \in Message
      BY <1>1
    <3>2. m[i].kind = "token" => TokenReady(m[i].user, FALSE).kind = "token"
      BY <3>1, MessageTypes
    <3> QED  BY <1>3, <3>2
  <2> QED  BY <2>1
<1>6. /\ HasToken(Outdated(m)) <=> HasToken(m)
      /\ OneToken(m) => OneToken(Outdated(m))
  BY <1>4, <1>5 DEF HasToken, OneToken
<1> QED  BY <1>3, <1>4, <1>6

LEMMA TailRest ==
    ASSUME NEW S, NEW s \in Seq(S), NEW k \in 0 .. Len(s), k < Len(s)
    PROVE  Tail(SubSeq(s, k + 1, Len(s))) = SubSeq(s, k + 1 + 1, Len(s))
<1> DEFINE a == SubSeq(s, k + 1, Len(s))
           b == SubSeq(s, k + 1 + 1, Len(s))
<1>1. Len(s) \in Nat /\ k \in Nat /\ k + 1 \in 0 .. Len(s)
  BY LenProperties
<1>2. /\ a \in Seq(S) /\ Len(a) = Len(s) - k
      /\ \A i \in 1 .. Len(s) - k : a[i] = s[k + i]
  BY RestOf
<1>3. /\ b \in Seq(S) /\ Len(b) = Len(s) - (k + 1)
      /\ \A i \in 1 .. Len(s) - (k + 1) : b[i] = s[k + 1 + i]
  BY <1>1, RestOf
<1> HIDE DEF a, b
<1>4. a # << >>
  BY <1>1, <1>2, EmptySeq
<1>5. /\ Tail(a) \in Seq(S) /\ Len(Tail(a)) = Len(a) - 1
      /\ \A i \in 1 .. Len(Tail(a)) : Tail(a)[i] = a[i + 1]
  BY <1>2, <1>4, HeadTailProperties
<1>6. \A i \in 1 .. Len(Tail(a)) : Tail(a)[i] = b[i]
  <2>1. ASSUME NEW i \in 1 .. Len(Tail(a)) PROVE Tail(a)[i] = b[i]
    <3>1. /\ i + 1 \in 1 .. Len(s) - k /\ i \in 1 .. Len(s) - (k + 1)
          /\ k + (i + 1) = k + 1 + i
      BY <1>1, <1>2, <1>5
    <3> QED  BY <1>2, <1>3, <1>5, <3>1
  <2> QED  BY <2>1
<1>7. Len(Tail(a)) = Len(b)
  BY <1>1, <1>2, <1>3, <1>5
<1>8. Tail(a) = b
  BY <1>3, <1>5, <1>6, <1>7, SeqEqual
<1> QED  BY <1>8 DEF a, b

\* A sequence of one element less.
LEMMA RemoveAtType ==
    ASSUME NEW S, NEW s \in Seq(S), NEW k \in 1 .. Len(s)
    PROVE  /\ RemoveAt(s, k) \in Seq(S)
           /\ Len(RemoveAt(s, k)) = Len(s) - 1
           /\ \A i \in 1 .. Len(s) - 1 : RemoveAt(s, k)[i] = IF i < k THEN s[i] ELSE s[i + 1]
<1> DEFINE a == SubSeq(s, 1, k - 1)
           b == SubSeq(s, k + 1, Len(s))
<1>1. Len(s) \in Nat /\ k \in Nat /\ k - 1 \in 0 .. Len(s) /\ k \in 0 .. Len(s)
      /\ 1 \in Nat \ {0}
  BY LenProperties
<1>2. /\ a \in Seq(S) /\ Len(a) = (IF 1 <= k - 1 THEN k - 1 - 1 + 1 ELSE 0)
      /\ \A i \in 1 .. k - 1 - 1 + 1 : a[i] = s[1 + i - 1]
  BY <1>1, PartType
<1>3. /\ b \in Seq(S) /\ Len(b) = Len(s) - k
      /\ \A i \in 1 .. Len(s) - k : b[i] = s[k + i]
  BY <1>1, RestOf
<1>4. RemoveAt(s, k) = a \o b
  BY DEF RemoveAt
<1> HIDE DEF a, b
<1>5. /\ Len(a) = k - 1
      /\ \A i \in 1 .. k - 1 : a[i] = s[i]
  <2>1. k - 1 - 1 + 1 = k - 1 /\ (~ (1 <= k - 1) => k - 1 = 0)
    BY <1>1
  <2>2. \A i \in 1 .. k - 1 : 1 + i - 1 = i
    BY <1>1
  <2> QED  BY <1>2, <2>1, <2>2
<1>6. /\ a \o b \in Seq(S) /\ Len(a \o b) = Len(a) + Len(b)
      /\ \A i \in 1 .. Len(a) + Len(b) : (a \o b)[i] = IF i <= Len(a) THEN a[i] ELSE b[i - Len(a)]
  BY <1>2, <1>3, ConcatProperties
<1>7. \A i \in 1 .. Len(s) - 1 : (a \o b)[i] = IF i < k THEN s[i] ELSE s[i + 1]
  <2>1. ASSUME NEW i \in 1 .. Len(s) - 1
        PROVE  (a \o b)[i] = IF i < k THEN s[i] ELSE s[i + 1]
    <3>1. i \in 1 .. Len(a) + Len(b)
      BY <1>1, <1>3, <1>5
    <3>2. (a \o b)[i] = IF i <= Len(a) THEN a[i] ELSE b[i - Len(a)]
      BY <1>6, <3>1
    <3>3. CASE i < k
      <4>1. i <= Len(a) /\ i \in 1 .. k - 1
        BY <1>1, <1>5, <3>3
      <4> QED  BY <1>5, <3>2, <3>3, <4>1
    <3>4. CASE ~ (i < k)
      <4>1. ~ (i <= Len(a)) /\ i - Len(a) \in 1 .. Len(s) - k /\ k + (i - Len(a)) = i + 1
        BY <1>1, <1>5, <3>4
      <4> QED  BY <1>3, <3>2, <3>4, <4>1
    <3> QED  BY <3>3, <3>4
  <2> QED  BY <2>1
<1>8. Len(a \o b) = Len(s) - 1
  BY <1>1, <1>3, <1>5, <1>6
<1> QED  BY <1>4, <1>6, <1>7, <1>8
=============================================================================
