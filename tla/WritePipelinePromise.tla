------------------------ MODULE WritePipelinePromise ------------------------
(***************************************************************************)
(* Theorems about WritePipeline for any accounts, any size of the pipeline *)
(* and any number of writes, changes of account and faults: completions    *)
(* tell the truth, WritePipeline implements WriteQueue, and only what is   *)
(* sent again is applied again.                                            *)
(***************************************************************************)
EXTENDS WritePipelineStream

-----------------------------------------------------------------------------
(* The writes of the app, from their issue to their answer.                 *)

\* The app's order is that of the queues, and no write is in two of them.
Rising(q) == \A i, j \in DOMAIN q : i < j => q[i].write < q[j].write

QueuesApart ==
    \A u, v \in Account : \A i \in DOMAIN mutations[u], j \in DOMAIN mutations[v] :
        mutations[u][i].write = mutations[v][j].write => u = v

\* What is queued has been issued and not been answered.
Unanswered(w) == w <= issued /\ outcome[w] = "none" /\ told[w] = "none"

QueuedUnanswered ==
    \A u \in Account : \A i \in DOMAIN mutations[u] : Unanswered(mutations[u][i].write)

Unissued == \A w \in Write : w > issued => outcome[w] = "none" /\ told[w] = "none"

\* The completions waiting are those of the rows, except those that died with
\* the app.
Waits(k, q) ==
    \E i \in DOMAIN q : q[i].batchId = k.batchId /\ q[i].write = k.write

CallbacksOfRows == \A u \in Account : \A k \in callbacks[u] : Waits(k, mutations[u])

RowsWithCallbacks ==
    \A u \in Account : \A i \in DOMAIN mutations[u] :
        \/ mutations[u][i].write \in orphaned
        \/ [batchId |-> mutations[u][i].batchId, write |-> mutations[u][i].write]
              \in callbacks[u]

TruthInv ==
    /\ \A u \in Account : Rising(mutations[u])
    /\ QueuesApart
    /\ QueuedUnanswered
    /\ Unissued
    /\ CallbacksOfRows
    /\ RowsWithCallbacks
    /\ CompletionsTellTheTruth

\* What the backend has applied and refused stays so.
MoreApplied ==
    /\ DOMAIN applied \subseteq DOMAIN applied'
    /\ \A j \in DOMAIN applied : applied'[j] = applied[j]
    /\ refused \subseteq refused'

LEMMA AppliedStays ==
    ASSUME MoreApplied
    PROVE  ToSet(applied) \subseteq ToSet(applied')
BY DEF MoreApplied, ToSet

\* Most steps touch nothing of this.
LEMMA TruthKept ==
    ASSUME TruthInv, MoreApplied,
           UNCHANGED <<mutations, callbacks, issued, outcome, told, orphaned>>
    PROVE  TruthInv'
<1>1. ToSet(applied) \subseteq ToSet(applied') /\ refused \subseteq refused'
  BY AppliedStays DEF MoreApplied
<1>2. CompletionsTellTheTruth'
  BY <1>1 DEF TruthInv, CompletionsTellTheTruth
<1> QED  BY <1>2 DEF TruthInv, Rising, QueuesApart, QueuedUnanswered, Unanswered, Unissued,
                     CallbacksOfRows, Waits, RowsWithCallbacks

LEMMA SameApplied ==
    ASSUME UNCHANGED <<applied, refused>>
    PROVE  MoreApplied
BY DEF MoreApplied

\* A row of a queue, seen from outside.
LEMMA RowFacts ==
    ASSUME StreamInv, NEW u \in Account
    PROVE  /\ mutations[u] \in Seq(Batch)
           /\ Len(mutations[u]) \in Nat /\ DOMAIN mutations[u] = 1 .. Len(mutations[u])
           /\ \A i \in DOMAIN mutations[u] :
                 /\ mutations[u][i] \in Batch /\ mutations[u][i].batchId \in Nat
                 /\ mutations[u][i].write \in Write
<1>1. mutations[u] \in Seq(Batch)
  BY InvFacts
<1> QED  BY <1>1, QueueElements

LEMMA TruthWriteLocally ==
    ASSUME StreamInv, TruthInv, WriteLocally
    PROVE  TruthInv'
<1> DEFINE u == currentUser
           q == mutations[u]
           w == issued + 1
           batch == [user |-> u, batchId |-> nextBatchId, write |-> w]
           waiting == [batchId |-> nextBatchId, write |-> w]
<1>1. /\ u \in Account /\ mutations \in [Account -> Seq(Batch)]
      /\ callbacks \in [Account -> SUBSET [batchId : Nat, write : Write]]
      /\ nextBatchId \in Nat /\ issued \in Nat /\ issued < MaxWrites /\ MaxWrites \in Nat
  BY PipelineConstantsAssumption DEF StreamInv, TypeOK, WriteLocally
<1>2. w \in Write /\ batch \in Batch
  BY <1>1 DEF Write, Batch
<1>3. /\ mutations' = [mutations EXCEPT ![u] = Append(q, batch)]
      /\ callbacks' = [callbacks EXCEPT ![u] =
             IF \E k \in @ : k.batchId = nextBatchId THEN @ ELSE @ \cup {waiting}]
      /\ issued' = w
      /\ UNCHANGED <<applied, refused, outcome, told, orphaned>>
  BY DEF WriteLocally, backendVars
<1>4. /\ q \in Seq(Batch) /\ Len(q) \in Nat /\ DOMAIN q = 1 .. Len(q)
      /\ \A i \in DOMAIN q : q[i].batchId < nextBatchId /\ q[i].batchId \in Nat
  BY <1>1, RowFacts, InvFacts DEF IdsBelow
<1>5. ~ \E k \in callbacks[u] : k.batchId = nextBatchId
  <2>1. ASSUME NEW k \in callbacks[u], k.batchId = nextBatchId
        PROVE  FALSE
    <3>1. Waits(k, q)
      BY <1>1 DEF TruthInv, CallbacksOfRows
    <3>2. PICK i \in DOMAIN q : q[i].batchId = nextBatchId
      BY <2>1, <3>1 DEF Waits
    <3>3. q[i].batchId < nextBatchId /\ q[i].batchId \in Nat
      BY <1>4
    <3> QED  BY <1>1, <3>2, <3>3
  <2> QED  BY <2>1
<1>6. /\ mutations'[u] = Append(q, batch)
      /\ \A v \in Account \ {u} : mutations'[v] = mutations[v]
      /\ callbacks'[u] = callbacks[u] \cup {waiting}
      /\ \A v \in Account \ {u} : callbacks'[v] = callbacks[v]
  BY <1>1, <1>3, <1>5
<1>7. /\ DOMAIN Append(q, batch) = 1 .. Len(q) + 1
      /\ \A i \in 1 .. Len(q) : Append(q, batch)[i] = q[i]
      /\ Append(q, batch)[Len(q) + 1] = batch
  BY <1>2, <1>4, AppendProperties, LenProperties
<1>8. batch.batchId = nextBatchId /\ batch.write = w
  OBVIOUS
<1> HIDE DEF batch
<1>9. \A v \in Account : \A i \in DOMAIN mutations'[v] :
         \/ i \in DOMAIN mutations[v] /\ mutations'[v][i] = mutations[v][i]
         \/ v = u /\ i = Len(q) + 1 /\ mutations'[v][i] = batch
  BY <1>4, <1>6, <1>7
<1>10. \A v \in Account : \A i \in DOMAIN mutations[v] :
          /\ mutations[v][i].write \in Write /\ mutations[v][i].write <= issued
          /\ i \in DOMAIN mutations'[v] /\ mutations'[v][i] = mutations[v][i]
  <2>1. \A v \in Account : \A i \in DOMAIN mutations[v] :
           i \in DOMAIN mutations'[v] /\ mutations'[v][i] = mutations[v][i]
    BY <1>4, <1>6, <1>7
  <2> QED  BY <2>1, RowFacts DEF TruthInv, QueuedUnanswered, Unanswered
<1>11. \A v \in Account : Rising(mutations'[v])
  <2>1. ASSUME NEW v \in Account, NEW i \in DOMAIN mutations'[v],
               NEW j \in DOMAIN mutations'[v], i < j
        PROVE  mutations'[v][i].write < mutations'[v][j].write
    <3>1. CASE j \in DOMAIN mutations[v] /\ i \in DOMAIN mutations[v]
      BY <1>10, <2>1, <3>1 DEF TruthInv, Rising
    <3>2. CASE i \in DOMAIN mutations[v] /\ j \notin DOMAIN mutations[v]
      BY <1>1, <1>8, <1>9, <1>10, <3>2 DEF Write
    <3>3. CASE i \notin DOMAIN mutations[v]
      BY <1>4, <1>6, <1>7, <1>9, <2>1, <3>3
    <3> QED  BY <3>1, <3>2, <3>3
  <2> QED  BY <2>1 DEF Rising
<1>12. QueuesApart'
  <2>1. ASSUME NEW v \in Account, NEW x \in Account,
               NEW i \in DOMAIN mutations'[v], NEW j \in DOMAIN mutations'[x],
               mutations'[v][i].write = mutations'[x][j].write, v # x
        PROVE  FALSE
    <3>1. CASE i \in DOMAIN mutations[v] /\ j \in DOMAIN mutations[x]
      BY <1>10, <2>1, <3>1 DEF TruthInv, QueuesApart
    <3>2. CASE i \notin DOMAIN mutations[v]
      BY <1>1, <1>8, <1>9, <1>10, <2>1, <3>2 DEF Write
    <3>3. CASE j \notin DOMAIN mutations[x]
      BY <1>1, <1>8, <1>9, <1>10, <2>1, <3>3 DEF Write
    <3> QED  BY <3>1, <3>2, <3>3
  <2> QED  BY <2>1 DEF QueuesApart
<1>13. QueuedUnanswered'
  <2>1. outcome[w] = "none" /\ told[w] = "none"
    BY <1>1, <1>2 DEF TruthInv, Unissued
  <2>2. ASSUME NEW v \in Account, NEW i \in DOMAIN mutations'[v]
        PROVE  /\ mutations'[v][i].write <= w
               /\ outcome[mutations'[v][i].write] = "none"
               /\ told[mutations'[v][i].write] = "none"
    <3>1. CASE i \in DOMAIN mutations[v]
      BY <1>1, <1>10, <3>1 DEF TruthInv, QueuedUnanswered, Unanswered, Write
    <3>2. CASE i \notin DOMAIN mutations[v]
      BY <1>1, <1>8, <1>9, <2>1, <3>2
    <3> QED  BY <3>1, <3>2
  <2> QED  BY <1>3, <2>2 DEF QueuedUnanswered, Unanswered
<1>14. Unissued'
  BY <1>1, <1>3 DEF TruthInv, Unissued, Write
<1>15. CallbacksOfRows'
  <2>1. ASSUME NEW v \in Account, NEW k \in callbacks'[v]
        PROVE  Waits(k, mutations'[v])
    <3>1. CASE k \in callbacks[v]
      BY <1>10, <3>1 DEF TruthInv, CallbacksOfRows, Waits
    <3>2. CASE k \notin callbacks[v]
      <4>1. v = u /\ k = waiting
        BY <1>6, <2>1, <3>2
      <4>2. Len(q) + 1 \in DOMAIN mutations'[u] /\ mutations'[u][Len(q) + 1] = batch
        BY <1>4, <1>6, <1>7
      <4> QED  BY <1>8, <4>1, <4>2 DEF Waits
    <3> QED  BY <3>1, <3>2
  <2> QED  BY <2>1 DEF CallbacksOfRows, Waits
<1>16. RowsWithCallbacks'
  <2>1. ASSUME NEW v \in Account, NEW i \in DOMAIN mutations'[v]
        PROVE  \/ mutations'[v][i].write \in orphaned
               \/ [batchId |-> mutations'[v][i].batchId, write |-> mutations'[v][i].write]
                     \in callbacks'[v]
    <3>1. CASE i \in DOMAIN mutations[v]
      BY <1>6, <1>10, <3>1 DEF TruthInv, RowsWithCallbacks
    <3>2. CASE i \notin DOMAIN mutations[v]
      BY <1>6, <1>8, <1>9, <3>2
    <3> QED  BY <3>1, <3>2
  <2> QED  BY <1>3, <2>1 DEF RowsWithCallbacks
<1>17. CompletionsTellTheTruth'
  BY <1>3 DEF TruthInv, CompletionsTellTheTruth
<1> QED  BY <1>11, <1>12, <1>13, <1>14, <1>15, <1>16, <1>17 DEF TruthInv

-----------------------------------------------------------------------------
(* An answer.                                                               *)

\* The rows after an answer are the rows before it but the first of the queue.
LEMMA RowsAfterAnswer ==
    ASSUME StreamInv, mutations[currentUser] # << >>,
           mutations' = [mutations EXCEPT ![currentUser] = Tail(mutations[currentUser])]
    PROVE  /\ \A v \in Account \ {currentUser} : mutations'[v] = mutations[v]
           /\ mutations'[currentUser] = Tail(mutations[currentUser])
           /\ Len(mutations[currentUser]) \in Nat \ {0}
           /\ DOMAIN mutations'[currentUser] = 1 .. Len(mutations[currentUser]) - 1
           /\ \A i \in DOMAIN mutations'[currentUser] :
                 /\ i \in Nat /\ i + 1 \in DOMAIN mutations[currentUser] /\ i + 1 # 1
                 /\ mutations'[currentUser][i] = mutations[currentUser][i + 1]
           /\ 1 \in DOMAIN mutations[currentUser]
<1> DEFINE q == mutations[currentUser]
<1>1. currentUser \in Account /\ mutations \in [Account -> Seq(Batch)] /\ q \in Seq(Batch)
  BY InvFacts DEF StreamInv, TypeOK
<1>2. /\ Len(q) \in Nat /\ Len(q) # 0 /\ DOMAIN q = 1 .. Len(q)
  BY <1>1, LenProperties, EmptySeq
<1>3. /\ Tail(q) \in Seq(Batch) /\ Len(Tail(q)) = Len(q) - 1
      /\ \A i \in 1 .. Len(q) - 1 : Tail(q)[i] = q[i + 1]
  BY <1>1, HeadTailProperties
<1>4. DOMAIN Tail(q) = 1 .. Len(q) - 1
  BY <1>3, LenProperties
<1>5. mutations'[currentUser] = Tail(q) /\ \A v \in Account \ {currentUser} : mutations'[v] = mutations[v]
  BY <1>1
<1> HIDE DEF q
<1>6. \A i \in 1 .. Len(q) - 1 : i \in Nat /\ i + 1 \in 1 .. Len(q) /\ i + 1 # 1
  BY <1>2
<1>7. /\ Len(q) \in Nat \ {0} /\ 1 \in DOMAIN q
      /\ DOMAIN mutations'[currentUser] = 1 .. Len(q) - 1
      /\ \A i \in 1 .. Len(q) - 1 : i + 1 \in DOMAIN q /\ mutations'[currentUser][i] = q[i + 1]
  BY <1>2, <1>3, <1>4, <1>5, <1>6
<1> QED  BY <1>5, <1>6, <1>7 DEF q

LEMMA TruthAnswered ==
    ASSUME StreamInv, TruthInv, remote.pipeline # << >>,
           NEW answer \in {"acknowledged", "rejected"}, Answered(answer),
           UNCHANGED <<applied, refused>>,
           answer = "acknowledged" => Head(remote.pipeline).write \in ToSet(applied),
           answer = "rejected" => Head(remote.pipeline).write \in refused
    PROVE  TruthInv'
<1> DEFINE u == currentUser
           q == mutations[u]
           batch == Head(remote.pipeline)
           called == {k \in callbacks[u] : k.batchId = batch.batchId}
<1>1. /\ q # << >> /\ batch = q[1] /\ u \in Account
      /\ mutations' = [mutations EXCEPT ![u] = Tail(q)]
      /\ issued' = issued /\ orphaned' = orphaned
  BY AnsweredForm, InvFacts
<1>2. /\ callbacks' = [callbacks EXCEPT ![u] = @ \ called]
      /\ outcome' = [outcome EXCEPT ![batch.write] = answer]
      /\ told' = [w \in Write |->
             IF \E k \in called : k.write = w THEN answer ELSE told[w]]
  BY DEF Answered
<1>3. /\ callbacks \in [Account -> SUBSET [batchId : Nat, write : Write]]
      /\ outcome \in [Write -> {"none", "acknowledged", "rejected"}]
      /\ told \in [Write -> {"none", "acknowledged", "rejected"}]
      /\ issued \in Nat
  BY DEF StreamInv, TypeOK
<1>4. /\ \A v \in Account \ {u} : mutations'[v] = mutations[v]
      /\ DOMAIN mutations'[u] = 1 .. Len(q) - 1
      /\ \A i \in DOMAIN mutations'[u] :
            i \in Nat /\ i + 1 \in DOMAIN q /\ i + 1 # 1 /\ mutations'[u][i] = q[i + 1]
      /\ 1 \in DOMAIN q /\ DOMAIN q = 1 .. Len(q) /\ Len(q) \in Nat
  BY <1>1, RowsAfterAnswer, RowFacts
<1>5. batch \in Batch /\ batch.write \in Write /\ batch.batchId \in Nat
  BY <1>1, <1>4, RowFacts
<1> HIDE DEF batch
\* The completion called, if there is one, is that of the first row.
<1>6. ASSUME NEW k \in callbacks[u]
      PROVE  k.batchId = batch.batchId <=> k.write = batch.write
  <2>1. PICK i \in DOMAIN q : q[i].batchId = k.batchId /\ q[i].write = k.write
    BY <1>1, <1>6 DEF TruthInv, CallbacksOfRows, Waits
  <2>2. i \in Nat /\ (i = 1 \/ 1 < i)
    BY <1>4
  <2>3. CASE i = 1
    BY <1>1, <2>1, <2>3
  <2>4. CASE 1 < i
    <3>1. q[1].batchId < q[i].batchId /\ q[1].write < q[i].write
      BY <1>1, <1>4, <2>4, InvFacts DEF InOrder, TruthInv, Rising
    <3>2. q[1].batchId \in Nat /\ q[i].batchId \in Nat /\ q[1].write \in Nat /\ q[i].write \in Nat
      BY <1>1, <1>4, RowFacts DEF Write
    <3> QED  BY <1>1, <2>1, <3>1, <3>2
  <2> QED  BY <2>2, <2>3, <2>4
<1>7. /\ callbacks'[u] = {k \in callbacks[u] : k.write # batch.write}
      /\ \A v \in Account \ {u} : callbacks'[v] = callbacks[v]
  <2>1. callbacks'[u] = callbacks[u] \ called /\ \A v \in Account \ {u} : callbacks'[v] = callbacks[v]
    BY <1>1, <1>2, <1>3
  <2> QED  BY <1>6, <2>1
\* The other rows are those of other writes.
<1>8. \A v \in Account : \A i \in DOMAIN mutations'[v] :
         \E j \in DOMAIN mutations[v] : /\ mutations[v][j] = mutations'[v][i]
                                        /\ mutations[v][j].write # batch.write
  <2>1. ASSUME NEW i \in DOMAIN mutations'[u]
        PROVE  /\ q[i + 1] = mutations'[u][i] /\ q[i + 1].write # batch.write
               /\ i + 1 \in DOMAIN q
    <3>1. 1 < i + 1 /\ i + 1 \in DOMAIN q /\ q[i + 1] = mutations'[u][i]
      BY <1>4, <2>1
    <3>2. q[1].write < q[i + 1].write
      BY <1>1, <1>4, <3>1 DEF TruthInv, Rising
    <3>3. q[1].write \in Nat /\ q[i + 1].write \in Nat
      BY <1>1, <1>4, <3>1, RowFacts DEF Write
    <3> QED  BY <1>1, <3>1, <3>2, <3>3
  <2>2. ASSUME NEW v \in Account \ {u}, NEW i \in DOMAIN mutations'[v]
        PROVE  i \in DOMAIN mutations[v] /\ mutations[v][i] = mutations'[v][i]
               /\ mutations[v][i].write # batch.write
    <3>1. i \in DOMAIN mutations[v] /\ mutations[v][i] = mutations'[v][i]
      BY <1>4, <2>2
    <3> QED  BY <1>1, <1>4, <3>1 DEF TruthInv, QueuesApart
  <2> QED  BY <2>1, <2>2
<1>9. \A v \in Account : Rising(mutations'[v])
  <2>1. Rising(mutations'[u])
    <3>1. ASSUME NEW i \in DOMAIN mutations'[u], NEW j \in DOMAIN mutations'[u], i < j
          PROVE  mutations'[u][i].write < mutations'[u][j].write
      <4>1. i + 1 \in DOMAIN q /\ j + 1 \in DOMAIN q /\ i + 1 < j + 1
        BY <1>4, <3>1
      <4>2. q[i + 1].write < q[j + 1].write
        BY <1>1, <4>1 DEF TruthInv, Rising
      <4> QED  BY <1>4, <4>2
    <3> QED  BY <3>1 DEF Rising
  <2> QED  BY <1>4, <2>1 DEF TruthInv
<1>10. QueuesApart'
  <2>1. ASSUME NEW v \in Account, NEW x \in Account,
               NEW i \in DOMAIN mutations'[v], NEW j \in DOMAIN mutations'[x],
               mutations'[v][i].write = mutations'[x][j].write
        PROVE  v = x
    <3>1. PICK m \in DOMAIN mutations[v] : mutations[v][m] = mutations'[v][i]
      BY <1>8
    <3>2. PICK n \in DOMAIN mutations[x] : mutations[x][n] = mutations'[x][j]
      BY <1>8
    <3> QED  BY <2>1, <3>1, <3>2 DEF TruthInv, QueuesApart
  <2> QED  BY <2>1 DEF QueuesApart
\* Nothing changes for the other writes.
<1>11. \A w \in Write \ {batch.write} : outcome'[w] = outcome[w] /\ told'[w] = told[w]
  BY <1>2, <1>3, <1>5, <1>6
<1>12. QueuedUnanswered'
  <2>1. ASSUME NEW v \in Account, NEW i \in DOMAIN mutations'[v]
        PROVE  /\ mutations'[v][i].write <= issued'
               /\ outcome'[mutations'[v][i].write] = "none"
               /\ told'[mutations'[v][i].write] = "none"
    <3>1. PICK j \in DOMAIN mutations[v] : /\ mutations[v][j] = mutations'[v][i]
                                           /\ mutations[v][j].write # batch.write
      BY <1>8
    <3>2. mutations[v][j].write \in Write /\ Unanswered(mutations[v][j].write)
      BY RowFacts DEF TruthInv, QueuedUnanswered
    <3> QED  BY <1>1, <1>11, <3>1, <3>2 DEF Unanswered
  <2> QED  BY <2>1 DEF QueuedUnanswered, Unanswered
<1>13. Unissued'
  <2>1. batch.write <= issued
    BY <1>1, <1>4 DEF TruthInv, QueuedUnanswered, Unanswered
  <2>2. \A w \in Write : w > issued => w # batch.write
    BY <1>3, <1>5, <2>1 DEF Write
  <2> QED  BY <1>1, <1>11, <2>2 DEF TruthInv, Unissued
<1>14. CallbacksOfRows'
  <2>1. ASSUME NEW v \in Account, NEW k \in callbacks'[v]
        PROVE  Waits(k, mutations'[v])
    <3>1. CASE v = u
      <4>1. k \in callbacks[u] /\ k.write # batch.write
        BY <1>7, <2>1, <3>1
      <4>2. PICK i \in DOMAIN q : q[i].batchId = k.batchId /\ q[i].write = k.write
        BY <1>1, <4>1 DEF TruthInv, CallbacksOfRows, Waits
      <4>3. i # 1
        BY <1>1, <4>1, <4>2
      <4>4. i - 1 \in DOMAIN mutations'[u] /\ (i - 1) + 1 = i
        BY <1>4, <4>2, <4>3
      <4>5. mutations'[u][i - 1] = q[i]
        BY <1>4, <4>4
      <4> QED  BY <3>1, <4>2, <4>4, <4>5 DEF Waits
    <3>2. CASE v # u
      BY <1>4, <1>7, <2>1, <3>2 DEF TruthInv, CallbacksOfRows
    <3> QED  BY <3>1, <3>2
  <2> QED  BY <2>1 DEF CallbacksOfRows, Waits
<1>15. RowsWithCallbacks'
  <2>1. ASSUME NEW v \in Account, NEW i \in DOMAIN mutations'[v]
        PROVE  \/ mutations'[v][i].write \in orphaned
               \/ [batchId |-> mutations'[v][i].batchId, write |-> mutations'[v][i].write]
                     \in callbacks'[v]
    <3>1. PICK j \in DOMAIN mutations[v] : /\ mutations[v][j] = mutations'[v][i]
                                           /\ mutations[v][j].write # batch.write
      BY <1>8
    <3> QED  BY <1>7, <3>1 DEF TruthInv, RowsWithCallbacks
  <2> QED  BY <1>1, <2>1 DEF RowsWithCallbacks
<1>16. CompletionsTellTheTruth'
  <2>1. ASSUME NEW w \in Write
        PROVE  /\ told'[w] = "acknowledged" => w \in ToSet(applied)
               /\ told'[w] = "rejected" => w \in refused
               /\ told'[w] # outcome'[w] => w \in orphaned /\ told'[w] = "none"
    <3>1. CASE w # batch.write
      BY <1>11, <3>1 DEF TruthInv, CompletionsTellTheTruth
    <3>2. CASE w = batch.write /\ \E k \in called : k.write = w
      <4>1. told'[w] = answer /\ outcome'[w] = answer
        BY <1>2, <1>3, <1>5, <3>2
      <4> QED  BY <3>2, <4>1 DEF batch
    <3>3. CASE w = batch.write /\ ~ \E k \in called : k.write = w
      <4>1. told'[w] = "none"
        <5>1. Unanswered(q[1].write)
          BY <1>1, <1>4 DEF TruthInv, QueuedUnanswered
        <5> QED  BY <1>1, <1>2, <3>3, <5>1 DEF Unanswered
      <4>2. w \in orphaned
        <5>1. \/ q[1].write \in orphaned
              \/ [batchId |-> q[1].batchId, write |-> q[1].write] \in callbacks[u]
          BY <1>1, <1>4 DEF TruthInv, RowsWithCallbacks
        <5> QED  BY <1>1, <3>3, <5>1
      <4> QED  BY <4>1, <4>2
    <3> QED  BY <3>1, <3>2, <3>3
  <2> QED  BY <1>1, <2>1 DEF CompletionsTellTheTruth
<1> QED  BY <1>9, <1>10, <1>12, <1>13, <1>14, <1>15, <1>16 DEF TruthInv
-----------------------------------------------------------------------------
(* The steps that answer a write.                                           *)

LEMMA AnsweredIn ==
    ASSUME TypeOK, NEW w, \E j \in DOMAIN applied : applied[j] = w
    PROVE  w \in ToSet(applied)
BY DEF ToSet

LEMMA TruthMutationResult ==
    ASSUME StreamInv, TruthInv, MutationResult
    PROVE  TruthInv'
<1> DEFINE r == [remote EXCEPT !.wire.responses = Tail(@), !.pipeline = Tail(@)]
<1>1. /\ NextResponse("result") /\ Answered("acknowledged")
      /\ UNCHANGED <<applied, refused>>
  BY DEF MutationResult, backendVars
<1>2. /\ Ready(remote) /\ remote.wire \in Wire /\ remote.wire.responses # << >>
      /\ Head(remote.wire.responses) = "result" /\ remote \in RemoteStore
  BY <1>1, ResultFacts, InvFacts
<1>3. PICK k \in 0 .. Len(remote.pipeline) : AnsweredUpTo(remote, k, applied, refused)
  BY <1>1, ResultFacts
<1>4. /\ remote.pipeline # << >>
      /\ \E j \in DOMAIN applied : applied[j] = Head(remote.pipeline).write
  BY <1>2, <1>3, AnsweredOnce
<1>5. Head(remote.pipeline).write \in ToSet(applied)
  BY <1>4, AnsweredIn DEF StreamInv
<1> QED  BY <1>1, <1>4, <1>5, TruthAnswered

\* The end of a stream is a rejection only of a write the backend refused.
LEMMA RejectedIsRefused ==
    ASSUME StreamInv, NextResponse("permanent"), Rejects("permanent")
    PROVE  Head(remote.pipeline).write \in refused
<1> DEFINE responses == remote.wire.responses
<1>1. /\ remote \in RemoteStore /\ remote.pipeline # << >> /\ remote.pipeline \in Seq(Batch)
      /\ remote.state = "Open" /\ remote.handshakeComplete /\ remote.wire \in Wire
      /\ responses # << >> /\ Head(responses) = "permanent"
  BY InvFacts, RemoteFields DEF NextResponse, Rejects, StreamInv, StreamOK, Phases
<1>2. PICK k \in 0 .. Len(remote.pipeline) : AnsweredUpTo(remote, k, applied, refused)
  BY <1>1 DEF StreamInv, WireOK
<1>3. Head(responses) = responses[1]
  <2>1. responses \in Seq({"handshake", "result"} \cup Error)
    BY <1>1 DEF Wire
  <2> QED  BY <1>1, <2>1, HeadTailProperties
<1>4. k = 0
  <2>1. Len(remote.pipeline) \in Nat
    BY <1>1, LenProperties
  <2>2. k # 0 => responses[1] = "result"
    BY <1>2, <2>1 DEF AnsweredUpTo
  <2> QED  BY <1>1, <1>3, <2>2
<1>5. Len(responses) # 0
  <2>1. responses \in Seq({"handshake", "result"} \cup Error)
    BY <1>1 DEF Wire
  <2> HIDE DEF responses
  <2> QED  BY <1>1, <2>1, EmptySeq
<1>6. remote.pipeline[1].write \in refused
  BY <1>1, <1>2, <1>3, <1>4, <1>5 DEF AnsweredUpTo
<1> QED  BY <1>1, <1>6, HeadTailProperties

LEMMA TruthFinish ==
    ASSUME StreamInv, TruthInv, NEW error \in Error, OnStreamFinish(error),
           Rejects(error) => NextResponse("permanent"),
           UNCHANGED <<applied, refused>>
    PROVE  TruthInv'
<1>1. CASE Rejects(error)
  <2>1. error = "permanent" /\ remote.pipeline # << >> /\ Answered("rejected")
    BY <1>1 DEF OnStreamFinish, Rejects
  <2>2. Head(remote.pipeline).write \in refused
    BY <1>1, <2>1, RejectedIsRefused
  <2> QED  BY <2>1, <2>2, TruthAnswered
<1>2. CASE ~ Rejects(error)
  <2>1. UNCHANGED <<mutations, callbacks, issued, outcome, told, orphaned>>
    BY <1>2 DEF OnStreamFinish, localVars
  <2> QED  BY <2>1, SameApplied, TruthKept
<1> QED  BY <1>1, <1>2

LEMMA TruthStreamEnds ==
    ASSUME StreamInv, TruthInv, NEW error \in Error, StreamEnds(error)
    PROVE  TruthInv'
<1>1. NextResponse(error) /\ OnStreamFinish(error) /\ UNCHANGED <<applied, refused>>
  BY DEF StreamEnds, backendVars
<1>2. Rejects(error) => NextResponse("permanent")
  BY <1>1 DEF Rejects
<1> QED  BY <1>1, <1>2, TruthFinish

LEMMA TruthTransientFinish ==
    ASSUME StreamInv, TruthInv, OnStreamFinish("transient"), UNCHANGED <<applied, refused>>
    PROVE  TruthInv'
<1>1. "transient" \in Error /\ ~ Rejects("transient")
  BY DEF Error, Rejects
<1> QED  BY <1>1, TruthFinish

LEMMA TruthOpenStream ==
    ASSUME StreamInv, TruthInv, OpenStream
    PROVE  TruthInv'
<1>1. UNCHANGED <<applied, refused>>
  BY DEF OpenStream, backendVars
<1>2. CASE Head(workerQueue).user = NoToken
  BY <1>1, <1>2, TruthTransientFinish DEF OpenStream
<1>3. CASE Head(workerQueue).user # NoToken
  <2>1. UNCHANGED <<mutations, callbacks, issued, outcome, told, orphaned>>
    BY <1>3 DEF OpenStream, localVars
  <2> QED  BY <1>1, <2>1, SameApplied, TruthKept
<1> QED  BY <1>2, <1>3

-----------------------------------------------------------------------------
(* A restart of the app, and the backend.                                   *)

LEMMA TruthRelaunch ==
    ASSUME StreamInv, TruthInv, Relaunch
    PROVE  TruthInv'
<1>1. /\ UNCHANGED <<mutations, issued, outcome, told, applied, refused>>
      /\ callbacks' = [u \in Account |-> {}]
      /\ orphaned' = orphaned \cup {k.write : k \in UNION {callbacks[u] : u \in Account}}
  BY DEF Relaunch, backendVars
<1>2. RowsWithCallbacks'
  <2>1. ASSUME NEW u \in Account, NEW i \in DOMAIN mutations[u]
        PROVE  mutations[u][i].write \in orphaned'
    <3> DEFINE k == [batchId |-> mutations[u][i].batchId, write |-> mutations[u][i].write]
    <3>1. CASE mutations[u][i].write \in orphaned
      BY <1>1, <3>1
    <3>2. CASE k \in callbacks[u]
      <4>1. k.write = mutations[u][i].write
        OBVIOUS
      <4> HIDE DEF k
      <4>2. k \in UNION {callbacks[v] : v \in Account}
        BY <3>2
      <4> QED  BY <1>1, <4>1, <4>2
    <3> QED  BY <3>1, <3>2 DEF TruthInv, RowsWithCallbacks
  <2> QED  BY <1>1, <2>1 DEF RowsWithCallbacks
<1>3. CallbacksOfRows'
  BY <1>1 DEF CallbacksOfRows
<1>4. CompletionsTellTheTruth'
  BY <1>1 DEF TruthInv, CompletionsTellTheTruth
<1> QED  BY <1>1, <1>2, <1>3, <1>4
         DEF TruthInv, Rising, QueuesApart, QueuedUnanswered, Unanswered, Unissued

LEMMA OneMoreApplied ==
    ASSUME TypeOK, NEW w \in Write, applied' = Append(applied, w), UNCHANGED refused
    PROVE  MoreApplied
<1>1. applied \in Seq(Write) /\ Len(applied) \in Nat /\ DOMAIN applied = 1 .. Len(applied)
  BY LenProperties DEF TypeOK
<1>2. /\ DOMAIN applied' = 1 .. Len(applied) + 1
      /\ \A j \in 1 .. Len(applied) : applied'[j] = applied[j]
  BY <1>1, AppendProperties
<1> QED  BY <1>1, <1>2 DEF MoreApplied

LEMMA RequestWritten ==
    ASSUME StreamInv, NextRequest, Head(remote.wire.requests) # Handshake
    PROVE  Head(remote.wire.requests).write \in Write
<1>1. remote.wire \in Wire /\ remote.wire.requests # << >>
  BY RequestFacts DEF NextRequest
<1>2. remote.wire.requests \in Seq(Batch \cup {Handshake})
  BY <1>1 DEF Wire
<1>3. Head(remote.wire.requests) \in Batch
  BY <1>1, <1>2, HeadTailProperties
<1> QED  BY <1>3 DEF Batch

LEMMA LateWritten ==
    ASSUME StreamInv, NEW k \in DOMAIN lingering
    PROVE  Head(lingering[k].requests).write \in Write
<1>1. lingering[k] \in GivenUpStream
  BY InvFacts, LenProperties, ElementOfSeq
<1>2. lingering[k].requests \in Seq(Batch) /\ lingering[k].requests # << >>
  BY <1>1 DEF GivenUpStream
<1>3. Head(lingering[k].requests) \in Batch
  BY <1>2, HeadTailProperties
<1> QED  BY <1>3 DEF Batch

LEMMA TruthServe ==
    ASSUME StreamInv, TruthInv, Serve
    PROVE  TruthInv'
<1>1. /\ NextRequest /\ UNCHANGED refused
      /\ applied' = IF Head(remote.wire.requests) = Handshake THEN applied
                    ELSE Append(applied, Head(remote.wire.requests).write)
      /\ UNCHANGED <<mutations, callbacks, issued, outcome, told, orphaned>>
  BY DEF Serve, localVars, historyVars
<1>2. MoreApplied
  BY <1>1, SameApplied, RequestWritten, OneMoreApplied DEF StreamInv
<1> QED  BY <1>1, <1>2, TruthKept

LEMMA TruthServeLate ==
    ASSUME StreamInv, TruthInv, NEW k \in DOMAIN lingering, ServeLate(k)
    PROVE  TruthInv'
<1>1. /\ UNCHANGED refused
      /\ applied' = Append(applied, Head(lingering[k].requests).write)
      /\ UNCHANGED <<mutations, callbacks, issued, outcome, told, orphaned>>
  BY DEF ServeLate, localVars, historyVars
<1>2. MoreApplied
  BY <1>1, LateWritten, OneMoreApplied DEF StreamInv
<1> QED  BY <1>1, <1>2, TruthKept

LEMMA TruthRefuse ==
    ASSUME StreamInv, TruthInv, NEW error \in Error, Refuse(error)
    PROVE  TruthInv'
<1>1. /\ UNCHANGED <<mutations, callbacks, issued, outcome, told, orphaned, applied>>
      /\ refused \subseteq refused'
  BY DEF Refuse, localVars, historyVars
<1>2. MoreApplied
  BY <1>1 DEF MoreApplied
<1> QED  BY <1>1, <1>2, TruthKept
-----------------------------------------------------------------------------
LEMMA TruthInit ==
    ASSUME Init
    PROVE  TruthInv
<1>1. /\ \A u \in Account : mutations[u] = << >> /\ callbacks[u] = {}
      /\ \A w \in Write : outcome[w] = "none" /\ told[w] = "none"
      /\ issued = 0
  BY DEF Init
<1>2. DOMAIN << >> = {}
  BY EmptySeq, LenProperties
<1>3. \A u \in Account : DOMAIN mutations[u] = {}
  BY <1>1, <1>2
<1>4. CompletionsTellTheTruth
  BY <1>1 DEF CompletionsTellTheTruth
<1> QED  BY <1>1, <1>3, <1>4 DEF TruthInv, Rising, QueuesApart, QueuedUnanswered, Unissued,
                                 CallbacksOfRows, RowsWithCallbacks

\* The steps that neither write nor answer nor apply.
Indifferent ==
    UNCHANGED <<mutations, callbacks, issued, outcome, told, orphaned, applied, refused>>

LEMMA TruthNext ==
    ASSUME StreamInv, TruthInv, [Next]_vars
    PROVE  TruthInv'
<1>1. Indifferent => TruthInv'
  BY SameApplied, TruthKept DEF Indifferent
<1>2. \/ HandshakeComplete \/ BackoffElapses \/ TakeUpToken \/ TokenArrives \/ NotifyAccount
      \/ PassToken \/ IgnoreToken \/ HandleCredentialChange \/ IdleTimeout
      \/ ConnectivityChanges \/ TokenFails \/ UNCHANGED vars
      \/ \E u \in Account : AuthStateChanges(u)
      => Indifferent
  BY DEF Indifferent, HandshakeComplete, BackoffElapses, TakeUpToken, TokenArrives,
         NotifyAccount, PassToken, IgnoreToken, HandleCredentialChange, IdleTimeout,
         ConnectivityChanges, TokenFails, AnswersToken, AuthStateChanges, vars, localVars,
         backendVars, historyVars
<1>3. ConnectionBreaks => TruthInv'
  BY TruthTransientFinish DEF ConnectionBreaks, backendVars
<1> QED  BY <1>1, <1>2, <1>3, TruthWriteLocally, TruthMutationResult, TruthStreamEnds,
            TruthOpenStream, TruthRelaunch, TruthServe, TruthServeLate, TruthRefuse
         DEF Next, Client

\* No completion is told of a success the backend has not seen, nor of a refusal
\* it did not utter, and none is forgotten unless the app was killed: whatever
\* the connection, the account signed in and the restarts do.
THEOREM CompletionsAreTrue == Spec => []CompletionsTellTheTruth
<1>1. Init => StreamInv /\ TruthInv
  BY InitInv, TruthInit
<1>2. StreamInv /\ TruthInv /\ [Next]_vars => (StreamInv /\ TruthInv)'
  BY NextStep, TruthNext
<1>3. TruthInv => CompletionsTellTheTruth
  BY DEF TruthInv
<1> QED  BY <1>1, <1>2, <1>3, PTL DEF Spec
-----------------------------------------------------------------------------
(* What the client and its streams owe to the queues.                       *)

\* The client is done with a write only by an answer.
InQueue(w) == \E u \in Account : \E i \in DOMAIN mutations[u] : mutations[u][i].write = w

Accounted == \A w \in Write : w <= issued => outcome[w] # "none" \/ InQueue(w)

\* Before each of the requests the backend has been sent what precedes it in
\* the queue, unless it has applied that already.
InTurn(requests, table, ap) ==
    \A n \in DOMAIN requests : \A u \in Account : \A m, l \in DOMAIN table[u] :
        l < m /\ table[u][m].write = requests[n].write =>
            \/ table[u][l].write \in ToSet(ap)
            \/ \E h \in DOMAIN requests : h < n /\ requests[h].write = table[u][l].write

IssuedUpTo(requests, w) == \A n \in DOMAIN requests : requests[n].write <= w

LingeringOwes(streams) ==
    \A i \in DOMAIN streams : /\ IssuedUpTo(streams[i].requests, issued)
                              /\ InTurn(streams[i].requests, mutations, applied)

PromiseInv == Accounted /\ LingeringOwes(lingering)

\* The rows up to write w of a new table have been in the old one, in the same
\* order.
RowsStay(table, new, w) ==
    \A u \in Account : \A m, l \in DOMAIN new[u] :
        l < m /\ new[u][m].write <= w =>
            \E i, j \in DOMAIN table[u] : /\ j < i
                                          /\ table[u][i].write = new[u][m].write
                                          /\ table[u][j].write = new[u][l].write

LEMMA InTurnStays ==
    ASSUME NEW requests, NEW table, NEW new, NEW ap, NEW more, NEW w,
           IssuedUpTo(requests, w), RowsStay(table, new, w),
           ToSet(ap) \subseteq ToSet(more), InTurn(requests, table, ap)
    PROVE  InTurn(requests, new, more)
<1>1. ASSUME NEW n \in DOMAIN requests, NEW u \in Account,
             NEW m \in DOMAIN new[u], NEW l \in DOMAIN new[u],
             l < m, new[u][m].write = requests[n].write
      PROVE  \/ new[u][l].write \in ToSet(more)
             \/ \E h \in DOMAIN requests : h < n /\ requests[h].write = new[u][l].write
  <2>1. PICK i \in DOMAIN table[u], j \in DOMAIN table[u] :
               /\ j < i /\ table[u][i].write = new[u][m].write
               /\ table[u][j].write = new[u][l].write
    BY <1>1 DEF RowsStay, IssuedUpTo
  <2> QED  BY <1>1, <2>1 DEF InTurn
<1> QED  BY <1>1 DEF InTurn

LEMMA RowsUnchanged ==
    ASSUME UNCHANGED mutations
    PROVE  RowsStay(mutations, mutations', issued)
BY DEF RowsStay

LEMMA RowsAnswered ==
    ASSUME StreamInv, remote.pipeline # << >>,
           NEW answer \in {"acknowledged", "rejected"}, Answered(answer)
    PROVE  RowsStay(mutations, mutations', issued)
<1> DEFINE q == mutations[currentUser]
<1>1. q # << >> /\ mutations' = [mutations EXCEPT ![currentUser] = Tail(q)]
  BY AnsweredForm
<1>2. /\ \A v \in Account \ {currentUser} : mutations'[v] = mutations[v]
      /\ \A i \in DOMAIN mutations'[currentUser] :
            /\ i \in Nat /\ i + 1 \in DOMAIN q
            /\ mutations'[currentUser][i] = q[i + 1]
  BY <1>1, RowsAfterAnswer
<1>3. ASSUME NEW u \in Account, NEW m \in DOMAIN mutations'[u], NEW l \in DOMAIN mutations'[u],
             l < m
      PROVE  \E i, j \in DOMAIN mutations[u] : /\ j < i
                                               /\ mutations[u][i].write = mutations'[u][m].write
                                               /\ mutations[u][j].write = mutations'[u][l].write
  <2>1. CASE u = currentUser
    <3>1. m + 1 \in DOMAIN q /\ l + 1 \in DOMAIN q /\ l + 1 < m + 1
      BY <1>2, <1>3, <2>1
    <3> QED  BY <1>2, <1>3, <2>1, <3>1
  <2>2. CASE u # currentUser
    BY <1>2, <1>3, <2>2
  <2> QED  BY <2>1, <2>2
<1> QED  BY <1>3 DEF RowsStay

\* WriteLocally adds a row at the end.
RowAdded(u, batch) ==
    LET q == mutations[u]
    IN  /\ mutations' = [mutations EXCEPT ![u] = Append(q, batch)]
        /\ \A v \in Account \ {u} : mutations'[v] = mutations[v]
        /\ mutations'[u] = Append(q, batch)
        /\ q \in Seq(Batch) /\ Len(q) \in Nat /\ DOMAIN q = 1 .. Len(q)
        /\ DOMAIN mutations'[u] = 1 .. Len(q) + 1
        /\ \A i \in DOMAIN q : mutations'[u][i] = q[i]
        /\ mutations'[u][Len(q) + 1] = batch

LEMMA WrittenForm ==
    ASSUME StreamInv, WriteLocally
    PROVE  /\ issued \in Nat /\ issued + 1 \in Write /\ issued' = issued + 1
           /\ \E batch \in Batch : batch.write = issued + 1 /\ RowAdded(currentUser, batch)
<1> DEFINE batch == [user |-> currentUser, batchId |-> nextBatchId, write |-> issued + 1]
           q == mutations[currentUser]
<1>1. /\ currentUser \in Account /\ nextBatchId \in Nat /\ issued \in Nat
      /\ issued < MaxWrites /\ MaxWrites \in Nat /\ mutations \in [Account -> Seq(Batch)]
  BY PipelineConstantsAssumption DEF StreamInv, TypeOK, WriteLocally
<1>2. batch \in Batch /\ batch.write = issued + 1 /\ issued + 1 \in Write
  BY <1>1 DEF Batch, Write
<1>3. issued' = issued + 1 /\ mutations' = [mutations EXCEPT ![currentUser] = Append(q, batch)]
  BY DEF WriteLocally
<1>4. q \in Seq(Batch) /\ Len(q) \in Nat /\ DOMAIN q = 1 .. Len(q)
  BY <1>1, RowFacts
<1> HIDE DEF batch
<1>5. /\ mutations'[currentUser] = Append(q, batch)
      /\ \A v \in Account \ {currentUser} : mutations'[v] = mutations[v]
  BY <1>1, <1>3
<1>6. /\ DOMAIN Append(q, batch) = 1 .. Len(q) + 1
      /\ \A i \in DOMAIN q : Append(q, batch)[i] = q[i]
      /\ Append(q, batch)[Len(q) + 1] = batch
  BY <1>2, <1>4, AppendProperties, LenProperties
<1>7. RowAdded(currentUser, batch)
  BY <1>3, <1>4, <1>5, <1>6 DEF RowAdded
<1> QED  BY <1>1, <1>2, <1>3, <1>7

LEMMA RowsWritten ==
    ASSUME StreamInv, WriteLocally
    PROVE  RowsStay(mutations, mutations', issued)
<1>1. issued \in Nat
  BY WrittenForm
<1>2. PICK batch \in Batch : batch.write = issued + 1 /\ RowAdded(currentUser, batch)
  BY WrittenForm
<1>3. ASSUME NEW u \in Account, NEW m \in DOMAIN mutations'[u], NEW l \in DOMAIN mutations'[u],
             l < m, mutations'[u][m].write <= issued
      PROVE  /\ m \in DOMAIN mutations[u] /\ l \in DOMAIN mutations[u]
             /\ mutations'[u][m] = mutations[u][m] /\ mutations'[u][l] = mutations[u][l]
  <2>1. CASE u = currentUser
    <3>1. m # Len(mutations[u]) + 1
      BY <1>1, <1>2, <1>3, <2>1 DEF RowAdded
    <3> QED  BY <1>2, <1>3, <2>1, <3>1 DEF RowAdded
  <2>2. CASE u # currentUser
    BY <1>2, <1>3, <2>2 DEF RowAdded
  <2> QED  BY <2>1, <2>2
<1> QED  BY <1>3 DEF RowsStay
-----------------------------------------------------------------------------
(* The streams given up.                                                    *)

LEMMA GivenUpInTurn ==
    ASSUME StreamInv, TruthInv, NEW i \in DOMAIN GivenUp(remote)
    PROVE  /\ IssuedUpTo(GivenUp(remote)[i].requests, issued)
           /\ InTurn(GivenUp(remote)[i].requests, mutations, applied)
<1> DEFINE q == mutations[currentUser]
           requests == GivenUp(remote)[i].requests
<1>1. /\ currentUser \in Account /\ q \in Seq(Batch) /\ Len(q) \in Nat
      /\ DOMAIN q = 1 .. Len(q) /\ Room(q) \in Nat /\ Room(q) <= Len(q)
      /\ Len(remote.pipeline) = Room(q) /\ remote.pipeline \in Seq(Batch)
      /\ \A n \in 1 .. Room(q) : remote.pipeline[n] = q[n]
  BY InvFacts, RowFacts, RoomType, RemoteFields DEF FirstRows
<1>2. /\ GivenUp(remote) \in Seq(GivenUpStream) /\ GivenUp(remote) # << >>
  <2>1. GivenUp(remote) \in Seq(GivenUpStream)
    BY InvFacts, GivenUpForm DEF StreamInv
  <2>2. DOMAIN << >> = {}
    BY EmptySeq, LenProperties
  <2> QED  BY <2>1, <2>2
<1>3. PICK k \in 0 .. Len(remote.pipeline) :
             /\ AnsweredUpTo(remote, k, applied, refused)
             /\ GivenUp(remote) = << [token |-> remote.wire.token,
                    requests |-> SubSeq(remote.pipeline, k + 1, Len(remote.pipeline))] >>
  BY <1>2, InvFacts, GivenUpForm DEF StreamInv
<1>4. requests = SubSeq(remote.pipeline, k + 1, Len(remote.pipeline))
  <2>1. i = 1
    BY <1>3
  <2> QED  BY <1>3, <2>1
<1> HIDE DEF requests
<1>5. /\ requests \in Seq(Batch) /\ DOMAIN requests = 1 .. Room(q) - k /\ k \in Nat
      /\ \A n \in DOMAIN requests : k + n \in DOMAIN q /\ requests[n] = q[k + n]
  <2>1. /\ requests \in Seq(Batch) /\ Len(requests) = Room(q) - k
        /\ \A n \in 1 .. Room(q) - k : requests[n] = remote.pipeline[k + n]
    BY <1>1, <1>3, <1>4, RestOf
  <2>2. DOMAIN requests = 1 .. Room(q) - k
    BY <2>1, LenProperties
  <2> HIDE DEF q
  <2>3. k \in Nat /\ \A n \in 1 .. Room(q) - k : k + n \in 1 .. Room(q) /\ k + n \in 1 .. Len(q)
    BY <1>1, <1>3
  <2>4. \A n \in 1 .. Room(q) - k : requests[n] = q[k + n]
    BY <1>1, <2>1, <2>3
  <2> QED  BY <1>1, <2>1, <2>2, <2>3, <2>4
<1>6. IssuedUpTo(requests, issued)
  BY <1>1, <1>5 DEF IssuedUpTo, TruthInv, QueuedUnanswered, Unanswered
<1>7. ASSUME NEW n \in DOMAIN requests, NEW u \in Account,
             NEW m \in DOMAIN mutations[u], NEW l \in DOMAIN mutations[u],
             l < m, mutations[u][m].write = requests[n].write
      PROVE  \/ mutations[u][l].write \in ToSet(applied)
             \/ \E h \in DOMAIN requests : h < n /\ requests[h].write = mutations[u][l].write
  <2>1. u = currentUser
    BY <1>1, <1>5, <1>7 DEF TruthInv, QueuesApart
  <2>2. m = k + n
    <3>1. m \in Nat /\ k + n \in Nat /\ q[m].write \in Nat /\ q[k + n].write \in Nat
      <4>1. m \in DOMAIN q /\ k + n \in DOMAIN q
        BY <1>5, <1>7, <2>1
      <4>2. /\ DOMAIN q = 1 .. Len(q) /\ Len(q) \in Nat
            /\ \A e \in DOMAIN q : q[e].write \in Write
        BY <1>1, RowFacts
      <4> QED  BY <4>1, <4>2 DEF Write
    <3>2. q[m].write = q[k + n].write
      BY <1>5, <1>7, <2>1
    <3>3. /\ m < k + n => q[m].write < q[k + n].write
          /\ k + n < m => q[k + n].write < q[m].write
      BY <1>1, <1>5, <1>7, <2>1 DEF TruthInv, Rising
    <3> QED  BY <3>1, <3>2, <3>3
  <2>3. l \in Nat \ {0} /\ l < k + n /\ n \in 1 .. Room(q) - k
    BY <1>1, <1>5, <1>7, <2>1, <2>2
  <2>4. CASE l <= k
    <3>1. l \in 1 .. k /\ l \in 1 .. Room(q)
      BY <1>1, <1>3, <2>3, <2>4
    <3>2. \E j \in DOMAIN applied : applied[j] = q[l].write
      BY <1>1, <1>3, <3>1 DEF AnsweredUpTo
    <3> QED  BY <2>1, <3>2 DEF ToSet
  <2>5. CASE ~ (l <= k)
    <3>1. l - k \in DOMAIN requests /\ k + (l - k) = l /\ l - k < n
      BY <1>1, <1>5, <2>3, <2>5
    <3>2. requests[l - k] = q[l]
      BY <1>5, <3>1
    <3> QED  BY <2>1, <3>1, <3>2
  <2> QED  BY <2>4, <2>5
<1>8. InTurn(requests, mutations, applied)
  BY <1>7 DEF InTurn
<1> QED  BY <1>6, <1>8 DEF requests

LEMMA LingeringGrows ==
    ASSUME StreamInv, TruthInv, LingeringOwes(lingering)
    PROVE  LingeringOwes(lingering \o GivenUp(remote))
<1> DEFINE s == lingering
           t == GivenUp(remote)
<1>1. s \in Seq(GivenUpStream) /\ t \in Seq(GivenUpStream)
  BY InvFacts, GivenUpForm DEF StreamInv
<1>2. /\ Len(s) \in Nat /\ DOMAIN s = 1 .. Len(s)
      /\ Len(t) \in Nat /\ DOMAIN t = 1 .. Len(t)
  BY <1>1, LenProperties
<1>3. \A i \in DOMAIN t : /\ IssuedUpTo(t[i].requests, issued)
                          /\ InTurn(t[i].requests, mutations, applied)
  BY GivenUpInTurn
<1> HIDE DEF t
<1>4. /\ DOMAIN (s \o t) = 1 .. Len(s) + Len(t)
      /\ \A i \in 1 .. Len(s) + Len(t) :
            (s \o t)[i] = IF i <= Len(s) THEN s[i] ELSE t[i - Len(s)]
  BY <1>1, ConcatProperties, LenProperties
<1>5. ASSUME NEW i \in 1 .. Len(s) + Len(t)
      PROVE  /\ IssuedUpTo((s \o t)[i].requests, issued)
             /\ InTurn((s \o t)[i].requests, mutations, applied)
  <2>1. CASE i <= Len(s)
    <3>1. (s \o t)[i] = s[i] /\ i \in DOMAIN s
      BY <1>2, <1>4, <1>5, <2>1
    <3> QED  BY <3>1 DEF LingeringOwes
  <2>2. CASE ~ (i <= Len(s))
    <3>1. (s \o t)[i] = t[i - Len(s)] /\ i - Len(s) \in DOMAIN t
      BY <1>2, <1>4, <1>5, <2>2
    <3> QED  BY <1>3, <3>1
  <2> QED  BY <2>1, <2>2
<1> QED  BY <1>4, <1>5 DEF LingeringOwes, t

\* The promise of the streams is kept by every step that leaves the rows, what
\* has been applied and what has been issued in place.
LEMMA LingeringKept ==
    ASSUME StreamInv, TruthInv, LingeringOwes(lingering),
           lingering' = lingering \/ lingering' = lingering \o GivenUp(remote),
           RowsStay(mutations, mutations', issued), MoreApplied,
           issued' \in Nat, issued <= issued'
    PROVE  LingeringOwes(lingering)'
<1>1. LingeringOwes(lingering')
  BY LingeringGrows
<1>2. ToSet(applied) \subseteq ToSet(applied')
  BY AppliedStays
<1>3. issued \in Nat /\ lingering' \in Seq(GivenUpStream)
  <2>1. lingering \in Seq(GivenUpStream) /\ GivenUp(remote) \in Seq(GivenUpStream)
    BY InvFacts, GivenUpForm DEF StreamInv
  <2>2. lingering \o GivenUp(remote) \in Seq(GivenUpStream)
    BY <2>1, ConcatProperties
  <2>3. issued \in Nat
    BY DEF StreamInv, TypeOK
  <2> QED  BY <2>1, <2>2, <2>3
<1>4. ASSUME NEW i \in DOMAIN lingering'
      PROVE  /\ IssuedUpTo(lingering'[i].requests, issued')
             /\ InTurn(lingering'[i].requests, mutations', applied')
  <2> DEFINE requests == lingering'[i].requests
  <2>1. IssuedUpTo(requests, issued) /\ InTurn(requests, mutations, applied)
    BY <1>1 DEF LingeringOwes
  <2>2. InTurn(requests, mutations', applied')
    BY <1>2, <2>1, InTurnStays
  <2>3. \A n \in DOMAIN requests : requests[n].write \in Nat
    <3>1. lingering'[i] \in GivenUpStream
      BY <1>3, <1>4, LenProperties, ElementOfSeq
    <3>2. requests \in Seq(Batch)
      BY <3>1 DEF GivenUpStream
    <3> HIDE DEF requests
    <3> QED  BY <3>2, QueueElements DEF Write
  <2>4. IssuedUpTo(requests, issued')
    <3> HIDE DEF requests
    <3> QED  BY <1>3, <2>1, <2>3 DEF IssuedUpTo
  <2> QED  BY <2>2, <2>4
<1> QED  BY <1>4 DEF LingeringOwes
-----------------------------------------------------------------------------
(* What is owed is kept by every step.                                      *)

LEMMA OwedUnchanged ==
    ASSUME StreamInv, TruthInv, PromiseInv, MoreApplied,
           UNCHANGED <<mutations, issued, outcome>>,
           lingering' = lingering \/ lingering' = lingering \o GivenUp(remote)
    PROVE  PromiseInv'
<1>1. issued \in Nat
  BY DEF StreamInv, TypeOK
<1>2. LingeringOwes(lingering)'
  BY <1>1, RowsUnchanged, LingeringKept DEF PromiseInv
<1>3. Accounted'
  BY DEF PromiseInv, Accounted, InQueue
<1> QED  BY <1>2, <1>3 DEF PromiseInv

LEMMA OwedAnswered ==
    ASSUME StreamInv, TruthInv, PromiseInv, remote.pipeline # << >>,
           NEW answer \in {"acknowledged", "rejected"}, Answered(answer),
           UNCHANGED <<applied, refused>>,
           lingering' = lingering \/ lingering' = lingering \o GivenUp(remote)
    PROVE  PromiseInv'
<1> DEFINE q == mutations[currentUser]
           batch == Head(remote.pipeline)
<1>1. /\ q # << >> /\ batch = q[1] /\ issued' = issued
      /\ mutations' = [mutations EXCEPT ![currentUser] = Tail(q)]
      /\ outcome' = [outcome EXCEPT ![batch.write] = answer]
  BY AnsweredForm DEF Answered
<1>2. /\ issued \in Nat /\ currentUser \in Account
      /\ outcome \in [Write -> {"none", "acknowledged", "rejected"}]
  BY DEF StreamInv, TypeOK
<1>3. /\ \A v \in Account \ {currentUser} : mutations'[v] = mutations[v]
      /\ DOMAIN mutations'[currentUser] = 1 .. Len(q) - 1
      /\ \A i \in DOMAIN mutations'[currentUser] :
            /\ i \in Nat /\ i + 1 \in DOMAIN q
            /\ mutations'[currentUser][i] = q[i + 1]
      /\ DOMAIN q = 1 .. Len(q) /\ Len(q) \in Nat /\ 1 \in DOMAIN q
  BY <1>1, <1>2, RowsAfterAnswer, RowFacts
<1>4. LingeringOwes(lingering)'
  BY <1>1, <1>2, RowsAnswered, SameApplied, LingeringKept DEF PromiseInv
<1>5. ASSUME NEW w \in Write, w <= issued, outcome'[w] = "none"
      PROVE  \E u \in Account : \E i \in DOMAIN mutations'[u] : mutations'[u][i].write = w
  <2>1. w # batch.write /\ outcome[w] = "none"
    BY <1>1, <1>2, <1>5
  <2>2. PICK u \in Account : \E i \in DOMAIN mutations[u] : mutations[u][i].write = w
    BY <1>5, <2>1 DEF PromiseInv, Accounted, InQueue
  <2>3. PICK i \in DOMAIN mutations[u] : mutations[u][i].write = w
    BY <2>2
  <2>4. CASE u = currentUser
    <3>1. i # 1
      BY <1>1, <2>1, <2>3, <2>4
    <3>2. i - 1 \in DOMAIN mutations'[u] /\ (i - 1) + 1 = i
      BY <1>3, <2>3, <2>4, <3>1
    <3>3. mutations'[u][i - 1] = mutations[u][i]
      BY <1>3, <2>4, <3>2
    <3> QED  BY <2>3, <3>2, <3>3
  <2>5. CASE u # currentUser
    BY <1>3, <2>3, <2>5
  <2> QED  BY <2>4, <2>5
<1> QED  BY <1>1, <1>4, <1>5 DEF PromiseInv, Accounted, InQueue

LEMMA OwedWritten ==
    ASSUME StreamInv, TruthInv, PromiseInv, WriteLocally
    PROVE  PromiseInv'
<1>1. issued \in Nat /\ issued' = issued + 1 /\ issued + 1 \in Write
  BY WrittenForm
<1>2. PICK batch \in Batch : batch.write = issued + 1 /\ RowAdded(currentUser, batch)
  BY WrittenForm
<1>3. UNCHANGED <<applied, refused, outcome, lingering>>
  BY DEF WriteLocally, backendVars
<1>4. LingeringOwes(lingering)'
  BY <1>1, <1>3, RowsWritten, SameApplied, LingeringKept DEF PromiseInv
<1>5. ASSUME NEW w \in Write, w <= issued + 1, outcome[w] = "none"
      PROVE  \E u \in Account : \E i \in DOMAIN mutations'[u] : mutations'[u][i].write = w
  <2>1. currentUser \in Account /\ w \in Nat
    BY InvFacts DEF Write
  <2>2. CASE w = issued + 1
    <3>1. /\ Len(mutations[currentUser]) + 1 \in DOMAIN mutations'[currentUser]
          /\ mutations'[currentUser][Len(mutations[currentUser]) + 1].write = w
      BY <1>2, <2>2 DEF RowAdded
    <3> QED  BY <2>1, <3>1
  <2>3. CASE w # issued + 1
    <3>1. w <= issued
      BY <1>1, <1>5, <2>1, <2>3
    <3>2. PICK u \in Account : \E i \in DOMAIN mutations[u] : mutations[u][i].write = w
      BY <1>5, <3>1 DEF PromiseInv, Accounted, InQueue
    <3>3. PICK i \in DOMAIN mutations[u] : mutations[u][i].write = w
      BY <3>2
    <3>4. i \in DOMAIN mutations'[u] /\ mutations'[u][i] = mutations[u][i]
      BY <1>2, <3>3 DEF RowAdded
    <3> QED  BY <3>3, <3>4
  <2> QED  BY <2>2, <2>3
<1> QED  BY <1>1, <1>3, <1>4, <1>5 DEF PromiseInv, Accounted, InQueue

LEMMA OwedFinish ==
    ASSUME StreamInv, TruthInv, PromiseInv, NEW error \in Error, OnStreamFinish(error),
           UNCHANGED <<applied, refused>>
    PROVE  PromiseInv'
<1>1. lingering' = lingering \o GivenUp(remote)
  BY DEF OnStreamFinish
<1>2. CASE Rejects(error)
  BY <1>1, <1>2, OwedAnswered DEF OnStreamFinish, Rejects
<1>3. CASE ~ Rejects(error)
  <2>1. UNCHANGED <<mutations, issued, outcome>>
    BY <1>3 DEF OnStreamFinish, localVars
  <2> QED  BY <1>1, <2>1, SameApplied, OwedUnchanged
<1> QED  BY <1>2, <1>3

LEMMA OwedOpenStream ==
    ASSUME StreamInv, TruthInv, PromiseInv, OpenStream
    PROVE  PromiseInv'
<1>1. UNCHANGED <<applied, refused>>
  BY DEF OpenStream, backendVars
<1>2. CASE Head(workerQueue).user = NoToken
  <2>1. OnStreamFinish("transient") /\ "transient" \in Error
    BY <1>2 DEF OpenStream, Error
  <2> QED  BY <1>1, <2>1, OwedFinish
<1>3. CASE Head(workerQueue).user # NoToken
  <2>1. UNCHANGED <<mutations, issued, outcome, lingering>>
    BY <1>3 DEF OpenStream, localVars
  <2> QED  BY <1>1, <2>1, SameApplied, OwedUnchanged
<1> QED  BY <1>2, <1>3

LEMMA OwedMutationResult ==
    ASSUME StreamInv, TruthInv, PromiseInv, MutationResult
    PROVE  PromiseInv'
<1> DEFINE r == [remote EXCEPT !.wire.responses = Tail(@), !.pipeline = Tail(@)]
<1>1. /\ NextResponse("result") /\ Answered("acknowledged")
      /\ UNCHANGED <<applied, refused, lingering>>
  BY DEF MutationResult, backendVars
<1>2. /\ Ready(remote) /\ remote.wire \in Wire /\ remote.wire.responses # << >>
      /\ Head(remote.wire.responses) = "result" /\ remote \in RemoteStore
      /\ \E k \in 0 .. Len(remote.pipeline) : AnsweredUpTo(remote, k, applied, refused)
  BY <1>1, ResultFacts, InvFacts
<1>3. remote.pipeline # << >>
  BY <1>2, AnsweredOnce
<1> QED  BY <1>1, <1>3, OwedAnswered

\* What is left when a row is taken out.
LEMMA RowsLeft ==
    ASSUME NEW S, NEW s \in Seq(S), NEW k \in DOMAIN s
    PROVE  \A i \in DOMAIN RemoveAt(s, k) : \E j \in DOMAIN s : RemoveAt(s, k)[i] = s[j]
<1> DEFINE t == RemoveAt(s, k)
<1>1. Len(s) \in Nat /\ DOMAIN s = 1 .. Len(s)
  BY LenProperties
<1>2. /\ t \in Seq(S) /\ Len(t) = Len(s) - 1
      /\ \A i \in 1 .. Len(s) - 1 : t[i] = IF i < k THEN s[i] ELSE s[i + 1]
  BY <1>1, RemoveAtType
<1> HIDE DEF t
<1>3. DOMAIN t = 1 .. Len(s) - 1
  BY <1>2, LenProperties
<1>4. \A i \in 1 .. Len(s) - 1 : i \in DOMAIN s /\ i + 1 \in DOMAIN s
  BY <1>1
<1>5. ASSUME NEW i \in DOMAIN t PROVE \E j \in DOMAIN s : t[i] = s[j]
  BY <1>2, <1>3, <1>4, <1>5
<1> QED  BY <1>5 DEF t

\* A stream given up goes on.
LEMMA OwedServeLate ==
    ASSUME StreamInv, TruthInv, PromiseInv, NEW k \in DOMAIN lingering, ServeLate(k)
    PROVE  PromiseInv'
<1> DEFINE requests == lingering[k].requests
           w == Head(requests).write
<1>1. /\ applied' = Append(applied, w)
      /\ lingering' = IF Tail(requests) = << >> THEN RemoveAt(lingering, k)
                      ELSE [lingering EXCEPT ![k].requests = Tail(@)]
      /\ UNCHANGED <<mutations, issued, outcome, refused>>
  BY DEF ServeLate, localVars, historyVars
<1>2. w \in Write /\ applied \in Seq(Write)
  BY LateWritten DEF StreamInv, TypeOK
<1>3. /\ lingering \in Seq(GivenUpStream) /\ Len(lingering) \in Nat
      /\ DOMAIN lingering = 1 .. Len(lingering) /\ lingering[k] \in GivenUpStream
  BY InvFacts, LenProperties, ElementOfSeq
<1>4. /\ requests \in Seq(Batch) /\ requests # << >>
  BY <1>3 DEF GivenUpStream
<1>5. /\ Head(requests) = requests[1] /\ Tail(requests) \in Seq(Batch)
      /\ Len(requests) \in Nat /\ DOMAIN requests = 1 .. Len(requests)
      /\ DOMAIN Tail(requests) = 1 .. Len(requests) - 1
      /\ \A n \in 1 .. Len(requests) - 1 : Tail(requests)[n] = requests[n + 1]
  BY <1>4, HeadTailProperties, LenProperties
<1>6. ToSet(applied) \subseteq ToSet(applied') /\ w \in ToSet(applied')
  <2>1. /\ Len(applied) \in Nat /\ DOMAIN applied' = 1 .. Len(applied) + 1
        /\ applied'[Len(applied) + 1] = w
    BY <1>1, <1>2, AppendProperties, LenProperties
  <2>2. Len(applied) + 1 \in DOMAIN applied'
    BY <2>1
  <2>3. w \in ToSet(applied')
    BY <2>1, <2>2 DEF ToSet
  <2>4. MoreApplied
    BY <1>1, <1>2, OneMoreApplied DEF StreamInv
  <2> QED  BY <2>3, <2>4, AppliedStays
<1> HIDE DEF w
<1>7. \A i \in DOMAIN lingering :
         /\ IssuedUpTo(lingering[i].requests, issued)
         /\ InTurn(lingering[i].requests, mutations, applied')
  BY <1>6 DEF PromiseInv, LingeringOwes, InTurn
<1>8. IssuedUpTo(Tail(requests), issued)
  <2>1. \A n \in 1 .. Len(requests) - 1 : n + 1 \in DOMAIN requests
    BY <1>5
  <2>2. IssuedUpTo(requests, issued)
    BY <1>7
  <2> HIDE DEF requests
  <2> QED  BY <1>5, <2>1, <2>2 DEF IssuedUpTo
<1>9. InTurn(Tail(requests), mutations, applied')
  <2>1. ASSUME NEW n \in DOMAIN Tail(requests), NEW u \in Account,
               NEW m \in DOMAIN mutations[u], NEW l \in DOMAIN mutations[u],
               l < m, mutations[u][m].write = Tail(requests)[n].write
        PROVE  \/ mutations[u][l].write \in ToSet(applied')
               \/ \E h \in DOMAIN Tail(requests) :
                     h < n /\ Tail(requests)[h].write = mutations[u][l].write
    <3>1. /\ n \in Nat /\ n + 1 \in DOMAIN requests
          /\ mutations[u][m].write = requests[n + 1].write
      BY <1>5, <2>1
    <3>2. \/ mutations[u][l].write \in ToSet(applied')
          \/ \E h \in DOMAIN requests : h < n + 1 /\ requests[h].write = mutations[u][l].write
      BY <1>7, <2>1, <3>1 DEF InTurn
    <3>3. ASSUME NEW h \in DOMAIN requests, h < n + 1,
                 requests[h].write = mutations[u][l].write
          PROVE  \/ mutations[u][l].write \in ToSet(applied')
                 \/ \E j \in DOMAIN Tail(requests) :
                       j < n /\ Tail(requests)[j].write = mutations[u][l].write
      <4>1. CASE h = 1
        BY <1>5, <1>6, <3>3, <4>1 DEF w
      <4>2. CASE h # 1
        <5>1. h - 1 \in DOMAIN Tail(requests) /\ h - 1 < n /\ (h - 1) + 1 = h
          BY <1>5, <3>1, <3>3, <4>2
        <5>2. Tail(requests)[h - 1] = requests[h]
          BY <1>5, <5>1
        <5> QED  BY <3>3, <5>1, <5>2
      <4> QED  BY <4>1, <4>2
    <3> QED  BY <3>2, <3>3
  <2> QED  BY <2>1 DEF InTurn
<1>10. \A i \in DOMAIN lingering' : /\ IssuedUpTo(lingering'[i].requests, issued)
                                    /\ InTurn(lingering'[i].requests, mutations, applied')
  <2>1. CASE Tail(requests) = << >>
    <3>1. \A i \in DOMAIN lingering' : \E j \in DOMAIN lingering : lingering'[i] = lingering[j]
      BY <1>1, <1>3, <2>1, RowsLeft
    <3> QED  BY <1>7, <3>1
  <2>2. CASE Tail(requests) # << >>
    <3>1. lingering' = [lingering EXCEPT ![k].requests = Tail(requests)]
      BY <1>1, <2>2
    <3>2. /\ DOMAIN lingering' = DOMAIN lingering
          /\ lingering'[k].requests = Tail(requests)
          /\ \A i \in DOMAIN lingering : i # k => lingering'[i] = lingering[i]
      BY <1>3, <3>1 DEF GivenUpStream
    <3> HIDE DEF requests
    <3> QED  BY <1>7, <1>8, <1>9, <3>2
  <2> QED  BY <2>1, <2>2
<1>11. Accounted'
  BY <1>1 DEF PromiseInv, Accounted, InQueue
<1> QED  BY <1>1, <1>10, <1>11 DEF PromiseInv, LingeringOwes

LEMMA OwedInit ==
    ASSUME Init
    PROVE  PromiseInv
<1>1. issued = 0 /\ lingering = << >>
  BY DEF Init
<1>2. DOMAIN << >> = {}
  BY EmptySeq, LenProperties
<1> QED  BY <1>1, <1>2 DEF PromiseInv, LingeringOwes, Accounted, Write

\* The steps that neither write nor answer; they may give a stream up.
Owing ==
    /\ UNCHANGED <<mutations, issued, outcome>>
    /\ lingering' = lingering \/ lingering' = lingering \o GivenUp(remote)

\* Those of them that the queues and the backend see nothing of.
Unseen == Owing /\ UNCHANGED <<applied, refused>>

LEMMA UnseenSteps ==
    ASSUME \/ HandshakeComplete \/ BackoffElapses \/ TakeUpToken \/ TokenArrives
           \/ NotifyAccount \/ PassToken \/ IgnoreToken \/ HandleCredentialChange
           \/ IdleTimeout \/ ConnectivityChanges \/ Relaunch \/ TokenFails \/ UNCHANGED vars
           \/ \E u \in Account : AuthStateChanges(u)
    PROVE  Unseen
BY DEF Unseen, Owing, HandshakeComplete, BackoffElapses, TakeUpToken, TokenArrives,
       NotifyAccount, PassToken, IgnoreToken, HandleCredentialChange, IdleTimeout,
       ConnectivityChanges, Relaunch, Restarts, TokenFails, AnswersToken, AuthStateChanges,
       vars, localVars, backendVars, historyVars

LEMMA BackendSteps ==
    ASSUME StreamInv, Serve \/ \E error \in Error : Refuse(error)
    PROVE  Owing /\ MoreApplied
<1>1. CASE Serve
  <2>1. /\ NextRequest /\ UNCHANGED refused
        /\ applied' = IF Head(remote.wire.requests) = Handshake THEN applied
                      ELSE Append(applied, Head(remote.wire.requests).write)
        /\ Owing
    BY <1>1 DEF Serve, Owing, localVars, historyVars
  <2> QED  BY <2>1, SameApplied, RequestWritten, OneMoreApplied DEF StreamInv
<1>2. CASE \E error \in Error : Refuse(error)
  <2>1. Owing /\ applied' = applied /\ refused \subseteq refused'
    BY <1>2 DEF Refuse, Owing, localVars, historyVars
  <2> QED  BY <2>1 DEF MoreApplied
<1> QED  BY <1>1, <1>2

LEMMA OwedNext ==
    ASSUME StreamInv, TruthInv, PromiseInv, [Next]_vars
    PROVE  PromiseInv'
<1>1. Owing /\ MoreApplied => PromiseInv'
  BY OwedUnchanged DEF Owing
<1>2. Unseen => PromiseInv'
  BY <1>1, SameApplied DEF Unseen
<1>3. ConnectionBreaks => PromiseInv'
  BY OwedFinish DEF ConnectionBreaks, backendVars, Error
<1>4. \A error \in Error : StreamEnds(error) => PromiseInv'
  BY OwedFinish DEF StreamEnds, backendVars
<1> QED  BY <1>1, <1>2, <1>3, <1>4, UnseenSteps, BackendSteps, OwedWritten,
            OwedMutationResult, OwedOpenStream, OwedServeLate
         DEF Next, Client

-----------------------------------------------------------------------------
(* The refinement.                                                          *)

LEMMA WritesForm ==
    ASSUME NEW q \in Seq(Batch)
    PROVE  /\ Writes(q) \in Seq(Write) /\ Len(Writes(q)) = Len(q)
           /\ DOMAIN Writes(q) = DOMAIN q
           /\ \A i \in DOMAIN q : Writes(q)[i] = q[i].write
<1>1. Len(q) \in Nat /\ DOMAIN q = 1 .. Len(q) /\ \A i \in DOMAIN q : q[i].write \in Write
  BY QueueElements
<1>2. Writes(q) \in [1 .. Len(q) -> Write]
  BY <1>1 DEF Writes
<1>3. Writes(q) \in Seq(Write) /\ DOMAIN Writes(q) = 1 .. Len(q)
  BY <1>1, <1>2, FunctionIsSeq
<1>4. Len(Writes(q)) = Len(q)
  BY <1>1, <1>3, LenProperties
<1> QED  BY <1>1, <1>3, <1>4 DEF Writes

LEMMA WritesAppend ==
    ASSUME NEW q \in Seq(Batch), NEW batch \in Batch
    PROVE  Writes(Append(q, batch)) = Append(Writes(q), batch.write)
<1>1. /\ batch.write \in Write /\ Writes(q) \in Seq(Write) /\ Len(Writes(q)) = Len(q)
      /\ Len(q) \in Nat /\ DOMAIN q = 1 .. Len(q)
      /\ \A i \in 1 .. Len(q) : Writes(q)[i] = q[i].write
  BY WritesForm, QueueElements DEF Batch
<1>2. /\ Append(q, batch) \in Seq(Batch) /\ Len(Append(q, batch)) = Len(q) + 1
      /\ \A i \in 1 .. Len(q) : Append(q, batch)[i] = q[i]
      /\ Append(q, batch)[Len(q) + 1] = batch
  BY AppendProperties
<1>3. /\ Append(Writes(q), batch.write) \in Seq(Write)
      /\ Len(Append(Writes(q), batch.write)) = Len(q) + 1
      /\ \A i \in 1 .. Len(q) : Append(Writes(q), batch.write)[i] = q[i].write
      /\ Append(Writes(q), batch.write)[Len(q) + 1] = batch.write
  BY <1>1, AppendProperties
<1>4. /\ Writes(Append(q, batch)) \in Seq(Write)
      /\ Len(Writes(Append(q, batch))) = Len(q) + 1
      /\ \A i \in 1 .. Len(q) + 1 : Writes(Append(q, batch))[i] = Append(q, batch)[i].write
  BY <1>2, WritesForm, QueueElements
<1>5. \A i \in 1 .. Len(q) + 1 : i \in 1 .. Len(q) \/ i = Len(q) + 1
  BY <1>1
<1> QED  BY <1>1, <1>2, <1>3, <1>4, <1>5, SeqEqual

LEMMA WritesTail ==
    ASSUME NEW q \in Seq(Batch), q # << >>
    PROVE  /\ Writes(q) # << >> /\ Head(Writes(q)) = q[1].write
           /\ Writes(Tail(q)) = Tail(Writes(q))
<1>1. /\ Writes(q) \in Seq(Write) /\ Len(Writes(q)) = Len(q)
      /\ Len(q) \in Nat /\ Len(q) # 0 /\ DOMAIN q = 1 .. Len(q)
      /\ \A i \in 1 .. Len(q) : Writes(q)[i] = q[i].write
  BY WritesForm, QueueElements, EmptySeq
<1>2. Writes(q) # << >>
  BY <1>1, EmptySeq
<1>3. /\ Tail(q) \in Seq(Batch) /\ Len(Tail(q)) = Len(q) - 1
      /\ \A i \in 1 .. Len(q) - 1 : Tail(q)[i] = q[i + 1]
  BY HeadTailProperties
<1>4. /\ Head(Writes(q)) = Writes(q)[1]
      /\ Tail(Writes(q)) \in Seq(Write) /\ Len(Tail(Writes(q))) = Len(q) - 1
      /\ \A i \in 1 .. Len(q) - 1 : Tail(Writes(q))[i] = Writes(q)[i + 1]
  BY <1>1, <1>2, HeadTailProperties
<1>5. /\ Writes(Tail(q)) \in Seq(Write) /\ Len(Writes(Tail(q))) = Len(q) - 1
      /\ \A i \in 1 .. Len(q) - 1 : Writes(Tail(q))[i] = Tail(q)[i].write
  BY <1>3, WritesForm, QueueElements
<1>6. \A i \in 1 .. Len(q) - 1 : i + 1 \in 1 .. Len(q)
  BY <1>1
<1>7. \A i \in 1 .. Len(q) - 1 : Writes(Tail(q))[i] = Tail(Writes(q))[i]
  BY <1>1, <1>3, <1>4, <1>5, <1>6
<1>8. Writes(Tail(q)) = Tail(Writes(q))
  BY <1>4, <1>5, <1>7, SeqEqual
<1>9. 1 \in 1 .. Len(q)
  BY <1>1
<1> QED  BY <1>1, <1>2, <1>4, <1>8, <1>9

\* A write is new to the queues until the app has made it.
LEMMA QueuedIs ==
    ASSUME StreamInv, NEW u \in Account, NEW w
    PROVE  w \in Promise!ToSet(Writes(mutations[u]))
              <=> \E i \in DOMAIN mutations[u] : mutations[u][i].write = w
<1>1. mutations[u] \in Seq(Batch)
  BY RowFacts
<1> QED  BY <1>1, WritesForm DEF Promise!ToSet

LEMMA NewIs ==
    ASSUME StreamInv, TruthInv, PromiseInv, NEW w \in Write
    PROVE  Promise!New(w) <=> w > issued
<1>1. issued \in Nat /\ w \in Nat
  BY DEF StreamInv, TypeOK, Write
<1>2. Promise!Queued(w) <=> InQueue(w)
  BY QueuedIs DEF Promise!Queued, InQueue
<1>3. CASE w > issued
  <2>1. outcome[w] = "none"
    BY <1>3 DEF TruthInv, Unissued
  <2>2. ~ InQueue(w)
    BY <1>1, <1>3 DEF TruthInv, QueuedUnanswered, Unanswered, InQueue
  <2> QED  BY <1>2, <1>3, <2>1, <2>2 DEF Promise!New
<1>4. CASE ~ (w > issued)
  BY <1>1, <1>2, <1>4 DEF PromiseInv, Accounted, Promise!New
<1> QED  BY <1>3, <1>4

LEMMA RefinesWriteLocally ==
    ASSUME StreamInv, TruthInv, PromiseInv, WriteLocally
    PROVE  Promise!WriteLocally(currentUser, issued + 1)
<1> DEFINE u == currentUser
           w == issued + 1
<1>1. w \in Write /\ issued \in Nat
  BY WrittenForm
<1>2. PICK batch \in Batch : batch.write = issued + 1 /\ RowAdded(u, batch)
  BY WrittenForm
<1>3. Promise!New(w)
  BY <1>1, NewIs
<1>4. \A v \in Promise!Write : v < w => ~ Promise!New(v)
  <2>1. \A v \in Write : v \in Nat /\ (v < w => ~ (v > issued))
    BY <1>1 DEF Write
  <2> QED  BY <2>1, NewIs DEF Write, Promise!Write
<1>5. \A v \in Account : Writes(mutations'[v]) =
         IF v = u THEN Append(Writes(mutations[u]), w) ELSE Writes(mutations[v])
  <2>1. Writes(Append(mutations[u], batch)) = Append(Writes(mutations[u]), w)
    BY <1>2, WritesAppend DEF RowAdded
  <2>2. /\ mutations'[u] = Append(mutations[u], batch)
        /\ \A v \in Account \ {u} : mutations'[v] = mutations[v]
    BY <1>2 DEF RowAdded
  <2>3. \A v \in Account \ {u} : Writes(mutations'[v]) = Writes(mutations[v])
    BY <2>2
  <2> HIDE DEF w
  <2>4. Writes(mutations'[u]) = Append(Writes(mutations[u]), w)
    BY <2>1, <2>2
  <2> HIDE DEF u
  <2> QED  BY <2>3, <2>4
<1> HIDE DEF w
<1>6. [v \in Account |-> Writes(mutations'[v])] =
         [[v \in Account |-> Writes(mutations[v])] EXCEPT ![u] = Append(@, w)]
  BY <1>5, InvFacts
<1>7. UNCHANGED <<applied, outcome>>
  BY DEF WriteLocally, backendVars
<1> QED  BY <1>3, <1>4, <1>6, <1>7 DEF Promise!WriteLocally, w

LEMMA RefinesAnswer ==
    ASSUME StreamInv, remote.pipeline # << >>,
           NEW answer \in {"acknowledged", "rejected"}, Answered(answer), UNCHANGED applied,
           answer = "acknowledged" => Head(remote.pipeline).write \in ToSet(applied)
    PROVE  Promise!Answer(currentUser, answer)
<1> DEFINE u == currentUser
           q == mutations[u]
<1>1. /\ q # << >> /\ Head(remote.pipeline) = q[1]
      /\ mutations' = [mutations EXCEPT ![u] = Tail(q)]
      /\ outcome' = [outcome EXCEPT ![q[1].write] = answer]
  BY AnsweredForm DEF Answered
<1>2. u \in Account /\ mutations \in [Account -> Seq(Batch)] /\ q \in Seq(Batch)
  BY DEF StreamInv, TypeOK
<1>3. /\ Writes(q) # << >> /\ Head(Writes(q)) = q[1].write
      /\ Writes(Tail(q)) = Tail(Writes(q))
  BY <1>1, <1>2, WritesTail
<1>4. \A v \in Account : Writes(mutations'[v]) =
         IF v = u THEN Tail(Writes(mutations[u])) ELSE Writes(mutations[v])
  BY <1>1, <1>2, <1>3
<1>5. [v \in Account |-> Writes(mutations'[v])] =
         [[v \in Account |-> Writes(mutations[v])] EXCEPT ![u] = Tail(@)]
  BY <1>2, <1>4
<1>6. answer = "acknowledged" => q[1].write \in Promise!ToSet(applied)
  BY <1>1 DEF ToSet, Promise!ToSet
<1> HIDE DEF q
<1>7. /\ [v \in Account |-> Writes(mutations[v])][u] # << >>
      /\ Head([v \in Account |-> Writes(mutations[v])][u]) = q[1].write
  BY <1>2, <1>3 DEF q
<1> QED  BY <1>1, <1>5, <1>6, <1>7 DEF Promise!Answer

\* What precedes a write in its queue is applied when the backend takes it up.
LEMMA RefinesApply ==
    ASSUME StreamInv, TruthInv, PromiseInv, NEW w \in Write, w <= issued,
           applied' = Append(applied, w), UNCHANGED <<mutations, outcome>>,
           \A u \in Account : \A m, l \in DOMAIN mutations[u] :
              l < m /\ mutations[u][m].write = w => mutations[u][l].write \in ToSet(applied)
    PROVE  Promise!Apply(w)
<1>1. ~ Promise!New(w)
  <2>1. issued \in Nat /\ w \in Nat
    BY DEF StreamInv, TypeOK, Write
  <2> QED  BY <2>1, NewIs
<1>2. ASSUME NEW u \in Account, w \in Promise!ToSet(Writes(mutations[u])),
             NEW v \in Promise!ToSet(Writes(mutations[u])), v < w
      PROVE  v \in Promise!ToSet(applied)
  <2>1. PICK m \in DOMAIN mutations[u] : mutations[u][m].write = w
    BY <1>2, QueuedIs
  <2>2. PICK l \in DOMAIN mutations[u] : mutations[u][l].write = v
    BY <1>2, QueuedIs
  <2>3. m \in Nat /\ l \in Nat /\ v \in Nat /\ w \in Nat
    BY <2>2, RowFacts DEF Write
  <2>4. l < m
    <3>1. m < l => w < v
      BY <2>1, <2>2 DEF TruthInv, Rising
    <3>2. m # l
      BY <1>2, <2>1, <2>2, <2>3
    <3> QED  BY <1>2, <2>3, <3>1, <3>2
  <2> QED  BY <2>1, <2>2, <2>4 DEF ToSet, Promise!ToSet
<1>3. \A u \in Account : [v \in Account |-> Writes(mutations[v])][u] = Writes(mutations[u])
  OBVIOUS
<1>4. [v \in Account |-> Writes(mutations'[v])] = [v \in Account |-> Writes(mutations[v])]
  OBVIOUS
<1> QED  BY <1>1, <1>2, <1>3, <1>4 DEF Promise!Apply

LEMMA RefinesServe ==
    ASSUME StreamInv, TruthInv, PromiseInv, Serve, Head(remote.wire.requests) # Handshake
    PROVE  \E w \in Write : Promise!Apply(w)
<1> DEFINE request == Head(remote.wire.requests)
           q == mutations[currentUser]
<1>1. /\ NextRequest /\ applied' = Append(applied, request.write)
      /\ UNCHANGED <<mutations, outcome>>
  BY DEF Serve, localVars, historyVars
<1>2. remote.handshakeComplete
  <2>1. ~ remote.handshakeComplete => remote.wire.requests = << Handshake >>
    BY <1>1, RequestFacts
  <2> QED  BY <2>1
<1>3. PICK k \in 0 .. Len(remote.pipeline) :
             /\ AnsweredUpTo(remote, k, applied, refused)
             /\ k < Len(remote.pipeline)
             /\ request = remote.pipeline[k + 1]
  BY <1>1, <1>2, RequestFacts
<1>4. /\ currentUser \in Account /\ q \in Seq(Batch) /\ Len(q) \in Nat
      /\ DOMAIN q = 1 .. Len(q) /\ Room(q) \in Nat /\ Room(q) <= Len(q)
      /\ Len(remote.pipeline) = Room(q)
      /\ \A n \in 1 .. Room(q) : remote.pipeline[n] = q[n]
  BY InvFacts, RowFacts, RoomType DEF FirstRows
<1>5. k + 1 \in DOMAIN q /\ k + 1 \in 1 .. Room(q) /\ k \in Nat
  BY <1>3, <1>4
<1>6. request = q[k + 1]
  BY <1>3, <1>4, <1>5
<1> HIDE DEF request
<1>7. request.write \in Write /\ request.write <= issued
  BY <1>4, <1>5, <1>6, RowFacts DEF TruthInv, QueuedUnanswered, Unanswered
<1>8. ASSUME NEW u \in Account, NEW m \in DOMAIN mutations[u], NEW l \in DOMAIN mutations[u],
             l < m, mutations[u][m].write = request.write
      PROVE  mutations[u][l].write \in ToSet(applied)
  <2>1. u = currentUser
    BY <1>4, <1>5, <1>6, <1>8 DEF TruthInv, QueuesApart
  <2>2. m = k + 1
    <3>1. m \in Nat /\ q[m].write \in Nat /\ q[k + 1].write \in Nat
      <4>1. \A e \in DOMAIN q : q[e].write \in Nat
        BY <1>4, RowFacts DEF Write
      <4>2. m \in DOMAIN q
        BY <1>8, <2>1
      <4> QED  BY <1>4, <1>5, <4>1, <4>2
    <3>2. /\ m < k + 1 => q[m].write < q[k + 1].write
          /\ k + 1 < m => q[k + 1].write < q[m].write
      BY <1>4, <1>5, <1>8, <2>1 DEF TruthInv, Rising
    <3> QED  BY <1>5, <1>6, <1>8, <2>1, <3>1, <3>2
  <2>3. l \in 1 .. k /\ l \in 1 .. Room(q)
    BY <1>4, <1>5, <1>8, <2>1, <2>2
  <2>4. \E j \in DOMAIN applied : applied[j] = q[l].write
    BY <1>3, <1>4, <2>3 DEF AnsweredUpTo
  <2> QED  BY <2>1, <2>4 DEF ToSet
<1> QED  BY <1>1, <1>7, <1>8, RefinesApply

LEMMA RefinesServeLate ==
    ASSUME StreamInv, TruthInv, PromiseInv, NEW k \in DOMAIN lingering, ServeLate(k)
    PROVE  \E w \in Write : Promise!Apply(w)
<1> DEFINE requests == lingering[k].requests
<1>1. /\ applied' = Append(applied, Head(requests).write)
      /\ UNCHANGED <<mutations, outcome>>
  BY DEF ServeLate, localVars, historyVars
<1>2. Head(requests).write \in Write
  BY LateWritten
<1>3. Head(requests) = requests[1] /\ DOMAIN requests = 1 .. Len(requests) /\ 1 \in DOMAIN requests
  <2>1. lingering[k] \in GivenUpStream
    BY InvFacts, LenProperties, ElementOfSeq
  <2>2. requests \in Seq(Batch) /\ requests # << >>
    BY <2>1 DEF GivenUpStream
  <2> HIDE DEF requests
  <2>3. Len(requests) \in Nat /\ Len(requests) # 0 /\ DOMAIN requests = 1 .. Len(requests)
    BY <2>2, LenProperties, EmptySeq
  <2> QED  BY <2>2, <2>3, HeadTailProperties
<1>4. IssuedUpTo(requests, issued) /\ InTurn(requests, mutations, applied)
  BY DEF PromiseInv, LingeringOwes
<1> HIDE DEF requests
<1>5. Head(requests).write <= issued
  BY <1>3, <1>4 DEF IssuedUpTo
<1>6. \A u \in Account : \A m, l \in DOMAIN mutations[u] :
         l < m /\ mutations[u][m].write = Head(requests).write
            => mutations[u][l].write \in ToSet(applied)
  <2>1. \A h \in DOMAIN requests : ~ (h < 1)
    BY <1>3
  <2> QED  BY <1>3, <1>4, <2>1 DEF InTurn
<1> QED  BY <1>1, <1>2, <1>5, <1>6, RefinesApply

LEMMA RefinesFinish ==
    ASSUME StreamInv, NEW error \in Error, OnStreamFinish(error), UNCHANGED applied
    PROVE  Promise!Answer(currentUser, "rejected") \/ UNCHANGED <<mutations, applied, outcome>>
<1>1. CASE Rejects(error)
  BY <1>1, RefinesAnswer DEF OnStreamFinish, Rejects
<1>2. CASE ~ Rejects(error)
  BY <1>2 DEF OnStreamFinish, localVars
<1> QED  BY <1>1, <1>2

LEMMA RefinesMutationResult ==
    ASSUME StreamInv, MutationResult
    PROVE  Promise!Answer(currentUser, "acknowledged")
<1> DEFINE r == [remote EXCEPT !.wire.responses = Tail(@), !.pipeline = Tail(@)]
<1>1. NextResponse("result") /\ Answered("acknowledged") /\ UNCHANGED applied
  BY DEF MutationResult, backendVars
<1>2. /\ Ready(remote) /\ remote.wire \in Wire /\ remote.wire.responses # << >>
      /\ Head(remote.wire.responses) = "result" /\ remote \in RemoteStore
  BY <1>1, ResultFacts, InvFacts
<1>3. PICK k \in 0 .. Len(remote.pipeline) : AnsweredUpTo(remote, k, applied, refused)
  BY <1>1, ResultFacts
<1>4. /\ remote.pipeline # << >>
      /\ \E j \in DOMAIN applied : applied[j] = Head(remote.pipeline).write
  BY <1>2, <1>3, AnsweredOnce
<1>5. Head(remote.pipeline).write \in ToSet(applied)
  BY <1>4 DEF ToSet
<1> QED  BY <1>1, <1>4, <1>5, RefinesAnswer

LEMMA PromiseStep ==
    ASSUME StreamInv, TruthInv, PromiseInv, [Next]_vars
    PROVE  [Promise!Next]_(Promise!queueVars)
<1> USE DEF Promise!Next
<1>1. UNCHANGED <<mutations, applied, outcome>> => UNCHANGED Promise!queueVars
  BY DEF Promise!queueVars
<1>2. currentUser \in Account
  BY InvFacts
<1>3. CASE WriteLocally
  <2>1. issued + 1 \in Promise!Write
    BY <1>3, WrittenForm DEF Write, Promise!Write
  <2> QED  BY <1>2, <1>3, <2>1, RefinesWriteLocally
<1>4. CASE MutationResult
  BY <1>2, <1>4, RefinesMutationResult
<1>5. ASSUME NEW error \in Error, OnStreamFinish(error), UNCHANGED applied
      PROVE  [Promise!Next]_(Promise!queueVars)
  BY <1>1, <1>2, <1>5, RefinesFinish
<1>6. CASE \E error \in Error : StreamEnds(error)
  BY <1>5, <1>6 DEF StreamEnds, backendVars
<1>7. CASE ConnectionBreaks
  BY <1>5, <1>7 DEF ConnectionBreaks, backendVars, Error
<1>8. CASE OpenStream
  <2>1. UNCHANGED applied
    BY <1>8 DEF OpenStream, backendVars
  <2>2. CASE Head(workerQueue).user = NoToken
    BY <1>5, <1>8, <2>1, <2>2 DEF OpenStream, Error
  <2>3. CASE Head(workerQueue).user # NoToken
    <3>1. UNCHANGED <<mutations, outcome>>
      BY <1>8, <2>3 DEF OpenStream, localVars
    <3> QED  BY <1>1, <2>1, <3>1
  <2> QED  BY <2>2, <2>3
<1>9. CASE Serve
  <2>1. CASE Head(remote.wire.requests) = Handshake
    <3>1. UNCHANGED <<mutations, applied, outcome>>
      BY <1>9, <2>1 DEF Serve, localVars, historyVars
    <3> QED  BY <1>1, <3>1
  <2>2. CASE Head(remote.wire.requests) # Handshake
    BY <1>9, <2>2, RefinesServe DEF Write, Promise!Write
  <2> QED  BY <2>1, <2>2
<1>10. CASE \E k \in DOMAIN lingering : ServeLate(k)
  BY <1>10, RefinesServeLate DEF Write, Promise!Write
<1>11. CASE \E error \in Error : Refuse(error)
  BY <1>1, <1>11 DEF Refuse, localVars, historyVars
<1>12. Unseen => UNCHANGED Promise!queueVars
  BY <1>1 DEF Unseen, Owing
<1> HIDE DEF Promise!Next
<1> QED  BY <1>3, <1>4, <1>6, <1>7, <1>8, <1>9, <1>10, <1>11, <1>12, UnseenSteps
         DEF Next, Client

LEMMA PromiseInit ==
    ASSUME Init
    PROVE  Promise!Init
<1>1. mutations = [u \in Account |-> << >>] /\ applied = << >>
      /\ outcome = [w \in Write |-> "none"]
  BY DEF Init
<1>2. Writes(<< >>) = << >>
  <2>1. << >> \in Seq(Batch) /\ Len(<< >>) = 0
    BY EmptySeq
  <2>2. Writes(<< >>) \in Seq(Write) /\ Len(Writes(<< >>)) = 0
    BY <2>1, WritesForm
  <2> QED  BY <2>2, EmptySeq
<1>3. \A u \in Account : mutations[u] = << >>
  BY <1>1
<1>4. \A u \in Account : Writes(mutations[u]) = << >>
  BY <1>2, <1>3
<1>5. [u \in Account |-> Writes(mutations[u])] = [u \in Account |-> << >>]
  BY <1>4
<1> QED  BY <1>1, <1>5 DEF Promise!Init, Promise!Write, Write

\* The client implements WriteQueue: whatever breaks, restarts or changes, the
\* writes of an account are applied in its order and answered from the head of
\* its queue, and none without an error that the backend has not applied.
THEOREM WritesInOrder == Spec => KeepsPromise
<1>1. Init => StreamInv /\ TruthInv /\ PromiseInv /\ Promise!Init
  BY InitInv, TruthInit, OwedInit, PromiseInit
<1>2. StreamInv /\ TruthInv /\ PromiseInv /\ [Next]_vars
         => StreamInv' /\ TruthInv' /\ PromiseInv' /\ [Promise!Next]_(Promise!queueVars)
  BY NextStep, TruthNext, OwedNext, PromiseStep
<1> QED  BY <1>1, <1>2, PTL DEF Spec, KeepsPromise, Promise!Spec
-----------------------------------------------------------------------------
(* What is applied is applied once, unless it was sent again.               *)

\* The answer to write w has been given and waits to be read.
Unread(r, w) ==
    /\ Ready(r)
    /\ \E i \in DOMAIN r.pipeline : /\ r.pipeline[i].write = w
                                    /\ i \in DOMAIN r.wire.responses
                                    /\ r.wire.responses[i] = "result"

Once(w) == \A i, j \in DOMAIN applied : applied[i] = w /\ applied[j] = w => i = j

Known(w) == w \in ToSet(applied) => outcome[w] = "acknowledged" \/ Unread(remote, w)

\* No stream given up holds w.
NotLate(w) ==
    \A k \in DOMAIN lingering : \A n \in DOMAIN lingering[k].requests :
        lingering[k].requests[n].write # w

AgainInv == \A w \in Write \ resent : Once(w) /\ Known(w) /\ NotLate(w)

\* A stream that is ready, seen from outside.
LEMMA ReadyFacts ==
    ASSUME StreamInv, Ready(remote)
    PROVE  /\ remote \in RemoteStore /\ remote.wire \in Wire
           /\ remote.pipeline \in Seq(Batch) /\ Len(remote.pipeline) \in Nat
           /\ DOMAIN remote.pipeline = 1 .. Len(remote.pipeline)
           /\ remote.wire.responses \in Seq({"handshake", "result"} \cup Error)
           /\ Len(remote.wire.responses) \in Nat
           /\ DOMAIN remote.wire.responses = 1 .. Len(remote.wire.responses)
           /\ \E k \in 0 .. Len(remote.pipeline) : AnsweredUpTo(remote, k, applied, refused)
<1>1. /\ remote \in RemoteStore /\ remote.wire \in Wire /\ remote.pipeline \in Seq(Batch)
      /\ \E k \in 0 .. Len(remote.pipeline) : AnsweredUpTo(remote, k, applied, refused)
  BY InvFacts, RemoteFields DEF Ready, StreamInv, WireOK
<1>2. remote.wire.responses \in Seq({"handshake", "result"} \cup Error)
  BY <1>1 DEF Wire
<1> QED  BY <1>1, <1>2, LenProperties

\* The first response is a result, or there is no result unread.
LEMMA FirstResponse ==
    ASSUME StreamInv, Ready(remote), NEW response, NextResponse(response)
    PROVE  /\ response # "handshake"
           /\ response # "result" => \A w : ~ Unread(remote, w)
<1> DEFINE res == remote.wire.responses
<1>1. res # << >> /\ Head(res) = response
  BY DEF NextResponse
<1>2. /\ res \in Seq({"handshake", "result"} \cup Error) /\ Len(res) \in Nat
      /\ DOMAIN res = 1 .. Len(res) /\ Len(remote.pipeline) \in Nat
  BY ReadyFacts
<1>3. Len(res) # 0 /\ res[1] = response
  <2> HIDE DEF res
  <2> QED  BY <1>1, <1>2, EmptySeq, HeadTailProperties
<1>4. PICK k \in 0 .. Len(remote.pipeline) : AnsweredUpTo(remote, k, applied, refused)
  BY ReadyFacts
<1>5. \A i \in 1 .. k : res[i] = "result"
  BY <1>4 DEF AnsweredUpTo
<1>6. Len(res) = k \/ (Len(res) = k + 1 /\ res[k + 1] \in Error)
  BY <1>4 DEF AnsweredUpTo
<1> HIDE DEF res
<1>7. CASE k = 0
  <2>1. Len(res) = 1 /\ response \in Error
    BY <1>3, <1>6, <1>7
  <2>2. \A i \in DOMAIN res : res[i] # "result"
    BY <1>2, <1>3, <2>1 DEF Error
  <2> QED  BY <2>1, <2>2 DEF Error, Unread, res
<1>8. CASE k # 0
  <2>1. 1 \in 1 .. k
    BY <1>2, <1>4, <1>8
  <2> QED  BY <1>3, <1>5, <2>1
<1> QED  BY <1>7, <1>8

\* The writes of the pipeline are different and not answered yet.
LEMMA PipelineRows ==
    ASSUME StreamInv, TruthInv
    PROVE  /\ remote.pipeline \in Seq(Batch) /\ Len(remote.pipeline) \in Nat
           /\ DOMAIN remote.pipeline = 1 .. Len(remote.pipeline)
           /\ \A i \in DOMAIN remote.pipeline :
                 /\ remote.pipeline[i].write \in Write
                 /\ outcome[remote.pipeline[i].write] = "none"
           /\ \A i, j \in DOMAIN remote.pipeline :
                 remote.pipeline[i].write = remote.pipeline[j].write => i = j
<1> DEFINE q == mutations[currentUser]
           p == remote.pipeline
<1>1. /\ currentUser \in Account /\ q \in Seq(Batch) /\ Len(q) \in Nat
      /\ DOMAIN q = 1 .. Len(q) /\ Room(q) \in Nat /\ Room(q) <= Len(q)
      /\ Len(p) = Room(q) /\ p \in Seq(Batch)
      /\ \A n \in 1 .. Room(q) : p[n] = q[n]
  BY InvFacts, RowFacts, RoomType, RemoteFields DEF FirstRows
<1>2. Rising(q) /\ \A i \in DOMAIN q : q[i].write \in Write /\ outcome[q[i].write] = "none"
  BY <1>1, RowFacts DEF TruthInv, QueuedUnanswered, Unanswered
<1>3. DOMAIN p = 1 .. Room(q) /\ 1 .. Room(q) \subseteq DOMAIN q
  BY <1>1, LenProperties
<1> HIDE DEF p, q
<1>4. \A i, j \in DOMAIN p : p[i].write = p[j].write => i = j
  <2> SUFFICES ASSUME NEW i \in DOMAIN p, NEW j \in DOMAIN p, p[i].write = p[j].write
               PROVE  i = j
    OBVIOUS
  <2>1. i \in Nat /\ j \in Nat /\ q[i].write \in Nat /\ q[j].write \in Nat
    BY <1>1, <1>2, <1>3 DEF Write
  <2>2. (i < j => q[i].write < q[j].write) /\ (j < i => q[j].write < q[i].write)
    BY <1>2, <1>3 DEF Rising
  <2> QED  BY <1>1, <1>3, <2>1, <2>2
<1> QED  BY <1>1, <1>2, <1>3, <1>4 DEF p

\* What a step may leave as it is.
LEMMA AgainKept ==
    ASSUME AgainInv, applied' = applied, resent \subseteq resent',
           \A w \in Write \ resent' :
              /\ outcome[w] = "acknowledged" => outcome'[w] = "acknowledged"
              /\ Unread(remote, w) => outcome'[w] = "acknowledged" \/ Unread(remote', w)
              /\ NotLate(w) => NotLate(w)'
    PROVE  AgainInv'
<1> SUFFICES ASSUME NEW w \in Write \ resent' PROVE Once(w)' /\ Known(w)' /\ NotLate(w)'
  BY DEF AgainInv
<1>1. Once(w) /\ Known(w) /\ NotLate(w)
  BY DEF AgainInv
<1>2. Unread(remote, w)' <=> Unread(remote', w)
  BY DEF Unread, Ready
<1> QED  BY <1>1, <1>2 DEF Once, Known

\* What lingers of a stream was in flight.
LEMMA LateInFlight ==
    ASSUME StreamInv, NEW w \in Write, w \notin InFlight(remote), NotLate(w),
           lingering' = lingering \o GivenUp(remote)
    PROVE  NotLate(w)'
<1> DEFINE s == lingering
           t == GivenUp(remote)
<1>1. s \in Seq(GivenUpStream) /\ t \in Seq(GivenUpStream)
  BY InvFacts, GivenUpForm DEF StreamInv
<1>2. /\ Len(s) \in Nat /\ DOMAIN s = 1 .. Len(s)
      /\ Len(t) \in Nat /\ DOMAIN t = 1 .. Len(t)
  BY <1>1, LenProperties
<1>3. ASSUME NEW i \in DOMAIN t
      PROVE  \A n \in DOMAIN t[i].requests : t[i].requests[n].write # w
  <2> DEFINE p == remote.pipeline
  <2>1. t # << >>
    BY <1>2, <1>3, EmptySeq
  <2>2. Ready(remote) /\ p \in Seq(Batch) /\ Len(p) \in Nat /\ DOMAIN p = 1 .. Len(p)
    BY <2>1, InvFacts, GivenUpForm, ReadyFacts DEF StreamInv
  <2>3. PICK k \in 0 .. Len(p) :
           t = << [token |-> remote.wire.token, requests |-> SubSeq(p, k + 1, Len(p))] >>
    BY <2>1, InvFacts, GivenUpForm DEF StreamInv
  <2>4. t[i].requests = SubSeq(p, k + 1, Len(p))
    <3>1. i = 1
      BY <1>3, <2>3
    <3> QED  BY <2>3, <3>1
  <2> DEFINE rest == SubSeq(p, k + 1, Len(p))
  <2>5. /\ rest \in Seq(Batch) /\ Len(rest) = Len(p) - k
        /\ \A n \in 1 .. Len(p) - k : rest[n] = p[k + n]
    BY <2>2, <2>3, RestOf
  <2>6. t[i].requests = rest
    BY <2>4
  <2> HIDE DEF t, rest, p
  <2>7. DOMAIN rest = 1 .. Len(p) - k
    BY <2>5, LenProperties
  <2>8. \A n \in 1 .. Len(p) - k : k + n \in DOMAIN p
    BY <2>2
  <2>9. \A m \in DOMAIN p : p[m].write # w
    BY <2>2 DEF InFlight, p
  <2> QED  BY <2>5, <2>6, <2>7, <2>8, <2>9
<1> HIDE DEF t
<1>4. /\ DOMAIN (s \o t) = 1 .. Len(s) + Len(t)
      /\ \A i \in 1 .. Len(s) + Len(t) :
            (s \o t)[i] = IF i <= Len(s) THEN s[i] ELSE t[i - Len(s)]
  BY <1>1, ConcatProperties, LenProperties
<1>5. ASSUME NEW i \in 1 .. Len(s) + Len(t)
      PROVE  \A n \in DOMAIN (s \o t)[i].requests : (s \o t)[i].requests[n].write # w
  <2>1. CASE i <= Len(s)
    <3>1. (s \o t)[i] = s[i] /\ i \in DOMAIN s
      BY <1>2, <1>4, <1>5, <2>1
    <3> QED  BY <3>1 DEF NotLate
  <2>2. CASE ~ (i <= Len(s))
    <3>1. (s \o t)[i] = t[i - Len(s)] /\ i - Len(s) \in DOMAIN t
      BY <1>2, <1>4, <1>5, <2>2
    <3> QED  BY <1>3, <3>1
  <2> QED  BY <2>1, <2>2
<1> QED  BY <1>4, <1>5 DEF NotLate, t

\* Where nothing was in flight, nothing lingers.
LEMMA NothingLingers ==
    ASSUME StreamInv, GivenUp(remote) = << >>, lingering' = lingering \o GivenUp(remote)
    PROVE  lingering' = lingering
BY InvFacts, ConcatEmptySeq
-----------------------------------------------------------------------------
(* Every step keeps it.                                                     *)

\* Steps that read no response, apply nothing and leave the pipeline alone.
Silent ==
    /\ UNCHANGED <<applied, outcome, lingering, resent>>
    /\ \/ ~ Ready(remote)
       \/ /\ remote'.state = remote.state /\ remote'.pipeline = remote.pipeline
          /\ remote'.handshakeComplete = remote.handshakeComplete
          /\ remote'.wire = remote.wire

LEMMA AgainSilent ==
    ASSUME AgainInv, Silent
    PROVE  AgainInv'
<1>1. \A w : Unread(remote, w) => Unread(remote', w)
  BY DEF Silent, Unread, Ready
<1>2. \A w \in Write : NotLate(w) => NotLate(w)'
  BY DEF Silent, NotLate
<1> QED  BY <1>1, <1>2, AgainKept DEF Silent

LEMMA SilentSteps ==
    ASSUME StreamInv,
           \/ BackoffElapses \/ TakeUpToken \/ TokenArrives \/ TokenFails \/ NotifyAccount
           \/ PassToken \/ IgnoreToken \/ UNCHANGED vars
           \/ \E u \in Account : AuthStateChanges(u)
    PROVE  Silent
<1>1. remote \in RemoteStore
  BY InvFacts
<1>2. UNCHANGED <<applied, outcome, lingering, resent>>
  BY DEF BackoffElapses, TakeUpToken, TokenArrives, TokenFails, AnswersToken, NotifyAccount,
         PassToken, IgnoreToken, AuthStateChanges, vars, backendVars, historyVars
<1>3. BackoffElapses => ~ Ready(remote)
  BY DEF BackoffElapses, Ready
<1>4. \/ BackoffElapses \/ remote' = remote
      \/ remote' = [remote EXCEPT !.tokenOf = authUser]
      \/ remote' = [remote EXCEPT !.asked = "no", !.tokenOf = NoToken]
      \/ \E asked : remote' = [remote EXCEPT !.asked = asked]
  BY DEF TakeUpToken, TokenArrives, TokenFails, AnswersToken, NotifyAccount, PassToken,
         IgnoreToken, AuthStateChanges, vars
<1>5. \/ BackoffElapses
      \/ /\ remote'.state = remote.state /\ remote'.pipeline = remote.pipeline
         /\ remote'.handshakeComplete = remote.handshakeComplete
         /\ remote'.wire = remote.wire
  BY <1>1, <1>4 DEF RemoteStore
<1> QED  BY <1>2, <1>3, <1>5 DEF Silent

LEMMA AgainHandshakeComplete ==
    ASSUME StreamInv, AgainInv, HandshakeComplete
    PROVE  AgainInv'
<1>1. NextResponse("handshake") /\ UNCHANGED <<applied, outcome, lingering, resent>>
  BY DEF HandshakeComplete, backendVars, historyVars
<1>2. ~ Ready(remote)
  BY <1>1, FirstResponse
<1> QED  BY <1>1, <1>2, AgainSilent DEF Silent

\* A stream that is closed with its writes in flight.
LEMMA AgainResent ==
    ASSUME StreamInv, AgainInv, UNCHANGED <<applied, outcome>>,
           lingering' = lingering \o GivenUp(remote),
           resent' = resent \cup InFlight(remote)
    PROVE  AgainInv'
<1>1. \A w \in Write \ resent' : w \notin InFlight(remote) /\ (NotLate(w) => NotLate(w)')
  BY LateInFlight
<1>2. \A w : Unread(remote, w) => w \in InFlight(remote)
  BY DEF Unread, InFlight
<1> QED  BY <1>1, <1>2, AgainKept

LEMMA ResendingSteps ==
    ASSUME \/ ConnectionBreaks \/ IdleTimeout \/ ConnectivityChanges \/ Relaunch
           \/ HandleCredentialChange
    PROVE  /\ UNCHANGED <<applied, outcome>>
           /\ lingering' = lingering \o GivenUp(remote)
           /\ resent' = resent \cup InFlight(remote)
<1>1. ~ Rejects("transient")
  BY DEF Rejects
<1> QED  BY <1>1 DEF ConnectionBreaks, OnStreamFinish, IdleTimeout, ConnectivityChanges,
                     Relaunch, HandleCredentialChange, Restarts, backendVars

LEMMA AgainOpenStream ==
    ASSUME StreamInv, AgainInv, OpenStream
    PROVE  AgainInv'
<1>1. /\ workerQueue # << >> /\ Head(workerQueue).kind = "token"
      /\ UNCHANGED <<applied, resent>>
  BY DEF OpenStream, backendVars
<1>2. remote.state = "Starting"
  <2>1. workerQueue[1].kind = "token" /\ 1 \in DOMAIN workerQueue
    BY <1>1, InvFacts, EmptySeq, LenProperties, HeadTailProperties
  <2> QED  BY <2>1 DEF StreamInv, TokensOK, HasToken
<1>3. ~ Ready(remote) /\ remote.wire = NoWire
  BY <1>2 DEF Ready, StreamInv, StreamOK, Phases
<1>4. CASE Head(workerQueue).user = NoToken
  <2>1. OnStreamFinish("transient")
    BY <1>4 DEF OpenStream
  <2>2. outcome' = outcome /\ lingering' = lingering \o GivenUp(remote)
    BY <2>1 DEF OnStreamFinish, Rejects
  <2>3. GivenUp(remote) = << >>
    BY <1>3 DEF GivenUp, Requests
  <2> QED  BY <1>1, <1>3, <2>2, <2>3, NothingLingers, AgainSilent DEF Silent
<1>5. CASE Head(workerQueue).user # NoToken
  <2>1. UNCHANGED <<outcome, lingering>>
    BY <1>5 DEF OpenStream
  <2> QED  BY <1>1, <1>3, <2>1, AgainSilent DEF Silent
<1> QED  BY <1>4, <1>5
-----------------------------------------------------------------------------
\* A pipeline that grows at its end keeps its answers.
Longer(r, s) ==
    /\ Ready(s) /\ s.wire.responses = r.wire.responses
    /\ \A i \in DOMAIN r.pipeline : i \in DOMAIN s.pipeline
                                    /\ s.pipeline[i] = r.pipeline[i]

LEMMA UnreadKept ==
    ASSUME NEW r, NEW s, NEW w, Unread(r, w), Longer(r, s)
    PROVE  Unread(s, w)
BY DEF Unread, Longer

\* FillWritePipeline on a stream that is ready.
LEMMA FillKeeps ==
    ASSUME NEW r \in RemoteStore, Ready(r), r.wire \in Wire, NEW q \in Seq(Batch), InOrder(q),
           NEW p \in Nat, p <= Room(q), r.pipeline = SubSeq(q, 1, p),
           NEW s, s = FillWritePipeline(r, q)
    PROVE  Longer(r, s)
<1> DEFINE new == NextBatches(r, q)
<1>1. Filled(r, q, s)
  BY FillForm
<1>2. r.pipeline \o new = FirstRows(q) /\ r.pipeline \in Seq(Batch) /\ new \in Seq(Batch)
  BY NextBatchesIs, RemoteFields
<1>3. s.pipeline = r.pipeline \o new /\ s.wire = [r.wire EXCEPT !.requests = @ \o new]
  BY <1>1, <1>2 DEF Filled
<1> HIDE DEF new
<1>4. Ready(s)
  BY <1>1 DEF Filled, Ready, IsStarted
<1>5. s.wire.responses = r.wire.responses
  BY <1>3 DEF Wire
<1>6. \A i \in DOMAIN r.pipeline : i \in DOMAIN s.pipeline /\ s.pipeline[i] = r.pipeline[i]
  <2>1. /\ Len(r.pipeline) \in Nat /\ DOMAIN r.pipeline = 1 .. Len(r.pipeline)
        /\ Len(new) \in Nat
    BY <1>2, LenProperties
  <2>2. /\ r.pipeline \o new \in Seq(Batch)
        /\ Len(r.pipeline \o new) = Len(r.pipeline) + Len(new)
        /\ \A i \in 1 .. Len(r.pipeline) : (r.pipeline \o new)[i] = r.pipeline[i]
    BY <1>2, <2>1, ConcatProperties
  <2>3. DOMAIN (r.pipeline \o new) = 1 .. Len(r.pipeline) + Len(new)
    BY <2>2, LenProperties
  <2> QED  BY <1>3, <2>1, <2>2, <2>3
<1> QED  BY <1>4, <1>5, <1>6 DEF Longer

LEMMA AgainWriteLocally ==
    ASSUME StreamInv, AgainInv, WriteLocally
    PROVE  AgainInv'
<1> DEFINE q == mutations[currentUser]
           batch == [user |-> currentUser, batchId |-> nextBatchId, write |-> issued + 1]
<1>1. /\ mutations' = [mutations EXCEPT ![currentUser] = Append(q, batch)]
      /\ remote' = FillWritePipeline(remote, mutations'[currentUser])
      /\ issued < MaxWrites
      /\ UNCHANGED <<applied, outcome, lingering, resent>>
  BY DEF WriteLocally, backendVars
<1>2. batch \in Batch /\ batch.batchId = nextBatchId
  BY <1>1, InvFacts, PipelineConstantsAssumption DEF Batch, Write, StreamInv, TypeOK
<1> HIDE DEF batch
<1>3. /\ q \in Seq(Batch) /\ InOrder(q) /\ IdsBelow(q, nextBatchId)
      /\ remote \in RemoteStore /\ remote.pipeline = SubSeq(q, 1, Room(q))
      /\ Room(q) \in Nat /\ (remote.state = "Open" => remote.wire \in Wire)
  BY InvFacts
<1>4. /\ Append(q, batch) \in Seq(Batch) /\ InOrder(Append(q, batch))
      /\ FirstRows(q) = SubSeq(Append(q, batch), 1, Room(q))
      /\ Room(q) <= Room(Append(q, batch))
  BY <1>2, <1>3, AppendQueue
<1>5. remote' = FillWritePipeline(remote, Append(q, batch))
  BY <1>1, InvFacts DEF StreamInv, TypeOK
<1>6. remote.pipeline = SubSeq(Append(q, batch), 1, Room(q))
  BY <1>3, <1>4 DEF FirstRows
<1>7. ASSUME NEW w \in Write, Unread(remote, w) PROVE Unread(remote', w)
  <2>1. Ready(remote) /\ remote.wire \in Wire
    BY <1>3, <1>7 DEF Unread, Ready
  <2>2. Longer(remote, remote')
    BY <1>3, <1>4, <1>5, <1>6, <2>1, FillKeeps
  <2> QED  BY <1>7, <2>2, UnreadKept
<1> QED  BY <1>1, <1>7, AgainKept DEF NotLate

\* The first answer is read: its write is acknowledged, the others move up.
LEMMA AgainMutationResult ==
    ASSUME StreamInv, TruthInv, AgainInv, MutationResult
    PROVE  AgainInv'
<1> DEFINE q == mutations[currentUser]
           r == [remote EXCEPT !.wire.responses = Tail(@), !.pipeline = Tail(@)]
           p == remote.pipeline
           res == remote.wire.responses
<1>1. /\ NextResponse("result") /\ Answered("acknowledged")
      /\ remote' = FillWritePipeline(r, mutations'[currentUser])
      /\ UNCHANGED <<applied, lingering, resent>>
      /\ outcome' = [outcome EXCEPT ![Head(p).write] = "acknowledged"]
  BY DEF MutationResult, Answered, backendVars
<1>2. /\ Ready(remote) /\ remote.wire \in Wire /\ remote \in RemoteStore
      /\ res # << >> /\ Head(res) = "result"
  BY <1>1, ResultFacts, InvFacts
<1>3. PICK k \in 0 .. Len(p) : AnsweredUpTo(remote, k, applied, refused)
  BY <1>1, ResultFacts
<1>4. p # << >> /\ r \in RemoteStore /\ r.wire \in Wire
  BY <1>2, <1>3, AnsweredOnce
<1>5. /\ q # << >> /\ mutations' = [mutations EXCEPT ![currentUser] = Tail(q)]
      /\ nextBatchId' = nextBatchId
      /\ Tail(q) \in Seq(Batch) /\ InOrder(Tail(q))
      /\ Tail(p) = SubSeq(Tail(q), 1, Room(q) - 1)
      /\ Room(q) - 1 \in Nat /\ Room(q) - 1 <= Room(Tail(q))
  BY <1>1, <1>4, AnsweredForm
<1>6. mutations'[currentUser] = Tail(q)
  BY <1>5, QueuesShrink
<1>7. r.pipeline = Tail(p) /\ Ready(r) /\ r.wire.responses = Tail(res)
  BY <1>2 DEF RemoteStore, Ready, Wire
<1> HIDE DEF r
<1>8. Longer(r, remote')
  <2>1. remote' = FillWritePipeline(r, Tail(q)) /\ r.pipeline = SubSeq(Tail(q), 1, Room(q) - 1)
    BY <1>1, <1>5, <1>6, <1>7
  <2> QED  BY <1>4, <1>5, <1>7, <2>1, FillKeeps
<1>9. /\ p \in Seq(Batch) /\ Len(p) \in Nat /\ DOMAIN p = 1 .. Len(p) /\ Head(p) = p[1]
      /\ DOMAIN Tail(p) = 1 .. Len(p) - 1
      /\ \A i \in 1 .. Len(p) - 1 : Tail(p)[i] = p[i + 1]
  <2>1. p \in Seq(Batch)
    BY ReadyFacts, <1>2
  <2> HIDE DEF p
  <2> QED  BY <1>4, <2>1, HeadTailProperties, LenProperties
<1>10. /\ res \in Seq({"handshake", "result"} \cup Error) /\ Len(res) \in Nat
       /\ DOMAIN res = 1 .. Len(res) /\ DOMAIN Tail(res) = 1 .. Len(res) - 1
       /\ \A i \in 1 .. Len(res) - 1 : Tail(res)[i] = res[i + 1]
  <2>1. res \in Seq({"handshake", "result"} \cup Error)
    BY ReadyFacts, <1>2
  <2> HIDE DEF res
  <2> QED  BY <1>2, <2>1, HeadTailProperties, LenProperties
<1>11. outcome \in [Write -> {"none", "acknowledged", "rejected"}]
  BY DEF StreamInv, TypeOK
<1>12. ASSUME NEW w \in Write, Unread(remote, w)
       PROVE  outcome'[w] = "acknowledged" \/ Unread(remote', w)
  <2>1. PICK i \in DOMAIN p : p[i].write = w /\ i \in DOMAIN res /\ res[i] = "result"
    BY <1>12 DEF Unread
  <2>2. CASE i = 1
    <3>1. w = Head(p).write
      BY <1>9, <2>1, <2>2
    <3> QED  BY <1>1, <1>11, <3>1
  <2>3. CASE i # 1
    <3>1. i - 1 \in DOMAIN Tail(p) /\ i - 1 \in DOMAIN Tail(res) /\ (i - 1) + 1 = i
      BY <1>9, <1>10, <2>1, <2>3
    <3>2. Tail(p)[i - 1] = p[i] /\ Tail(res)[i - 1] = res[i]
      BY <1>9, <1>10, <3>1
    <3>3. Unread(r, w)
      BY <1>7, <2>1, <3>1, <3>2 DEF Unread
    <3> QED  BY <1>8, <3>3, UnreadKept
  <2> QED  BY <2>2, <2>3
<1> QED  BY <1>1, <1>11, <1>12, AgainKept DEF NotLate

\* A stream that ends by itself: nothing of it lingers, and the write it is put
\* down to has not been applied, unless it was sent before.
LEMMA AgainStreamEnds ==
    ASSUME StreamInv, TruthInv, AgainInv, NEW error \in Error, StreamEnds(error)
    PROVE  AgainInv'
<1>1. NextResponse(error) /\ OnStreamFinish(error) /\ UNCHANGED <<applied, resent>>
  BY DEF StreamEnds, backendVars
<1>2. \A w : ~ Unread(remote, w)
  <2>1. CASE Ready(remote)
    BY <1>1, <2>1, FirstResponse DEF Error
  <2>2. CASE ~ Ready(remote)
    BY <2>2 DEF Unread
  <2> QED  BY <2>1, <2>2
<1>3. lingering' = lingering
  <2> DEFINE res == remote.wire.responses
  <2>1. 1 \in DOMAIN res /\ res[1] = error /\ remote.wire # NoWire
    <3>1. remote.wire \in Wire /\ res # << >> /\ Head(res) = error /\ remote.wire # NoWire
      BY <1>1, InvFacts DEF NextResponse, StreamInv, StreamOK, Phases
    <3>2. res \in Seq({"handshake", "result"} \cup Error)
      BY <3>1 DEF Wire
    <3> HIDE DEF res
    <3> QED  BY <3>1, <3>2, EmptySeq, LenProperties, HeadTailProperties
  <2>2. Requests(remote.wire) = << >>
    BY <2>1 DEF Requests
  <2> QED  BY <1>1, <2>2, NothingLingers DEF GivenUp, OnStreamFinish
<1>4. outcome \in [Write -> {"none", "acknowledged", "rejected"}]
  BY DEF StreamInv, TypeOK
<1>5. CASE Rejects(error)
  <2>1. outcome' = [outcome EXCEPT ![Head(remote.pipeline).write] = "rejected"]
    BY <1>1, <1>5 DEF OnStreamFinish, Answered
  <2>2. outcome[Head(remote.pipeline).write] = "none"
    BY <1>5, PipelineRows, EmptySeq, HeadTailProperties DEF Rejects
  <2>3. \A w \in Write : outcome[w] = "acknowledged" => outcome'[w] = "acknowledged"
    BY <1>4, <2>1, <2>2
  <2> QED  BY <1>1, <1>2, <1>3, <2>3, AgainKept DEF NotLate
<1>6. CASE ~ Rejects(error)
  <2>1. outcome' = outcome
    BY <1>1, <1>6 DEF OnStreamFinish
  <2> QED  BY <1>1, <1>2, <1>3, <2>1, AgainKept DEF NotLate
<1> QED  BY <1>5, <1>6
-----------------------------------------------------------------------------
(* The backend.                                                             *)

\* One more write is applied.
LEMMA AppliedAgain ==
    ASSUME applied \in Seq(Write), NEW v \in Write, applied' = Append(applied, v),
           NEW w \in Write, Once(w), w = v => w \notin ToSet(applied)
    PROVE  /\ Once(w)'
           /\ w \in ToSet(applied)' => w = v \/ w \in ToSet(applied)
<1>1. Len(applied) \in Nat /\ DOMAIN applied = 1 .. Len(applied)
  BY LenProperties
<1>2. /\ DOMAIN applied' = 1 .. Len(applied) + 1
      /\ applied'[Len(applied) + 1] = v
      /\ \A j \in 1 .. Len(applied) : applied'[j] = applied[j]
  BY <1>1, AppendProperties, LenProperties
<1>3. ASSUME NEW i \in DOMAIN applied', applied'[i] = w
      PROVE  \/ i \in DOMAIN applied /\ applied[i] = w
             \/ i = Len(applied) + 1 /\ w = v
  BY <1>1, <1>2, <1>3
<1>4. w \in ToSet(applied) <=> \E i \in DOMAIN applied : applied[i] = w
  BY DEF ToSet
<1>5. Once(w)'
  BY <1>3, <1>4 DEF Once
<1>6. w \in ToSet(applied)' => \E i \in DOMAIN applied' : applied'[i] = w
  BY DEF ToSet
<1> QED  BY <1>3, <1>4, <1>5, <1>6

\* One more response waits; those before it stay.
LEMMA OneMoreResponse ==
    ASSUME StreamInv, Ready(remote), NEW wire \in Wire, NEW response,
           remote' = [remote EXCEPT !.wire = wire],
           wire.responses = Append(remote.wire.responses, response)
    PROVE  /\ Ready(remote') /\ remote'.pipeline = remote.pipeline
           /\ \A w : Unread(remote, w) => Unread(remote', w)
           /\ Len(remote.wire.responses) + 1 \in DOMAIN remote'.wire.responses
           /\ remote'.wire.responses[Len(remote.wire.responses) + 1] = response
<1> DEFINE res == remote.wire.responses
<1>1. /\ remote'.wire = wire /\ remote'.pipeline = remote.pipeline
      /\ Ready(remote')
  BY ReadyFacts DEF RemoteStore, Ready
<1>2. /\ res \in Seq({"handshake", "result"} \cup Error) /\ Len(res) \in Nat
      /\ DOMAIN res = 1 .. Len(res)
  BY ReadyFacts
<1>3. wire.responses \in Seq({"handshake", "result"} \cup Error)
  BY DEF Wire
<1> HIDE DEF res
<1>4. /\ DOMAIN Append(res, response) = 1 .. Len(res) + 1
      /\ Append(res, response)[Len(res) + 1] = response
      /\ \A i \in 1 .. Len(res) : Append(res, response)[i] = res[i]
  BY <1>2
<1>5. wire.responses = Append(res, response)
  BY DEF res
<1>6. /\ Len(res) + 1 \in DOMAIN wire.responses
      /\ wire.responses[Len(res) + 1] = response
      /\ \A i \in DOMAIN res : i \in DOMAIN wire.responses /\ wire.responses[i] = res[i]
  BY <1>2, <1>4, <1>5
<1>7. \A w : Unread(remote, w) => Unread(remote', w)
  BY <1>1, <1>6 DEF Unread, res
<1> QED  BY <1>1, <1>6, <1>7 DEF res

LEMMA AgainServe ==
    ASSUME StreamInv, TruthInv, AgainInv, Serve
    PROVE  AgainInv'
<1> DEFINE request == Head(remote.wire.requests)
           response == IF request = Handshake THEN "handshake" ELSE "result"
           wire == [remote.wire EXCEPT !.requests = Tail(@), !.responses = Append(@, response)]
<1>1. /\ NextRequest
      /\ applied' = IF request = Handshake THEN applied ELSE Append(applied, request.write)
      /\ UNCHANGED <<outcome, lingering, resent>>
  BY DEF Serve, historyVars
<1>2. /\ remote \in RemoteStore /\ remote.state = "Open" /\ remote.wire \in Wire
      /\ remote.wire.requests # << >>
  BY <1>1, InvFacts, RequestFacts DEF NextRequest
<1>3. remote' = [remote EXCEPT !.wire = wire]
  BY <1>2 DEF Serve, RemoteStore
<1>4. CASE ~ remote.handshakeComplete
  <2>1. request = Handshake
    BY <1>1, <1>4, RequestFacts
  <2> HIDE DEF request
  <2> QED  BY <1>1, <1>4, <2>1, AgainSilent DEF Silent, Ready
<1>5. CASE remote.handshakeComplete
  <2>1. PICK k \in 0 .. Len(remote.pipeline) :
               /\ Len(remote.wire.responses) = k /\ k < Len(remote.pipeline)
               /\ request = remote.pipeline[k + 1] /\ remote.pipeline[k + 1] \in Batch
    BY <1>1, <1>5, RequestFacts
  <2>2. request # Handshake /\ request.write \in Write
    BY <2>1, StreamConstantsAssumption DEF Batch
  <2>3. Ready(remote)
    BY <1>2, <1>5, InvFacts, RemoteFields DEF Ready
  <2>4. wire \in Wire /\ wire.responses = Append(remote.wire.responses, "result")
    <3>1. Tail(remote.wire.requests) \in Seq(Batch \cup {Handshake})
      BY <1>2, HeadTailProperties DEF Wire
    <3>2. Append(remote.wire.responses, "result") \in Seq({"handshake", "result"} \cup Error)
      BY <2>3, ReadyFacts, AppendProperties
    <3> HIDE DEF request
    <3> QED  BY <1>2, <2>2, <3>1, <3>2 DEF Wire
  <2> DEFINE v == request.write
  <2>5. applied \in Seq(Write) /\ applied' = Append(applied, v) /\ v \in Write
    BY <1>1, <2>2 DEF StreamInv, TypeOK
  <2>6. v = remote.pipeline[k + 1].write /\ k + 1 \in DOMAIN remote.pipeline
    BY <2>1, PipelineRows
  <2> HIDE DEF wire, request, v
  <2>7. /\ Ready(remote') /\ remote'.pipeline = remote.pipeline
        /\ \A w : Unread(remote, w) => Unread(remote', w)
        /\ k + 1 \in DOMAIN remote'.wire.responses
        /\ remote'.wire.responses[k + 1] = "result"
    BY <1>3, <2>1, <2>3, <2>4, OneMoreResponse
  <2>8. Unread(remote', v)
    BY <2>6, <2>7 DEF Unread
  <2>9. v \notin resent => v \notin ToSet(applied)
    <3> SUFFICES ASSUME v \notin resent, v \in ToSet(applied) PROVE FALSE
      OBVIOUS
    <3>1. outcome[v] = "none"
      BY <2>6, PipelineRows
    <3>2. Unread(remote, v)
      BY <2>5, <3>1 DEF AgainInv, Known
    <3>3. PICK i \in DOMAIN remote.pipeline :
                 remote.pipeline[i].write = v /\ i \in DOMAIN remote.wire.responses
      BY <3>2 DEF Unread
    <3>4. i = k + 1
      BY <2>6, <3>3, PipelineRows
    <3>5. DOMAIN remote.wire.responses = 1 .. k /\ k \in Nat
      BY <2>1, <2>3, ReadyFacts
    <3> QED  BY <3>3, <3>4, <3>5
  <2>10. ASSUME NEW w \in Write \ resent PROVE Once(w)' /\ Known(w)' /\ NotLate(w)'
    <3>1. Once(w) /\ Known(w) /\ NotLate(w)
      BY DEF AgainInv
    <3>2. /\ Once(w)'
          /\ w \in ToSet(applied)' => w = v \/ w \in ToSet(applied)
      BY <2>5, <2>9, <3>1, AppliedAgain
    <3>3. Unread(remote, w)' <=> Unread(remote', w)
      BY DEF Unread, Ready
    <3>4. Known(w)'
      BY <1>1, <2>7, <2>8, <3>1, <3>2, <3>3 DEF Known
    <3> QED  BY <1>1, <3>1, <3>2, <3>4 DEF NotLate
  <2> QED  BY <1>1, <2>10 DEF AgainInv
<1> QED  BY <1>4, <1>5

LEMMA AgainRefuse ==
    ASSUME StreamInv, AgainInv, NEW error \in Error, Refuse(error)
    PROVE  AgainInv'
<1> DEFINE wire == [remote.wire EXCEPT !.requests = << >>, !.responses = Append(@, error)]
<1>1. NextRequest /\ UNCHANGED <<applied, outcome, lingering, resent>>
  BY DEF Refuse, historyVars
<1>2. /\ remote \in RemoteStore /\ remote.wire \in Wire
  BY <1>1, InvFacts, RequestFacts
<1>3. remote' = [remote EXCEPT !.wire = wire]
  BY <1>2 DEF Refuse, RemoteStore
<1>4. ASSUME Ready(remote) PROVE \A w : Unread(remote, w) => Unread(remote', w)
  <2>1. wire \in Wire /\ wire.responses = Append(remote.wire.responses, error)
    <3>1. << >> \in Seq(Batch \cup {Handshake})
      BY EmptySeq
    <3>2. Append(remote.wire.responses, error) \in Seq({"handshake", "result"} \cup Error)
      BY <1>4, ReadyFacts, AppendProperties
    <3> QED  BY <1>2, <3>1, <3>2 DEF Wire
  <2> HIDE DEF wire
  <2> QED  BY <1>3, <1>4, <2>1, OneMoreResponse
<1>5. \A w : Unread(remote, w) => Unread(remote', w)
  BY <1>4 DEF Unread
<1> QED  BY <1>1, <1>5, AgainKept DEF NotLate

\* A stream given up goes on: what it holds has been sent again.
LEMMA AgainServeLate ==
    ASSUME StreamInv, AgainInv, NEW k \in DOMAIN lingering, ServeLate(k)
    PROVE  AgainInv'
<1> DEFINE requests == lingering[k].requests
           v == Head(requests).write
<1>1. /\ applied' = Append(applied, v)
      /\ lingering' = IF Tail(requests) = << >> THEN RemoveAt(lingering, k)
                      ELSE [lingering EXCEPT ![k].requests = Tail(@)]
      /\ UNCHANGED <<remote, outcome, resent>>
  BY DEF ServeLate, historyVars
<1>2. v \in Write /\ applied \in Seq(Write)
  BY LateWritten DEF StreamInv, TypeOK
<1>3. /\ lingering \in Seq(GivenUpStream) /\ Len(lingering) \in Nat
      /\ DOMAIN lingering = 1 .. Len(lingering) /\ lingering[k] \in GivenUpStream
  BY InvFacts, LenProperties, ElementOfSeq
<1>4. requests \in Seq(Batch) /\ requests # << >>
  BY <1>3 DEF GivenUpStream
<1>5. /\ Head(requests) = requests[1] /\ Tail(requests) \in Seq(Batch)
      /\ Len(requests) \in Nat \ {0} /\ DOMAIN requests = 1 .. Len(requests)
      /\ DOMAIN Tail(requests) = 1 .. Len(requests) - 1
      /\ \A n \in 1 .. Len(requests) - 1 : Tail(requests)[n] = requests[n + 1]
  BY <1>4, HeadTailProperties, LenProperties, EmptySeq
<1>6. v \in resent
  <2>1. 1 \in DOMAIN requests /\ requests[1].write = v
    BY <1>5
  <2> QED  BY <1>2, <2>1 DEF AgainInv, NotLate
<1> HIDE DEF v
<1>7. ASSUME NEW w, NotLate(w) PROVE NotLate(w)'
  <2>1. CASE Tail(requests) = << >>
    <3>1. \A i \in DOMAIN lingering' : \E j \in DOMAIN lingering : lingering'[i] = lingering[j]
      BY <1>1, <1>3, <2>1, RowsLeft
    <3> QED  BY <1>7, <3>1 DEF NotLate
  <2>2. CASE Tail(requests) # << >>
    <3>1. lingering' = [lingering EXCEPT ![k].requests = Tail(requests)]
      BY <1>1, <2>2
    <3>2. /\ DOMAIN lingering' = DOMAIN lingering
          /\ lingering'[k].requests = Tail(requests)
          /\ \A i \in DOMAIN lingering : i # k => lingering'[i] = lingering[i]
      BY <1>3, <3>1 DEF GivenUpStream
    <3>3. \A n \in DOMAIN requests : requests[n].write # w
      BY <1>7 DEF NotLate
    <3> HIDE DEF requests
    <3>4. \A n \in DOMAIN Tail(requests) : Tail(requests)[n].write # w
      <4>1. \A n \in 1 .. Len(requests) - 1 : n + 1 \in DOMAIN requests
        BY <1>5
      <4> QED  BY <1>5, <3>3, <4>1
    <3> QED  BY <1>7, <3>2, <3>4 DEF NotLate
  <2> QED  BY <2>1, <2>2
<1>8. ASSUME NEW w \in Write \ resent PROVE Once(w)' /\ Known(w)' /\ NotLate(w)'
  <2>1. Once(w) /\ Known(w) /\ NotLate(w) /\ w # v
    BY <1>6 DEF AgainInv
  <2>2. Once(w)' /\ (w \in ToSet(applied)' => w \in ToSet(applied))
    BY <1>1, <1>2, <2>1, AppliedAgain
  <2>3. Known(w)'
    BY <1>1, <2>1, <2>2 DEF Known, Unread, Ready
  <2> QED  BY <1>7, <2>1, <2>2, <2>3
<1> QED  BY <1>1, <1>8 DEF AgainInv
-----------------------------------------------------------------------------
LEMMA AgainInit ==
    ASSUME Init
    PROVE  AgainInv
<1>1. applied = << >> /\ lingering = << >>
  BY DEF Init
<1>2. DOMAIN << >> = {}
  BY EmptySeq, LenProperties
<1> QED  BY <1>1, <1>2 DEF AgainInv, Once, Known, NotLate, ToSet

LEMMA AgainNext ==
    ASSUME StreamInv, TruthInv, AgainInv, [Next]_vars
    PROVE  AgainInv'
<1>1. Silent => AgainInv'
  BY AgainSilent
<1>2. \/ ConnectionBreaks \/ IdleTimeout \/ ConnectivityChanges \/ Relaunch
      \/ HandleCredentialChange
      => AgainInv'
  BY ResendingSteps, AgainResent
<1> QED  BY <1>1, <1>2, SilentSteps, AgainHandshakeComplete, AgainOpenStream,
            AgainWriteLocally, AgainMutationResult, AgainStreamEnds, AgainServe,
            AgainRefuse, AgainServeLate
         DEF Next, Client

\* A write that no stream left unanswered when it was closed is applied at most
\* once, and never when its completion was told that it was rejected: only what
\* the client sends again can be applied twice, or against its answer.
THEOREM SentOnceAppliedOnce == Spec => []OnlyResentAgain
<1>1. Init => StreamInv /\ TruthInv /\ AgainInv
  BY InitInv, TruthInit, AgainInit
<1>2. StreamInv /\ TruthInv /\ AgainInv /\ [Next]_vars
         => StreamInv' /\ TruthInv' /\ AgainInv'
  BY NextStep, TruthNext, AgainNext
<1>3. StreamInv /\ TruthInv /\ AgainInv => OnlyResentAgain
  <2> SUFFICES ASSUME StreamInv, TruthInv, AgainInv, NEW w \in Write \ resent
               PROVE  LET times == {i \in DOMAIN applied : applied[i] = w}
                      IN  /\ Cardinality(times) <= 1
                          /\ outcome[w] = "rejected" => times = {}
    BY DEF OnlyResentAgain
  <2> DEFINE times == {i \in DOMAIN applied : applied[i] = w}
  <2>1. Once(w) /\ Known(w)
    BY DEF AgainInv
  <2>2. Cardinality(times) <= 1
    <3>1. times = {} \/ \E i : times = {i}
      BY <2>1 DEF Once
    <3>2. Cardinality({}) = 0 /\ \A i : Cardinality({i}) = 1
      BY FS_EmptySet, FS_Singleton
    <3> HIDE DEF times
    <3>3. Cardinality(times) = 0 \/ Cardinality(times) = 1
      BY <3>1, <3>2
    <3> QED  BY <3>3
  <2>3. outcome[w] = "rejected" => times = {}
    <3>1. Unread(remote, w) => outcome[w] = "none"
      BY PipelineRows DEF Unread
    <3>2. times # {} => w \in ToSet(applied)
      BY DEF ToSet
    <3> QED  BY <2>1, <3>1, <3>2 DEF Known
  <2> QED  BY <2>2, <2>3
<1> QED  BY <1>1, <1>2, <1>3, PTL DEF Spec
=============================================================================
