------------------------------ MODULE WriteQueue ------------------------------
(***************************************************************************)
(* What the Firestore client promises of the writes the app hands to it:   *)
(* per account a queue, answered from its head.  A write that is answered  *)
(* without an error has been applied by the backend; a write is first      *)
(* applied after every earlier one of its account has been applied or      *)
(* given up.  Nothing promises that it is applied only once, or never      *)
(* after its answer: the client sends again what it got no answer for.     *)
(*                                                                         *)
(* WritePipeline shows that the client keeps this promise.  `Deliver` of   *)
(* Friends and Carpools is the behaviour of this queue in which a write is *)
(* applied and answered in one step.                                       *)
(***************************************************************************)
EXTENDS Naturals, SequencesExt

CONSTANTS
    Account,    \* the accounts that use the phone
    MaxWrites   \* bound: writes of all accounts

Write == 1 .. MaxWrites     \* in the order in which the app made them

VARIABLES
    queue,      \* queue[u]: the unanswered writes of u, oldest first
    applied,    \* the writes the backend applied, in its order, with repetitions
    outcome     \* outcome[w]: how w has been answered, if it has been

queueVars == <<queue, applied, outcome>>

Init ==
    /\ queue = [u \in Account |-> << >>]
    /\ applied = << >>
    /\ outcome = [w \in Write |-> "none"]

Queued(w) == \E u \in Account : w \in ToSet(queue[u])

New(w) == outcome[w] = "none" /\ ~Queued(w)

WriteLocally(u, w) ==
    /\ New(w)
    /\ \A v \in Write : v < w => ~New(v)
    /\ queue' = [queue EXCEPT ![u] = Append(@, w)]
    /\ UNCHANGED <<applied, outcome>>

Apply(w) ==
    /\ ~New(w)
    /\ \A u \in Account :
          w \in ToSet(queue[u]) =>
              \A v \in ToSet(queue[u]) : v < w => v \in ToSet(applied)
    /\ applied' = Append(applied, w)
    /\ UNCHANGED <<queue, outcome>>

Answer(u, answer) ==
    /\ queue[u] # << >>
    /\ answer = "acknowledged" => Head(queue[u]) \in ToSet(applied)
    /\ queue' = [queue EXCEPT ![u] = Tail(@)]
    /\ outcome' = [outcome EXCEPT ![Head(queue[u])] = answer]
    /\ UNCHANGED applied

Next ==
    \/ \E u \in Account, w \in Write : WriteLocally(u, w)
    \/ \E w \in Write : Apply(w)
    \/ \E u \in Account, answer \in {"acknowledged", "rejected"} : Answer(u, answer)

Spec == Init /\ [][Next]_queueVars
=============================================================================
