------------------------------- MODULE Consent -------------------------------
(***************************************************************************)
(* What the friend graph promises, without phones, documents, queues and   *)
(* lists: users ask each other, answer each other, and each side of a      *)
(* friendship appears and disappears on its own, but only ever appears     *)
(* after one of the two asked and, after that, the other accepted.         *)
(***************************************************************************)
CONSTANT User

VARIABLES
    asked,      \* <<u, v>>: u has asked v
    accepted,   \* <<u, v>>: u has accepted v, who had asked
    friends     \* friends[u]: the friends u's own document names

vars == <<asked, accepted, friends>>

Agreed(u, v) == <<u, v>> \in accepted \/ <<v, u>> \in accepted

Init ==
    /\ asked \in SUBSET (User \X User)
    /\ accepted \in SUBSET (User \X User)
    /\ friends \in [User -> SUBSET User]
    /\ \A u, v \in User : <<u, v>> \in accepted => <<v, u>> \in asked
    /\ \A u, v \in User : v \in friends[u] => Agreed(u, v)

Ask(u, v) ==
    /\ u # v
    /\ asked' = asked \cup {<<u, v>>}
    /\ UNCHANGED <<accepted, friends>>

Accept(u, v) ==
    /\ <<v, u>> \in asked
    /\ accepted' = accepted \cup {<<u, v>>}
    /\ UNCHANGED <<asked, friends>>

\* u's document gains v.
Befriend(u, v) ==
    /\ Agreed(u, v)
    /\ friends' = [friends EXCEPT ![u] = @ \cup {v}]
    /\ UNCHANGED <<asked, accepted>>

\* u's document loses v.
Part(u, v) ==
    /\ friends' = [friends EXCEPT ![u] = @ \ {v}]
    /\ UNCHANGED <<asked, accepted>>

Next ==
    \E u, v \in User : Ask(u, v) \/ Accept(u, v) \/ Befriend(u, v) \/ Part(u, v)

Spec == Init /\ [][Next]_vars
=============================================================================
