------------------------------ MODULE MCFriends ------------------------------
(* The instances of Friends that TLC explores. *)
EXTENDS Friends, TLC

CONSTANTS u1, u2, u3

\* The users are interchangeable: no definition names one of them.
Symmetry == Permutations(User)

\* u2 has accepted a request of u1.
OneFriendship == {<<u2, u1>>}

\* u1 has two friends, who do not know each other.
TwoFriendships == {<<u2, u1>>, <<u3, u1>>}

\* The two friends of TwoFriendships are.
FriendSymmetry == Permutations({u2, u3})

\* They had asked each other; u1 has not answered the request of u2.
LeftoverRequest == {<<u2, u1>>}
=============================================================================
