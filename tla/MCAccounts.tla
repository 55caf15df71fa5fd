----------------------------- MODULE MCAccounts -----------------------------
(* The instances of Accounts that TLC explores. *)
EXTENDS Accounts

CONSTANTS a, b, c1

\* Two places with coordinates of their own, and one whose two are equal.
MCLocation == {<<1, 2>>, <<3, 4>>, <<5, 5>>}
=============================================================================
