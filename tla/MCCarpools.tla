------------------------------ MODULE MCCarpools ------------------------------
(* The instances of Carpools that TLC explores. *)
EXTENDS Carpools

CONSTANTS u1, u2, u3, c1, c2
=============================================================================
