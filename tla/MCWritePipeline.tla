--------------------------- MODULE MCWritePipeline ---------------------------
(* The instances of WritePipeline that TLC explores. *)
EXTENDS WritePipeline

CONSTANTS a, b
=============================================================================
