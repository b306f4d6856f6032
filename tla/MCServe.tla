------------------------------ MODULE MCServe ------------------------------
(***************************************************************************)
(* An instance of Serve for TLC.                                           *)
(***************************************************************************)
EXTENDS Serve

CONSTANTS r1, r2, q1, q2
============================================================================
