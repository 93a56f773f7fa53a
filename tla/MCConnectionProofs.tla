-------------------------- MODULE MCConnectionProofs --------------------------
(* The inductive invariant of the proofs, for TLC.                           *)
EXTENDS ConnectionProofs, MCConnection
================================================================================
