---------------------------- MODULE MCHttp2Client ----------------------------
(* Small instances of Http2Client for TLC.                                   *)
EXTENDS Http2Client, TLC

Symmetry == Permutations(Loops)
================================================================================
