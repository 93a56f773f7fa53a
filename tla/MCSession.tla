------------------------------ MODULE MCSession ------------------------------
(* A small instance of Session for TLC.                                      *)
EXTENDS Session

SessionFrames == {"DATA", "HEADERS", "WINDOW_UPDATE", "CONNECTION_WINDOW_UPDATE",
                  "SETTINGS"}
================================================================================
