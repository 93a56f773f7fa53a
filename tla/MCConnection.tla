----------------------------- MODULE MCConnection -----------------------------
(* Small instances of Connection for TLC.                                   *)
EXTENDS Connection, TLC

Symmetry == Permutations(Cmds) \cup Permutations(Paths)

(* What the server sends in the runs, by the question the run asks.         *)
Responses == {"DATA", "HEADERS"}
Windows   == {"WINDOW_UPDATE", "CONNECTION_WINDOW_UPDATE", "SETTINGS"}
Pushes    == {"PUSH_PROMISE", "PARTIAL_PUSH_PROMISE"}

UploadFrames   == {"HEADERS"} \cup Windows
ResetFrames    == Responses \cup {"RST_STREAM", "WINDOW_UPDATE",
                                  "CONNECTION_WINDOW_UPDATE", "GOAWAY"}
PushFrames     == Responses \cup Pushes \cup {"RST_STREAM"}
AllFrames      == FrameKinds
================================================================================
