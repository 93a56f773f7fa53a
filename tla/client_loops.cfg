SPECIFICATION Spec
CONSTANTS
  HttpCalls = {h1}
  Connects = {c1}
  PingCalls = {}
  Monitorings = {m1}
  Disconnects = {d1}
  Loops = {l1, l2}
  NoLoop = NoLoop
  Completions = {1, 2}
  ServerEnds = TRUE
INVARIANTS OnlyDisconnectCrashes LostOnlyToRivals
SYMMETRY Symmetry
CHECK_DEADLOCK FALSE
