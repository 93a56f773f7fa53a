SPECIFICATION Spec
CONSTANTS
  HttpCalls = {h1}
  Connects = {}
  PingCalls = {p1}
  Monitorings = {}
  Disconnects = {d1}
  Loops = {l1}
  NoLoop = NoLoop
  Completions = {1, 2}
  ServerEnds = TRUE
INVARIANTS TypeOK BlockedLoopIsFreed
PROPERTIES EventsEnd CallsReturn
CHECK_DEADLOCK FALSE
