SPECIFICATION Spec
CONSTANTS
  Starts = {p1, p2}
  Stops = {s1, s2}
  NoTask = NoTask
INVARIANTS StopMeansStopped CrashNeedsFailure OneLatePing
PROPERTY StoppedTaskEnds
CHECK_DEADLOCK FALSE
