SPECIFICATION Spec
CONSTANTS
  Starts = {s1}
  Stops = {t1}
  Requests = {r1}
  Spares = {x1, x2, x3}
  NoProcess = NoProcess
  Attempts = 2
  Signals = {"SIGINT", "SIGTERM"}
INVARIANTS DInv OneDaemonListens StopLeavesNoFile StoppedMeansGone
PROPERTY CommandsReturn
CHECK_DEADLOCK FALSE
