SPECIFICATION Spec
CONSTANTS
  Cmds = {c1, c2}
  NoCmd = NoCmd
  Paths = {p1, p2}
  NoRequest = NoRequest
  NoStream = NoStream
  DefaultWindow = 3
  Threshold = 3
  DefaultFrameSize = 2
  BodySizes = {}
  FrameSizes = {}
  WindowSizes = {}
  Increments = {}
  DataSizes = {0}
  MaxStreamId = 4
  MaxWindow = 3
  ServerSends <- PushFrames
  Conforming = TRUE
SYMMETRY Symmetry
INVARIANTS PromisesUsedOnce ClosedMeansAnswered
PROPERTY CommandsAreServed
CHECK_DEADLOCK FALSE
