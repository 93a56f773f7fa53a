SPECIFICATION Spec
CONSTANTS
  Cmds = {c1}
  NoCmd = NoCmd
  Paths = {p1}
  NoRequest = NoRequest
  NoStream = NoStream
  DefaultWindow = 3
  Threshold = 3
  DefaultFrameSize = 2
  BodySizes = {5}
  FrameSizes = {}
  WindowSizes = {}
  Increments = {3}
  DataSizes = {1}
  MaxStreamId = 1
  MaxWindow = 5
  ServerSends <- ResetFrames
  Conforming = TRUE
SYMMETRY Symmetry
INVARIANT NoPanic
CHECK_DEADLOCK FALSE
