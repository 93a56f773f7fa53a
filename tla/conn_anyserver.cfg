SPECIFICATION Spec
CONSTANTS
  Cmds = {c1, c2}
  NoCmd = NoCmd
  Paths = {p1}
  NoRequest = NoRequest
  NoStream = NoStream
  DefaultWindow = 3
  Threshold = 3
  DefaultFrameSize = 2
  BodySizes = {5}
  FrameSizes = {}
  WindowSizes = {}
  Increments = {2}
  DataSizes = {1}
  MaxStreamId = 2
  MaxWindow = 3
  ServerSends <- AllFrames
  Conforming = FALSE
SYMMETRY Symmetry
INVARIANTS IInv
CHECK_DEADLOCK FALSE
