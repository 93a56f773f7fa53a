SPECIFICATION Spec
CONSTANTS
  Cmds = {c1, c2}
  NoCmd = NoCmd
  Paths = {p1}
  NoRequest = NoRequest
  NoStream = NoStream
  DefaultWindow = 3
  Threshold = 2
  DefaultFrameSize = 2
  BodySizes = {2, 5}
  FrameSizes = {}
  WindowSizes = {}
  Increments = {1, 3}
  DataSizes = {1}
  MaxStreamId = 3
  MaxWindow = 5
  ServerSends <- ResetFrames
  Conforming = TRUE
SYMMETRY Symmetry
INVARIANTS SuccessIsComplete NoEarlyAnswer UnansweredOnlyAfterUpload StateMatchesWire
PROPERTY CommandsAreServed
CHECK_DEADLOCK FALSE
