SPECIFICATION Spec
CONSTANTS
  Cmds = {c1, c2}
  NoCmd = NoCmd
  Paths = {p1}
  NoRequest = NoRequest
  NoStream = NoStream
  DefaultWindow = 3
  Threshold = 3
  DefaultFrameSize = 2
  BodySizes = {1, 5}
  FrameSizes = {1}
  WindowSizes = {0}
  Increments = {1, 3}
  DataSizes = {1}
  MaxStreamId = 3
  MaxWindow = 5
  ServerSends <- UploadFrames
  Conforming = TRUE
SYMMETRY Symmetry
INVARIANTS BodyInOrder WindowsRespected NothingStranded
PROPERTY StreamsOnlyAdvance
CHECK_DEADLOCK FALSE
