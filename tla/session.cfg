SPECIFICATION SessionSpec
CONSTANTS
  Cmds = {c1, c2}
  NoCmd = NoCmd
  Paths = {p1}
  NoRequest = NoRequest
  NoStream = NoStream
  DefaultWindow = 5
  Threshold = 3
  DefaultFrameSize = 2
  BodySizes = {4}
  FrameSizes = {}
  WindowSizes = {3, 6}
  Increments = {}
  DataSizes = {1, 3}
  MaxStreamId = 3
  MaxWindow = 20
  ServerSends <- SessionFrames
  Conforming = FALSE
  Quantum = 1
  ResponseSize = 3
  ReceiptSize = 0
  Pads = {0, 2}
INVARIANTS UploadWindowsAgree DownloadWindowsAgree ServerNotOverrun
PROPERTIES UploadsFinish RequestsAnswered
CHECK_DEADLOCK FALSE
