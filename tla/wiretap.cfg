SPECIFICATION Spec
CONSTANTS
  HeaderTable <- Table
  Samples <- MCSamples
  MaxFrames <- MCMaxFrames
  Local = "local"
  Remote = "remote"
INVARIANTS TypeOK ForwardedIntact DumpInOrder
PROPERTIES BothSidesEnd EverythingForwarded
CHECK_DEADLOCK FALSE
