SPECIFICATION FairStreamSpec
CONSTANTS
  CameraSize <- MCSize
  SenderCommands <- MCSenderCommands
  ReceiverCommands <- MCReceiverCommands
  LaterFailures = FALSE
  CameraFaults = {"rpc"}
  BusCap = 1
  PlayerFaults = {"element", "link"}
  PlayerBusCap = 1
INVARIANTS
  StreamTypeOK
  ShownAtCameraSize
  JetsonPlaysLinked
PROPERTIES
  StreamKeepsView
  StreamIsShown
  BrokenPlayerReturns
\* Either program may end.
CHECK_DEADLOCK FALSE
