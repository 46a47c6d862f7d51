SPECIFICATION FairSpec
CONSTANTS
  CameraSize <- MCSize
  LaterFailures = FALSE
  CameraFaults = {"element", "queue", "link", "rpc"}
  BusCap = 2
INVARIANTS
  CameraTypeOK
  CapsAreCameraSize
  PushesHaveElement
PROPERTIES
  StreamStarts
  ImagesReachPipeline
  StopsOnMessage
\* The program ends when a call or a link fails.
CHECK_DEADLOCK FALSE
