SPECIFICATION Spec
CONSTANTS
  CameraSize <- MCSize
  LaterFailures = FALSE
  CameraFaults = {}
  BusCap = 1
INVARIANT PushesOnlyIntoElement
\* The program may crash.
CHECK_DEADLOCK FALSE
