SPECIFICATION GazeboSpec
CONSTANTS
  a = a
  b = b
  c = c
  NoModel = NoModel
  NoGid = NoGid
  NotANumber = NotANumber
  OutOfRange = OutOfRange
  Models <- MCModels
  GidSuffix <- MCNumbered
  Updates <- MCSentinel
  IdSpace = 4
  MaxCallbacks = 2
  IntMax = 1
  Uint64Space = 8
  WireCap = 1
  LinkFaults = {}
INVARIANT CameraOfSameDrone
\* Gazebo may stop publishing.
CHECK_DEADLOCK FALSE
