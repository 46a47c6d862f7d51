SPECIFICATION GazeboSpec
CONSTANTS
  a = a
  b = b
  c = c
  NoModel = NoModel
  NoGid = NoGid
  NotANumber = NotANumber
  OutOfRange = OutOfRange
  Models <- MCModels
  GidSuffix <- MCNumbered
  Updates <- MCGrouped
  IdSpace = 4
  MaxCallbacks = 5
  IntMax = 1
  Uint64Space = 8
  WireCap = 1
  LinkFaults = {}
INVARIANTS
  GazeboTypeOK
  IdsUnique
  CameraOfSameDrone
  CountersFollowUpdates
\* Gazebo may stop publishing.
CHECK_DEADLOCK FALSE
