SPECIFICATION Spec
CONSTANTS
  a = a
  b = b
  NoModel = NoModel
  NoGid = NoGid
  NotANumber = NotANumber
  OutOfRange = OutOfRange
  Models <- MCModels
  GidSuffix <- MCNames
  Updates <- MCTwoDrones
  StackContents <- MCStack
  IdSpace = 4
  MaxCallbacks = 3
  IntMax = 1
  Uint64Space = 8
  RecvMayFail = FALSE
  RpcFaults = {"refuse", "throw"}
  RepeatLimit = 0
  WireCap = 2
  LinkFaults = {"lose", "duplicate", "reorder"}
INVARIANTS
  TypeOK
  VehicleShowsItsDrone
PROPERTIES
  MirrorsGazebo
  IdsStable
\* An exception ends the receiver.
CHECK_DEADLOCK FALSE
