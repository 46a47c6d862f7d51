SPECIFICATION FairSpec
CONSTANTS
  a = a
  b = b
  NoModel = NoModel
  NoGid = NoGid
  NotANumber = NotANumber
  OutOfRange = OutOfRange
  Models <- MCModels
  GidSuffix <- MCNames
  Updates <- MCTwoDrones
  StackContents <- MCStack
  IdSpace = 4
  MaxCallbacks = 3
  IntMax = 3
  Uint64Space = 16
  RecvMayFail = FALSE
  RpcFaults = {}
  RepeatLimit = 0
  WireCap = 6
  LinkFaults = {}
PROPERTY UpdatesReachAirSim
