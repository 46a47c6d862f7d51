SPECIFICATION FairRestartSpec
CONSTANTS
  a = a
  NoModel = NoModel
  NoGid = NoGid
  NotANumber = NotANumber
  OutOfRange = OutOfRange
  Models <- MCModels
  GidSuffix <- MCNames
  Updates <- MCUpdates
  StackContents <- MCStack
  AddressLists <- MCAddresses
  IdSpace = 4
  MaxCallbacks = 5
  IntMax = 7
  Uint64Space = 32
  RecvMayFail = FALSE
  RpcFaults = {"throw"}
  RepeatLimit = 0
  WireCap = 1
  LinkFaults = {}
  MaxStarts = 1

PROPERTIES
  MirrorsGazebo
  HeardAfterRestart
\* The programs may be stopped for good.
CHECK_DEADLOCK FALSE
