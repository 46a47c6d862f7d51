SPECIFICATION FairSpec
CONSTANTS
  a = a
  b = b
  NoModel = NoModel
  Models <- MCModels
  Datagrams <- MCDatagrams
  StackContents <- MCStack
  RecvMayFail = TRUE
  RpcFaults = {}
  RepeatLimit = 0
  WireCap = 1
  LinkFaults = {}
  HalfWord = 8
  htonl <- MCHtonl
  StepsPerUnit = 3
INVARIANTS
  TypeOK
  ReadersSeeWholeMessage
  SetFindsVehicle
PROPERTIES
  VehicleNeverGoesBack
  WaitersGetMutex
