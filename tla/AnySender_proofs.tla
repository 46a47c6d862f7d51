--------------------------- MODULE AnySender_proofs ---------------------------
(***************************************************************************)
(* What receive_drone_pose guarantees whatever datagrams it is sent.       *)
(***************************************************************************)
EXTENDS AnySender, ReceiveDronePose_proofs

\* A step is one of a thread, or leaves the receiver alone.
LEMMA Steps ==
  ASSUME [Next]_vars
  PROVE  \/ UNCHANGED receiverVars
         \/ ReceiverThread(RxNext)
         \/ HandlerThread(HandlerNext)
         \/ PrinterThread(PrinterNext)
BY DEF Next, Arrives, ReceiverNext, PosePath, vars

(***************************************************************************)
(* Types.                                                                  *)
(***************************************************************************)
LEMMA TypeInit == Init => TypeOK
<1> SUFFICES ASSUME Init PROVE TypeOK
  OBVIOUS
<1>1. << >> \in Seq(UdpPoseMessage)
  OBVIOUS
<1> QED
  BY <1>1, ReceiverTypeInit DEF Init, WireInit, TypeOK

LEMMA TypeStep == TypeOK /\ [Next]_vars => TypeOK'
<1> SUFFICES ASSUME TypeOK, [Next]_vars PROVE TypeOK'
  OBVIOUS
<1> USE DEF TypeOK
<1>1. CASE Arrives
  BY <1>1, TransmitType, DatagramAssumption, ReceiverTypeKept DEF Arrives
<1>2. CASE ReceiverThread(RxNext)
  BY <1>2, RxTypeStep
<1>3. CASE HandlerThread(HandlerNext)
  BY <1>3, HandlerTypeStep DEF HandlerThread
<1>4. CASE PrinterThread(PrinterNext)
  BY <1>4, PrinterTypeStep DEF PrinterThread
<1>5. CASE UNCHANGED vars
  BY <1>5, ReceiverTypeKept DEF vars
<1> QED
  BY <1>1, <1>2, <1>3, <1>4, <1>5 DEF Next, ReceiverNext, PosePath

(***************************************************************************)
(* The receiver's state has its types, whatever datagrams it is sent.      *)
(***************************************************************************)
THEOREM TypeInvariance == Spec => []TypeOK
BY TypeInit, TypeStep, PTL DEF Spec

-----------------------------------------------------------------------------
LEMMA MessageInit == Init => MessageInv
<1> SUFFICES ASSUME Init PROVE MessageInv
  OBVIOUS
<1>1. << >> \in Seq(Datagrams)
  OBVIOUS
<1> QED
  BY <1>1, SlotInit DEF Init, ReceiverInit, RxInit, WireInit, MessageInv, SlotIn, WholeMessages

LEMMA MessageStep ==
  ASSUME TypeOK, MessageInv, [Next]_vars
  PROVE  MessageInv'
<1>1. CASE ReceiverThread(RxNext)
  <2>1. wire' \in Seq(Datagrams) /\ udp_pose_message' \in Datagrams \cup StackContents
    BY <1>1 DEF ReceiverThread, RxNext, RxDatagram, RxNothing, RxLock, RxUnlock, RxStores,
                RxStore, StoreCounter, StoreDrone, StoreCamera, StoreDroneId, MessageInv
  <2>2. Received \in WholeMessages
    BY DEF MessageInv, Received, WholeMessages
  <2>3. StoredInv' /\ SlotIn(WholeMessages)'
    BY <1>1, <2>2, SlotStep DEF TypeOK, MessageInv
  <2> QED
    BY <2>1, <2>3 DEF MessageInv, SlotIn
<1>2. CASE ~ReceiverThread(RxNext)
  <2>1. UNCHANGED <<rxVars, pose_message>>
    BY <1>2, Steps, SlotKept DEF receiverVars, sharedVars
  <2>2. StoredInv' /\ SlotIn(WholeMessages)'
    BY <2>1, SlotUnchanged DEF MessageInv
  <2>3. wire' \in Seq(Datagrams)
    <3>1. CASE Arrives
      BY <3>1, TransmitType DEF Arrives, MessageInv
    <3>2. CASE ~Arrives
      BY <1>2, <3>2, SlotKept DEF Next, ReceiverNext, PosePath, vars, MessageInv
    <3> QED
      BY <3>1, <3>2
  <2> QED
    BY <2>1, <2>2, <2>3 DEF MessageInv, rxVars, SlotIn
<1> QED
  BY <1>1, <1>2

-----------------------------------------------------------------------------
LEMMA SpawnInit == Init => SpawnInv
BY DEF Init, ReceiverInit, HandlerInit, AirSimInit, SpawnInv

LEMMA SpawnStep == TypeOK /\ MutexInv /\ SpawnInv /\ [Next]_vars => SpawnInv'
<1> SUFFICES ASSUME TypeOK, MutexInv, SpawnInv, [Next]_vars PROVE SpawnInv'
  OBVIOUS
<1>1. CASE HandlerThread(HandlerNext)
  <2> USE DEF SpawnInv, HandlerGoto, sharedVars
  <2>1. CASE HandlerLock
    BY <2>1 DEF HandlerLock
  <2>2. CASE SpawnUniqueDrone
    BY <2>2 DEF SpawnUniqueDrone, spawn_vehicle, simAddVehicle
  <2>3. CASE KnownDrone
    BY <2>3 DEF KnownDrone, DroneIsNew
  <2>4. CASE SetVehiclePose
    BY <2>4 DEF SetVehiclePose, set_vehicle_pose
  <2>5. CASE OldMessage
    BY <2>5 DEF OldMessage
  <2>6. CASE HandlerThrows
    <3>1. /\ UNCHANGED handlerVars /\ UNCHANGED pose_message
          /\ DOMAIN vehicles \subseteq DOMAIN vehicles'
      BY <1>1, <2>6, HandlerCalls, VehiclesKept, SetVehicle DEF HandlerThrows, Terminate
    <3> QED
      BY <3>1 DEF handlerVars
  <2>7. CASE HandlerUnlock
    BY <2>7 DEF HandlerUnlock
  <2>8. CASE HandlerWakes
    BY <2>8 DEF HandlerWakes
  <2> QED
    BY <1>1, <2>1, <2>2, <2>3, <2>4, <2>5, <2>6, <2>7, <2>8
       DEF HandlerThread, HandlerNext, HandlerStep
<1>2. CASE ~HandlerThread(HandlerNext)
  <2>1. \/ UNCHANGED receiverVars
        \/ ReceiverThread(RxNext)
        \/ PrinterThread(PrinterNext)
    BY <1>2, Steps
  <2>2. UNCHANGED <<handlerVars, vehicles>>
    BY <2>1, HandlerVarsKept
  <2>3. h_pc = "set" => UNCHANGED pose_message
    BY <2>1, HandlerUndisturbed
  <2> QED
    BY <2>2, <2>3 DEF SpawnInv, handlerVars
<1> QED
  BY <1>1, <1>2

-----------------------------------------------------------------------------
LEMMA InvInit == Init => Inv
BY TypeInit, MutexInit, MessageInit, SpawnInit DEF Inv, Init

LEMMA InvStep == Inv /\ [Next]_vars => Inv'
<1> SUFFICES ASSUME Inv, [Next]_vars PROVE Inv'
  OBVIOUS
<1>1. ReceiverNext \/ UNCHANGED receiverVars
  BY DEF Next, Arrives, vars
<1> QED
  BY <1>1, TypeStep, MutexStep, MessageStep, SpawnStep DEF Inv

THEOREM Invariance == Spec => []Inv
BY InvInit, InvStep, PTL DEF Spec

(***************************************************************************)
(* Every read under the mutex sees one datagram whole.                     *)
(***************************************************************************)
THEOREM WholeReads == Spec => []ReadersSeeWholeMessage
<1>1. Inv => ReadersSeeWholeMessage
  BY DEF Inv, TypeOK, ReceiverTypeOK, SharedTypeOK, RxTypeOK, MutexInv, MessageInv,
         SlotIn, ReadersSeeWholeMessage, Threads
<1> QED
  BY <1>1, Invariance, PTL

(***************************************************************************)
(* Unless AirSim refuses to add a vehicle, no pose is set on a vehicle     *)
(* that does not exist, so that the handler does not end the program.      *)
(***************************************************************************)
THEOREM SetsAreSafe == Spec => []SetFindsVehicle
<1>1. Inv => SetFindsVehicle
  <2> SUFFICES ASSUME Inv, "refuse" \notin RpcFaults, h_pc = "set", MessageIsNew
               PROVE  pose_message.drone_id \in DOMAIN vehicles
    BY DEF SetFindsVehicle
  <2>1. pose_message.message_counter # 0
    <3>1. pose_message.message_counter \in Nat /\ msg_count \in Nat
      BY DEF Inv, TypeOK, ReceiverTypeOK, SharedTypeOK, HandlerTypeOK, PoseMessage
    <3> QED
      BY <3>1 DEF MessageIsNew
  <2> QED
    BY <2>1 DEF Inv, SpawnInv
<1> QED
  BY <1>1, Invariance, PTL

-----------------------------------------------------------------------------
(***************************************************************************)
(* From here on the sender numbers its messages by the update they carry,  *)
(* as cbLocalPose does until its counter overflows.                        *)
(***************************************************************************)
CountersAreTicks == \A u \in Datagrams \cup StackContents : CounterIsTick(u)

LEMMA MessageAtHandler ==
  ASSUME CountersAreTicks, Inv, h_pc \in {"spawn", "set"}
  PROVE  /\ pose_message.drone.tick = pose_message.message_counter
         /\ pose_message.message_counter \in Nat
<1>1. pose_message \in WholeMessages
  BY DEF Inv, TypeOK, ReceiverTypeOK, SharedTypeOK, RxTypeOK, MutexInv, MessageInv, SlotIn, Threads
<1>2. ZeroMessage.drone.tick = ZeroMessage.message_counter
  BY DEF ZeroMessage, ZeroPose
<1>3. pose_message.message_counter \in Nat
  BY DEF Inv, TypeOK, ReceiverTypeOK, SharedTypeOK, PoseMessage
<1> QED
  BY <1>1, <1>2, <1>3 DEF WholeMessages, CountersAreTicks, CounterIsTick

LEMMA AheadInit == Init => AheadInv
BY DEF Init, ReceiverInit, AirSimInit, AheadInv

LEMMA AheadStep ==
  ASSUME CountersAreTicks, Inv, AheadInv, [Next]_vars
  PROVE  AheadInv'
<1>a. AirSimTypeOK /\ msg_count \in Nat /\ MutexInv
  BY DEF Inv, TypeOK, ReceiverTypeOK, HandlerTypeOK
<1>1. CASE HandlerThread(HandlerNext)
  <2> USE DEF HandlerGoto, sharedVars
  <2>1. CASE HandlerLock
    BY <2>1 DEF HandlerLock, Lock, AheadInv
  <2>2. CASE SpawnUniqueDrone
    <3>1. /\ Spawns /\ h_pc = "spawn" /\ h_pc' = "set"
          /\ UNCHANGED <<msg_count, pose_message, receiver_up>>
      BY <2>2 DEF SpawnUniqueDrone, Spawns
    <3>2. /\ pose_message.drone.tick = pose_message.message_counter
          /\ pose_message.message_counter \in Nat
      BY <3>1, MessageAtHandler
    <3> QED
      BY <3>1, <3>2, SpawnedVehicle DEF AheadInv, ShownAt
  <2>3. CASE KnownDrone
    BY <2>3 DEF KnownDrone, AheadInv
  <2>4. CASE SetVehiclePose
    <3>1. Sets /\ h_pc = "set" /\ MessageIsNew /\ msg_count' = pose_message.message_counter
      BY <2>4 DEF SetVehiclePose, Sets
    <3>2. /\ pose_message.drone.tick = pose_message.message_counter
          /\ pose_message.message_counter \in Nat
      BY <3>1, MessageAtHandler
    <3>3. ASSUME NEW id \in DOMAIN vehicles'
          PROVE  vehicles'[id].ned.tick <= msg_count'
      <4>1. id \in DOMAIN vehicles
        BY <3>1, SetVehicle
      <4>2. CASE vehicles'[id].ned = pose_message.drone
        BY <3>1, <3>2, <4>2
      <4>3. CASE vehicles'[id] = vehicles[id]
        BY <1>a, <3>1, <3>2, <4>1, <4>3, TickIsNat DEF AheadInv, MessageIsNew, Sets
      <4> QED
        BY <3>1, <4>2, <4>3, SetVehicle DEF ShownAt
    <3> QED
      BY <3>3 DEF AheadInv
  <2>5. CASE OldMessage
    <3>1. h_pc = "set" /\ ~MessageIsNew /\ UNCHANGED <<msg_count, vehicles, receiver_up>>
      BY <2>5 DEF OldMessage
    <3>2. pose_message.message_counter \in Nat
      BY <3>1, MessageAtHandler
    <3>3. ASSUME NEW id \in DOMAIN vehicles
          PROVE  receiver_up => vehicles[id].ned.tick <= msg_count
      BY <1>a, <3>1, <3>2, TickIsNat DEF AheadInv, MessageIsNew
    <3> QED
      BY <3>1, <3>3 DEF AheadInv
  <2>6. CASE HandlerThrows
    BY <2>6 DEF HandlerThrows, Terminate, AheadInv
  <2>7. CASE HandlerUnlock
    BY <2>7 DEF HandlerUnlock, Unlock, AheadInv
  <2>8. CASE HandlerWakes
    BY <2>8 DEF HandlerWakes, AheadInv
  <2> QED
    BY <1>1, <2>1, <2>2, <2>3, <2>4, <2>5, <2>6, <2>7, <2>8
       DEF HandlerThread, HandlerNext, HandlerStep
<1>2. CASE ~HandlerThread(HandlerNext)
  <2>1. \/ UNCHANGED receiverVars
        \/ ReceiverThread(RxNext)
        \/ PrinterThread(PrinterNext)
    BY <1>2, Steps
  <2>2. UNCHANGED <<handlerVars, vehicles>>
    BY <2>1, HandlerVarsKept
  <2>3. h_pc = "set" => UNCHANGED pose_message
    BY <1>a, <2>1, HandlerUndisturbed
  <2>4. UNCHANGED receiver_up
    BY <2>1, ProgramRuns
  <2> QED
    BY <2>2, <2>3, <2>4 DEF AheadInv, handlerVars
<1> QED
  BY <1>1, <1>2

\* The vehicles there are, and none of them at an earlier update than before.
NoneGoesBack ==
  \A id \in DOMAIN vehicles :
    id \in DOMAIN vehicles' /\ vehicles'[id].ned.tick >= vehicles[id].ned.tick

LEMMA NoneGoesBackStep ==
  ASSUME CountersAreTicks, Inv, AheadInv, [Next]_vars
  PROVE  [NoneGoesBack]_vehicles
<1>a. AirSimTypeOK /\ msg_count \in Nat
  BY DEF Inv, TypeOK, ReceiverTypeOK, HandlerTypeOK
<1>1. CASE Spawns
  BY <1>a, <1>1, VehiclesKept, TickIsNat DEF NoneGoesBack
<1>2. CASE Sets
  <2>1. receiver_up /\ h_pc = "set" /\ MessageIsNew
    BY <1>2 DEF Sets
  <2>2. /\ pose_message.drone.tick = pose_message.message_counter
        /\ pose_message.message_counter \in Nat
    BY <2>1, MessageAtHandler
  <2>3. ASSUME NEW id \in DOMAIN vehicles
        PROVE  id \in DOMAIN vehicles' /\ vehicles'[id].ned.tick >= vehicles[id].ned.tick
    <3>1. id \in DOMAIN vehicles'
      BY <1>2, SetVehicle
    <3>2. vehicles[id].ned.tick \in Nat
      BY <1>a, TickIsNat
    <3>3. vehicles[id].ned.tick <= pose_message.message_counter
      BY <1>a, <2>1, <2>2, <3>2 DEF AheadInv, MessageIsNew
    <3> QED
      BY <1>2, <2>2, <3>1, <3>2, <3>3, SetVehicle DEF ShownAt
  <2> QED
    BY <2>3 DEF NoneGoesBack
<1>3. CASE UNCHANGED vehicles
  BY <1>3
<1> QED
  BY <1>1, <1>2, <1>3, Steps, HandlerVarsKept, HandlerCalls

(***************************************************************************)
(* No vehicle goes back to an earlier update, whatever the order in which  *)
(* datagrams arrive and whatever the simulation answers.                   *)
(***************************************************************************)
THEOREM NeverBack ==
  ASSUME CountersAreTicks
  PROVE  Spec => VehicleNeverGoesBack
<1>1. Inv /\ AheadInv /\ [Next]_vars => AheadInv'
  BY AheadStep
<1>2. Inv /\ AheadInv /\ [Next]_vars => [NoneGoesBack]_vehicles
  BY NoneGoesBackStep
<1>3. Spec => []AheadInv
  BY <1>1, AheadInit, Invariance, PTL DEF Spec
<1>4. Spec => [][NoneGoesBack]_vehicles
  BY <1>2, <1>3, Invariance, PTL DEF Spec
<1> QED
  BY <1>4 DEF VehicleNeverGoesBack, NoneGoesBack

=============================================================================
