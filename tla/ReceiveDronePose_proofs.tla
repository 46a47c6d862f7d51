------------------------ MODULE ReceiveDronePose_proofs ------------------------
(***************************************************************************)
(* What each thread of receive_drone_pose does to the parts of the         *)
(* inductive invariants, whatever its environment sends.                   *)
(***************************************************************************)
EXTENDS ReceiveDronePose, TLAPS

(***************************************************************************)
(* Decoding a datagram of the wire's type gives a pose message.            *)
(***************************************************************************)
LEMMA DecodedType ==
  ASSUME NEW u \in UdpPoseMessage
  PROVE  udp_message_to_pose(u) \in PoseMessage
BY DEF udp_message_to_pose, UdpPoseMessage, PoseMessage, ntoh

(***************************************************************************)
(* The link holds datagrams of a set once all it is given are of that set. *)
(***************************************************************************)
LEMMA TransmitType ==
  ASSUME NEW S, wire \in Seq(S), NEW d \in S, Transmit(d)
  PROVE  wire' \in Seq(S)
BY DEF Transmit

(***************************************************************************)
(* Copying one field from another message keeps a message well typed.      *)
(***************************************************************************)
LEMMA FieldStoredType ==
  ASSUME NEW m \in PoseMessage, NEW r \in PoseMessage
  PROVE  /\ [m EXCEPT !.message_counter = r.message_counter] \in PoseMessage
         /\ [m EXCEPT !.drone = r.drone] \in PoseMessage
         /\ [m EXCEPT !.camera = r.camera] \in PoseMessage
         /\ [m EXCEPT !.drone_id = r.drone_id] \in PoseMessage
BY DEF PoseMessage

LEMMA ZeroMessageType == ZeroMessage \in PoseMessage
BY DEF ZeroMessage, PoseMessage, ZeroPose, Pose, OtherXi, Sentinel

-----------------------------------------------------------------------------
(***************************************************************************)
(* The two calls to AirSim, whether they return or throw, and where they   *)
(* leave the vehicles.                                                     *)
(***************************************************************************)
Spawns ==
  /\ receiver_up /\ h_pc = "spawn" /\ DroneIsNew
  /\ spawn_vehicle(pose_message.drone_id, pose_message.drone)

Sets ==
  /\ receiver_up /\ h_pc = "set" /\ MessageIsNew
  /\ set_vehicle_pose(pose_message.drone_id, pose_message.drone)

LEMMA HandlerCalls ==
  ASSUME HandlerThread(HandlerNext)
  PROVE  UNCHANGED vehicles \/ Spawns \/ Sets
BY DEF HandlerThread, HandlerNext, HandlerStep, HandlerGoto, HandlerLock, KnownDrone,
       SpawnUniqueDrone, SetVehiclePose, OldMessage, HandlerThrows, SpawnThrows,
       SetThrows, HandlerUnlock, HandlerWakes, Spawns, Sets

LEMMA SpawnedVehicle ==
  ASSUME Spawns
  PROVE  \A id \in DOMAIN vehicles' :
           \/ id \in DOMAIN vehicles /\ vehicles'[id] = vehicles[id]
           \/ /\ id = pose_message.drone_id /\ id \notin DOMAIN vehicles
              /\ vehicles'[id] = ShownAt(pose_message.drone, id + 1)
BY DEF Spawns, spawn_vehicle, simAddVehicle

LEMMA VehiclesKept ==
  ASSUME Spawns
  PROVE  \A id \in DOMAIN vehicles :
           id \in DOMAIN vehicles' /\ vehicles'[id] = vehicles[id]
BY DEF Spawns, spawn_vehicle, simAddVehicle

LEMMA SetVehicle ==
  ASSUME Sets
  PROVE  /\ DOMAIN vehicles' = DOMAIN vehicles
         /\ \A id \in DOMAIN vehicles' :
              \/ vehicles'[id] = vehicles[id]
              \/ /\ id = pose_message.drone_id
                 /\ vehicles'[id] = ShownAt(pose_message.drone, 0)
BY DEF Sets, set_vehicle_pose

\* A call either returns, and the handler goes on, or it ends the program.
LEMMA AfterSpawn ==
  ASSUME HandlerThread(HandlerNext), Spawns
  PROVE  UNCHANGED msg_count /\ (h_pc' = "set" \/ ~receiver_up')
BY DEF HandlerThread, HandlerNext, HandlerStep, HandlerGoto, HandlerLock, KnownDrone,
       SpawnUniqueDrone, SetVehiclePose, OldMessage, HandlerThrows, Terminate,
       HandlerUnlock, HandlerWakes, handlerVars, Spawns

LEMMA AfterSet ==
  ASSUME HandlerThread(HandlerNext), Sets
  PROVE  msg_count' = pose_message.message_counter \/ ~receiver_up'
BY DEF HandlerThread, HandlerNext, HandlerStep, HandlerGoto, HandlerLock, KnownDrone,
       SpawnUniqueDrone, SetVehiclePose, OldMessage, HandlerThrows, Terminate,
       HandlerUnlock, HandlerWakes, handlerVars, Sets

LEMMA VehiclesType ==
  ASSUME ReceiverTypeOK, HandlerThread(HandlerNext)
  PROVE  AirSimTypeOK'
<1>1. pose_message.drone_id \in Nat /\ pose_message.drone \in Pose
  BY DEF ReceiverTypeOK, SharedTypeOK, PoseMessage
<1>2. /\ ShownAt(pose_message.drone, pose_message.drone_id + 1) \in Shown
      /\ ShownAt(pose_message.drone, 0) \in Shown
  BY <1>1 DEF ShownAt, Shown
<1>3. CASE UNCHANGED vehicles
  BY <1>3 DEF ReceiverTypeOK, AirSimTypeOK
<1>4. CASE Spawns
  BY <1>1, <1>2, <1>4 DEF Spawns, spawn_vehicle, simAddVehicle, ReceiverTypeOK, AirSimTypeOK
<1>5. CASE Sets
  BY <1>1, <1>2, <1>5 DEF Sets, set_vehicle_pose, ReceiverTypeOK, AirSimTypeOK
<1> QED
  BY <1>3, <1>4, <1>5, HandlerCalls

-----------------------------------------------------------------------------
(***************************************************************************)
(* Types.                                                                  *)
(***************************************************************************)
LEMMA ReceiverTypeInit == ReceiverInit => ReceiverTypeOK
BY ZeroMessageType, ReceiverAssumption, PrinterAssumption
   DEF ReceiverInit, SharedInit, RxInit, HandlerInit, AirSimInit, PrinterInit,
       ReceiverTypeOK, SharedTypeOK, RxTypeOK, HandlerTypeOK, AirSimTypeOK,
       PrinterTypeOK, Threads

LEMMA ReceiverTypeKept ==
  ASSUME ReceiverTypeOK, UNCHANGED receiverVars
  PROVE  ReceiverTypeOK'
BY DEF ReceiverTypeOK, SharedTypeOK, RxTypeOK, HandlerTypeOK, AirSimTypeOK,
       PrinterTypeOK, receiverVars, sharedVars, rxVars, handlerVars, printerVars

LEMMA RxTypeStep ==
  ASSUME ReceiverTypeOK, wire \in Seq(UdpPoseMessage), ReceiverThread(RxNext)
  PROVE  ReceiverTypeOK' /\ wire' \in Seq(UdpPoseMessage)
<1> USE DEF ReceiverTypeOK, SharedTypeOK, RxTypeOK, HandlerTypeOK,
            AirSimTypeOK, PrinterTypeOK, Threads
<1> USE DEF ReceiverThread, handlerVars, printerVars, RxGoto, sharedVars
<1>1. CASE RxDatagram
  BY <1>1 DEF RxDatagram
<1>2. CASE RxNothing
  BY <1>2 DEF RxNothing
<1>3. CASE RxLock
  BY <1>3 DEF RxLock, Lock
<1>4. CASE RxStores
  <2>1. Received \in PoseMessage
    BY DecodedType DEF Received
  <2>2. CASE StoreCounter
    BY <2>1, <2>2, FieldStoredType DEF StoreCounter, RxStore
  <2>3. CASE StoreDrone
    BY <2>1, <2>3, FieldStoredType DEF StoreDrone, RxStore
  <2>4. CASE StoreCamera
    BY <2>1, <2>4, FieldStoredType DEF StoreCamera, RxStore
  <2>5. CASE StoreDroneId
    BY <2>1, <2>5, FieldStoredType DEF StoreDroneId, RxStore
  <2> QED
    BY <1>4, <2>2, <2>3, <2>4, <2>5 DEF RxStores
<1>5. CASE RxUnlock
  BY <1>5 DEF RxUnlock, Unlock
<1> QED
  BY <1>1, <1>2, <1>3, <1>4, <1>5 DEF RxNext

LEMMA HandlerTypeStep ==
  ASSUME ReceiverTypeOK, HandlerThread(HandlerNext)
  PROVE  ReceiverTypeOK'
<1>1. AirSimTypeOK'
  BY VehiclesType
<1> USE DEF ReceiverTypeOK, SharedTypeOK, RxTypeOK, HandlerTypeOK, PrinterTypeOK, Threads
<1> USE DEF HandlerThread, rxVars, printerVars, HandlerGoto, sharedVars
<1>2. pose_message.drone_id \in Nat /\ pose_message.message_counter \in Nat
  BY DEF PoseMessage
<1>3. CASE HandlerLock
  BY <1>1, <1>3 DEF HandlerLock, Lock
<1>4. CASE SpawnUniqueDrone
  BY <1>1, <1>2, <1>4 DEF SpawnUniqueDrone
<1>5. CASE KnownDrone
  BY <1>1, <1>5 DEF KnownDrone
<1>6. CASE SetVehiclePose
  BY <1>1, <1>2, <1>6 DEF SetVehiclePose
<1>7. CASE OldMessage
  BY <1>1, <1>7 DEF OldMessage
<1>8. CASE HandlerThrows
  BY <1>1, <1>8 DEF HandlerThrows, Terminate, handlerVars
<1>9. CASE HandlerUnlock
  BY <1>1, <1>9 DEF HandlerUnlock, Unlock
<1>10. CASE HandlerWakes
  BY <1>1, <1>10 DEF HandlerWakes
<1> QED
  BY <1>3, <1>4, <1>5, <1>6, <1>7, <1>8, <1>9, <1>10 DEF HandlerNext, HandlerStep

LEMMA PrinterTypeStep ==
  ASSUME ReceiverTypeOK, PrinterThread(PrinterNext)
  PROVE  ReceiverTypeOK'
<1> USE DEF ReceiverTypeOK, SharedTypeOK, RxTypeOK, HandlerTypeOK,
            AirSimTypeOK, PrinterTypeOK, Threads
<1> USE DEF PrinterThread, rxVars, handlerVars, PrinterGoto, sharedVars
<1>1. CASE PrinterLock
  BY <1>1 DEF PrinterLock, Lock
<1>2. CASE PrintMessage
  BY <1>2 DEF PrintMessage, PoseMessage
<1>3. CASE CountRepeat
  BY <1>3, PrinterAssumption DEF CountRepeat
<1>4. CASE PrinterUnlock
  BY <1>4 DEF PrinterUnlock, Unlock
<1>5. CASE StartNewRound
  BY <1>5, PrinterAssumption DEF StartNewRound
<1>6. CASE LookAgain
  BY <1>6, PrinterAssumption DEF LookAgain
<1> QED
  BY <1>1, <1>2, <1>3, <1>4, <1>5, <1>6 DEF PrinterNext, PrinterStep

-----------------------------------------------------------------------------
(***************************************************************************)
(* Losing, repeating or swapping datagrams brings in no new one.           *)
(***************************************************************************)
LEMMA LinkType ==
  ASSUME NEW S, wire \in Seq(S), LinkNext
  PROVE  wire' \in Seq(S)
<1>1. CASE Lose
  <2>1. PICK k \in 1 .. Len(wire) : wire' = RemoveAt(wire, k)
    BY <1>1 DEF Lose
  <2>2. SubSeq(wire, 1, k - 1) \in Seq(S) /\ SubSeq(wire, k + 1, Len(wire)) \in Seq(S)
    OBVIOUS
  <2> QED
    BY <2>1, <2>2 DEF RemoveAt
<1>2. CASE Duplicate
  BY <1>2 DEF Duplicate
<1>3. CASE Overtake
  <2>1. PICK k \in 1 .. Len(wire) - 1 :
          wire' = [wire EXCEPT ![k] = wire[k + 1], ![k + 1] = wire[k]]
    BY <1>3 DEF Overtake
  <2>2. wire[k] \in S /\ wire[k + 1] \in S
    OBVIOUS
  <2> QED
    BY <2>1, <2>2
<1> QED
  BY <1>1, <1>2, <1>3 DEF LinkNext

-----------------------------------------------------------------------------
(***************************************************************************)
(* The mutex is held by the one thread that is between its lock and its    *)
(* unlock.                                                                 *)
(***************************************************************************)
LEMMA MutexInit == ReceiverInit => MutexInv
BY DEF ReceiverInit, SharedInit, RxInit, HandlerInit, PrinterInit, MutexInv

LEMMA MutexStep ==
  ASSUME MutexInv, ReceiverNext \/ UNCHANGED receiverVars
  PROVE  MutexInv'
<1> USE DEF MutexInv
<1>1. CASE UNCHANGED receiverVars
  BY <1>1 DEF receiverVars, sharedVars, rxVars, handlerVars, printerVars
<1>2. CASE ReceiverThread(RxNext)
  BY <1>2 DEF ReceiverThread, handlerVars, printerVars, sharedVars, RxNext, RxGoto,
              RxDatagram, RxNothing, RxLock, RxUnlock, Lock, Unlock, RxStores, RxStore,
              StoreCounter, StoreDrone, StoreCamera, StoreDroneId
<1>3. CASE HandlerThread(HandlerNext)
  BY <1>3 DEF HandlerThread, rxVars, printerVars, handlerVars, sharedVars, HandlerNext,
              HandlerStep, HandlerGoto, HandlerLock, HandlerUnlock, Lock, Unlock,
              SpawnUniqueDrone, KnownDrone, SetVehiclePose, OldMessage,
              HandlerThrows, Terminate, HandlerWakes
<1>4. CASE PrinterThread(PrinterNext)
  BY <1>4 DEF PrinterThread, rxVars, handlerVars, sharedVars, PrinterNext, PrinterStep,
              PrinterGoto, PrinterLock, PrinterUnlock, Lock, Unlock, PrintMessage,
              CountRepeat, StartNewRound, LookAgain
<1> QED
  BY <1>1, <1>2, <1>3, <1>4 DEF ReceiverNext, PosePath

-----------------------------------------------------------------------------
(***************************************************************************)
(* The four assignments, taken together, store the buffer's message whole. *)
(***************************************************************************)
LEMMA SameFieldsSameMessage ==
  ASSUME NEW m \in PoseMessage, NEW n \in PoseMessage,
         m.message_counter = n.message_counter, m.drone = n.drone,
         m.camera = n.camera, m.drone_id = n.drone_id
  PROVE  m = n
BY DEF PoseMessage

LEMMA StoredWhole ==
  ASSUME ReceiverTypeOK, StoredInv, rx_pc = "unlock"
  PROVE  pose_message = Received
BY DecodedType, SameFieldsSameMessage
   DEF ReceiverTypeOK, SharedTypeOK, RxTypeOK, Received, StoredInv

\* What a store leaves in the four fields.
LEMMA FieldStored ==
  ASSUME NEW m \in PoseMessage, NEW v
  PROVE  /\ LET n == [m EXCEPT !.message_counter = v] IN n.message_counter = v
         /\ LET n == [m EXCEPT !.drone = v] IN
              n.drone = v /\ n.message_counter = m.message_counter
         /\ LET n == [m EXCEPT !.camera = v] IN
              n.camera = v /\ n.message_counter = m.message_counter /\ n.drone = m.drone
         /\ LET n == [m EXCEPT !.drone_id = v] IN
              /\ n.drone_id = v /\ n.message_counter = m.message_counter
              /\ n.drone = m.drone /\ n.camera = m.camera
BY DEF PoseMessage

LEMMA SlotInit == ReceiverInit => StoredInv /\ pose_message = ZeroMessage
BY DEF ReceiverInit, SharedInit, RxInit, StoredInv

\* The slot takes one message of W after another, if the buffer holds them.
LEMMA SlotStep ==
  ASSUME ReceiverTypeOK, StoredInv, NEW W, SlotIn(W), rx_pc # "recv" => Received \in W,
         ReceiverThread(RxNext)
  PROVE  StoredInv' /\ SlotIn(W)'
<1>a. pose_message \in PoseMessage /\ Received \in PoseMessage
  BY DecodedType DEF ReceiverTypeOK, SharedTypeOK, RxTypeOK, Received
<1>1. CASE RxDatagram
  BY <1>1 DEF RxDatagram, RxGoto, sharedVars, StoredInv, SlotIn
<1>2. CASE RxNothing
  BY <1>2 DEF RxNothing, RxGoto, sharedVars, StoredInv, SlotIn
<1>3. CASE RxLock
  BY <1>3 DEF RxLock, Lock, RxGoto, StoredInv, SlotIn
<1>4. CASE RxStores
  <2>1. Received' = Received
    BY <1>4 DEF RxStores, RxStore, StoreCounter, StoreDrone, StoreCamera, StoreDroneId,
                Received
  <2>2. CASE StoreCounter
    BY <1>a, <2>1, <2>2, FieldStored DEF StoreCounter, RxStore, RxGoto, StoredInv, SlotIn
  <2>3. CASE StoreDrone
    BY <1>a, <2>1, <2>3, FieldStored DEF StoreDrone, RxStore, RxGoto, StoredInv, SlotIn
  <2>4. CASE StoreCamera
    BY <1>a, <2>1, <2>4, FieldStored DEF StoreCamera, RxStore, RxGoto, StoredInv, SlotIn
  <2>5. CASE StoreDroneId
    BY <1>a, <2>1, <2>5, FieldStored DEF StoreDroneId, RxStore, RxGoto, StoredInv, SlotIn
  <2> QED
    BY <1>4, <2>2, <2>3, <2>4, <2>5 DEF RxStores
<1>5. CASE RxUnlock
  BY <1>5, StoredWhole DEF RxUnlock, Unlock, RxGoto, StoredInv, SlotIn
<1> QED
  BY <1>1, <1>2, <1>3, <1>4, <1>5 DEF RxNext, ReceiverThread

\* The other threads leave slot and buffer alone.
LEMMA SlotKept ==
  ASSUME HandlerThread(HandlerNext) \/ PrinterThread(PrinterNext)
  PROVE  UNCHANGED <<rxVars, wire, pose_message>>
BY DEF HandlerThread, PrinterThread, sharedVars, HandlerNext, HandlerStep, HandlerLock,
       HandlerUnlock, Lock, Unlock, SpawnUniqueDrone, KnownDrone, SetVehiclePose,
       OldMessage, HandlerThrows, Terminate, HandlerWakes, PrinterNext, PrinterStep,
       PrinterLock, PrinterUnlock, PrintMessage, CountRepeat, StartNewRound, LookAgain

LEMMA SlotUnchanged ==
  ASSUME StoredInv, UNCHANGED <<rxVars, pose_message>>
  PROVE  StoredInv' /\ \A W : SlotIn(W) => SlotIn(W)'
BY DEF rxVars, StoredInv, SlotIn, Received

-----------------------------------------------------------------------------
(***************************************************************************)
(* Between its lock and its unlock nobody but the handler changes the      *)
(* message.                                                                *)
(***************************************************************************)
LEMMA HandlerUndisturbed ==
  ASSUME MutexInv, h_pc \in {"spawn", "set", "unlock"},
         \/ UNCHANGED receiverVars
         \/ ReceiverThread(RxNext)
         \/ PrinterThread(PrinterNext)
  PROVE  UNCHANGED pose_message
<1> USE DEF MutexInv
<1>1. CASE UNCHANGED receiverVars
  BY <1>1 DEF receiverVars, sharedVars
<1>2. CASE ReceiverThread(RxNext)
  BY <1>2 DEF ReceiverThread, sharedVars, RxNext, RxGoto, RxDatagram, RxNothing,
              RxLock, RxUnlock, Lock, Unlock, RxStores, RxStore,
              StoreCounter, StoreDrone, StoreCamera, StoreDroneId
<1>3. CASE PrinterThread(PrinterNext)
  BY <1>3 DEF PrinterThread, sharedVars, PrinterNext, PrinterStep, PrinterLock,
              PrinterUnlock, Lock, Unlock, PrintMessage, CountRepeat,
              StartNewRound, LookAgain
<1> QED
  BY <1>1, <1>2, <1>3

\* The other threads never touch what is the handler's.
LEMMA HandlerVarsKept ==
  ASSUME \/ UNCHANGED receiverVars
         \/ ReceiverThread(RxNext)
         \/ PrinterThread(PrinterNext)
  PROVE  UNCHANGED <<handlerVars, vehicles>>
BY DEF ReceiverThread, PrinterThread, receiverVars

\* Only the handler's calls end the program.
LEMMA ProgramRuns ==
  ASSUME \/ UNCHANGED receiverVars
         \/ ReceiverThread(RxNext)
         \/ PrinterThread(PrinterNext)
  PROVE  UNCHANGED receiver_up
BY DEF ReceiverThread, PrinterThread, receiverVars, sharedVars, RxNext, RxDatagram,
       RxNothing, RxLock, RxUnlock, Lock, Unlock, RxStores, RxStore, StoreCounter,
       StoreDrone, StoreCamera, StoreDroneId, PrinterNext, PrinterStep, PrinterLock,
       PrinterUnlock, PrintMessage, CountRepeat, StartNewRound, LookAgain

-----------------------------------------------------------------------------
LEMMA TickIsNat ==
  ASSUME AirSimTypeOK, NEW id \in DOMAIN vehicles
  PROVE  vehicles[id].ned.tick \in Nat
BY DEF AirSimTypeOK, Shown, Pose

=============================================================================
