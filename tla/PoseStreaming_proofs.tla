-------------------------- MODULE PoseStreaming_proofs --------------------------
(***************************************************************************)
(* What the pose streamer guarantees over any link: its types whatever     *)
(* Gazebo publishes, and that AirSim mirrors Gazebo under the conditions   *)
(* of MirrorConditions.                                                    *)
(***************************************************************************)
EXTENDS PoseStreaming, GazeboDronePose_proofs, ReceiveDronePose_proofs

\* A step is the sender's, the link's, or one of a thread of the receiver.
LEMMA Steps ==
  ASSUME [Next]_vars
  PROVE  \/ [GazeboNext]_gvars /\ UNCHANGED receiverVars
         \/ LinkNext /\ UNCHANGED <<gazeboVars, receiverVars>>
         \/ ReceiverThread(RxNext) /\ UNCHANGED gazeboVars
         \/ HandlerThread(HandlerNext) /\ UNCHANGED <<gazeboVars, wire>>
BY DEF Next, Sender, Link, Receiver, PosePath, HandlerThread, vars, gvars

\* The sender's part of a step.
LEMMA SenderSteps ==
  ASSUME [Next]_vars
  PROVE  [GazeboNext]_gvars \/ UNCHANGED gazeboVars
BY Steps

-----------------------------------------------------------------------------
(***************************************************************************)
(* The codec: what is sent of a message is a datagram, and what is made of *)
(* it is the message with its poses truncated.                             *)
(***************************************************************************)
LEMMA TruncatedPose ==
  ASSUME NEW p \in Pose
  PROVE  /\ Truncated(p) \in Pose
         /\ Truncated(p).model = p.model /\ Truncated(p).link = p.link
         /\ Truncated(p).tick = p.tick
BY DEF Truncated, Pose

LEMMA EncodedType ==
  ASSUME NEW m \in PoseMessage
  PROVE  pose_to_udp_message(m) \in UdpPoseMessage
BY TruncatedPose DEF pose_to_udp_message, hton, PoseMessage, UdpPoseMessage

LEMMA RoundTrip ==
  ASSUME NEW m
  PROVE  LET r == udp_message_to_pose(pose_to_udp_message(m)) IN
         /\ r.message_counter = m.message_counter /\ r.drone_id = m.drone_id
         /\ r.drone = Truncated(m.drone)
BY DEF pose_to_udp_message, udp_message_to_pose, hton, ntoh

LEMMA SeqMonotone ==
  ASSUME NEW S, NEW T, S \subseteq T, NEW s \in Seq(S)
  PROVE  s \in Seq(T)
OBVIOUS

\* What the sender puts on the link it remembers as sent.
LEMMA SendsOne ==
  ASSUME NEW d, NEW c, NEW name, SendIfComplete(d, c, name)
  PROVE  \/ UNCHANGED <<wire, sent>>
         \/ \E m : sent' = sent \cup {m} /\ Transmit(pose_to_udp_message(m))
BY DEF SendIfComplete, send_pose_message

LEMMA Sends ==
  ASSUME [GazeboNext]_gvars
  PROVE  \/ UNCHANGED <<wire, sent>>
         \/ \E m : sent' = sent \cup {m} /\ Transmit(pose_to_udp_message(m))
<1>1. CASE DroneBodyPose
  BY <1>1, SendsOne DEF DroneBodyPose
<1>2. CASE CameraPose
  BY <1>2, SendsOne DEF CameraPose
<1>3. CASE ~DroneBodyPose /\ ~CameraPose
  BY <1>3 DEF GazeboNext, CallbackStarts, DroneNameThrows, OtherLinkPose, CallbackEnds,
              gvars, gazeboVars
<1> QED
  BY <1>1, <1>2, <1>3

-----------------------------------------------------------------------------
(***************************************************************************)
(* Types.                                                                  *)
(***************************************************************************)
LEMMA StreamTypeInit == Init => TypeOK /\ BodyInv
<1> SUFFICES ASSUME Init PROVE TypeOK /\ BodyInv
  OBVIOUS
<1>1. << >> \in Seq(UdpPoseMessage)
  OBVIOUS
<1> QED
  BY <1>1, TypeInit, ReceiverTypeInit DEF Init, WireInit, TypeOK

LEMMA GazeboKept ==
  ASSUME GazeboTypeOK, BodyInv, UNCHANGED gazeboVars
  PROVE  GazeboTypeOK' /\ BodyInv'
BY DEF GazeboTypeOK, IdsTypeOK, BodyInv, gazeboVars, cbVars, idVars

LEMMA StreamTypeStep == TypeOK /\ BodyInv /\ [Next]_vars => TypeOK' /\ BodyInv'
<1> SUFFICES ASSUME TypeOK, BodyInv, [Next]_vars PROVE TypeOK' /\ BodyInv'
  OBVIOUS
<1>1. GazeboTypeOK' /\ BodyInv'
  BY SenderSteps, TypeStep, GazeboKept DEF TypeOK
<1>2. ReceiverTypeOK'
  BY Steps, ReceiverTypeKept, RxTypeStep, HandlerTypeStep DEF TypeOK
<1>3. wire' \in Seq(UdpPoseMessage)
  <2>1. CASE [GazeboNext]_gvars
    <3>1. CASE UNCHANGED <<wire, sent>>
      BY <3>1 DEF TypeOK
    <3>2. CASE ~UNCHANGED <<wire, sent>>
      <4>1. PICK m : sent' = sent \cup {m} /\ Transmit(pose_to_udp_message(m))
        BY <2>1, <3>2, Sends
      <4>2. m \in PoseMessage
        BY <1>1, <4>1 DEF GazeboTypeOK
      <4> QED
        BY <4>1, <4>2, EncodedType, TransmitType DEF TypeOK
    <3> QED
      BY <3>1, <3>2
  <2>2. CASE LinkNext
    BY <2>2, LinkType DEF TypeOK
  <2>3. CASE ReceiverThread(RxNext)
    BY <2>3, RxTypeStep DEF TypeOK
  <2> QED
    BY <2>1, <2>2, <2>3, Steps DEF TypeOK
<1> QED
  BY <1>1, <1>2, <1>3 DEF TypeOK

(***************************************************************************)
(* The pose streamer's state has its types, whatever Gazebo publishes and  *)
(* the link does.                                                          *)
(***************************************************************************)
THEOREM StreamerTypes == Spec => []TypeOK
<1>1. Spec => [](TypeOK /\ BodyInv)
  BY StreamTypeInit, StreamTypeStep, PTL DEF Spec
<1> QED
  BY <1>1, PTL

-----------------------------------------------------------------------------
(***************************************************************************)
(* The conditions under which AirSim mirrors Gazebo: updates are grouped   *)
(* as cbLocalPose expects, names tell the drones apart, the int has not    *)
(* come back to 0, and if recv fails before the first datagram, the        *)
(* receiver's memory does not hold what looks like a message.              *)
(***************************************************************************)
CleanBuffer ==
  \A u \in StackContents : udp_message_to_pose(u).message_counter = 0

MirrorConditions ==
  /\ UpdatesAreGrouped
  /\ Numbered \/ Counted
  /\ MaxCallbacks < 2 * (IntMax + 1)
  /\ RecvMayFail => CleanBuffer

\* The sender's invariants, of which each lemma below needs some.
SenderInv == PairTypes /\ TickInv /\ CounterInv /\ TableInv

LEMMA SenderInit == Init => SenderInv
<1> SUFFICES ASSUME Init PROVE SenderInv
  OBVIOUS
<1>1. TickInv
  BY GazeboAssumption DEF Init, GazeboInit, TickInv
<1> QED
  BY <1>1, TypeInit, PairInit, CounterInit, TableInit DEF Init, SenderInv, PairTypes

LEMMA TickStep ==
  ASSUME GazeboTypeOK, TickInv, [GazeboNext]_gvars
  PROVE  TickInv'
BY GazeboAssumption
   DEF GazeboTypeOK, TickInv, GazeboNext, CallbackStarts, DroneBodyPose, DroneNameThrows,
       CameraPose, OtherLinkPose, CallbackEnds, AtEntry, gvars, gazeboVars, cbVars

LEMMA SenderKept ==
  ASSUME SenderInv, UNCHANGED gazeboVars
  PROVE  SenderInv'
<1>1. GazeboTypeOK' /\ BodyInv'
  BY GazeboKept DEF SenderInv, PairTypes
<1>2. PairInv' /\ CameraOfSameDrone' /\ TickInv' /\ CounterInv'
  BY DEF SenderInv, PairTypes, PairInv, CameraOfSameDrone, TickInv, CounterInv,
         gazeboVars, cbVars, idVars
<1>3. TableInv'
  BY DEF SenderInv, TableInv, NumberedInv, IdsUnique, CountedInv, gazeboVars, idVars,
         Numbered, Counted
<1> QED
  BY <1>1, <1>2, <1>3 DEF SenderInv, PairTypes

LEMMA SenderStep ==
  ASSUME MirrorConditions, SenderInv, [Next]_vars
  PROVE  SenderInv'
<1>1. CASE [GazeboNext]_gvars
  <2>1. GazeboTypeOK' /\ BodyInv'
    BY <1>1, TypeStep DEF SenderInv, PairTypes
  <2>2. PairInv' /\ CameraOfSameDrone'
    BY <1>1, PairStep DEF SenderInv, MirrorConditions
  <2>3. TickInv' /\ CounterInv' /\ TableInv'
    BY <1>1, TickStep, CounterStep, TableStep DEF SenderInv, PairTypes
  <2> QED
    BY <2>1, <2>2, <2>3 DEF SenderInv, PairTypes
<1>2. CASE UNCHANGED gazeboVars
  BY <1>2, SenderKept
<1> QED
  BY <1>1, <1>2, SenderSteps

\* What is sent stays sent.
LEMMA SentGrows ==
  ASSUME [Next]_vars
  PROVE  sent \subseteq sent'
BY SenderSteps, Sends DEF gazeboVars

\* Of two messages the one with the smaller counter is not from a later update.
LEMMA CountersOrder ==
  ASSUME MirrorConditions, SenderInv, NEW m \in sent, NEW n \in sent
  PROVE  /\ m.message_counter < n.message_counter => m.drone.tick < n.drone.tick
         /\ m.message_counter <= n.message_counter => m.drone.tick <= n.drone.tick
<1>1. ASSUME NEW k \in sent
      PROVE  /\ k.drone.tick \in Nat /\ k.drone.tick < 2 * (IntMax + 1)
             /\ k.message_counter = Uint64(CountAt(k.drone.tick))
             /\ k.message_counter \in Nat
  <2>1. k.drone.tick \in Nat /\ k.message_counter \in Nat /\ tick \in Nat
    BY DEF SenderInv, PairTypes, GazeboTypeOK, PoseMessage, Pose
  <2>2. k.drone.tick < 2 * (IntMax + 1)
    BY <2>1, GazeboAssumption DEF SenderInv, CounterInv, TickInv, MirrorConditions
  <2> QED
    BY <2>1, <2>2 DEF SenderInv, CounterInv
<1>2. m.drone.tick > n.drone.tick => m.message_counter > n.message_counter
  BY <1>1, CountersGrow
<1>3. m.drone.tick = n.drone.tick => m.message_counter = n.message_counter
  BY <1>1
<1> QED
  BY <1>1, <1>2, <1>3

\* Two messages with one id are of one drone.
LEMMA OneDronePerId ==
  ASSUME MirrorConditions, SenderInv, NEW m \in sent, NEW n \in sent,
         m.drone_id = n.drone_id
  PROVE  m.drone.model = n.drone.model
<1>1. IdsUnique
  BY TableUnique DEF SenderInv, PairTypes, MirrorConditions
<1> QED
  BY <1>1 DEF SenderInv, PairTypes, CameraOfSameDrone, IdsUnique

-----------------------------------------------------------------------------
(***************************************************************************)
(* What is under way, received, or in the slot has been sent.              *)
(***************************************************************************)
LEMMA GenuineGrows ==
  ASSUME sent \subseteq sent'
  PROVE  Datagrams \subseteq Datagrams' /\ Genuine \subseteq Genuine'
BY DEF Datagrams, Genuine, OfSent

LEMMA DecodedGenuine ==
  ASSUME sent \subseteq PoseMessage, NEW u \in Datagrams
  PROVE  udp_message_to_pose(u) \in Genuine
BY EncodedType, DecodedType DEF Datagrams, Genuine, OfSent

LEMMA LinkInit ==
  ASSUME RecvMayFail => CleanBuffer, Init
  PROVE  LinkInv
<1>1. ZeroMessage \in Genuine
  BY ZeroMessageType DEF Genuine, ZeroMessage
<1>2. RecvMayFail => Received \in Genuine
  <2>1. udp_pose_message \in StackContents /\ udp_pose_message \in UdpPoseMessage
    BY ReceiverAssumption DEF Init, ReceiverInit, RxInit
  <2> QED
    BY <2>1, DecodedType DEF CleanBuffer, Received, Genuine
<1>3. << >> \in Seq(Datagrams)
  OBVIOUS
<1> QED
  BY <1>1, <1>2, <1>3, SlotInit
     DEF Init, ReceiverInit, RxInit, WireInit, LinkInv, SlotIn

LEMMA LinkStep ==
  ASSUME TypeOK, LinkInv, [Next]_vars
  PROVE  LinkInv'
<1>a. sent \subseteq sent' /\ sent \subseteq PoseMessage
  BY SentGrows DEF TypeOK, GazeboTypeOK
<1>b. Datagrams \subseteq Datagrams' /\ Genuine \subseteq Genuine'
  BY <1>a, GenuineGrows
<1>1. ASSUME UNCHANGED <<rxVars, pose_message>>, wire' \in Seq(Datagrams')
      PROVE  LinkInv'
  <2>1. StoredInv' /\ Received' = Received
    BY <1>1, SlotUnchanged DEF LinkInv, rxVars, Received
  <2> QED
    BY <1>1, <1>b, <2>1 DEF LinkInv, SlotIn, rxVars
<1>2. wire \in Seq(Datagrams')
  BY <1>b, SeqMonotone DEF LinkInv
<1>3. CASE [GazeboNext]_gvars /\ UNCHANGED receiverVars
  <2>1. CASE UNCHANGED <<wire, sent>>
    BY <1>1, <1>2, <1>3, <2>1 DEF receiverVars, sharedVars
  <2>2. CASE ~UNCHANGED <<wire, sent>>
    <3>1. PICK m : sent' = sent \cup {m} /\ Transmit(pose_to_udp_message(m))
      BY <1>3, <2>2, Sends
    <3>2. pose_to_udp_message(m) \in Datagrams'
      BY <3>1 DEF Datagrams
    <3>3. wire' \in Seq(Datagrams')
      BY <1>2, <3>1, <3>2, TransmitType
    <3> QED
      BY <1>1, <1>3, <3>3 DEF receiverVars, sharedVars
  <2> QED
    BY <2>1, <2>2
<1>4. CASE LinkNext /\ UNCHANGED <<gazeboVars, receiverVars>>
  <2>1. wire' \in Seq(Datagrams')
    BY <1>2, <1>4, LinkType
  <2> QED
    BY <1>1, <1>4, <2>1 DEF receiverVars, sharedVars
<1>5. CASE HandlerThread(HandlerNext) /\ UNCHANGED <<gazeboVars, wire>>
  BY <1>1, <1>2, <1>5, SlotKept
<1>6. CASE ReceiverThread(RxNext) /\ UNCHANGED gazeboVars
  <2>1. Datagrams' = Datagrams /\ Genuine' = Genuine
    BY <1>6 DEF Datagrams, Genuine, OfSent, gazeboVars
  <2>2. rx_pc # "recv" => Received \in Genuine
    BY DEF LinkInv
  <2>3. StoredInv' /\ SlotIn(Genuine)'
    <3>1. StoredInv' /\ (rx_pc' \in {"recv", "lock", "counter"} => pose_message' \in Genuine)
      BY <1>6, <2>2, SlotStep DEF TypeOK, LinkInv, SlotIn
    <3> QED
      BY <2>1, <3>1 DEF SlotIn
  <2>4. wire' \in Seq(Datagrams)
    BY <1>6 DEF ReceiverThread, RxNext, RxDatagram, RxNothing, RxLock, RxUnlock, RxStores,
                RxStore, StoreCounter, StoreDrone, StoreCamera, StoreDroneId, LinkInv
  <2>5. RecvMayFail \/ rx_pc' # "recv" => Received' \in Genuine
    <3>1. CASE RxDatagram
      <4>1. Head(wire) \in Datagrams /\ udp_pose_message' = Head(wire)
        BY <3>1 DEF RxDatagram, LinkInv
      <4> QED
        BY <1>a, <4>1, DecodedGenuine DEF Received
    <3>2. CASE ~RxDatagram
      <4>1. Received' = Received
        BY <1>6, <3>2 DEF ReceiverThread, RxNext, RxNothing, RxLock, RxUnlock, RxStores,
                          RxStore, StoreCounter, StoreDrone, StoreCamera, StoreDroneId,
                          Received
      <4>2. RecvMayFail \/ rx_pc # "recv"
        BY <1>6, <3>2 DEF ReceiverThread, RxNext, RxNothing, RxLock, RxUnlock, RxStores,
                          RxStore, StoreCounter, StoreDrone, StoreCamera, StoreDroneId,
                          RxGoto
      <4> QED
        BY <4>1, <4>2 DEF LinkInv
    <3> QED
      BY <3>1, <3>2
  <2> QED
    BY <2>1, <2>3, <2>4, <2>5 DEF LinkInv
<1> QED
  BY <1>3, <1>4, <1>5, <1>6, Steps

-----------------------------------------------------------------------------
(***************************************************************************)
(* Every vehicle shows a message sent, and none newer than the next.       *)
(***************************************************************************)
ReceiverInv == MutexInv /\ LinkInv /\ VehicleInv

StreamInv == TypeOK /\ SenderInv /\ ReceiverInv

\* The message the handler reads is one that has been sent.
LEMMA HandlerReadsGenuine ==
  ASSUME TypeOK, MutexInv, LinkInv, h_pc \in {"spawn", "set"}
  PROVE  pose_message \in Genuine
BY DEF TypeOK, ReceiverTypeOK, RxTypeOK, MutexInv, LinkInv, SlotIn

LEMMA HandlerReadsSent ==
  ASSUME TypeOK, MutexInv, LinkInv, h_pc \in {"spawn", "set"},
         pose_message.message_counter # 0
  PROVE  \E m \in sent : /\ m.message_counter = pose_message.message_counter
                         /\ m.drone_id = pose_message.drone_id
                         /\ Truncated(m.drone) = pose_message.drone
<1>1. PICK m \in sent : pose_message = udp_message_to_pose(pose_to_udp_message(m))
  BY HandlerReadsGenuine DEF Genuine, OfSent
<1> QED
  BY <1>1, RoundTrip

\* A message that is to be set has a counter.
LEMMA NewIsNotZero ==
  ASSUME TypeOK, MessageIsNew
  PROVE  pose_message.message_counter # 0
<1>1. pose_message.message_counter \in Nat /\ msg_count \in Nat
  BY DEF TypeOK, ReceiverTypeOK, SharedTypeOK, HandlerTypeOK, PoseMessage
<1> QED
  BY <1>1 DEF MessageIsNew

LEMMA VehicleInit == Init => VehicleInv
BY DEF Init, ReceiverInit, AirSimInit, VehicleInv

LEMMA VehicleKept ==
  ASSUME VehicleInv, sent \subseteq sent', UNCHANGED <<msg_count, vehicles>>,
         h_pc = "set" => h_pc' = "set" /\ UNCHANGED pose_message,
         receiver_up' => receiver_up
  PROVE  VehicleInv'
BY DEF VehicleInv, ShowsSent

LEMMA VehicleStep ==
  ASSUME TypeOK, MutexInv, LinkInv, VehicleInv, [Next]_vars
  PROVE  VehicleInv'
<1>a. sent \subseteq sent'
  BY SentGrows
<1>b. pose_message.message_counter \in Nat /\ pose_message.drone_id \in Nat
      /\ msg_count \in Nat
  BY DEF TypeOK, ReceiverTypeOK, SharedTypeOK, HandlerTypeOK, PoseMessage
<1>c. \A m \in sent : m.message_counter \in Nat
  BY DEF TypeOK, GazeboTypeOK, PoseMessage
<1>1. CASE HandlerThread(HandlerNext) /\ UNCHANGED <<gazeboVars, wire>>
  <2>a. UNCHANGED pose_message /\ sent' = sent
    BY <1>1, SlotKept DEF gazeboVars
  <2> USE DEF HandlerGoto
  <2>1. CASE Spawns
    <3>1. /\ h_pc = "spawn" /\ pose_message.message_counter # 0 /\ UNCHANGED msg_count
          /\ h_pc' = "set" \/ ~receiver_up'
      BY <1>1, <2>1, AfterSpawn DEF Spawns, DroneIsNew
    <3>2. PICK m \in sent : /\ m.message_counter = pose_message.message_counter
                            /\ m.drone_id = pose_message.drone_id
                            /\ Truncated(m.drone) = pose_message.drone
      BY <3>1, HandlerReadsSent
    <3>3. ASSUME NEW id \in DOMAIN vehicles'
          PROVE  \E n \in sent : ShowsSent(id, n)'
      <4>1. CASE id \in DOMAIN vehicles /\ vehicles'[id] = vehicles[id]
        BY <2>1, <2>a, <3>1, <4>1 DEF VehicleInv, ShowsSent, Spawns
      <4>2. CASE /\ id = pose_message.drone_id
                 /\ vehicles'[id] = ShownAt(pose_message.drone, id + 1)
        <5>1. id + 1 # 0
          BY <1>b, <4>2
        <5> QED
          BY <1>b, <2>a, <3>1, <3>2, <4>2, <5>1 DEF ShowsSent, ShownAt
      <4> QED
        BY <2>1, <4>1, <4>2, SpawnedVehicle
    <3> QED
      BY <2>a, <3>3 DEF VehicleInv
  <2>2. CASE Sets
    <3>1. /\ h_pc = "set" /\ MessageIsNew
          /\ msg_count' = pose_message.message_counter \/ ~receiver_up'
      BY <1>1, <2>2, AfterSet DEF Sets
    <3>2. PICK m \in sent : /\ m.message_counter = pose_message.message_counter
                            /\ m.drone_id = pose_message.drone_id
                            /\ Truncated(m.drone) = pose_message.drone
      BY <3>1, NewIsNotZero, HandlerReadsSent
    <3>3. ASSUME NEW id \in DOMAIN vehicles'
          PROVE  \E n \in sent : ShowsSent(id, n)'
      <4>1. CASE vehicles'[id] = vehicles[id]
        <5>1. PICK n \in sent : ShowsSent(id, n)
          BY <2>2, SetVehicle DEF VehicleInv
        <5>2. n.message_counter <= msg_count' \/ ~receiver_up'
          BY <1>b, <1>c, <2>2, <3>1, <5>1 DEF ShowsSent, MessageIsNew, Sets
        <5> QED
          BY <4>1, <5>1, <5>2 DEF ShowsSent
      <4>2. CASE /\ id = pose_message.drone_id
                 /\ vehicles'[id] = ShownAt(pose_message.drone, 0)
        BY <1>b, <3>1, <3>2, <4>2 DEF ShowsSent, ShownAt
      <4> QED
        BY <2>2, <4>1, <4>2, SetVehicle
    <3> QED
      BY <2>a, <3>3 DEF VehicleInv
  <2>3. CASE OldMessage
    <3>1. ~MessageIsNew /\ UNCHANGED <<msg_count, vehicles, receiver_up>>
      BY <2>3 DEF OldMessage, sharedVars
    <3>2. ASSUME NEW id \in DOMAIN vehicles, NEW n \in sent, ShowsSent(id, n)
          PROVE  n.message_counter <= msg_count \/ ~receiver_up
      BY <1>b, <1>c, <3>1, <3>2 DEF ShowsSent, MessageIsNew
    <3> QED
      BY <2>a, <3>1, <3>2 DEF VehicleInv, ShowsSent
  <2>4. CASE UNCHANGED vehicles /\ ~Sets /\ ~OldMessage
    <3>1. /\ UNCHANGED msg_count
          /\ receiver_up' => receiver_up
          /\ h_pc = "set" => h_pc' = "set"
      BY <1>1, <2>4
         DEF HandlerThread, HandlerNext, HandlerStep, HandlerLock, Lock, HandlerUnlock,
             Unlock, HandlerWakes, KnownDrone, SpawnUniqueDrone, SetVehiclePose,
             HandlerThrows, Terminate, handlerVars, sharedVars, Sets
    <3> QED
      BY <1>a, <2>a, <2>4, <3>1, VehicleKept
  <2> QED
    BY <1>1, <2>1, <2>2, <2>3, <2>4, HandlerCalls
<1>2. CASE UNCHANGED receiverVars \/ ReceiverThread(RxNext)
  <2>1. UNCHANGED <<handlerVars, vehicles>>
    BY <1>2, HandlerVarsKept
  <2>2. h_pc = "set" => UNCHANGED pose_message
    BY <1>2, HandlerUndisturbed
  <2>3. UNCHANGED receiver_up
    BY <1>2, ProgramRuns
  <2> QED
    BY <1>a, <2>1, <2>2, <2>3, VehicleKept DEF handlerVars
<1> QED
  BY <1>1, <1>2, Steps

-----------------------------------------------------------------------------
LEMMA StreamInit ==
  ASSUME MirrorConditions
  PROVE  Init => StreamInv
BY StreamTypeInit, SenderInit, MutexInit, LinkInit, VehicleInit
   DEF StreamInv, ReceiverInv, Init, MirrorConditions

LEMMA StreamStep ==
  ASSUME MirrorConditions
  PROVE  StreamInv /\ [Next]_vars => StreamInv'
<1> SUFFICES ASSUME StreamInv, [Next]_vars PROVE StreamInv'
  OBVIOUS
<1>1. TypeOK /\ SenderInv /\ MutexInv /\ LinkInv /\ VehicleInv
  BY DEF StreamInv, ReceiverInv
<1>2. TypeOK'
  BY <1>1, StreamTypeStep DEF SenderInv, PairTypes
<1>3. MutexInv'
  BY <1>1, MutexStep, Steps DEF ReceiverNext, PosePath
<1> QED
  BY <1>1, <1>2, <1>3, SenderStep, LinkStep, VehicleStep DEF StreamInv, ReceiverInv

(***************************************************************************)
(* A vehicle shows the body of the one drone that has its id.              *)
(***************************************************************************)
THEOREM OwnDrone ==
  ASSUME MirrorConditions
  PROVE  Spec => []VehicleShowsItsDrone
<1>1. StreamInv => VehicleShowsItsDrone
  <2> SUFFICES ASSUME StreamInv, NEW id \in DOMAIN vehicles
               PROVE  LET shown == vehicles[id].ned IN
                      /\ shown.link = "body"
                      /\ {m \in DOMAIN droneIds : droneIds[m] = id} = {shown.model}
    BY DEF VehicleShowsItsDrone
  <2>1. PICK m \in sent : ShowsSent(id, m)
    BY DEF StreamInv, ReceiverInv, VehicleInv
  <2>2. m.drone \in Pose
    BY DEF StreamInv, TypeOK, GazeboTypeOK, PoseMessage
  <2>3. /\ m.drone.link = "body" /\ m.drone.model \in DOMAIN droneIds
        /\ droneIds[m.drone.model] = id
    BY <2>1 DEF StreamInv, SenderInv, PairTypes, CameraOfSameDrone, ShowsSent
  <2>4. IdsUnique
    BY TableUnique DEF StreamInv, SenderInv, PairTypes, MirrorConditions
  <2>5. vehicles[id].ned.link = "body" /\ vehicles[id].ned.model = m.drone.model
    BY <2>1, <2>2, <2>3, TruncatedPose DEF ShowsSent
  <2> QED
    BY <2>3, <2>4, <2>5 DEF IdsUnique
<1> QED
  BY <1>1, StreamInit, StreamStep, PTL DEF Spec

-----------------------------------------------------------------------------
(***************************************************************************)
(* The refinement of PoseMirror.                                           *)
(***************************************************************************)
LEMMA MirrorStarts == Init => Mirror!MirrorInit
BY DEF Init, GazeboInit, ReceiverInit, AirSimInit, Mirror!MirrorInit

\* A vehicle that is spawned appears, or AirSim has it or refuses it.
LEMMA SpawnAppears ==
  ASSUME TypeOK, MutexInv, LinkInv, Spawns, UNCHANGED sent
  PROVE  [Mirror!MirrorNext]_<<sent, vehicles>>
<1>1. h_pc = "spawn" /\ pose_message.message_counter # 0
  BY DEF Spawns, DroneIsNew
<1>2. PICK m \in sent : /\ m.drone_id = pose_message.drone_id
                        /\ Truncated(m.drone) = pose_message.drone
  BY <1>1, HandlerReadsSent
<1>3. vehicles = [v \in DOMAIN vehicles |-> vehicles[v]]
  BY DEF TypeOK, ReceiverTypeOK, AirSimTypeOK
<1>4. CASE UNCHANGED vehicles
  BY <1>4
<1>5. CASE simAddVehicle(m.drone_id, ShownAt(pose_message.drone, m.drone_id + 1))
  <2>1. CASE m.drone_id \in DOMAIN vehicles
    <3>1. DOMAIN vehicles \cup {m.drone_id} = DOMAIN vehicles
      BY <2>1
    <3>2. vehicles' = vehicles
      BY <1>3, <1>5, <3>1 DEF simAddVehicle
    <3> QED
      BY <3>2
  <2>2. CASE m.drone_id \notin DOMAIN vehicles
    <3>1. Mirror!Appear(m)
      BY <1>2, <1>5, <2>2 DEF simAddVehicle, ShownAt, Mirror!Appear, Truncated, Mirror!Truncated
    <3> QED
      BY <3>1 DEF Mirror!MirrorNext
  <2> QED
    BY <2>1, <2>2
<1> QED
  BY <1>2, <1>4, <1>5 DEF Spawns, spawn_vehicle

\* A vehicle that is set moves to a later pose of its drone.
LEMMA SetMoves ==
  ASSUME MirrorConditions, StreamInv, Sets, UNCHANGED sent
  PROVE  [Mirror!MirrorNext]_<<sent, vehicles>>
<1>1. /\ receiver_up /\ h_pc = "set" /\ MessageIsNew
      /\ pose_message.drone_id \in DOMAIN vehicles
      /\ vehicles' = [vehicles EXCEPT ![pose_message.drone_id] =
                        ShownAt(pose_message.drone, 0)]
  BY DEF Sets, set_vehicle_pose
<1>2. PICK m \in sent : /\ m.message_counter = pose_message.message_counter
                        /\ m.drone_id = pose_message.drone_id
                        /\ Truncated(m.drone) = pose_message.drone
  BY <1>1, NewIsNotZero, HandlerReadsSent DEF StreamInv, ReceiverInv
<1>3. PICK n \in sent : ShowsSent(m.drone_id, n)
  BY <1>1, <1>2 DEF StreamInv, ReceiverInv, VehicleInv
<1>4. /\ m.drone \in Pose /\ n.drone \in Pose
      /\ m.message_counter \in Nat /\ n.message_counter \in Nat /\ msg_count \in Nat
  BY DEF StreamInv, TypeOK, GazeboTypeOK, PoseMessage, ReceiverTypeOK, HandlerTypeOK
<1>5. vehicles[m.drone_id].ned = Truncated(n.drone) /\ n.drone_id = m.drone_id
  BY <1>3 DEF ShowsSent
<1>6. m.drone.model = vehicles[m.drone_id].ned.model
  <2>1. m.drone.model = n.drone.model
    BY <1>5, OneDronePerId DEF StreamInv
  <2> QED
    BY <1>4, <1>5, <2>1, TruncatedPose
<1>7. Mirror!Newer(m.drone, vehicles[m.drone_id])
  <2>1. vehicles[m.drone_id].ned.tick = n.drone.tick
    BY <1>4, <1>5, TruncatedPose
  <2>2. m.drone.tick \in Nat /\ n.drone.tick \in Nat
    BY <1>4 DEF Pose
  <2>3. CASE n.message_counter <= msg_count
    <3>1. n.message_counter < m.message_counter
      BY <1>1, <1>2, <1>4, <2>3 DEF MessageIsNew
    <3>2. n.drone.tick < m.drone.tick
      BY <3>1, CountersOrder DEF StreamInv
    <3> QED
      BY <2>1, <2>2, <3>2 DEF Mirror!Newer
  <2>4. CASE n.message_counter <= m.message_counter /\ vehicles[m.drone_id].offset # 0
    <3>1. n.drone.tick <= m.drone.tick
      BY <2>4, CountersOrder DEF StreamInv
    <3> QED
      BY <2>1, <2>2, <2>4, <3>1 DEF Mirror!Newer
  <2> QED
    BY <1>1, <1>2, <1>3, <2>3, <2>4 DEF ShowsSent
<1>8. Mirror!Move(m)
  BY <1>1, <1>2, <1>6, <1>7 DEF Mirror!Move, ShownAt, Truncated, Mirror!Truncated
<1> QED
  BY <1>8 DEF Mirror!MirrorNext

LEMMA MirrorStep ==
  ASSUME MirrorConditions, StreamInv, [Next]_vars
  PROVE  [Mirror!MirrorNext]_<<sent, vehicles>>
<1>1. CASE UNCHANGED vehicles
  BY <1>1, SentGrows DEF Mirror!MirrorNext, Mirror!Publish
<1>2. CASE ~UNCHANGED vehicles
  <2>1. HandlerThread(HandlerNext) /\ UNCHANGED sent
    BY <1>2, Steps, HandlerVarsKept DEF gazeboVars
  <2>2. Spawns \/ Sets
    BY <1>2, <2>1, HandlerCalls
  <2> QED
    BY <2>1, <2>2, SpawnAppears, SetMoves DEF StreamInv, ReceiverInv
<1> QED
  BY <1>1, <1>2

(***************************************************************************)
(* The pose streamer implements PoseMirror, whatever the link loses,       *)
(* repeats or swaps and whatever AirSim answers.                           *)
(***************************************************************************)
THEOREM Mirrors ==
  ASSUME MirrorConditions
  PROVE  Spec => MirrorsGazebo
<1>1. Spec => []StreamInv
  BY StreamInit, StreamStep, PTL DEF Spec
<1>2. StreamInv /\ [Next]_vars => [Mirror!MirrorNext]_<<sent, vehicles>>
  BY MirrorStep
<1>3. Spec => Mirror!MirrorInit /\ [][Mirror!MirrorNext]_<<sent, vehicles>>
  BY <1>1, <1>2, MirrorStarts, PTL DEF Spec
<1> QED
  BY <1>3 DEF MirrorsGazebo, Mirror!MirrorSpec

=============================================================================
