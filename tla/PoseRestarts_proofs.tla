-------------------------- MODULE PoseRestarts_proofs --------------------------
(***************************************************************************)
(* What survives a restart: the types; the drones' ids and their vehicles, *)
(* if their names carry numbers; and the abstract specification, if the    *)
(* link keeps the order of what it delivers.  Then what a program does     *)
(* with the addresses it tries when it starts.                             *)
(***************************************************************************)
EXTENDS PoseRestarts, PoseStreaming_proofs, WellFoundedInduction

(***************************************************************************)
(* Types.                                                                  *)
(***************************************************************************)
LEMMA RestartTypeInit == RestartInit => RestartTypeOK /\ BodyInv
BY StreamTypeInit, RestartAssumption DEF RestartInit, RestartTypeOK

LEMMA SenderStartsFresh ==
  ASSUME GazeboTypeOK, SenderStarts
  PROVE  GazeboTypeOK' /\ BodyInv' /\ droneIds' = [m \in {} |-> 0] /\ sent' = sent
<1>1. /\ sender_up' = TRUE /\ count' = 0 /\ tick' = NextTick
      /\ droneIds' = [m \in {} |-> 0] /\ uniqueDroneCount' = 0
      /\ update' = << >> /\ i' = 0
      /\ drone_pose' = UnsetPose /\ camera_pose' = UnsetPose
      /\ current_drone_name' = NoModel /\ sent' = sent
  BY DEF SenderStarts
<1>2. IdsTypeOK'
  BY <1>1, IdAssumption DEF IdsTypeOK
<1>3. tick' \in Nat
  BY <1>1 DEF NextTick, GazeboTypeOK
<1>4. << >> \in Seq(Entry)
  OBVIOUS
<1> QED
  BY <1>1, <1>2, <1>3, <1>4, UnsetPoseType, GazeboAssumption
     DEF GazeboTypeOK, BodyInv, UnsetPose

LEMMA ReceiverStartsFresh ==
  ASSUME wire \in Seq(UdpPoseMessage), AirSimTypeOK, ReceiverStarts
  PROVE  ReceiverTypeOK' /\ wire' \in Seq(UdpPoseMessage)
<1>1. wire' \in Seq(UdpPoseMessage)
  BY DEF ReceiverStarts, ThreadsStart
<1>2. SharedTypeOK' /\ AirSimTypeOK'
  BY ZeroMessageType DEF ReceiverStarts, SharedTypeOK, Threads, AirSimTypeOK
<1>3. RxTypeOK' /\ HandlerTypeOK' /\ PrinterTypeOK'
  BY ReceiverAssumption, PrinterAssumption
     DEF ReceiverStarts, ThreadsStart, RxTypeOK, HandlerTypeOK, PrinterTypeOK
<1> QED
  BY <1>1, <1>2, <1>3 DEF ReceiverTypeOK

LEMMA RestartTypeStep ==
  RestartTypeOK /\ BodyInv /\ [RestartNext]_restartVars => RestartTypeOK' /\ BodyInv'
<1> SUFFICES ASSUME RestartTypeOK, BodyInv, [RestartNext]_restartVars
             PROVE  RestartTypeOK' /\ BodyInv'
  OBVIOUS
<1>a. TypeOK /\ starts \in 0 .. MaxStarts /\ MaxStarts \in Nat
  BY RestartAssumption DEF RestartTypeOK
<1>1. CASE (Next \/ UNCHANGED vars) /\ UNCHANGED starts
  BY <1>1, <1>a, StreamTypeStep DEF RestartTypeOK
<1>2. CASE SenderStops
  <2>1. GazeboTypeOK' /\ BodyInv'
    BY <1>2, <1>a
       DEF SenderStops, cbVars, idVars, TypeOK, GazeboTypeOK, IdsTypeOK, BodyInv
  <2>2. ReceiverTypeOK'
    BY <1>2, <1>a, ReceiverTypeKept DEF SenderStops, TypeOK
  <2> QED
    BY <1>2, <1>a, <2>1, <2>2 DEF SenderStops, RestartTypeOK, TypeOK
<1>3. CASE ReceiverStops
  <2>1. GazeboTypeOK' /\ BodyInv'
    BY <1>3, <1>a, GazeboKept DEF ReceiverStops, TypeOK
  <2> QED
    BY <1>3, <1>a, <2>1
       DEF ReceiverStops, Terminate, RestartTypeOK, TypeOK, rxVars, handlerVars,
           printerVars, ReceiverTypeOK, SharedTypeOK, RxTypeOK, HandlerTypeOK,
           AirSimTypeOK, PrinterTypeOK
<1>4. CASE StartFails
  BY <1>4, <1>a, StreamTypeStep DEF StartFails, Start, RestartTypeOK
<1>5. CASE SenderStarts
  <2>1. GazeboTypeOK' /\ BodyInv'
    BY <1>5, <1>a, SenderStartsFresh DEF TypeOK
  <2>2. ReceiverTypeOK'
    BY <1>5, <1>a, ReceiverTypeKept DEF SenderStarts, TypeOK
  <2> QED
    BY <1>5, <1>a, <2>1, <2>2 DEF SenderStarts, Start, RestartTypeOK, TypeOK
<1>6. CASE ReceiverStarts
  <2>1. GazeboTypeOK' /\ BodyInv'
    BY <1>6, <1>a, GazeboKept DEF ReceiverStarts, TypeOK
  <2>2. ReceiverTypeOK' /\ wire' \in Seq(UdpPoseMessage)
    BY <1>6, <1>a, ReceiverStartsFresh DEF TypeOK, ReceiverTypeOK
  <2> QED
    BY <1>6, <1>a, <2>1, <2>2 DEF ReceiverStarts, Start, RestartTypeOK, TypeOK
<1> QED
  BY <1>1, <1>2, <1>3, <1>4, <1>5, <1>6 DEF RestartNext, restartVars

(***************************************************************************)
(* The types hold across restarts, whenever the programs stop.             *)
(***************************************************************************)
THEOREM RestartTypes == RestartSpec => []RestartTypeOK
<1>1. RestartSpec => [](RestartTypeOK /\ BodyInv)
  BY RestartTypeInit, RestartTypeStep, PTL DEF RestartSpec
<1> QED
  BY <1>1, PTL

-----------------------------------------------------------------------------
(***************************************************************************)
(* Ids, across restarts of the sender.                                     *)
(***************************************************************************)

\* A message is sent under the id its body's model has in the table.
LEMMA SentUnderId ==
  ASSUME GazeboTypeOK, BodyInv, NumberedInv', [GazeboNext]_gvars,
         NEW m \in sent', m \notin sent, GazeboTypeOK'
  PROVE  /\ m.drone.model \in DOMAIN droneIds'
         /\ m.drone_id = droneIds'[m.drone.model]
<1>1. ASSUME NEW d, NEW c, NEW name, SendIfComplete(d, c, name),
             d.xi # Sentinel => d.model = name /\ name \in DOMAIN droneIds'
      PROVE  /\ m.drone.model \in DOMAIN droneIds'
             /\ m.drone_id = droneIds'[m.drone.model]
  BY <1>1, SendInHand
<1>2. CASE DroneBodyPose
  <2>1. /\ trackDroneIds(update[i].model)
        /\ SendIfComplete(PoseOf(update[i]), camera_pose, update[i].model)
    BY <1>2 DEF DroneBodyPose
  <2>2. PoseOf(update[i]).model = update[i].model
    BY DEF PoseOf
  <2> QED
    BY <1>1, <2>1, <2>2, TableGrows
<1>3. CASE CameraPose
  <2>1. /\ SendIfComplete(drone_pose, PoseOf(update[i]), current_drone_name)
        /\ droneIds' = droneIds
    BY <1>3 DEF CameraPose, idVars
  <2> QED
    BY <1>1, <2>1 DEF BodyInv
<1>4. CASE ~DroneBodyPose /\ ~CameraPose
  <2>1. sent' = sent
    BY <1>4 DEF GazeboNext, CallbackStarts, DroneNameThrows, OtherLinkPose, CallbackEnds,
                gvars, gazeboVars
  <2> QED
    BY <2>1
<1> QED
  BY <1>2, <1>3, <1>4

LEMMA NumberedKept ==
  ASSUME NumberedInv, SentNumbered, UNCHANGED <<droneIds, sent>>
  PROVE  NumberedInv' /\ SentNumbered'
BY DEF NumberedInv, SentNumbered

LEMMA SentNumberedStep ==
  ASSUME Numbered, RestartTypeOK, BodyInv, NumberedInv, SentNumbered,
         [RestartNext]_restartVars
  PROVE  NumberedInv' /\ SentNumbered'
<1>a. TypeOK /\ TypeOK' /\ GazeboTypeOK /\ GazeboTypeOK'
  BY RestartTypeStep DEF RestartTypeOK, TypeOK
<1>1. CASE [Next]_vars
  <2>1. CASE [GazeboNext]_gvars
    <3>1. NumberedInv'
      BY <1>a, <2>1, NumberedStep
    <3>2. ASSUME NEW m \in sent', m \notin sent
          PROVE  /\ m.drone.model \in Models
                 /\ GidSuffix[m.drone.model] \in Int
                 /\ m.drone_id = Uint16(GidSuffix[m.drone.model])
      <4>1. /\ m.drone.model \in DOMAIN droneIds'
            /\ m.drone_id = droneIds'[m.drone.model]
        BY <1>a, <2>1, <3>1, <3>2, SentUnderId
      <4> QED
        BY <1>a, <3>1, <4>1 DEF NumberedInv, GazeboTypeOK, IdsTypeOK
    <3> QED
      BY <3>1, <3>2 DEF SentNumbered
  <2>2. CASE UNCHANGED gazeboVars
    BY <2>2, NumberedKept DEF gazeboVars, idVars
  <2> QED
    BY <1>1, <2>1, <2>2, SenderSteps
<1>2. CASE SenderStarts
  BY <1>a, <1>2, SenderStartsFresh DEF NumberedInv, SentNumbered
<1>3. CASE SenderStops \/ ReceiverStops \/ StartFails \/ ReceiverStarts
  BY <1>3, NumberedKept
     DEF SenderStops, ReceiverStops, StartFails, ReceiverStarts, gazeboVars, idVars, vars
<1> QED
  BY <1>1, <1>2, <1>3 DEF RestartNext, restartVars

(***************************************************************************)
(* If names carry numbers that differ as 16-bit values, a restarted sender *)
(* hands out the ids its predecessors did.                                 *)
(***************************************************************************)
THEOREM IdsSurviveRestarts ==
  ASSUME Numbered
  PROVE  RestartSpec => []OneIdPerDrone
<1>1. RestartInit => RestartTypeOK /\ BodyInv /\ NumberedInv /\ SentNumbered
  <2> SUFFICES ASSUME RestartInit PROVE NumberedInv /\ SentNumbered
    BY RestartTypeInit
  <2>1. DOMAIN droneIds = {} /\ sent = {}
    BY DEF RestartInit, Init, GazeboInit, IdsInit
  <2> QED
    BY <2>1 DEF NumberedInv, SentNumbered
<1>2. RestartTypeOK /\ BodyInv /\ NumberedInv /\ SentNumbered /\ [RestartNext]_restartVars
        => (RestartTypeOK /\ BodyInv /\ NumberedInv /\ SentNumbered)'
  BY SentNumberedStep, RestartTypeStep
<1>3. SentNumbered => OneIdPerDrone
  <2> SUFFICES ASSUME SentNumbered, NEW m \in sent, NEW n \in sent
               PROVE  m.drone_id = n.drone_id <=> m.drone.model = n.drone.model
    BY DEF OneIdPerDrone
  <2>1. ASSUME NEW k \in sent
        PROVE  /\ k.drone.model \in Models /\ GidSuffix[k.drone.model] # OutOfRange
               /\ k.drone_id = Uint16(GidSuffix[k.drone.model])
    BY <2>1, IdAssumption DEF SentNumbered
  <2> QED
    BY <2>1 DEF Numbered
<1> QED
  BY <1>1, <1>2, <1>3, PTL DEF RestartSpec

-----------------------------------------------------------------------------
(***************************************************************************)
(* The invariants of one life of the programs, across restarts: the mutex, *)
(* and that what is under way, received or in the slot has been sent.      *)
(***************************************************************************)

\* A step of the programs, or what a stop or a start leaves alone.
LEMMA RestartSteps ==
  ASSUME [RestartNext]_restartVars
  PROVE  \/ [Next]_vars
         \/ SenderStarts \/ ReceiverStarts
         \/ UNCHANGED <<tick, sent, wire, pose_message, mutex_pose_message, rxVars,
                        handlerVars, printerVars, vehicles>>
BY DEF RestartNext, restartVars, SenderStops, ReceiverStops, StartFails, Terminate, vars,
       receiverVars, sharedVars, gazeboVars

LEMMA SentGrowsAcross ==
  ASSUME [RestartNext]_restartVars
  PROVE  sent \subseteq sent'
<1>1. CASE [Next]_vars
  BY <1>1, SentGrows
<1>2. CASE ~[Next]_vars
  BY <1>2, RestartSteps DEF SenderStarts, ReceiverStarts, gazeboVars
<1> QED
  BY <1>1, <1>2

LEMMA MutexAcross ==
  ASSUME MutexInv, [RestartNext]_restartVars
  PROVE  MutexInv'
<1>1. CASE [Next]_vars
  BY <1>1, MutexStep, Steps DEF ReceiverNext, PosePath
<1>2. CASE ReceiverStarts
  BY <1>2 DEF ReceiverStarts, ThreadsStart, MutexInv
<1>3. CASE SenderStarts
  BY <1>3, MutexStep DEF SenderStarts
<1>4. CASE UNCHANGED <<mutex_pose_message, rxVars, handlerVars, printerVars>>
  BY <1>4 DEF MutexInv, rxVars, handlerVars, printerVars
<1> QED
  BY <1>1, <1>2, <1>3, <1>4, RestartSteps

\* What is left of the wire at the start of a receiver.
LEMMA WireLeft ==
  ASSUME NEW S, wire \in Seq(S), ReceiverStarts
  PROVE  /\ wire' \in Seq(S)
         /\ \A j, k \in DOMAIN wire' : j <= k =>
              \E a, b \in DOMAIN wire : a <= b /\ wire'[j] = wire[a] /\ wire'[k] = wire[b]
<1>1. PICK n \in 1 .. Len(wire) + 1 : wire' = SubSeq(wire, n, Len(wire))
  BY DEF ReceiverStarts, ThreadsStart
<1>2. wire' \in Seq(S)
  BY <1>1
<1>3. ASSUME NEW j \in DOMAIN wire'
      PROVE  j + n - 1 \in DOMAIN wire /\ wire'[j] = wire[j + n - 1] /\ j \in Nat
  BY <1>1, <1>3
<1>4. ASSUME NEW j \in DOMAIN wire', NEW k \in DOMAIN wire', j <= k
      PROVE  \E a, b \in DOMAIN wire : a <= b /\ wire'[j] = wire[a] /\ wire'[k] = wire[b]
  <2>1. j + n - 1 <= k + n - 1
    BY <1>3, <1>4
  <2> QED
    BY <1>3, <2>1
<1> QED
  BY <1>2, <1>4

LEMMA LinkAcross ==
  ASSUME RecvMayFail => CleanBuffer, TypeOK, LinkInv, [RestartNext]_restartVars
  PROVE  LinkInv'
<1>1. CASE [Next]_vars
  BY <1>1, LinkStep
<1>2. CASE ReceiverStarts
  <2>1. /\ rx_pc' = "recv" /\ pose_message' = ZeroMessage
        /\ udp_pose_message' \in StackContents /\ sent' = sent
    BY <1>2 DEF ReceiverStarts, ThreadsStart, gazeboVars
  <2>2. Datagrams' = Datagrams /\ Genuine' = Genuine
    BY <2>1 DEF Datagrams, Genuine, OfSent
  <2>3. ZeroMessage \in Genuine
    BY ZeroMessageType DEF Genuine, ZeroMessage
  <2>4. RecvMayFail => Received' \in Genuine
    BY <2>1, DecodedType, ReceiverAssumption DEF CleanBuffer, Received, Genuine
  <2>5. wire' \in Seq(Datagrams)
    BY <1>2, WireLeft DEF LinkInv
  <2> QED
    BY <2>1, <2>2, <2>3, <2>4, <2>5 DEF LinkInv, SlotIn, StoredInv
<1>3. CASE UNCHANGED <<sent, wire, pose_message, rxVars>>
  BY <1>3, SlotUnchanged
     DEF LinkInv, SlotIn, Datagrams, Genuine, OfSent, Received, rxVars
<1>4. CASE SenderStarts
  BY <1>3, <1>4 DEF SenderStarts, receiverVars, sharedVars
<1> QED
  BY <1>1, <1>2, <1>3, <1>4, RestartSteps

-----------------------------------------------------------------------------
(***************************************************************************)
(* What is sent is of the update being read, and later than all before.    *)
(***************************************************************************)
LEMMA SendsNow ==
  ASSUME GazeboTypeOK, BodyInv, [GazeboNext]_gvars
  PROVE  \/ UNCHANGED <<wire, sent>>
         \/ \E m : /\ sent' = sent \cup {m} /\ Transmit(pose_to_udp_message(m))
                   /\ m.drone.link = "body" /\ m.drone.xi # Sentinel
                   /\ m.drone.tick = tick
<1>1. ASSUME NEW d, NEW c, NEW name, SendIfComplete(d, c, name),
             d.xi # Sentinel => d.link = "body" /\ d.tick = tick
      PROVE  \/ UNCHANGED <<wire, sent>>
             \/ \E m : /\ sent' = sent \cup {m} /\ Transmit(pose_to_udp_message(m))
                       /\ m.drone.link = "body" /\ m.drone.xi # Sentinel
                       /\ m.drone.tick = tick
  <2>1. CASE d.xi # Sentinel /\ c.xi # Sentinel
    BY <1>1, <2>1 DEF SendIfComplete, send_pose_message
  <2>2. CASE ~(d.xi # Sentinel /\ c.xi # Sentinel)
    BY <1>1, <2>2 DEF SendIfComplete
  <2> QED
    BY <2>1, <2>2
<1>2. CASE DroneBodyPose
  <2>1. SendIfComplete(PoseOf(update[i]), camera_pose, update[i].model)
        /\ update[i].link = "body"
    BY <1>2 DEF DroneBodyPose, AtEntry
  <2>2. PoseOf(update[i]).link = "body" /\ PoseOf(update[i]).tick = tick
    BY <2>1 DEF PoseOf
  <2> QED
    BY <1>1, <2>1, <2>2
<1>3. CASE CameraPose
  <2>1. SendIfComplete(drone_pose, PoseOf(update[i]), current_drone_name) /\ i # 0
    BY <1>3 DEF CameraPose, AtEntry, GazeboTypeOK
  <2> QED
    BY <1>1, <2>1 DEF BodyInv
<1>4. CASE ~DroneBodyPose /\ ~CameraPose
  BY <1>4 DEF GazeboNext, CallbackStarts, DroneNameThrows, OtherLinkPose, CallbackEnds,
              gvars, gazeboVars
<1> QED
  BY <1>2, <1>3, <1>4

LEMMA TickGrows ==
  ASSUME GazeboTypeOK, [RestartNext]_restartVars
  PROVE  tick' \in Nat /\ tick <= tick'
<1>1. CASE [GazeboNext]_gvars
  BY <1>1 DEF GazeboTypeOK, GazeboNext, CallbackStarts, DroneBodyPose, DroneNameThrows,
              CameraPose, OtherLinkPose, CallbackEnds, gvars, gazeboVars
<1>2. CASE SenderStarts
  BY <1>2 DEF SenderStarts, NextTick, GazeboTypeOK
<1>3. CASE UNCHANGED tick
  BY <1>3 DEF GazeboTypeOK
<1> QED
  BY <1>1, <1>2, <1>3, RestartSteps, SenderSteps DEF ReceiverStarts, gazeboVars

LEMMA SentBodiesStep ==
  ASSUME TypeOK, BodyInv, SentBodies, [RestartNext]_restartVars
  PROVE  SentBodies'
<1>a. tick \in Nat /\ tick' \in Nat /\ tick <= tick' /\ \A m \in sent : m.drone.tick \in Nat
  BY TickGrows DEF TypeOK, GazeboTypeOK, PoseMessage, Pose
<1>1. CASE sent' = sent
  BY <1>a, <1>1 DEF SentBodies
<1>2. CASE [GazeboNext]_gvars /\ sent' # sent
  <2>1. PICK m : /\ sent' = sent \cup {m}
                 /\ m.drone.link = "body" /\ m.drone.xi # Sentinel /\ m.drone.tick = tick
    BY <1>2, SendsNow DEF TypeOK
  <2> QED
    BY <1>a, <2>1 DEF SentBodies
<1> QED
  BY <1>1, <1>2, RestartSteps, SenderSteps DEF SenderStarts, ReceiverStarts, gazeboVars

(***************************************************************************)
(* Every vehicle shows a message that has been sent.                       *)
(***************************************************************************)
LEMMA VehicleOfSentStep ==
  ASSUME TypeOK, MutexInv, LinkInv, VehicleOfSent, [RestartNext]_restartVars
  PROVE  VehicleOfSent'
<1>a. sent \subseteq sent'
  BY SentGrowsAcross
<1>1. CASE UNCHANGED vehicles
  BY <1>a, <1>1 DEF VehicleOfSent
<1>2. CASE [Next]_vars /\ vehicles' # vehicles
  <2>1. HandlerThread(HandlerNext)
    BY <1>2, Steps, HandlerVarsKept
  <2>2. Spawns \/ Sets
    BY <1>2, <2>1, HandlerCalls
  <2>3. h_pc \in {"spawn", "set"} /\ pose_message.message_counter # 0
    BY <2>2, NewIsNotZero DEF Spawns, Sets, DroneIsNew
  <2>4. PICK m \in sent : /\ m.drone_id = pose_message.drone_id
                          /\ Truncated(m.drone) = pose_message.drone
    BY <2>3, HandlerReadsSent
  <2>5. ASSUME NEW id \in DOMAIN vehicles'
        PROVE  \E n \in sent' : n.drone_id = id /\ vehicles'[id].ned = Truncated(n.drone)
    <3>1. CASE id \in DOMAIN vehicles /\ vehicles'[id] = vehicles[id]
      BY <1>a, <3>1 DEF VehicleOfSent
    <3>2. CASE id = pose_message.drone_id /\ vehicles'[id].ned = pose_message.drone
      BY <1>a, <2>4, <3>2
    <3> QED
      BY <2>2, <3>1, <3>2, SpawnedVehicle, SetVehicle DEF ShownAt
  <2> QED
    BY <2>5 DEF VehicleOfSent
<1> QED
  BY <1>1, <1>2, RestartSteps DEF SenderStarts, ReceiverStarts, receiverVars

-----------------------------------------------------------------------------
(***************************************************************************)
(* Order.  A link that only loses datagrams keeps it: the vehicles, the    *)
(* slot, the buffer and the datagrams under way are of later and later     *)
(* updates, none of them later than the update being read.                 *)
(***************************************************************************)
LEMMA NoneAhead ==
  ASSUME TypeOK, LinkInv, SentBodies, VehicleOfSent
  PROVE  /\ tick \in Nat
         /\ \A k \in DOMAIN wire : LET t == udp_message_to_pose(wire[k]).drone.tick IN
              t \in Nat /\ t <= tick
         /\ Held => Received.drone.tick \in Nat /\ Received.drone.tick <= tick
         /\ Slotted => pose_message.drone.tick \in Nat /\ pose_message.drone.tick <= tick
         /\ \A id \in DOMAIN vehicles :
              vehicles[id].ned.tick \in Nat /\ vehicles[id].ned.tick <= tick
<1>1. ASSUME NEW m \in sent
      PROVE  Truncated(m.drone).tick \in Nat /\ Truncated(m.drone).tick <= tick
  BY <1>1, TruncatedPose DEF TypeOK, GazeboTypeOK, PoseMessage, Pose, SentBodies
<1>2. ASSUME NEW r \in Genuine, r.message_counter # 0
      PROVE  r.drone.tick \in Nat /\ r.drone.tick <= tick
  BY <1>1, <1>2, RoundTrip DEF Genuine, OfSent
<1>3. ASSUME NEW k \in DOMAIN wire
      PROVE  LET t == udp_message_to_pose(wire[k]).drone.tick IN t \in Nat /\ t <= tick
  <2>1. wire[k] \in Datagrams
    BY DEF LinkInv
  <2> QED
    BY <1>1, <2>1, RoundTrip DEF Datagrams
<1> QED
  BY <1>1, <1>2, <1>3
     DEF TypeOK, GazeboTypeOK, LinkInv, SlotIn, Held, Slotted, VehicleOfSent

LEMMA Appended ==
  ASSUME NEW S, NEW s \in Seq(S), NEW e \in S, NEW t, t = Append(s, e)
  PROVE  /\ Len(s) \in Nat /\ DOMAIN s = 1 .. Len(s) /\ DOMAIN t = 1 .. Len(s) + 1
         /\ t[Len(s) + 1] = e /\ \A k \in 1 .. Len(s) : t[k] = s[k]
OBVIOUS

LEMMA Joined ==
  ASSUME NEW S, NEW r \in Seq(S), NEW s \in Seq(S), NEW t, t = r \o s
  PROVE  /\ t \in Seq(S) /\ Len(t) = Len(r) + Len(s)
         /\ \A k \in 1 .. Len(r) + Len(s) :
              t[k] = IF k <= Len(r) THEN r[k] ELSE s[k - Len(r)]
OBVIOUS

\* What is taken off the wire leaves the rest in order.
LEMMA OrderThinned ==
  ASSUME InOrder, UNCHANGED vehicles, NEW S, wire' \in Seq(S),
         \A j, k \in DOMAIN wire' : j <= k =>
           \E a, b \in DOMAIN wire : a <= b /\ wire'[j] = wire[a] /\ wire'[k] = wire[b],
         Held' => Held /\ Received' = Received,
         Slotted' => Slotted /\ pose_message' = pose_message
  PROVE  InOrder'
<1>1. \A j \in DOMAIN wire' : \E a \in DOMAIN wire : wire'[j] = wire[a]
  <2>1. \A j \in DOMAIN wire' : j <= j
    OBVIOUS
  <2> QED
    BY <2>1
<1>2. ASSUME NEW t, NoneOlder(t) PROVE NoneOlder(t)'
  BY <1>1, <1>2 DEF NoneOlder
<1>3. ASSUME NEW j \in DOMAIN wire', NEW k \in DOMAIN wire', j <= k
      PROVE  udp_message_to_pose(wire'[j]).drone.tick
               <= udp_message_to_pose(wire'[k]).drone.tick
  <2>1. PICK a \in DOMAIN wire, b \in DOMAIN wire :
          a <= b /\ wire'[j] = wire[a] /\ wire'[k] = wire[b]
    BY <1>3
  <2> QED
    BY <2>1 DEF InOrder
<1>4. Held' => \A k \in DOMAIN wire' :
        Received'.drone.tick <= udp_message_to_pose(wire'[k]).drone.tick
  BY <1>1 DEF InOrder
<1>5. Slotted' => NoneOlder(pose_message.drone.tick)'
  BY <1>2 DEF InOrder
<1>6. \A id \in DOMAIN vehicles : NoneOlder(vehicles[id].ned.tick)'
  BY <1>2 DEF InOrder
<1> QED
  BY <1>3, <1>4, <1>5, <1>6 DEF InOrder

LEMMA Lost ==
  ASSUME NEW S, wire \in Seq(S), Lose
  PROVE  /\ wire' \in Seq(S)
         /\ \A j, k \in DOMAIN wire' : j <= k =>
              \E a, b \in DOMAIN wire : a <= b /\ wire'[j] = wire[a] /\ wire'[k] = wire[b]
<1>1. PICK n \in 1 .. Len(wire) : wire' = RemoveAt(wire, n)
  BY DEF Lose
<1> DEFINE At(j) == IF j < n THEN j ELSE j + 1
<1>2. /\ wire' \in Seq(S) /\ Len(wire') = Len(wire) - 1
      /\ \A j \in 1 .. Len(wire) - 1 : wire'[j] = wire[At(j)]
  <2> DEFINE front == SubSeq(wire, 1, n - 1)
             back == SubSeq(wire, n + 1, Len(wire))
  <2>1. /\ front \in Seq(S) /\ Len(front) = n - 1
        /\ \A j \in 1 .. n - 1 : front[j] = wire[j]
    BY <1>1
  <2>2. /\ back \in Seq(S) /\ Len(back) = Len(wire) - n
        /\ \A j \in 1 .. Len(wire) - n : back[j] = wire[n + j]
    BY <1>1
  <2>3. wire' = front \o back
    BY <1>1 DEF RemoveAt
  <2> HIDE DEF front, back
  <2>4. /\ wire' \in Seq(S) /\ Len(wire') = Len(wire) - 1
        /\ \A j \in 1 .. Len(wire) - 1 :
             wire'[j] = IF j <= n - 1 THEN front[j] ELSE back[j - (n - 1)]
    <3>1. /\ wire' \in Seq(S) /\ Len(wire') = Len(front) + Len(back)
          /\ \A j \in 1 .. Len(front) + Len(back) :
               wire'[j] = IF j <= Len(front) THEN front[j] ELSE back[j - Len(front)]
      <4>1. front \in Seq(S) /\ back \in Seq(S)
        BY <2>1, <2>2
      <4> QED
        BY <2>3, <4>1, Joined
    <3>2. Len(front) = n - 1 /\ Len(front) + Len(back) = Len(wire) - 1
      BY <1>1, <2>1, <2>2
    <3> QED
      BY <3>1, <3>2
  <2>5. ASSUME NEW j \in 1 .. Len(wire) - 1
        PROVE  wire'[j] = wire[At(j)]
    <3>1. CASE j < n
      BY <1>1, <2>1, <2>4, <3>1
    <3>2. CASE ~(j < n)
      <4>1. j - (n - 1) \in 1 .. Len(wire) - n /\ n + (j - (n - 1)) = j + 1
        BY <1>1, <3>2
      <4> QED
        BY <1>1, <2>2, <2>4, <3>2, <4>1
    <3> QED
      BY <3>1, <3>2
  <2> QED
    BY <2>4, <2>5
<1>3. DOMAIN wire' = 1 .. Len(wire) - 1 /\ DOMAIN wire = 1 .. Len(wire) /\ Len(wire) \in Nat
  BY <1>2
<1>4. ASSUME NEW j \in DOMAIN wire', NEW k \in DOMAIN wire', j <= k
      PROVE  /\ At(j) \in DOMAIN wire /\ At(k) \in DOMAIN wire /\ At(j) <= At(k)
             /\ wire'[j] = wire[At(j)] /\ wire'[k] = wire[At(k)]
  BY <1>1, <1>2, <1>3, <1>4
<1> QED
  BY <1>2, <1>4

\* A datagram sent now is as late as any.
LEMMA OrderSends ==
  ASSUME TypeOK, BodyInv, LinkInv, SentBodies, VehicleOfSent, InOrder,
         [GazeboNext]_gvars, UNCHANGED receiverVars
  PROVE  InOrder'
<1>a. UNCHANGED <<vehicles, Received, Held, Slotted, pose_message>>
  BY DEF receiverVars, sharedVars, rxVars, Received, Held, Slotted
<1>1. CASE wire' = wire
  BY <1>a, <1>1 DEF InOrder, NoneOlder
<1>2. CASE wire' # wire
  <2>1. PICK m : Transmit(pose_to_udp_message(m)) /\ m.drone.tick = tick /\ m \in sent'
    BY <1>2, SendsNow DEF TypeOK
  <2>s. sent \subseteq sent'
    BY Sends
  <2> DEFINE u == pose_to_udp_message(m)
  <2>2. udp_message_to_pose(u).drone.tick = tick
    <3>1. m.drone \in Pose
      BY <2>1, StreamTypeStep, TypeStep DEF TypeOK, GazeboTypeOK, PoseMessage
    <3> QED
      BY <2>1, <3>1, RoundTrip, TruncatedPose
  <2>3. wire' = Append(wire, u) /\ wire \in Seq(Datagrams') /\ u \in Datagrams'
    <3>1. Datagrams \subseteq Datagrams' /\ u \in Datagrams'
      BY <2>1, <2>s DEF Datagrams
    <3> QED
      BY <1>2, <2>1, <3>1, SeqMonotone DEF Transmit, LinkInv
  <2> HIDE DEF u
  <2>a. /\ Len(wire) \in Nat /\ DOMAIN wire = 1 .. Len(wire)
        /\ DOMAIN wire' = 1 .. Len(wire) + 1
        /\ wire'[Len(wire) + 1] = u /\ \A k \in 1 .. Len(wire) : wire'[k] = wire[k]
    BY <2>3, Appended
  <2>4. ASSUME NEW k \in DOMAIN wire'
        PROVE  \/ k \in DOMAIN wire /\ wire'[k] = wire[k]
               \/ k = Len(wire) + 1 /\ wire'[k] = u
    BY <2>a
  <2>5. /\ \A k \in DOMAIN wire : k <= Len(wire) /\ k \in Nat
        /\ Len(wire) \in Nat
    BY <2>a
  <2>6. ASSUME NEW t \in Nat, t <= tick, NoneOlder(t)
        PROVE  NoneOlder(t)'
    BY <1>a, <2>2, <2>4, <2>6 DEF NoneOlder
  <2>7. \A j, k \in DOMAIN wire' : j <= k => udp_message_to_pose(wire'[j]).drone.tick
                                               <= udp_message_to_pose(wire'[k]).drone.tick
    BY <2>2, <2>4, <2>5, NoneAhead DEF InOrder
  <2>8. Held' => \A k \in DOMAIN wire' :
          Received'.drone.tick <= udp_message_to_pose(wire'[k]).drone.tick
    BY <1>a, <2>2, <2>4, NoneAhead DEF InOrder
  <2>9. Slotted' => NoneOlder(pose_message.drone.tick)'
    BY <1>a, <2>6, NoneAhead DEF InOrder
  <2>10. \A id \in DOMAIN vehicles : NoneOlder(vehicles[id].ned.tick)'
    BY <1>a, <2>6, NoneAhead DEF InOrder
  <2> QED
    BY <1>a, <2>7, <2>8, <2>9, <2>10 DEF InOrder
<1> QED
  BY <1>1, <1>2

\* The receiver takes the oldest datagram, and stores it whole.
LEMMA OrderReceives ==
  ASSUME TypeOK, LinkInv, InOrder, ReceiverThread(RxNext)
  PROVE  InOrder'
<1>a. UNCHANGED vehicles
  BY DEF ReceiverThread
<1>1. CASE RxDatagram
  <2>1. /\ rx_pc = "recv" /\ rx_pc' = "lock" /\ wire # << >>
        /\ Received' = udp_message_to_pose(Head(wire)) /\ wire' = Tail(wire)
        /\ UNCHANGED pose_message
    BY <1>1 DEF RxDatagram, RxGoto, sharedVars, Received
  <2>2. wire \in Seq(Datagrams)
    BY DEF LinkInv
  <2>3. /\ Head(wire) = wire[1] /\ Len(wire) \in Nat /\ DOMAIN wire = 1 .. Len(wire)
        /\ 1 \in DOMAIN wire /\ DOMAIN wire' = 1 .. Len(wire) - 1
        /\ \A k \in 1 .. Len(wire) - 1 : wire'[k] = wire[k + 1]
    BY <2>1, <2>2
  <2>4. ASSUME NEW k \in DOMAIN wire'
        PROVE  /\ k \in Nat /\ k + 1 \in DOMAIN wire /\ 1 <= k + 1
               /\ wire'[k] = wire[k + 1]
    BY <2>3
  <2>5. \A j, k \in DOMAIN wire' : j <= k => udp_message_to_pose(wire'[j]).drone.tick
                                               <= udp_message_to_pose(wire'[k]).drone.tick
    <3>1. ASSUME NEW j \in DOMAIN wire', NEW k \in DOMAIN wire', j <= k
          PROVE  udp_message_to_pose(wire'[j]).drone.tick
                   <= udp_message_to_pose(wire'[k]).drone.tick
      <4>1. j + 1 <= k + 1
        BY <2>4, <3>1
      <4> QED
        BY <2>4, <4>1 DEF InOrder
    <3> QED
      BY <3>1
  <2>6. \A k \in DOMAIN wire' :
          Received'.drone.tick <= udp_message_to_pose(wire'[k]).drone.tick
    BY <2>1, <2>3, <2>4 DEF InOrder
  <2>7. ASSUME NEW t, NoneOlder(t) PROVE NoneOlder(t)'
    BY <2>1, <2>3, <2>4, <2>7 DEF NoneOlder
  <2> QED
    BY <1>a, <2>1, <2>5, <2>6, <2>7 DEF InOrder, Slotted
<1>2. CASE RxUnlock
  <2>1. pose_message = Received
    BY <1>2, StoredWhole DEF TypeOK, LinkInv, RxUnlock, RxGoto
  <2>2. /\ UNCHANGED <<wire, pose_message, Received>> /\ (Held' => Held)
        /\ (Received.message_counter # 0 => Held)
    BY <1>2 DEF RxUnlock, RxGoto, Unlock, Received, Held
  <2>3. ASSUME NEW t, NoneOlder(t) PROVE NoneOlder(t)'
    BY <2>2, <2>3 DEF NoneOlder
  <2>4. Slotted' => Held
    BY <2>1, <2>2 DEF Slotted
  <2>5. Held => NoneOlder(Received.drone.tick)
    <3>1. Held => Received.drone.tick <= Received.drone.tick
      <4>1. Received.drone.tick \in Nat
        BY DecodedType DEF TypeOK, ReceiverTypeOK, RxTypeOK, Received, PoseMessage, Pose
      <4> QED
        BY <4>1
    <3> QED
      BY <3>1 DEF InOrder, NoneOlder
  <2>6. Slotted' => NoneOlder(pose_message.drone.tick)'
    BY <2>1, <2>2, <2>3, <2>4, <2>5
  <2>7. \A id \in DOMAIN vehicles : Slotted' => vehicles[id].ned.tick <= pose_message.drone.tick
    BY <2>1, <2>4 DEF InOrder, NoneOlder
  <2> QED
    BY <1>a, <2>2, <2>3, <2>6, <2>7 DEF InOrder
<1>3. CASE RxNothing \/ RxLock \/ RxStores
  <2>1. /\ UNCHANGED <<wire, Received>> /\ (Held' => Held)
        /\ (Slotted' => Slotted /\ pose_message' = pose_message)
    BY <1>3 DEF RxNothing, RxLock, Lock, RxStores, RxStore, StoreCounter, StoreDrone,
                StoreCamera, StoreDroneId, RxGoto, sharedVars, Received, Held, Slotted
  <2> QED
    BY <1>a, <2>1 DEF InOrder, NoneOlder
<1> QED
  BY <1>1, <1>2, <1>3 DEF ReceiverThread, RxNext

\* A vehicle moves to the message in the slot, or is not moved.
LEMMA OrderHandles ==
  ASSUME TypeOK, MutexInv, LinkInv, InOrder, HandlerThread(HandlerNext)
  PROVE  InOrder'
<1>1. UNCHANGED <<wire, pose_message, rxVars>>
  BY SlotKept
<1>2. UNCHANGED <<Received, Held, Slotted>>
  BY <1>1 DEF Received, Held, Slotted, rxVars
<1>3. CASE UNCHANGED vehicles
  BY <1>1, <1>2, <1>3 DEF InOrder, NoneOlder
<1>4. CASE vehicles' # vehicles
  <2>1. Spawns \/ Sets
    BY <1>4, HandlerCalls
  <2>2. h_pc \in {"spawn", "set"} /\ pose_message.message_counter # 0
    BY <2>1, NewIsNotZero DEF Spawns, Sets, DroneIsNew
  <2>3. Slotted
    BY <2>2 DEF TypeOK, ReceiverTypeOK, RxTypeOK, MutexInv, Slotted
  <2>4. pose_message.drone.tick \in Nat
    BY DEF TypeOK, ReceiverTypeOK, SharedTypeOK, PoseMessage, Pose
  <2>5. ASSUME NEW id \in DOMAIN vehicles'
        PROVE  NoneOlder(vehicles'[id].ned.tick)
               /\ vehicles'[id].ned.tick <= pose_message.drone.tick
    <3>1. CASE id \in DOMAIN vehicles /\ vehicles'[id] = vehicles[id]
      BY <2>3, <3>1 DEF InOrder
    <3>2. CASE vehicles'[id].ned = pose_message.drone
      BY <2>3, <2>4, <3>2 DEF InOrder
    <3> QED
      BY <2>1, <3>1, <3>2, SpawnedVehicle, SetVehicle DEF ShownAt
  <2> QED
    BY <1>1, <1>2, <2>5 DEF InOrder, NoneOlder
<1> QED
  BY <1>3, <1>4

LEMMA OrderStep ==
  ASSUME LinkFaults \subseteq {"lose"}, RecvMayFail => CleanBuffer,
         TypeOK, BodyInv, MutexInv, LinkInv, SentBodies, VehicleOfSent, InOrder,
         [RestartNext]_restartVars
  PROVE  InOrder'
<1>1. CASE [GazeboNext]_gvars /\ UNCHANGED receiverVars
  BY <1>1, OrderSends
<1>2. CASE LinkNext /\ UNCHANGED <<gazeboVars, receiverVars>>
  <2>1. Lose
    BY <1>2 DEF LinkNext, Duplicate, Overtake
  <2> QED
    BY <1>2, <2>1, Lost, OrderThinned
       DEF LinkInv, receiverVars, sharedVars, rxVars, Received, Held, Slotted
<1>3. CASE ReceiverThread(RxNext)
  BY <1>3, OrderReceives
<1>4. CASE HandlerThread(HandlerNext)
  BY <1>4, OrderHandles
<1>5. CASE ReceiverStarts
  <2>1. ~Held' /\ ~Slotted' /\ UNCHANGED vehicles
    BY <1>5, ReceiverAssumption
       DEF ReceiverStarts, ThreadsStart, Held, Slotted, ZeroMessage, CleanBuffer, Received
  <2> QED
    BY <1>5, <2>1, WireLeft, OrderThinned DEF LinkInv
<1>6. CASE UNCHANGED <<wire, pose_message, rxVars, vehicles>>
  BY <1>6 DEF InOrder, NoneOlder, Held, Slotted, Received, rxVars
<1> QED
  BY <1>1, <1>2, <1>3, <1>4, <1>5, <1>6, RestartSteps, Steps
     DEF SenderStarts, receiverVars, sharedVars

-----------------------------------------------------------------------------
(***************************************************************************)
(* The refinement of PoseMirror, across restarts.                          *)
(***************************************************************************)
OrderConditions ==
  /\ Numbered
  /\ LinkFaults \subseteq {"lose"}
  /\ RecvMayFail => CleanBuffer

\* The parts that hold over any link, and the order of one that only loses.
AcrossInv ==
  /\ RestartTypeOK /\ BodyInv /\ MutexInv /\ LinkInv
  /\ SentBodies /\ VehicleOfSent
  /\ NumberedInv /\ SentNumbered

LEMMA AcrossInit ==
  ASSUME RecvMayFail => CleanBuffer
  PROVE  RestartInit => AcrossInv /\ InOrder
<1> SUFFICES ASSUME RestartInit PROVE AcrossInv /\ InOrder
  OBVIOUS
<1>1. RestartTypeOK /\ BodyInv /\ MutexInv /\ LinkInv
  BY RestartTypeInit, MutexInit, LinkInit DEF RestartInit, Init
<1>2. /\ sent = {} /\ DOMAIN droneIds = {} /\ DOMAIN vehicles = {} /\ wire = << >>
      /\ pose_message = ZeroMessage /\ rx_pc = "recv" /\ udp_pose_message \in StackContents
  BY DEF RestartInit, Init, GazeboInit, IdsInit, ReceiverInit, AirSimInit, WireInit,
         SharedInit, RxInit
<1>3. SentBodies /\ VehicleOfSent /\ NumberedInv /\ SentNumbered
  BY <1>2 DEF SentBodies, VehicleOfSent, NumberedInv, SentNumbered
<1>4. ~Held /\ ~Slotted /\ DOMAIN wire = {}
  BY <1>2, ReceiverAssumption DEF Held, Slotted, CleanBuffer, Received, ZeroMessage
<1> QED
  BY <1>1, <1>2, <1>3, <1>4 DEF AcrossInv, InOrder, NoneOlder

LEMMA AcrossStep ==
  ASSUME Numbered, RecvMayFail => CleanBuffer, AcrossInv, [RestartNext]_restartVars
  PROVE  AcrossInv'
<1>1. RestartTypeOK' /\ BodyInv' /\ TypeOK
  BY RestartTypeStep DEF AcrossInv, RestartTypeOK
<1>2. MutexInv' /\ LinkInv' /\ SentBodies' /\ VehicleOfSent'
  BY <1>1, MutexAcross, LinkAcross, SentBodiesStep, VehicleOfSentStep DEF AcrossInv
<1> QED
  BY <1>1, <1>2, SentNumberedStep DEF AcrossInv

LEMMA SameTruncated ==
  ASSUME NEW p \in Pose, NEW q \in Pose,
         p.model = q.model, p.link = q.link, p.tick = q.tick, p.xi = q.xi
  PROVE  Truncated(p) = Truncated(q)
<1>1. /\ Truncated(p) \in Pose /\ Truncated(q) \in Pose
      /\ Truncated(p).model = Truncated(q).model /\ Truncated(p).link = Truncated(q).link
      /\ Truncated(p).tick = Truncated(q).tick /\ Truncated(p).xi = Truncated(q).xi
      /\ Truncated(p).fixed = TRUE /\ Truncated(q).fixed = TRUE
  BY DEF Truncated, Pose
<1>2. ASSUME NEW r \in Pose, NEW s \in Pose, r.model = s.model, r.link = s.link,
             r.tick = s.tick, r.xi = s.xi, r.fixed = s.fixed
      PROVE  r = s
  BY <1>2 DEF Pose
<1> QED
  BY <1>1, <1>2

\* Two messages under one id are of one drone; of one update, they show one pose.
LEMMA OneBodyPerId ==
  ASSUME Numbered, SentNumbered, SentBodies, sent \subseteq PoseMessage,
         NEW m \in sent, NEW n \in sent, m.drone_id = n.drone_id
  PROVE  /\ m.drone.model = n.drone.model
         /\ m.drone.tick = n.drone.tick => Truncated(m.drone) = Truncated(n.drone)
<1>1. ASSUME NEW k \in sent
      PROVE  /\ k.drone.model \in Models /\ GidSuffix[k.drone.model] # OutOfRange
             /\ k.drone_id = Uint16(GidSuffix[k.drone.model])
  BY <1>1, IdAssumption DEF SentNumbered
<1>2. m.drone.model = n.drone.model
  BY <1>1 DEF Numbered
<1>3. /\ m.drone \in Pose /\ n.drone \in Pose
      /\ m.drone.link = "body" /\ n.drone.link = "body"
      /\ m.drone.xi = OtherXi /\ n.drone.xi = OtherXi
  BY DEF SentBodies, PoseMessage, Pose
<1> QED
  BY <1>2, <1>3, SameTruncated

\* A vehicle that is set moves to a later pose of its drone, or stays.
LEMMA SetMovesAcross ==
  ASSUME Numbered, AcrossInv, InOrder, Sets, UNCHANGED sent
  PROVE  [Mirror!MirrorNext]_<<sent, vehicles>>
<1>a. TypeOK /\ MutexInv /\ LinkInv
  BY DEF AcrossInv, RestartTypeOK
<1>1. /\ h_pc = "set" /\ MessageIsNew
      /\ pose_message.drone_id \in DOMAIN vehicles
      /\ vehicles' = [vehicles EXCEPT ![pose_message.drone_id] =
                        ShownAt(pose_message.drone, 0)]
  BY DEF Sets, set_vehicle_pose
<1>2. pose_message.message_counter # 0
  BY <1>1, <1>a, NewIsNotZero
<1>3. PICK m \in sent : /\ m.drone_id = pose_message.drone_id
                        /\ Truncated(m.drone) = pose_message.drone
  BY <1>1, <1>2, <1>a, HandlerReadsSent
<1>4. PICK n \in sent : n.drone_id = m.drone_id
                        /\ vehicles[m.drone_id].ned = Truncated(n.drone)
  BY <1>1, <1>3 DEF AcrossInv, VehicleOfSent
<1>5. sent \subseteq PoseMessage /\ m.drone \in Pose /\ n.drone \in Pose
  BY <1>a DEF TypeOK, GazeboTypeOK, PoseMessage
<1>6. m.drone.tick \in Nat /\ n.drone.tick \in Nat /\ n.drone.tick <= m.drone.tick
  <2>1. Slotted
    BY <1>1, <1>2, <1>a DEF TypeOK, ReceiverTypeOK, RxTypeOK, MutexInv, Slotted
  <2>2. vehicles[m.drone_id].ned.tick <= pose_message.drone.tick
    BY <1>1, <1>3, <2>1 DEF InOrder
  <2> QED
    BY <1>3, <1>4, <1>5, <2>2, TruncatedPose DEF Pose
<1>7. /\ m.drone.model = n.drone.model
      /\ m.drone.tick = n.drone.tick => Truncated(m.drone) = Truncated(n.drone)
  BY <1>4, <1>5, OneBodyPerId DEF AcrossInv
<1>8. /\ vehicles[m.drone_id].ned.model = m.drone.model
      /\ vehicles[m.drone_id].ned.tick = n.drone.tick
  <2>1. Truncated(n.drone).model = n.drone.model /\ Truncated(n.drone).tick = n.drone.tick
    BY <1>5, TruncatedPose
  <2> QED
    BY <1>4, <1>7, <2>1
<1>9. CASE Mirror!Newer(m.drone, vehicles[m.drone_id])
  <2>1. Mirror!Move(m)
    BY <1>1, <1>3, <1>8, <1>9 DEF Mirror!Move, ShownAt, Truncated, Mirror!Truncated
  <2> QED
    BY <2>1 DEF Mirror!MirrorNext
<1>10. CASE ~Mirror!Newer(m.drone, vehicles[m.drone_id])
  <2>1. m.drone.tick = n.drone.tick /\ vehicles[m.drone_id].offset = 0
    BY <1>6, <1>8, <1>10 DEF Mirror!Newer
  <2>2. vehicles[m.drone_id] \in Shown /\ vehicles \in [DOMAIN vehicles -> Shown]
    BY <1>1, <1>3, <1>a DEF TypeOK, ReceiverTypeOK, AirSimTypeOK
  <2>3. vehicles[m.drone_id] = ShownAt(pose_message.drone, 0)
    BY <1>3, <1>4, <1>7, <2>1, <2>2 DEF Shown, ShownAt
  <2>4. vehicles' = vehicles
    BY <1>1, <1>3, <2>2, <2>3
  <2> QED
    BY <2>4
<1> QED
  BY <1>9, <1>10

\* No step takes a vehicle away.
LEMMA VehiclesStay ==
  ASSUME [RestartNext]_restartVars
  PROVE  DOMAIN vehicles \subseteq DOMAIN vehicles'
<1>1. CASE HandlerThread(HandlerNext)
  BY <1>1, HandlerCalls, VehiclesKept, SetVehicle
<1>2. CASE UNCHANGED vehicles
  BY <1>2
<1> QED
  BY <1>1, <1>2, RestartSteps, Steps, HandlerVarsKept
     DEF SenderStarts, ReceiverStarts, receiverVars

LEMMA MirrorStepAcross ==
  ASSUME Numbered, AcrossInv, InOrder, [RestartNext]_restartVars
  PROVE  [Mirror!MirrorNext]_<<sent, vehicles>>
<1>1. CASE UNCHANGED vehicles
  BY <1>1, SentGrowsAcross DEF Mirror!MirrorNext, Mirror!Publish
<1>2. CASE ~UNCHANGED vehicles
  <2>1. HandlerThread(HandlerNext) /\ UNCHANGED sent
    BY <1>2, RestartSteps, Steps, HandlerVarsKept
       DEF gazeboVars, SenderStarts, ReceiverStarts, receiverVars
  <2>2. Spawns \/ Sets
    BY <1>2, <2>1, HandlerCalls
  <2> QED
    BY <2>1, <2>2, SpawnAppears, SetMovesAcross DEF AcrossInv, RestartTypeOK
<1> QED
  BY <1>1, <1>2

(***************************************************************************)
(* Over any link: a vehicle keeps its drone if names carry numbers, in     *)
(* whatever order datagrams of old and new processes arrive.               *)
(***************************************************************************)
THEOREM DronesKeepVehicles ==
  ASSUME Numbered, RecvMayFail => CleanBuffer
  PROVE  RestartSpec => VehicleKeepsItsDrone
<1>1. RestartInit => AcrossInv
  BY AcrossInit
<1>2. AcrossInv /\ [RestartNext]_restartVars => AcrossInv'
  BY AcrossStep
<1>3. ASSUME AcrossInv, AcrossInv', [RestartNext]_restartVars
      PROVE  [\A id \in DOMAIN vehicles :
                /\ id \in DOMAIN vehicles'
                /\ vehicles'[id].ned.model = vehicles[id].ned.model]_vehicles
  <2>1. DOMAIN vehicles \subseteq DOMAIN vehicles'
    BY <1>3, VehiclesStay
  <2>2. ASSUME NEW id \in DOMAIN vehicles
        PROVE  vehicles'[id].ned.model = vehicles[id].ned.model
    <3>1. PICK n \in sent : n.drone_id = id /\ vehicles[id].ned = Truncated(n.drone)
      BY <1>3 DEF AcrossInv, VehicleOfSent
    <3>2. PICK m \in sent' : m.drone_id = id /\ vehicles'[id].ned = Truncated(m.drone)
      BY <1>3, <2>1 DEF AcrossInv, VehicleOfSent
    <3>3. n \in sent'
      BY <1>3, SentGrowsAcross
    <3>4. sent' \subseteq PoseMessage
      BY <1>3 DEF AcrossInv, RestartTypeOK, TypeOK, GazeboTypeOK
    <3>5. ASSUME NEW k \in sent'
          PROVE  /\ k.drone.model \in Models /\ GidSuffix[k.drone.model] # OutOfRange
                 /\ k.drone_id = Uint16(GidSuffix[k.drone.model])
                 /\ Truncated(k.drone).model = k.drone.model
      BY <1>3, <3>4, <3>5, IdAssumption, TruncatedPose
         DEF AcrossInv, SentNumbered, PoseMessage
    <3>6. m.drone.model = n.drone.model
      BY <3>1, <3>2, <3>3, <3>5 DEF Numbered
    <3> QED
      BY <3>1, <3>2, <3>3, <3>5, <3>6
  <2> QED
    BY <2>1, <2>2
<1> QED
  BY <1>1, <1>2, <1>3, PTL DEF RestartSpec, VehicleKeepsItsDrone

(***************************************************************************)
(* Whenever the programs are stopped and started again, AirSim mirrors     *)
(* Gazebo, if names carry numbers and datagrams may be lost but arrive in  *)
(* order: no vehicle goes back or changes hands, whatever order updates    *)
(* list bodies and cameras in and however far count has come.              *)
(***************************************************************************)
THEOREM MirrorsAcrossRestarts ==
  ASSUME OrderConditions
  PROVE  RestartSpec => MirrorsGazebo
<1>a. Numbered /\ LinkFaults \subseteq {"lose"} /\ (RecvMayFail => CleanBuffer)
  BY DEF OrderConditions
<1>1. RestartInit => AcrossInv /\ InOrder
  BY <1>a, AcrossInit
<1>2. AcrossInv /\ InOrder /\ [RestartNext]_restartVars => (AcrossInv /\ InOrder)'
  <2> SUFFICES ASSUME AcrossInv, InOrder, [RestartNext]_restartVars
               PROVE  AcrossInv' /\ InOrder'
    OBVIOUS
  <2>1. InOrder'
    BY <1>a, OrderStep DEF AcrossInv, RestartTypeOK
  <2> QED
    BY <1>a, <2>1, AcrossStep
<1>3. AcrossInv /\ InOrder /\ [RestartNext]_restartVars
        => [Mirror!MirrorNext]_<<sent, vehicles>>
  BY <1>a, MirrorStepAcross
<1>4. RestartInit => Mirror!MirrorInit
  BY MirrorStarts DEF RestartInit
<1>5. RestartSpec => Mirror!MirrorInit /\ [][Mirror!MirrorNext]_<<sent, vehicles>>
  BY <1>1, <1>2, <1>3, <1>4, PTL DEF RestartSpec
<1> QED
  BY <1>5 DEF MirrorsGazebo, Mirror!MirrorSpec

-----------------------------------------------------------------------------
(***************************************************************************)
(* The addresses a program tries when it starts.                           *)
(***************************************************************************)

\* The natural numbers are well-ordered.
LEMMA HasLeast ==
  ASSUME NEW T, T \subseteq Nat, T # {}
  PROVE  \E x \in T : \A y \in T : x <= y
<1> DEFINE R == OpToRel(<, Nat)
<1>1. IsWellFoundedOn(R, Nat)
  BY NatLessThanWellFounded
<1> HIDE DEF R
<1>2. PICK x \in T : \A y \in T : <<y, x>> \notin R
  BY <1>1, WFMin
<1>3. \A y \in T : ~(y < x)
  BY <1>2 DEF R, OpToRel
<1> QED
  BY <1>2, <1>3

\* The loop from address k on, and where it ends.
FromHere(os, f) ==
  f = [k \in 1 .. Len(os) + 1 |->
         IF k > Len(os) THEN 0 ELSE IF os[k] = "ready" THEN k ELSE f[k + 1]]

EndsAt(os, k, e) ==
  /\ e \in k .. Len(os) + 1
  /\ \A j \in k .. e - 1 : os[j] # "ready"
  /\ e <= Len(os) => os[e] = "ready"

\* From any address on the loop has an end.
LEMMA LoopEnds ==
  ASSUME NEW os \in Seq(Outcomes), NEW k \in 1 .. Len(os) + 1
  PROVE  \E e \in Nat : EndsAt(os, k, e)
<1> DEFINE Stops(e) == e > Len(os) \/ os[e] = "ready"
           T == {e \in k .. Len(os) + 1 : Stops(e)}
<1>0. Len(os) \in Nat
  OBVIOUS
<1>1. T \subseteq Nat /\ T # {}
  <2>1. Len(os) + 1 \in T
    BY <1>0
  <2> QED
    BY <1>0, <2>1
<1>2. PICK e \in T : \A y \in T : e <= y
  <2> HIDE DEF T
  <2> QED
    BY <1>1, HasLeast
<1>3. ASSUME NEW j \in k .. e - 1 PROVE os[j] # "ready"
  <2>1. j \notin T /\ j \in k .. Len(os) + 1
    BY <1>0, <1>2, <1>3
  <2> QED
    BY <2>1
<1> QED
  BY <1>0, <1>2, <1>3 DEF EndsAt

\* The recursion has a solution.
LEMMA LoopExists ==
  ASSUME NEW os \in Seq(Outcomes)
  PROVE  \E f : FromHere(os, f)
<1> DEFINE End(k) == CHOOSE e \in Nat : EndsAt(os, k, e)
           g == [k \in 1 .. Len(os) + 1 |-> IF End(k) > Len(os) THEN 0 ELSE End(k)]
<1>0. Len(os) \in Nat
  OBVIOUS
<1>1. ASSUME NEW k \in 1 .. Len(os) + 1 PROVE EndsAt(os, k, End(k)) /\ End(k) \in Nat
  <2>1. \E e \in Nat : EndsAt(os, k, e)
    BY LoopEnds
  <2> QED
    BY <2>1
<1> HIDE DEF End
<1>2. ASSUME NEW k \in 1 .. Len(os) + 1
      PROVE  g[k] = IF k > Len(os) THEN 0 ELSE IF os[k] = "ready" THEN k ELSE g[k + 1]
  <2>1. CASE k > Len(os)
    BY <1>0, <1>1, <2>1 DEF EndsAt
  <2>2. CASE k <= Len(os) /\ os[k] = "ready"
    <3>1. End(k) = k
      <4>1. ~(k < End(k))
        BY <1>0, <1>1, <2>2 DEF EndsAt
      <4> QED
        BY <1>0, <1>1, <4>1 DEF EndsAt
    <3> QED
      BY <1>0, <2>2, <3>1
  <2>3. CASE k <= Len(os) /\ os[k] # "ready"
    <3>1. k + 1 \in 1 .. Len(os) + 1
      BY <1>0, <2>3
    <3>2. EndsAt(os, k + 1, End(k + 1)) /\ End(k + 1) \in Nat
      BY <1>1, <3>1
    <3>3. End(k) # k
      BY <1>0, <1>1, <2>3 DEF EndsAt
    <3>4. End(k) = End(k + 1)
      <4>1. ~(End(k) < End(k + 1))
        BY <1>0, <1>1, <3>2, <3>3 DEF EndsAt
      <4>2. ~(End(k + 1) < End(k))
        BY <1>0, <1>1, <3>2, <3>3 DEF EndsAt
      <4> QED
        BY <1>1, <3>2, <4>1, <4>2
    <3> QED
      BY <1>0, <2>3, <3>1, <3>4
  <2> QED
    BY <1>0, <2>1, <2>2, <2>3
<1>3. FromHere(os, g)
  BY <1>2 DEF FromHere
<1> QED
  BY <1>3

\* So that create_socket is what its loop says.
LEMMA LoopUnfolds ==
  ASSUME NEW os \in Seq(Outcomes)
  PROVE  \E f : FromHere(os, f) /\ create_socket(os) = f[1]
<1> DEFINE rp == CHOOSE f : FromHere(os, f)
<1>1. FromHere(os, rp)
  BY LoopExists, Zenon
<1>2. create_socket(os) = rp[1]
  BY DEF create_socket, FromHere
<1> QED
  BY <1>1, <1>2

(***************************************************************************)
(* The loop over the addresses ends, with the first one of which a socket  *)
(* could be opened and connected or bound; it ends with none, and the      *)
(* program with it, only if there is none.                                 *)
(***************************************************************************)
THEOREM FirstAddress ==
  ASSUME NEW os \in Seq(Outcomes)
  PROVE  \/ /\ ~Usable(os)
            /\ \A j \in DOMAIN os : os[j] # "ready"
         \/ /\ Usable(os)
            /\ create_socket(os) \in DOMAIN os
            /\ os[create_socket(os)] = "ready"
            /\ \A j \in 1 .. create_socket(os) - 1 : os[j] # "ready"
<1>0. Len(os) \in Nat /\ DOMAIN os = 1 .. Len(os)
  OBVIOUS
<1>1. PICK rp : FromHere(os, rp) /\ create_socket(os) = rp[1]
  BY LoopUnfolds
<1>2. \A k \in 1 .. Len(os) + 1 :
        rp[k] = IF k > Len(os) THEN 0 ELSE IF os[k] = "ready" THEN k ELSE rp[k + 1]
  BY <1>1 DEF FromHere
<1>3. 1 \in 1 .. Len(os) + 1
  BY <1>0
<1>4. PICK e \in Nat : EndsAt(os, 1, e)
  BY <1>3, LoopEnds
<1>5. e \in 1 .. Len(os) + 1 /\ \A j \in 1 .. e - 1 : os[j] # "ready"
  BY <1>4 DEF EndsAt
<1>6. rp[1] = rp[e]
  <2> DEFINE Differ == {k \in 1 .. e : rp[k] # rp[1]}
  <2>1. Differ = {}
    <3> SUFFICES ASSUME Differ # {} PROVE FALSE
      OBVIOUS
    <3>1. PICK b \in Differ : \A y \in Differ : b <= y
      <4>1. Differ \subseteq Nat
        BY <1>5
      <4> HIDE DEF Differ
      <4> QED
        BY <4>1, HasLeast
    <3>2. b \in 2 .. e /\ rp[b] # rp[1]
      BY <1>5, <3>1
    <3>3. b - 1 \in 1 .. e - 1 /\ b - 1 \notin Differ /\ b - 1 \in 1 .. e
      BY <1>5, <3>1, <3>2
    <3>4. rp[b - 1] = rp[1]
      BY <3>3
    <3>5. b - 1 \in 1 .. Len(os) + 1 /\ ~(b - 1 > Len(os)) /\ os[b - 1] # "ready"
      BY <1>0, <1>5, <3>3
    <3>6. rp[b - 1] = rp[(b - 1) + 1]
      BY <1>2, <3>5
    <3>7. (b - 1) + 1 = b
      BY <3>2
    <3> QED
      BY <3>2, <3>4, <3>6, <3>7
  <2>2. e \in 1 .. e
    BY <1>5
  <2> QED
    BY <2>1, <2>2
<1>7. CASE e > Len(os)
  BY <1>0, <1>1, <1>2, <1>5, <1>6, <1>7 DEF Usable
<1>8. CASE e <= Len(os)
  BY <1>0, <1>1, <1>2, <1>4, <1>5, <1>6, <1>8 DEF Usable, EndsAt
<1> QED
  BY <1>5, <1>0, <1>7, <1>8

=============================================================================
