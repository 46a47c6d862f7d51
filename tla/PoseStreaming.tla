---------------------------- MODULE PoseStreaming ----------------------------
(***************************************************************************)
(* The pose streamer: send_drone_pose next to Gazebo, the UDP link, and    *)
(* receive_drone_pose next to AirSim.  print_pose is left out: it writes   *)
(* nothing the others read, and AnySender shows that it gives the mutex    *)
(* back to them.                                                           *)
(***************************************************************************)
EXTENDS GazeboDronePose, ReceiveDronePose

vars == <<gazeboVars, wire, receiverVars>>

Init == GazeboInit /\ WireInit /\ ReceiverInit

Sender == GazeboNext /\ UNCHANGED receiverVars
Link == LinkNext /\ UNCHANGED <<gazeboVars, receiverVars>>
Receiver == PosePath /\ UNCHANGED gazeboVars

Next == Sender \/ Link \/ Receiver

Spec == Init /\ [][Next]_vars

(***************************************************************************)
(* Gazebo may stop publishing between two updates, but the callback it has *)
(* called runs to its end.                                                 *)
(***************************************************************************)
CallbackStep ==
  DroneBodyPose \/ DroneNameThrows \/ CameraPose \/ OtherLinkPose \/ CallbackEnds

Fairness ==
  /\ WF_vars(CallbackStep /\ UNCHANGED receiverVars)
  /\ PosePathFairness

FairSpec == Spec /\ Fairness

TypeOK == GazeboTypeOK /\ ReceiverTypeOK /\ wire \in Seq(UdpPoseMessage)

-----------------------------------------------------------------------------
(***************************************************************************)
(* "Each drone gets a unique name and will only receive its relevant       *)
(* poses" (README.md:137): the vehicle with an id shows the body pose of   *)
(* the one Gazebo model the sender gave that id.                           *)
(***************************************************************************)
VehicleShowsItsDrone ==
  \A id \in DOMAIN vehicles :
    LET shown == vehicles[id].ned IN
    /\ shown.link = "body"
    /\ {m \in DOMAIN droneIds : droneIds[m] = id} = {shown.model}

(***************************************************************************)
(* AirSim mirrors Gazebo: the pipeline implements PoseMirror.              *)
(***************************************************************************)
Mirror == INSTANCE PoseMirror WITH published <- sent, shown <- vehicles

MirrorsGazebo == Mirror!MirrorSpec

(***************************************************************************)
(* Over a link that keeps every datagram, no update is lost on AirSim:     *)
(* after an update past the first has been sent, some vehicle comes to     *)
(* show it or a later one.  (Update 0 has counter 0, which the handler     *)
(* takes for "nothing received".)                                          *)
(***************************************************************************)
UpdatesReachAirSim ==
  \A t \in 1 .. MaxCallbacks - 1 :
    (\E m \in sent : m.drone.tick = t)
      ~> (\E id \in DOMAIN vehicles : vehicles[id].ned.tick >= t)

(***************************************************************************)
(* "If multiple drones exist in the gazebo simulation, the same number of  *)
(* drones will be spawned in AirSim" (README.md:137): a drone whose poses  *)
(* are sent, past the first update, gets a vehicle.                        *)
(***************************************************************************)
EveryDroneSpawned ==
  \A m \in Models :
    (\E s \in sent : s.drone.model = m /\ s.message_counter # 0)
      ~> (m \in DOMAIN droneIds /\ droneIds[m] \in DOMAIN vehicles)

-----------------------------------------------------------------------------
(***************************************************************************)
(* Why AirSim mirrors Gazebo: the parts of the inductive invariant.        *)
(***************************************************************************)

TickInv == tick <= MaxCallbacks /\ (i # 0 => tick < MaxCallbacks)

\* What is sent of a message, and what the receiver makes of it.
Datagrams == {pose_to_udp_message(m) : m \in sent}
OfSent(r) == \E m \in sent : r = udp_message_to_pose(pose_to_udp_message(m))

\* Messages the handler may act on have been sent; it ignores counter 0.
Genuine == {r \in PoseMessage : r.message_counter # 0 => OfSent(r)}

LinkInv ==
  /\ wire \in Seq(Datagrams)
  /\ RecvMayFail \/ rx_pc # "recv" => Received \in Genuine
  /\ SlotIn(Genuine)
  /\ StoredInv

\* Where a vehicle is, and that the message to set next, if any, is no older.
ShowsSent(id, m) ==
  /\ m.drone_id = id /\ vehicles[id].ned = Truncated(m.drone)
  /\ \/ m.message_counter <= msg_count
     \/ /\ h_pc = "set" /\ m.message_counter <= pose_message.message_counter
        /\ vehicles[id].offset # 0
     \/ ~receiver_up

VehicleInv == \A id \in DOMAIN vehicles : \E m \in sent : ShowsSent(id, m)

=============================================================================
