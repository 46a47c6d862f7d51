---------------------------- MODULE PoseTransfer ----------------------------
(***************************************************************************)
(* The data that travels from Gazebo to AirSim: the structs of pose.hpp    *)
(* and the conversions UDPSender and UDPReceiver apply to them.            *)
(*                                                                         *)
(* A Pose is seven doubles.  What the properties tell apart is whose pose  *)
(* it is, which link it was read from, which Gazebo update it belongs to,  *)
(* whether its orientation x equals the sentinel -1.0, and whether it has  *)
(* been truncated to the five decimals of the wire format.                 *)
(***************************************************************************)
EXTENDS Integers

CONSTANTS
  Models,   \* the top-level models of the Gazebo world
  NoModel   \* stands for "no model" in poses nobody published

ASSUME ModelsAssumption == NoModel \notin Models

Sentinel == -1   \* the value -1.0 that marks a pose as not yet seen
OtherXi == 0     \* any other value of the orientation's x component

Pose == [model : Models \cup {NoModel}, link : {"body", "camera", "none"},
         tick : Nat, xi : {Sentinel, OtherXi}, fixed : BOOLEAN]

\* All fields -1.0: a pose that has not been seen in this update.
UnsetPose == [model |-> NoModel, link |-> "none", tick |-> 0,
              xi |-> Sentinel, fixed |-> FALSE]

\* All bytes zero.
ZeroPose == [model |-> NoModel, link |-> "none", tick |-> 0,
             xi |-> OtherXi, fixed |-> TRUE]

PoseMessage == [message_counter : Nat, drone : Pose, camera : Pose, drone_id : Nat]

ZeroMessage == [message_counter |-> 0, drone |-> ZeroPose,
                camera |-> ZeroPose, drone_id |-> 0]

-----------------------------------------------------------------------------
(* A field in network byte order holds the value but is not the value.     *)
hton(v) == [net |-> v]
ntoh(w) == w.net

(* Doubles travel as integers scaled by udp_decimal_offset.                *)
Truncated(p) == [p EXCEPT !.fixed = TRUE]

pose_to_udp_message(m) ==
  [message_counter |-> hton(m.message_counter),
   drone           |-> hton(Truncated(m.drone)),
   camera          |-> hton(Truncated(m.camera)),
   drone_id        |-> hton(m.drone_id)]

udp_message_to_pose(u) ==
  [message_counter |-> ntoh(u.message_counter),
   drone           |-> ntoh(u.drone),
   camera          |-> ntoh(u.camera),
   drone_id        |-> ntoh(u.drone_id)]

UdpPoseMessage ==
  [message_counter : [net : Nat], drone : [net : Pose],
   camera : [net : Pose], drone_id : [net : Nat]]

=============================================================================
