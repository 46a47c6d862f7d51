--------------------------- MODULE GazeboDronePose ---------------------------
(***************************************************************************)
(* GenerateCbLocalPose::cbLocalPose, the callback Gazebo's transport runs  *)
(* for every update of "~/pose/local/info", and UDPSender's part in it.    *)
(*                                                                         *)
(* An update is a sequence of entries; each is the pose of a model ("body",*)
(* a name without "::"), of its cgo3_camera_link, or of another link.  The *)
(* callback pairs a body with a camera by the order in which the entries   *)
(* come, and sends a message as soon as it holds one of each.              *)
(***************************************************************************)
EXTENDS DroneIds, UdpLink, FiniteSets

CONSTANTS
  Updates,       \* the updates Gazebo may publish
  MaxCallbacks,  \* bound on the number of updates
  IntMax,        \* largest int: 2^31 - 1 in the code
  Uint64Space    \* number of values of a uint64_t

Entry == [model : Models, link : {"body", "camera", "other"},
          xi : {Sentinel, OtherXi}]

ASSUME GazeboAssumption ==
  /\ Updates \subseteq Seq(Entry)
  /\ MaxCallbacks \in Nat
  /\ IntMax \in Nat
  /\ Uint64Space \in Nat
  /\ Uint64Space >= 4 * (IntMax + 1)

VARIABLES
  sender_up,           \* FALSE once an exception ended the process
  count,               \* static int of cbLocalPose
  tick,                \* updates handled so far (what count should be)
  update,              \* the update of the running callback
  i,                   \* index of the next entry; 0 between two callbacks
  drone_pose, camera_pose, current_drone_name,   \* the callback's locals
  sent                 \* every message passed to send_pose_message so far

cbVars == <<update, i, drone_pose, camera_pose, current_drone_name>>
gazeboVars == <<sender_up, count, tick, cbVars, sent, idVars>>

\* Mutant: a counter that stays at its largest value.
NextInt_Saturates(n) == IF n = IntMax THEN n ELSE n + 1

\* ++count.  Its overflow is undefined in C++; the build wraps it to the
\* smallest int.
NextInt(n) == IF n = IntMax THEN -IntMax - 1 ELSE n + 1

\* Mutant: no conversion.
Uint64_Signed(n) == n

\* The conversion of an int to uint64_t.
Uint64(n) == IF n < 0 THEN n + Uint64Space ELSE n

GazeboInit ==
  /\ IdsInit
  /\ sender_up = TRUE
  /\ count = 0 /\ tick = 0
  /\ update = << >> /\ i = 0
  /\ drone_pose = UnsetPose /\ camera_pose = UnsetPose
  /\ current_drone_name = NoModel
  /\ sent = {}

-----------------------------------------------------------------------------
send_pose_message(m) ==
  /\ Transmit(pose_to_udp_message(m))
  /\ sent' = sent \cup {m}

\* Mutant: the camera pose is not reset.
SendIfComplete_KeepsCamera(d, c, name) ==
  \/ /\ d.xi # Sentinel /\ c.xi # Sentinel
     /\ send_pose_message([message_counter |-> Uint64(count), drone |-> d,
                           camera |-> c, drone_id |-> droneIds'[name]])
     /\ drone_pose' = UnsetPose /\ camera_pose' = c
  \/ /\ ~(d.xi # Sentinel /\ c.xi # Sentinel)
     /\ drone_pose' = d /\ camera_pose' = c
     /\ UNCHANGED <<wire, sent>>

\* After each entry: with both poses seen, send them and forget them.
SendIfComplete(d, c, name) ==
  \/ /\ d.xi # Sentinel /\ c.xi # Sentinel
     /\ send_pose_message([message_counter |-> Uint64(count), drone |-> d,
                           camera |-> c, drone_id |-> droneIds'[name]])
     /\ drone_pose' = UnsetPose /\ camera_pose' = UnsetPose
  \/ /\ ~(d.xi # Sentinel /\ c.xi # Sentinel)
     /\ drone_pose' = d /\ camera_pose' = c
     /\ UNCHANGED <<wire, sent>>

CallbackStarts(u) ==
  /\ sender_up /\ i = 0 /\ tick < MaxCallbacks
  /\ update' = u /\ i' = 1
  /\ drone_pose' = UnsetPose /\ camera_pose' = UnsetPose
  /\ current_drone_name' = NoModel
  /\ UNCHANGED <<sender_up, count, tick, sent, idVars, wire>>

AtEntry(link) ==
  /\ sender_up /\ i \in 1 .. Len(update)
  /\ update[i].link = link

PoseOf(e) == [model |-> e.model, link |-> e.link, tick |-> tick,
              xi |-> e.xi, fixed |-> FALSE]

DroneBodyPose ==
  /\ AtEntry("body")
  /\ trackDroneIds(update[i].model)
  /\ current_drone_name' = update[i].model
  /\ SendIfComplete(PoseOf(update[i]), camera_pose, update[i].model)
  /\ i' = i + 1
  /\ UNCHANGED <<sender_up, count, tick, update>>

\* The exception leaves the callback; nothing above it catches.
DroneNameThrows ==
  /\ AtEntry("body")
  /\ GidThrows(update[i].model)
  /\ sender_up' = FALSE
  /\ UNCHANGED <<count, tick, cbVars, sent, idVars, wire>>

CameraPose ==
  /\ AtEntry("camera")
  /\ UNCHANGED idVars
  /\ SendIfComplete(drone_pose, PoseOf(update[i]), current_drone_name)
  /\ i' = i + 1
  /\ UNCHANGED <<sender_up, count, tick, update, current_drone_name>>

OtherLinkPose ==
  /\ AtEntry("other")
  /\ i' = i + 1
  /\ UNCHANGED <<sender_up, count, tick, update, drone_pose, camera_pose,
                 current_drone_name, sent, idVars, wire>>

CallbackEnds ==
  /\ sender_up /\ i = Len(update) + 1
  /\ count' = NextInt(count) /\ tick' = tick + 1
  /\ i' = 0
  /\ UNCHANGED <<sender_up, update, drone_pose, camera_pose,
                 current_drone_name, sent, idVars, wire>>

GazeboNext ==
  \/ \E u \in Updates : CallbackStarts(u)
  \/ DroneBodyPose
  \/ DroneNameThrows
  \/ CameraPose
  \/ OtherLinkPose
  \/ CallbackEnds

\* The sender by itself: nobody takes datagrams off the link.
AloneInit == GazeboInit /\ WireInit

GazeboSpec == AloneInit /\ [][GazeboNext]_<<gazeboVars, wire>>

-----------------------------------------------------------------------------
(***************************************************************************)
(* The order of entries the comments of cbLocalPose count on: a camera     *)
(* comes after the body of its own model, with no other body or camera in  *)
(* between.  A body followed by its camera does not have the sentinel in   *)
(* its orientation.  Bodies without a camera and other links are anywhere. *)
(***************************************************************************)
BodyOf(u, j, k) ==
  /\ j < k
  /\ u[j].link = "body" /\ u[j].model = u[k].model /\ u[j].xi # Sentinel
  /\ \A l \in j + 1 .. k - 1 : u[l].link = "other"

Grouped(u) ==
  \A k \in DOMAIN u : u[k].link = "camera" => \E j \in DOMAIN u : BodyOf(u, j, k)

(***************************************************************************)
(* Types of the sender's state.                                            *)
(***************************************************************************)
GazeboTypeOK ==
  /\ IdsTypeOK
  /\ sender_up \in BOOLEAN
  /\ count \in -IntMax - 1 .. IntMax /\ tick \in Nat
  /\ update \in Seq(Entry) /\ i \in 0 .. Len(update) + 1
  /\ drone_pose \in Pose /\ camera_pose \in Pose
  /\ current_drone_name \in Models \cup {NoModel}
  /\ sent \subseteq PoseMessage

(***************************************************************************)
(* "the following camera orientation is for the drone id associated with   *)
(* the drone position above" (gazebo_drone_pose.cpp:121-122): a message    *)
(* carries the body and the camera of one model, of one update, under that *)
(* model's id.                                                             *)
(***************************************************************************)
CameraOfSameDrone ==
  \A m \in sent :
    /\ m.drone.link = "body" /\ m.camera.link = "camera"
    /\ m.drone.model = m.camera.model
    /\ m.drone.tick = m.camera.tick
    /\ m.drone.model \in DOMAIN droneIds
    /\ m.drone_id = droneIds[m.drone.model]

(***************************************************************************)
(* message_counter orders messages by the update they come from, also past *)
(* the overflow of the int it is counted in, until that int is back at 0.  *)
(* set_drone_pose (pose_handlers.cpp:50) trusts this order.                *)
(***************************************************************************)
CountersFollowUpdates ==
  \A m, n \in sent :
    m.drone.tick < n.drone.tick /\ n.drone.tick < 2 * (IntMax + 1)
      => m.message_counter < n.message_counter

(***************************************************************************)
(* "this is a counter that increments every time we send a message"        *)
(* (pose.hpp:22): no two messages have the same counter.                   *)
(***************************************************************************)
CounterPerMessage ==
  \A m, n \in sent : m.message_counter = n.message_counter => m = n

-----------------------------------------------------------------------------
(***************************************************************************)
(* Why these hold: the parts of the inductive invariant.                   *)
(***************************************************************************)

\* The body in hand is that of the current name, read in this callback.
BodyInv ==
  drone_pose.xi # Sentinel =>
    /\ drone_pose.link = "body"
    /\ drone_pose.model = current_drone_name
    /\ current_drone_name \in DOMAIN droneIds
    /\ i # 0 => drone_pose.tick = tick

\* No camera stays in hand after its entry, and a body does up to its camera.
PairInv ==
  /\ Grouped(update)
  /\ camera_pose.xi = Sentinel
  /\ \A j \in 1 .. i - 1 :
       /\ update[j].link = "body" /\ update[j].xi # Sentinel
       /\ \A l \in j + 1 .. i - 1 : update[l].link = "other"
       => drone_pose.xi # Sentinel /\ drone_pose.model = update[j].model

\* count at update t, for the first 2^32 updates.
CountAt(t) == IF t <= IntMax THEN t ELSE t - 2 * (IntMax + 1)

CounterInv ==
  /\ tick < 2 * (IntMax + 1) => count = CountAt(tick)
  /\ \A m \in sent :
       /\ m.drone.tick <= tick
       /\ m.drone.tick < 2 * (IntMax + 1)
            => m.message_counter = Uint64(CountAt(m.drone.tick))

(***************************************************************************)
(* Names that tell the drones apart: they all carry numbers, which differ  *)
(* as 16-bit values, or none of them does and there are enough values.     *)
(***************************************************************************)
Numbered ==
  \A m, n \in Models :
    /\ GidSuffix[m] \in Int \cup {OutOfRange}
    /\ (m # n /\ GidSuffix[m] # OutOfRange /\ GidSuffix[n] # OutOfRange)
         => Uint16(GidSuffix[m]) # Uint16(GidSuffix[n])

Counted ==
  /\ \A m \in Models : GidSuffix[m] \notin Int
  /\ IsFiniteSet(Models) /\ Cardinality(Models) <= IdSpace

NumberedInv ==
  \A m \in DOMAIN droneIds :
    GidSuffix[m] \in Int /\ droneIds[m] = Uint16(GidSuffix[m])

CountedInv ==
  LET n == Cardinality(DOMAIN droneIds) IN
  /\ n < IdSpace => uniqueDroneCount = n
  /\ \A m \in DOMAIN droneIds : droneIds[m] < n

=============================================================================
