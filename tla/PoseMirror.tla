------------------------------ MODULE PoseMirror ------------------------------
(***************************************************************************)
(* What the pose streamer promises, whatever datagrams are lost, repeated  *)
(* or overtaken: AirSim mirrors what Gazebo published.  A vehicle appears  *)
(* with a published pose of the drone that has its id, next to the place   *)
(* Gazebo has it; from then on it shows later and later published poses of *)
(* that same drone, at their place.  It never disappears.  Nothing is      *)
(* promised about which poses are shown.                                   *)
(***************************************************************************)
EXTENDS PoseTransfer

VARIABLES
  published,   \* set of PoseMessage
  shown        \* id -> [ned, offset]

MirrorInit ==
  /\ published = {}
  /\ shown = [id \in {} |-> ZeroPose]

Publish ==
  /\ published \subseteq published'
  /\ UNCHANGED shown

Appear(m) ==
  /\ m.drone_id \notin DOMAIN shown
  /\ shown' = [id \in DOMAIN shown \cup {m.drone_id} |->
                 IF id = m.drone_id
                 THEN [ned |-> Truncated(m.drone), offset |-> m.drone_id + 1]
                 ELSE shown[id]]
  /\ UNCHANGED published

Newer(pose, vehicle) ==
  \/ pose.tick > vehicle.ned.tick
  \/ pose.tick = vehicle.ned.tick /\ vehicle.offset # 0

Move(m) ==
  /\ m.drone_id \in DOMAIN shown
  /\ m.drone.model = shown[m.drone_id].ned.model
  /\ Newer(m.drone, shown[m.drone_id])
  /\ shown' = [shown EXCEPT ![m.drone_id] =
                 [ned |-> Truncated(m.drone), offset |-> 0]]
  /\ UNCHANGED published

MirrorNext == Publish \/ \E m \in published : Appear(m) \/ Move(m)

MirrorSpec == MirrorInit /\ [][MirrorNext]_<<published, shown>>

=============================================================================
