------------------------------- MODULE AirSim -------------------------------
(***************************************************************************)
(* The AirSim simulation as AirSimPose sees it through two remote calls.   *)
(* spawn_vehicle converts the pose to AirSim's axes and moves it 5 m times *)
(* the id plus one along y; set_vehicle_pose only converts it.             *)
(*                                                                         *)
(* The simulation itself is external: it keeps the vehicles, does not add  *)
(* one whose name is taken (it answers false, or fails the call), answers  *)
(* false when it cannot add one, and fails a call for a vehicle it does    *)
(* not have.  rpclib turns a failed call, a lost connection or an answer   *)
(* that is late into an exception: the call may have had its effect.       *)
(***************************************************************************)
EXTENDS PoseTransfer

CONSTANT
  RpcFaults   \* "refuse": simAddVehicle may answer false; "throw": calls may fail

ASSUME RpcAssumption == RpcFaults \subseteq {"refuse", "throw"}

VARIABLE vehicles   \* id -> where AirSim shows that vehicle

AirSimInit == vehicles = [id \in {} |-> ZeroPose]

\* A pose in AirSim's axes, and how many offset_increments it is moved.
Shown == [ned : Pose, offset : Nat]
ShownAt(pose, offset) == [ned |-> pose, offset |-> offset]

simAddVehicle(id, shown) ==
  vehicles' = [v \in DOMAIN vehicles \cup {id} |->
                 IF v \in DOMAIN vehicles THEN vehicles[v] ELSE shown]

\* Mutant: a vehicle of that name is removed first, and appears anew.
spawn_vehicle_Anew(id, pose) ==
  vehicles' = [v \in DOMAIN vehicles \cup {id} |->
                 IF v = id THEN ShownAt(pose, id + 1) ELSE vehicles[v]]

\* The answer is not looked at: refused or added, the caller goes on.
spawn_vehicle(id, pose) ==
  \/ simAddVehicle(id, ShownAt(pose, id + 1))
  \/ /\ "refuse" \in RpcFaults
     /\ UNCHANGED vehicles

\* Mutant: the offset of spawn_vehicle is applied here too.
set_vehicle_pose_Offset(id, pose) ==
  /\ id \in DOMAIN vehicles
  /\ vehicles' = [vehicles EXCEPT ![id] = ShownAt(pose, id + 1)]

set_vehicle_pose(id, pose) ==
  /\ id \in DOMAIN vehicles
  /\ vehicles' = [vehicles EXCEPT ![id] = ShownAt(pose, 0)]

\* A call that ends in an exception, before or after it had its effect.
SpawnThrows(id, pose) ==
  /\ "throw" \in RpcFaults
  /\ spawn_vehicle(id, pose) \/ UNCHANGED vehicles

SetThrows(id, pose) ==
  \/ id \notin DOMAIN vehicles /\ UNCHANGED vehicles
  \/ /\ "throw" \in RpcFaults
     /\ set_vehicle_pose(id, pose) \/ UNCHANGED vehicles

AirSimTypeOK ==
  /\ DOMAIN vehicles \subseteq Nat
  /\ vehicles \in [DOMAIN vehicles -> Shown]

=============================================================================
