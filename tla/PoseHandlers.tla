---------------------------- MODULE PoseHandlers ----------------------------
(***************************************************************************)
(* PoseHandlers::set_drone_pose, the thread that moves AirSim's vehicles.  *)
(* Every round it takes the mutex, spawns a vehicle for an id it has not   *)
(* seen, sets the vehicle's pose if the message is newer than the last one *)
(* it applied, gives the mutex back and sleeps 5 ms.  main never clears    *)
(* *exit_flag, so the loop does not end.                                   *)
(***************************************************************************)
EXTENDS SharedPose, AirSim

VARIABLES
  h_pc,            \* "lock", "spawn", "set", "unlock" or "sleep"
  msg_count,       \* counter of the newest message applied
  unique_drones    \* static in spawn_unique_drone: the ids it has spawned

handlerVars == <<h_pc, msg_count, unique_drones>>

HandlerInit ==
  /\ h_pc = "lock"
  /\ msg_count = 0
  /\ unique_drones = {}

HandlerGoto(from, to) == h_pc = from /\ h_pc' = to

HandlerLock ==
  /\ HandlerGoto("lock", "spawn")
  /\ Lock("handler")
  /\ UNCHANGED <<msg_count, unique_drones, vehicles>>

\* Mutants: >=, #, and "the next one" for >.
MessageIsNew_OrEqual == pose_message.message_counter >= msg_count
MessageIsNew_Differs == pose_message.message_counter # msg_count
MessageIsNew_Next == pose_message.message_counter = msg_count + 1

MessageIsNew == pose_message.message_counter > msg_count

DroneIsNew ==
  /\ pose_message.message_counter # 0
  /\ pose_message.drone_id \notin unique_drones

\* The id is remembered before the call and whatever the call answers.
SpawnUniqueDrone ==
  /\ receiver_up
  /\ HandlerGoto("spawn", "set")
  /\ DroneIsNew
  /\ unique_drones' = unique_drones \cup {pose_message.drone_id}
  /\ spawn_vehicle(pose_message.drone_id, pose_message.drone)
  /\ UNCHANGED <<msg_count, sharedVars>>

KnownDrone ==
  /\ receiver_up
  /\ HandlerGoto("spawn", "set")
  /\ ~DroneIsNew
  /\ UNCHANGED <<msg_count, unique_drones, vehicles, sharedVars>>

\* Mutant: the counter expected next instead of the one applied.
SetVehiclePose_Next ==
  /\ receiver_up
  /\ HandlerGoto("set", "unlock")
  /\ MessageIsNew
  /\ set_vehicle_pose(pose_message.drone_id, pose_message.drone)
  /\ msg_count' = pose_message.message_counter + 1
  /\ UNCHANGED <<unique_drones, sharedVars>>

SetVehiclePose ==
  /\ receiver_up
  /\ HandlerGoto("set", "unlock")
  /\ MessageIsNew
  /\ set_vehicle_pose(pose_message.drone_id, pose_message.drone)
  /\ msg_count' = pose_message.message_counter
  /\ UNCHANGED <<unique_drones, sharedVars>>

\* Mutant: goes on to the next round without giving the mutex back.
OldMessage_KeepsMutex ==
  /\ receiver_up
  /\ HandlerGoto("set", "sleep")
  /\ ~MessageIsNew
  /\ UNCHANGED <<msg_count, unique_drones, vehicles, sharedVars>>

OldMessage ==
  /\ receiver_up
  /\ HandlerGoto("set", "unlock")
  /\ ~MessageIsNew
  /\ UNCHANGED <<msg_count, unique_drones, vehicles, sharedVars>>

HandlerThrows ==
  /\ receiver_up
  /\ \/ /\ h_pc = "spawn" /\ DroneIsNew
        /\ SpawnThrows(pose_message.drone_id, pose_message.drone)
     \/ /\ h_pc = "set" /\ MessageIsNew
        /\ SetThrows(pose_message.drone_id, pose_message.drone)
  /\ Terminate
  /\ UNCHANGED handlerVars

HandlerUnlock ==
  /\ HandlerGoto("unlock", "sleep")
  /\ Unlock("handler")
  /\ UNCHANGED <<msg_count, unique_drones, vehicles>>

HandlerWakes ==
  /\ receiver_up
  /\ HandlerGoto("sleep", "lock")
  /\ UNCHANGED <<msg_count, unique_drones, vehicles, sharedVars>>

HandlerStep ==
  \/ SpawnUniqueDrone \/ KnownDrone
  \/ SetVehiclePose \/ OldMessage
  \/ HandlerThrows
  \/ HandlerUnlock
  \/ HandlerWakes

HandlerNext == HandlerLock \/ HandlerStep

HandlerTypeOK ==
  /\ h_pc \in {"lock", "spawn", "set", "unlock", "sleep"}
  /\ msg_count \in Nat
  /\ unique_drones \subseteq Nat

=============================================================================
