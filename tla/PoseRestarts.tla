---------------------------- MODULE PoseRestarts ----------------------------
(***************************************************************************)
(* The pose streamer when its programs are stopped and started again.      *)
(* Nothing is persisted: a new send_drone_pose counts updates from 0 and   *)
(* hands out ids anew, a new receive_drone_pose knows of no drone and no   *)
(* counter.  Gazebo and AirSim go on: updates stay in the order of tick,   *)
(* and vehicles stay where they are.                                       *)
(*                                                                         *)
(* The receiver's socket goes with it: what has not been read is lost,     *)
(* except for the last datagrams, which may still be on their way.         *)
(***************************************************************************)
EXTENDS PoseStreaming, PoseSockets

CONSTANTS
  AddressLists,   \* what may become of the addresses a program tries
  MaxStarts       \* bound on the number of starts of either program

ASSUME RestartAssumption ==
  /\ AddressLists \subseteq Seq(Outcomes)
  /\ MaxStarts \in Nat

VARIABLE starts   \* how many times a program has been started again

restartVars == <<vars, starts>>

RestartInit == Init /\ starts = 0

SenderStops ==
  /\ sender_up
  /\ sender_up' = FALSE
  /\ UNCHANGED <<count, tick, cbVars, sent, idVars, wire, receiverVars, starts>>

ReceiverStops ==
  /\ receiver_up
  /\ Terminate
  /\ UNCHANGED <<rxVars, handlerVars, vehicles, printerVars, wire, gazeboVars, starts>>

Start ==
  /\ starts < MaxStarts
  /\ starts' = starts + 1

\* No address can be used: exit(-1).
StartFails ==
  /\ Start
  /\ ~(sender_up /\ receiver_up)
  /\ \E os \in AddressLists : ~Usable(os)
  /\ UNCHANGED vars

\* The first update of the new process is later than any the old one saw.
NextTick == IF i = 0 THEN tick ELSE tick + 1

SenderStarts ==
  /\ Start /\ ~sender_up
  /\ \E os \in AddressLists : Usable(os)
  /\ sender_up' = TRUE
  /\ count' = 0 /\ tick' = NextTick
  /\ droneIds' = [m \in {} |-> 0] /\ uniqueDroneCount' = 0
  /\ update' = << >> /\ i' = 0
  /\ drone_pose' = UnsetPose /\ camera_pose' = UnsetPose
  /\ current_drone_name' = NoModel
  /\ UNCHANGED <<sent, wire, receiverVars>>

\* The slot, the socket and the threads of a new process.
ThreadsStart ==
  /\ rx_pc' = "recv" /\ udp_pose_message' \in StackContents
  /\ h_pc' = "lock" /\ msg_count' = 0 /\ unique_drones' = {}
  /\ p_pc' = "lock" /\ printed_drone_ids' = {} /\ repeat_count' = 0
  /\ \E k \in 1 .. Len(wire) + 1 : wire' = SubSeq(wire, k, Len(wire))

ReceiverStarts ==
  /\ Start /\ ~receiver_up
  /\ \E os \in AddressLists : Usable(os)
  /\ pose_message' = ZeroMessage /\ mutex_pose_message' = "nobody" /\ receiver_up' = TRUE
  /\ ThreadsStart
  /\ UNCHANGED <<vehicles, gazeboVars>>

RestartNext ==
  \/ Next /\ UNCHANGED starts
  \/ SenderStops \/ ReceiverStops
  \/ StartFails \/ SenderStarts \/ ReceiverStarts

RestartSpec == RestartInit /\ [][RestartNext]_restartVars

\* Nobody has to stop a program, nor to start it again.
FairRestartSpec == RestartSpec /\ Fairness

-----------------------------------------------------------------------------
(***************************************************************************)
(* Types of the state, across restarts.                                    *)
(***************************************************************************)
RestartTypeOK == TypeOK /\ starts \in 0 .. MaxStarts

(***************************************************************************)
(* A restarted program is heard again.  A new sender counts from 0, and    *)
(* the receiver (pose_handlers.cpp:50) ignores it while its counters are   *)
(* not above those it knows from the old one; a new receiver may find that *)
(* a vehicle it wants to spawn is there already.  But once the datagram    *)
(* that entered the socket last has a counter above those of all earlier   *)
(* updates, its update or a later one comes to be shown in AirSim, unless  *)
(* a program stops: the deaf time is over when the new sender has counted  *)
(* as far as the old one did, and datagrams the socket drops meanwhile do  *)
(* not prolong it.  (A datagram of the old process that waits while the    *)
(* new one counts from 0 may still give way in the slot to one that is     *)
(* ignored.  And if AirSim fails the call for a vehicle that is there, as  *)
(* the todo of pose_handlers.cpp:22-24 may be read, the receiver stops     *)
(* every time.)                                                            *)
(***************************************************************************)
CountedPast(t) ==
  /\ wire # << >>
  /\ LET m == udp_message_to_pose(Last(wire)) IN
       /\ m.drone.tick = t
       /\ m.message_counter \in 1 .. count
       /\ \A n \in sent : n.drone.tick < t => n.message_counter < m.message_counter

HeardAfterRestart ==
  \A t \in 1 .. MaxCallbacks - 1 :
    (sender_up /\ receiver_up /\ CountedPast(t))
      ~> \/ ~sender_up \/ ~receiver_up
         \/ \E id \in DOMAIN vehicles : vehicles[id].ned.tick >= t

(***************************************************************************)
(* "Each drone gets a unique name" (README.md:137), also from one process  *)
(* to the next: all messages ever sent name a drone by one id, and no two  *)
(* drones by the same.  It takes names with numbers: a count starts anew   *)
(* with the process, in the order of whatever update comes first.          *)
(***************************************************************************)
OneIdPerDrone ==
  \A m, n \in sent : m.drone_id = n.drone_id <=> m.drone.model = n.drone.model

(***************************************************************************)
(* A vehicle "will only receive its relevant poses" (README.md:137), also  *)
(* from one process to the next and over a link that lets datagrams of an  *)
(* old process overtake those of a new one: it stays in AirSim, and shows  *)
(* the drone it was spawned for.                                           *)
(***************************************************************************)
VehicleKeepsItsDrone ==
  [][\A id \in DOMAIN vehicles :
       /\ id \in DOMAIN vehicles'
       /\ vehicles'[id].ned.model = vehicles[id].ned.model]_vehicles

\* Why: the id is a function of the name alone.
SentNumbered ==
  \A m \in sent :
    /\ m.drone.model \in Models
    /\ GidSuffix[m.drone.model] \in Int
    /\ m.drone_id = Uint16(GidSuffix[m.drone.model])

-----------------------------------------------------------------------------
(***************************************************************************)
(* Why AirSim mirrors Gazebo also from one process to the next: the parts  *)
(* of the inductive invariant.  Counters say nothing across a restart; it  *)
(* is the order in which datagrams arrive that keeps a vehicle from going  *)
(* back.                                                                   *)
(***************************************************************************)

\* A message carries the body of a drone, of an update begun by now.
SentBodies ==
  \A m \in sent :
    m.drone.link = "body" /\ m.drone.xi # Sentinel /\ m.drone.tick <= tick

VehicleOfSent ==
  \A id \in DOMAIN vehicles :
    \E m \in sent : m.drone_id = id /\ vehicles[id].ned = Truncated(m.drone)

\* The buffer holds a message that is to be stored, the slot one to be applied.
Held == (RecvMayFail \/ rx_pc # "recv") /\ Received.message_counter # 0
Slotted == rx_pc \in {"recv", "lock", "counter"} /\ pose_message.message_counter # 0

\* Nothing that is still to be stored is of an earlier update than t.
NoneOlder(t) ==
  /\ \A k \in DOMAIN wire : t <= udp_message_to_pose(wire[k]).drone.tick
  /\ Held => t <= Received.drone.tick

InOrder ==
  /\ \A j, k \in DOMAIN wire :
       j <= k => udp_message_to_pose(wire[j]).drone.tick
                   <= udp_message_to_pose(wire[k]).drone.tick
  /\ Held => \A k \in DOMAIN wire :
               Received.drone.tick <= udp_message_to_pose(wire[k]).drone.tick
  /\ Slotted => NoneOlder(pose_message.drone.tick)
  /\ \A id \in DOMAIN vehicles :
       /\ NoneOlder(vehicles[id].ned.tick)
       /\ Slotted => vehicles[id].ned.tick <= pose_message.drone.tick

=============================================================================
