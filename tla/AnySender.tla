------------------------------ MODULE AnySender ------------------------------
(***************************************************************************)
(* receive_drone_pose by itself: datagrams from a given set arrive at any  *)
(* time, in any order and any number of times.                             *)
(***************************************************************************)
EXTENDS ReceiveDronePose

CONSTANT Datagrams   \* the datagrams that may arrive

ASSUME DatagramAssumption == Datagrams \subseteq UdpPoseMessage

vars == <<receiverVars, wire>>

Init == ReceiverInit /\ WireInit

Arrives == \E d \in Datagrams : Transmit(d) /\ UNCHANGED receiverVars

Next == Arrives \/ ReceiverNext

Spec == Init /\ [][Next]_vars

FairSpec == Spec /\ PosePathFairness /\ PrinterFairness

TypeOK == ReceiverTypeOK /\ wire \in Seq(UdpPoseMessage)

(***************************************************************************)
(* A thread that reads the message under the mutex sees one datagram       *)
(* whole, never the fields of two: the receiver's four assignments are one *)
(* step to the others.                                                     *)
(***************************************************************************)
WholeMessages ==
  {ZeroMessage} \cup {udp_message_to_pose(u) : u \in Datagrams \cup StackContents}

ReadersSeeWholeMessage ==
  \/ pose_message \in WholeMessages
  \/ h_pc \notin {"spawn", "set"} /\ p_pc # "look"

-----------------------------------------------------------------------------
(***************************************************************************)
(* Why the readers do: the parts of the inductive invariant.               *)
(***************************************************************************)

\* What arrives is known; the slot holds one message, or is being stored.
MessageInv ==
  /\ wire \in Seq(Datagrams)
  /\ udp_pose_message \in Datagrams \cup StackContents
  /\ SlotIn(WholeMessages)
  /\ StoredInv

\* What the handler remembers as spawned is there, unless AirSim refused it.
SpawnInv ==
  /\ h_pc = "set" /\ pose_message.message_counter # 0
       => pose_message.drone_id \in unique_drones
  /\ "refuse" \notin RpcFaults => unique_drones \subseteq DOMAIN vehicles

Inv == TypeOK /\ MutexInv /\ MessageInv /\ SpawnInv

\* Senders that number messages by the update they carry.
CounterIsTick(u) == udp_message_to_pose(u).message_counter = udp_message_to_pose(u).drone.tick

\* No vehicle is ahead of the newest message applied, except one just spawned
\* and the one of a call that ended the program.
AheadInv ==
  receiver_up => \A id \in DOMAIN vehicles :
    \/ vehicles[id].ned.tick <= msg_count
    \/ h_pc = "set" /\ vehicles[id].ned.tick <= pose_message.message_counter

=============================================================================
