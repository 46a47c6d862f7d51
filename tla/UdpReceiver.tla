----------------------------- MODULE UdpReceiver ----------------------------
(***************************************************************************)
(* UDPReceiver::listen_pose_message, the receiver thread: it blocks in     *)
(* recv, then stores what the buffer holds, field by field, under the      *)
(* mutex.  recv may also return 0 (an empty datagram) or -1 (an error);    *)
(* the thread goes on in both cases with the buffer as it was, which       *)
(* before the first datagram is uninitialised memory.                      *)
(***************************************************************************)
EXTENDS SharedPose, UdpLink

CONSTANTS
  StackContents,   \* what the buffer may hold before the first datagram
  RecvMayFail      \* whether recv returns 0 or -1 in this environment

ASSUME ReceiverAssumption ==
  /\ StackContents \subseteq UdpPoseMessage
  /\ StackContents # {}
  /\ RecvMayFail \in BOOLEAN

VARIABLES
  rx_pc,             \* "recv", "lock", one of the four stores, or "unlock"
  udp_pose_message   \* the thread's buffer

rxVars == <<rx_pc, udp_pose_message>>

RxInit ==
  /\ rx_pc = "recv"
  /\ udp_pose_message \in StackContents

RxGoto(from, to) == rx_pc = from /\ rx_pc' = to

RxDatagram ==
  /\ receiver_up
  /\ RxGoto("recv", "lock")
  /\ wire # << >>
  /\ udp_pose_message' = Head(wire)
  /\ wire' = Tail(wire)
  /\ UNCHANGED sharedVars

RxNothing ==
  /\ receiver_up
  /\ RecvMayFail
  /\ RxGoto("recv", "lock")
  /\ UNCHANGED <<udp_pose_message, wire, sharedVars>>

\* Mutant: the message is stored without the mutex.
RxLock_None ==
  /\ RxGoto("lock", "counter")
  /\ receiver_up
  /\ UNCHANGED <<udp_pose_message, wire, sharedVars>>

RxLock ==
  /\ RxGoto("lock", "counter")
  /\ Lock("receiver")
  /\ UNCHANGED <<udp_pose_message, wire>>

\* The four assignments of udp_message_to_pose, in its order.
Received == udp_message_to_pose(udp_pose_message)

RxStore(from, to, m) ==
  /\ receiver_up
  /\ RxGoto(from, to)
  /\ pose_message' = m
  /\ UNCHANGED <<mutex_pose_message, receiver_up, udp_pose_message, wire>>

StoreCounter ==
  RxStore("counter", "drone",
          [pose_message EXCEPT !.message_counter = Received.message_counter])

StoreDrone ==
  RxStore("drone", "camera", [pose_message EXCEPT !.drone = Received.drone])

StoreCamera ==
  RxStore("camera", "drone_id", [pose_message EXCEPT !.camera = Received.camera])

StoreDroneId ==
  RxStore("drone_id", "unlock", [pose_message EXCEPT !.drone_id = Received.drone_id])

RxStores == StoreCounter \/ StoreDrone \/ StoreCamera \/ StoreDroneId

RxUnlock ==
  /\ RxGoto("unlock", "recv")
  /\ Unlock("receiver")
  /\ UNCHANGED <<udp_pose_message, wire>>

RxNext == RxDatagram \/ RxNothing \/ RxLock \/ RxStores \/ RxUnlock

RxTypeOK ==
  /\ rx_pc \in {"recv", "lock", "counter", "drone", "camera", "drone_id", "unlock"}
  /\ udp_pose_message \in UdpPoseMessage

=============================================================================
