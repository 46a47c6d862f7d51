-------------------------- MODULE ReceiveDronePose --------------------------
(***************************************************************************)
(* The receive_drone_pose program: main starts the receiver, the printer   *)
(* and the handler thread over one pose message and its mutex, and joins   *)
(* them, which it would do for ever.                                       *)
(***************************************************************************)
EXTENDS UdpReceiver, PoseHandlers, PrintPose

receiverVars == <<sharedVars, rxVars, handlerVars, vehicles, printerVars>>

ReceiverInit ==
  SharedInit /\ RxInit /\ HandlerInit /\ AirSimInit /\ PrinterInit

ReceiverThread(A) == A /\ UNCHANGED <<handlerVars, vehicles, printerVars>>
HandlerThread(A) == A /\ UNCHANGED <<rxVars, wire, printerVars>>
PrinterThread(A) == A /\ UNCHANGED <<rxVars, wire, handlerVars, vehicles>>

\* The two threads a pose passes through on its way to AirSim.
PosePath == ReceiverThread(RxNext) \/ HandlerThread(HandlerNext)

ReceiverNext == PosePath \/ PrinterThread(PrinterNext)

(***************************************************************************)
(* The operating system runs every thread that can run.  A thread that     *)
(* wants the mutex gets it if it is free again and again: the handler      *)
(* sleeps 5 ms and the printer, now and then, 500 ms without holding it,   *)
(* far longer than a waiting thread needs to wake up.  recv returns when a *)
(* datagram has arrived.                                                   *)
(***************************************************************************)
PosePathFairness ==
  LET vars == <<receiverVars, wire>> IN
  /\ WF_vars(ReceiverThread(RxDatagram))
  /\ SF_vars(ReceiverThread(RxLock))
  /\ WF_vars(ReceiverThread(RxStores \/ RxUnlock))
  /\ SF_vars(HandlerThread(HandlerLock))
  /\ WF_vars(HandlerThread(HandlerStep))

PrinterFairness ==
  LET vars == <<receiverVars, wire>> IN
  /\ SF_vars(PrinterThread(PrinterLock))
  /\ WF_vars(PrinterThread(PrinterStep))

-----------------------------------------------------------------------------
(***************************************************************************)
(* Types of the receiver's state.                                          *)
(***************************************************************************)
ReceiverTypeOK ==
  SharedTypeOK /\ RxTypeOK /\ HandlerTypeOK /\ AirSimTypeOK /\ PrinterTypeOK

(***************************************************************************)
(* When the handler is about to set a pose, AirSim has that vehicle: the   *)
(* message the handler spawned it for is still the message in the slot, so *)
(* the call does not fail and end the program.  Only a refused             *)
(* simAddVehicle, whose answer spawn_vehicle ignores, breaks this.         *)
(***************************************************************************)
SetFindsVehicle ==
  ("refuse" \notin RpcFaults /\ h_pc = "set" /\ MessageIsNew)
    => pose_message.drone_id \in DOMAIN vehicles

(***************************************************************************)
(* A vehicle never shows an earlier Gazebo update after a later one, in    *)
(* whatever order datagrams arrive ("second message should not be called   *)
(* as older than first message", test_pose_handlers.cpp:146), also when it *)
(* was spawned from a message too old to be applied.                       *)
(***************************************************************************)
VehicleNeverGoesBack ==
  [][\A id \in DOMAIN vehicles :
       id \in DOMAIN vehicles' /\ vehicles'[id].ned.tick >= vehicles[id].ned.tick
    ]_vehicles

(***************************************************************************)
(* Every thread that waits for the mutex gets it, unless the program ends: *)
(* no thread keeps it, though the printer hardly ever stops taking it.     *)
(***************************************************************************)
WaitersGetMutex ==
  /\ rx_pc = "lock" ~> (rx_pc # "lock" \/ ~receiver_up)
  /\ h_pc = "lock" ~> (h_pc # "lock" \/ ~receiver_up)
  /\ p_pc = "lock" ~> (p_pc # "lock" \/ ~receiver_up)

-----------------------------------------------------------------------------
(***************************************************************************)
(* Why a reader sees whole messages: parts of the inductive invariants of  *)
(* the modules that close the receiver with an environment.                *)
(***************************************************************************)

\* A thread holds the mutex between its lock and its unlock, and only there.
MutexInv ==
  /\ mutex_pose_message = "receiver"
       <=> rx_pc \in {"counter", "drone", "camera", "drone_id", "unlock"}
  /\ mutex_pose_message = "handler" <=> h_pc \in {"spawn", "set", "unlock"}
  /\ mutex_pose_message = "printer" <=> p_pc \in {"look", "unlock"}

\* The slot is not being stored, and is one of W.
SlotIn(W) == rx_pc \in {"recv", "lock", "counter"} => pose_message \in W

\* It agrees with the buffer in the fields stored so far.
StoredInv ==
  /\ rx_pc \in {"drone", "camera", "drone_id", "unlock"}
       => pose_message.message_counter = Received.message_counter
  /\ rx_pc \in {"camera", "drone_id", "unlock"} => pose_message.drone = Received.drone
  /\ rx_pc \in {"drone_id", "unlock"} => pose_message.camera = Received.camera
  /\ rx_pc = "unlock" => pose_message.drone_id = Received.drone_id

=============================================================================
