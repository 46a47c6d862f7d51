----------------------------- MODULE SharedPose -----------------------------
(***************************************************************************)
(* What the three threads of receive_drone_pose share: one pose message,   *)
(* the mutex around it, and the process they live in.  The message is a    *)
(* single slot: a datagram replaces the one before it, read or not.        *)
(***************************************************************************)
EXTENDS PoseTransfer

VARIABLES
  pose_message,         \* the last message stored
  mutex_pose_message,   \* the thread that holds it, or "nobody"
  receiver_up           \* FALSE once an exception ended the process

sharedVars == <<pose_message, mutex_pose_message, receiver_up>>

Threads == {"receiver", "printer", "handler"}

SharedInit ==
  /\ pose_message = ZeroMessage   \* memset
  /\ mutex_pose_message = "nobody"
  /\ receiver_up = TRUE

Lock(t) ==
  /\ receiver_up
  /\ mutex_pose_message = "nobody"
  /\ mutex_pose_message' = t
  /\ UNCHANGED <<pose_message, receiver_up>>

Unlock(t) ==
  /\ receiver_up
  /\ mutex_pose_message = t
  /\ mutex_pose_message' = "nobody"
  /\ UNCHANGED <<pose_message, receiver_up>>

\* An exception no thread function catches: std::terminate.
Terminate ==
  /\ receiver_up'= FALSE
  /\ UNCHANGED <<pose_message, mutex_pose_message>>

SharedTypeOK ==
  /\ pose_message \in PoseMessage
  /\ mutex_pose_message \in Threads \cup {"nobody"}
  /\ receiver_up \in BOOLEAN

=============================================================================
