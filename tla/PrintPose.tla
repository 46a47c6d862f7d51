----------------------------- MODULE PrintPose ------------------------------
(***************************************************************************)
(* print_pose, the thread that writes poses to the terminal.  A round      *)
(* takes the mutex, prints the message if its id has not been printed or   *)
(* counts a repeat, and gives the mutex back.  Only after more than        *)
(* RepeatLimit repeats does it forget the ids and sleep 500 ms; until then *)
(* it takes the mutex again at once.                                       *)
(***************************************************************************)
EXTENDS SharedPose

CONSTANT RepeatLimit   \* 1000000 in the code

ASSUME PrinterAssumption == RepeatLimit \in Nat

VARIABLES
  p_pc,                \* "lock", "look", "unlock", "check" or "sleep"
  printed_drone_ids,   \* ids printed since the last sleep
  repeat_count

printerVars == <<p_pc, printed_drone_ids, repeat_count>>

PrinterInit ==
  /\ p_pc = "lock"
  /\ printed_drone_ids = {}
  /\ repeat_count = 0

PrinterGoto(from, to) == p_pc = from /\ p_pc' = to

PrinterLock ==
  /\ PrinterGoto("lock", "look")
  /\ Lock("printer")
  /\ UNCHANGED <<printed_drone_ids, repeat_count>>

PrintMessage ==
  /\ receiver_up
  /\ PrinterGoto("look", "unlock")
  /\ pose_message.drone_id \notin printed_drone_ids
  /\ printed_drone_ids' = printed_drone_ids \cup {pose_message.drone_id}
  /\ UNCHANGED <<repeat_count, sharedVars>>

CountRepeat ==
  /\ receiver_up
  /\ PrinterGoto("look", "unlock")
  /\ pose_message.drone_id \in printed_drone_ids
  /\ repeat_count' = repeat_count + 1
  /\ UNCHANGED <<printed_drone_ids, sharedVars>>

PrinterUnlock ==
  /\ PrinterGoto("unlock", "check")
  /\ Unlock("printer")
  /\ UNCHANGED <<printed_drone_ids, repeat_count>>

\* Mutant: the repeats are not reset.
StartNewRound_KeepsCount ==
  /\ receiver_up
  /\ PrinterGoto("check", "sleep")
  /\ repeat_count > RepeatLimit
  /\ printed_drone_ids' = {}
  /\ UNCHANGED <<repeat_count, sharedVars>>

StartNewRound ==
  /\ receiver_up
  /\ PrinterGoto("check", "sleep")
  /\ repeat_count > RepeatLimit
  /\ printed_drone_ids' = {} /\ repeat_count' = 0
  /\ UNCHANGED sharedVars

LookAgain ==
  /\ receiver_up
  /\ \/ PrinterGoto("check", "lock") /\ repeat_count <= RepeatLimit
     \/ PrinterGoto("sleep", "lock")
  /\ UNCHANGED <<printed_drone_ids, repeat_count, sharedVars>>

PrinterStep ==
  PrintMessage \/ CountRepeat \/ PrinterUnlock \/ StartNewRound \/ LookAgain

PrinterNext == PrinterLock \/ PrinterStep

PrinterTypeOK ==
  /\ p_pc \in {"lock", "look", "unlock", "check", "sleep"}
  /\ printed_drone_ids \subseteq Nat
  /\ repeat_count \in 0 .. RepeatLimit + 1
  /\ repeat_count > RepeatLimit => p_pc \in {"unlock", "check"}

=============================================================================
