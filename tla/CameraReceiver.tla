--------------------------- MODULE CameraReceiver ---------------------------
(***************************************************************************)
(* The camera receivers: udp-cam-receive ("linux") and                     *)
(* udp-cam-receive-jetson ("jetson").  Both create six elements, link them *)
(* in a chain from udpsrc to a window, play, and stop on a bus message.    *)
(* They differ in what a failed link means: the Jetson program returns -1, *)
(* the Linux program warns and plays what there is.                        *)
(*                                                                         *)
(* GStreamer is external.  A call that links several elements stops at the *)
(* first pair it cannot link.                                              *)
(***************************************************************************)
EXTENDS Integers, Sequences

CONSTANTS
  PlayerBusCap,   \* bound on the messages waiting on the player's bus
  PlayerFaults    \* "element": cannot be created; "link": refused

ASSUME PlayerAssumption ==
  /\ PlayerBusCap \in Nat \ {0}
  /\ PlayerFaults \subseteq {"element", "link"}

VARIABLES
  program,   \* which of the two programs this is
  v_pc,      \* runGstreamer: "elements", "link", "play", "loop", "stop",
             \* "delete" or "returned"
  calls,     \* calls that link made so far
  linked,    \* links made, of Chain
  status,    \* what the program returns
  player, player_bus, player_quit   \* its pipeline, bus and main loop

Gst == INSTANCE GstPipeline
         WITH BusCap <- PlayerBusCap, pipeline <- player,
              bus <- player_bus, quit <- player_quit

playerGstVars == <<player, player_bus, player_quit>>
playerVars == <<program, v_pc, calls, linked, status, playerGstVars>>

(* The links udpsrc, rtph264depay, h264parse, decoder, converter, window.  *)
Chain == 1 .. 5

\* Mutant: one element more than there are.
LinuxCalls_OneMore == << {1}, {2, 3, 4, 5, 6} >>

LinuxCalls == << {1}, {2, 3, 4, 5} >>
\* Mutant: the last link, to the window, forgotten.
JetsonCalls_NoWindow == << {1}, {2}, {3}, {4} >>

JetsonCalls == << {1}, {2}, {3}, {4}, {5} >>

Calls == IF program = "linux" THEN LinuxCalls ELSE JetsonCalls

PlayerInit ==
  /\ program \in {"linux", "jetson"}
  /\ v_pc = "elements" /\ calls = 0 /\ linked = {} /\ status = 0
  /\ Gst!GstInit

-----------------------------------------------------------------------------
PlayerGoto(from, to) == v_pc = from /\ v_pc' = to

\* The bus is watched from here on, before anything is linked.
CreatePlayer ==
  /\ PlayerGoto("elements", "link")
  /\ player' = "null"
  /\ UNCHANGED <<program, calls, linked, status, player_bus, player_quit>>

PlayerElementMissing ==
  /\ PlayerGoto("elements", "returned")
  /\ "element" \in PlayerFaults
  /\ status' = -1
  /\ UNCHANGED <<program, calls, linked, playerGstVars>>

LinkCall ==
  /\ calls < Len(Calls)
  /\ calls' = calls + 1

LinkMade ==
  /\ LinkCall
  /\ PlayerGoto("link", IF calls' = Len(Calls) THEN "play" ELSE "link")
  /\ linked' = linked \cup Calls[calls + 1]
  /\ UNCHANGED <<program, status, playerGstVars>>

\* The links before the first that is refused are made.
LinkRefused ==
  /\ "link" \in PlayerFaults
  /\ \E l \in Calls[calls + 1] :
        linked' = linked \cup {k \in Calls[calls + 1] : k < l}

LinuxLinkFails ==
  /\ LinkCall
  /\ PlayerGoto("link", IF calls' = Len(Calls) THEN "play" ELSE "link")
  /\ LinkRefused
  /\ UNCHANGED <<program, status, playerGstVars>>

\* Mutant: the failure is remembered, but main goes on as on Linux.
JetsonLinkFails_Continues ==
  /\ LinkCall
  /\ PlayerGoto("link", IF calls' = Len(Calls) THEN "play" ELSE "link")
  /\ LinkRefused
  /\ status' = -1
  /\ UNCHANGED <<program, playerGstVars>>

JetsonLinkFails ==
  /\ LinkCall
  /\ PlayerGoto("link", "returned")
  /\ LinkRefused
  /\ player' = "freed" /\ status' = -1
  /\ UNCHANGED <<program, player_bus, player_quit>>

PlayVideo ==
  /\ PlayerGoto("play", "loop")
  /\ player' = "playing"
  /\ UNCHANGED <<program, calls, linked, status, player_bus, player_quit>>

\* Mutant: the end of the stream is the only reason to stop.
player_bus_call_EosOnly(m) == player_quit' = (player_quit \/ m = "eos")

player_bus_call(m) == player_quit' = (player_quit \/ m \in {"eos", "error"})

PlayerLoop ==
  \/ /\ PlayerGoto("loop", "loop")
     /\ ~player_quit /\ player_bus # << >>
     /\ player_bus_call(Head(player_bus))
     /\ player_bus' = Tail(player_bus)
     /\ UNCHANGED <<program, calls, linked, status, player>>
  \/ /\ PlayerGoto("loop", "stop")
     /\ player_quit
     /\ UNCHANGED <<program, calls, linked, status, playerGstVars>>

StopPlayer ==
  /\ PlayerGoto("stop", "delete")
  /\ player' = "stopped" /\ player_bus' = << >>
  /\ UNCHANGED <<program, calls, linked, status, player_quit>>

\* Returns 0, also when an error stopped it.
DeletePlayer ==
  /\ PlayerGoto("delete", "returned")
  /\ player' = "freed"
  /\ UNCHANGED <<program, calls, linked, status, player_bus, player_quit>>

CommonNext ==
  \/ CreatePlayer \/ PlayerElementMissing \/ LinkMade
  \/ PlayVideo \/ PlayerLoop \/ StopPlayer \/ DeletePlayer

LinuxNext == program = "linux" /\ (CommonNext \/ LinuxLinkFails)
JetsonNext == program = "jetson" /\ (CommonNext \/ JetsonLinkFails)

PlayerNext == LinuxNext \/ JetsonNext

\* What GStreamer posts by itself; a UDP source knows no end of the stream.
PlayerGstNext ==
  /\ \E m \in {"error", "other"} : Gst!Post(m)
  /\ UNCHANGED <<program, v_pc, calls, linked, status>>

(***************************************************************************)
(* Types of the camera receiver's state.                                   *)
(***************************************************************************)
PlayerTypeOK ==
  /\ program \in {"linux", "jetson"}
  /\ v_pc \in {"elements", "link", "play", "loop", "stop", "delete", "returned"}
  /\ calls \in 0 .. Len(Calls) /\ linked \subseteq Chain
  /\ status \in {0, -1}
  /\ Gst!GstTypeOK

=============================================================================
