------------------------------ MODULE CameraView -----------------------------
(***************************************************************************)
(* What the camera streamer promises its user: two programs, each of which *)
(* starts, plays if it can, and stops for good; and a window that comes to *)
(* show pictures of the camera's size, none but those of a sender that     *)
(* played, and only while the receiver plays.                              *)
(***************************************************************************)
CONSTANTS
  Size,      \* the size of the camera's images
  Nothing    \* what the window shows before the first picture

VARIABLES
  sender, receiver,   \* "starting", "playing", "stopped" or "failed"
  window              \* the size of the last picture shown, or Nothing

viewVars == <<sender, receiver, window>>

\* A program that failed never played; nothing plays twice.
Moves == {<<"starting", "playing">>, <<"starting", "failed">>, <<"playing", "stopped">>}

ViewInit == sender = "starting" /\ receiver = "starting" /\ window = Nothing

SenderMoves == <<sender, sender'>> \in Moves /\ UNCHANGED <<receiver, window>>

ReceiverMoves == <<receiver, receiver'>> \in Moves /\ UNCHANGED <<sender, window>>

\* A picture may arrive after its sender stopped.
Shows ==
  /\ sender \in {"playing", "stopped"} /\ receiver = "playing"
  /\ window' = Size
  /\ UNCHANGED <<sender, receiver>>

ViewNext == SenderMoves \/ ReceiverMoves \/ Shows

ViewSpec == ViewInit /\ [][ViewNext]_viewVars

=============================================================================
