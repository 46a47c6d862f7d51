--------------------------- MODULE CameraStreaming ---------------------------
(***************************************************************************)
(* The camera streamer: airsim-cam-send, the network, and one of the two   *)
(* receivers, started in any order, each with a port from its own command  *)
(* line.  The stream is what its caps say of it: the size main passed to   *)
(* runGstreamer.  The network holds the latest picture that has not        *)
(* arrived; it may lose it, and nobody is told.                            *)
(*                                                                         *)
(* Not every picture can be decoded by itself.  Which ones can - a key     *)
(* frame that comes with the stream's parameter sets - is up to the        *)
(* encoder and the payloader, which airsim-cam-send.cpp:79 and 113-115     *)
(* leave at their defaults in this.                                        *)
(***************************************************************************)
EXTENDS CameraSender, CameraReceiver, CommandLine, Functions

CONSTANTS
  SenderCommands, ReceiverCommands   \* arguments they may be started with

ASSUME CommandAssumption ==
  \A args \in SenderCommands \cup ReceiverCommands :
    args \in Seq(Argument) /\ Complete(args)

VARIABLES
  send_port, listen_port,
  picture,   \* the size of the picture under way; NoImage for none
  key,       \* whether it can be decoded by itself
  shown      \* the size of the last picture in the window; NoImage for none

streamVars == <<vars, playerVars, send_port, listen_port, picture, key, shown>>

StreamInit ==
  /\ Init /\ PlayerInit
  /\ send_port \in {PortOf(args) : args \in SenderCommands}
  /\ listen_port \in {PortOf(args) : args \in ReceiverCommands}
  /\ picture = NoImage /\ key = FALSE /\ shown = NoImage

\* An image pushed while the pipeline plays is encoded and sent.
Streams == f_pc = "push" /\ f_pc' = "sleep" /\ pipeline = "playing"

SenderStep ==
  /\ Next
  /\ \/ Streams /\ picture' = caps /\ key' \in BOOLEAN
     \/ ~Streams /\ UNCHANGED <<picture, key>>
  /\ UNCHANGED <<playerVars, send_port, listen_port, shown>>

PlayerStep ==
  /\ PlayerNext \/ PlayerGstNext
  /\ UNCHANGED <<vars, send_port, listen_port, picture, key, shown>>

-----------------------------------------------------------------------------
(* The network and the receiver's streaming thread.                        *)

PictureLost ==
  /\ picture # NoImage
  /\ picture' = NoImage /\ key' = FALSE
  /\ UNCHANGED <<vars, playerVars, send_port, listen_port, shown>>

PictureArrives ==
  /\ picture # NoImage /\ picture' = NoImage /\ key' = FALSE
  /\ player = "playing" /\ listen_port = send_port
  /\ UNCHANGED <<vars, send_port, listen_port>>

\* The first picture shown must be one that can be decoded by itself.
PictureShown ==
  /\ PictureArrives
  /\ linked = Chain
  /\ key \/ shown # NoImage
  /\ shown' = picture
  /\ UNCHANGED playerVars

\* A receiver that missed what came before drops the others.
PictureUndecoded ==
  /\ PictureArrives
  /\ linked = Chain
  /\ ~key /\ shown = NoImage
  /\ UNCHANGED <<shown, playerVars>>

\* Data that meets a link that is not there stops the source with an error.
PictureNotLinked ==
  /\ PictureArrives
  /\ linked # Chain
  /\ player_bus' = IF "error" \in Range(player_bus) THEN player_bus
                   ELSE Append(player_bus, "error")
  /\ UNCHANGED <<shown, program, v_pc, calls, linked, status, player, player_quit>>

StreamNext ==
  \/ SenderStep \/ PlayerStep
  \/ PictureLost \/ PictureShown \/ PictureUndecoded \/ PictureNotLinked

StreamSpec == StreamInit /\ [][StreamNext]_streamVars

(***************************************************************************)
(* Both programs run and AirSim answers.  Of a stream that goes on again   *)
(* and again a picture can be decoded by itself, and not all of these are  *)
(* lost: what the encoder and the network owe, whatever the programs do.   *)
(***************************************************************************)
StreamFairness ==
  /\ WF_streamVars(FeedNext /\ SenderStep)
  /\ WF_streamVars(MainNext /\ SenderStep)
  /\ WF_streamVars(PlayerNext /\ PlayerStep)
  /\ SF_streamVars(SenderStep /\ Streams /\ key')
  /\ SF_streamVars(PictureShown \/ PictureNotLinked)

FairStreamSpec == StreamSpec /\ StreamFairness

-----------------------------------------------------------------------------
(***************************************************************************)
(* Types of the camera streamer's state.                                   *)
(***************************************************************************)
StreamTypeOK ==
  /\ CameraTypeOK /\ PlayerTypeOK
  /\ send_port \in {PortOf(args) : args \in SenderCommands}
  /\ listen_port \in {PortOf(args) : args \in ReceiverCommands}
  /\ picture \in [Fields -> Nat] /\ key \in BOOLEAN /\ shown \in [Fields -> Nat]

(***************************************************************************)
(* The "Video window should open and display at the resolution [...] that  *)
(* the sender is streaming" (README.md:124), which is the camera's: what   *)
(* is shown has its width and height, each in its place, though they pass  *)
(* from one thread of the sender to the other without a lock.              *)
(***************************************************************************)
ShownAtCameraSize == shown \in {NoImage, CameraSize}

(***************************************************************************)
(* While sender and receiver both play, on one port, pictures come to be   *)
(* shown, whichever of the two was started first, or one of them ends: a   *)
(* receiver that missed the beginning of the stream does not wait for ever *)
(* before an empty window, given that such pictures come again.            *)
(***************************************************************************)
BothPlay ==
  pipeline = "playing" /\ player = "playing" /\ listen_port = send_port

SenderStops == pipeline # "playing" \/ ~camera_up

StreamIsShown ==
  BothPlay ~> (shown # NoImage \/ player # "playing" \/ SenderStops)

(***************************************************************************)
(* A receiver in which a link failed does not stay: the Linux program,     *)
(* which plays in spite of it ("Failed to link remaining elements!"), is   *)
(* stopped by the error the first data raises, and returns.                *)
(***************************************************************************)
BrokenPlayerReturns ==
  (BothPlay /\ linked # Chain) ~> (v_pc = "returned" \/ SenderStops)

-----------------------------------------------------------------------------
(***************************************************************************)
(* The two programs as their user sees them.  The sender plays from        *)
(* set_state(PLAYING) until it stops, or until its process ends; a         *)
(* receiver has failed if it returns -1.                                   *)
(***************************************************************************)
SenderPlayed == m_pc \in {"watch", "loop", "stop", "delete", "join"}

SenderLife ==
  CASE SenderPlayed /\ camera_up /\ pipeline = "playing" -> "playing"
    [] SenderPlayed /\ ~(camera_up /\ pipeline = "playing") -> "stopped"
    [] ~SenderPlayed /\ camera_up /\ m_pc # "failed" -> "starting"
    [] OTHER -> "failed"

ReceiverLife ==
  CASE v_pc \in {"elements", "link", "play"} -> "starting"
    [] v_pc \in {"loop", "stop"} -> "playing"
    [] v_pc = "returned" /\ status = -1 -> "failed"
    [] OTHER -> "stopped"

View == INSTANCE CameraView
          WITH Size <- CameraSize, Nothing <- NoImage,
               sender <- SenderLife, receiver <- ReceiverLife, window <- shown

(***************************************************************************)
(* The camera streamer implements its abstract specification: whatever is  *)
(* refused, thrown, posted or lost, a window that showed a picture never   *)
(* loses it or shows one of another size, no picture comes from a sender   *)
(* that failed to play, and a receiver that returns -1 never played.       *)
(***************************************************************************)
StreamKeepsView == View!ViewSpec

(***************************************************************************)
(* Only the Linux receiver plays what is not linked: the Jetson program,   *)
(* which makes one call for each link and looks at what it returns, has    *)
(* linked the whole chain to the window when it plays.                     *)
(***************************************************************************)
JetsonPlaysLinked == program = "jetson" /\ player = "playing" => linked = Chain

-----------------------------------------------------------------------------
(***************************************************************************)
(* Why the right size is shown: the parts of the inductive invariant,      *)
(* beside the sender's own.                                                *)
(***************************************************************************)

\* main plays only once it has loaded both fields.
CapsInv ==
  /\ m_pc \notin {"width", "height", "argument"} => DOMAIN caps = Fields
  /\ pipeline = "playing" => m_pc \notin {"width", "height", "argument"}

PictureInv == {picture, shown} \subseteq {NoImage, CameraSize}

(***************************************************************************)
(* Why the view is kept: the pipelines play in these phases only, a status *)
(* of -1 is returned at once, and a picture comes from a sender that       *)
(* played.                                                                 *)
(***************************************************************************)
PhaseInv ==
  /\ m_pc \in {"watch", "loop", "stop"} <=> pipeline = "playing"
  /\ v_pc \in {"loop", "stop"} <=> player = "playing"
  /\ status = -1 => v_pc = "returned"
  /\ picture # NoImage => SenderPlayed

\* Each call of the Jetson program made one link more.
JetsonInv ==
  program = "jetson" =>
    /\ v_pc # "returned" => linked = 1 .. calls
    /\ v_pc \notin {"elements", "link", "returned"} => calls = Len(Calls)

=============================================================================
