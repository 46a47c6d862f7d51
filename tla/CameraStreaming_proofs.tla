------------------------ MODULE CameraStreaming_proofs -----------------------
(***************************************************************************)
(* Proofs about the camera streamer, for every size of images, every       *)
(* command line and every choice of faults: its types, the frame rate, the *)
(* size of what is shown, and the abstract specification it implements.    *)
(***************************************************************************)
EXTENDS CameraStreaming, CameraSender_proofs, WellFoundedInduction

(***************************************************************************)
(* Command lines.                                                          *)
(***************************************************************************)

\* The natural numbers are well-ordered.
LEMMA HasLeast ==
  ASSUME NEW T, T \subseteq Nat, T # {}
  PROVE  \E x \in T : \A y \in T : x <= y
<1> DEFINE R == OpToRel(<, Nat)
<1>1. IsWellFoundedOn(R, Nat)
  BY NatLessThanWellFounded
<1> HIDE DEF R
<1>2. PICK x \in T : \A y \in T : <<y, x>> \notin R
  BY <1>1, WFMin
<1>3. \A y \in T : ~(y < x)
  BY <1>2 DEF R, OpToRel
<1> QED
  BY <1>2, <1>3

LastOf(S) == CHOOSE k \in S : \A j \in S : j <= k

\* Of several positions one is the last, behind which the fewest are left.
LEMMA HasLast ==
  ASSUME NEW n \in Nat, NEW S, S \subseteq 1 .. n, S # {}
  PROVE  LastOf(S) \in S /\ \A j \in S : j <= LastOf(S)
<1> DEFINE Behind(k) == n - k
           T == {Behind(k) : k \in S}
<1>1. \A k \in S : k \in Int /\ Behind(k) \in Nat
  OBVIOUS
<1> HIDE DEF Behind
<1>2. T \subseteq Nat /\ T # {}
  BY <1>1
<1>3. PICK x \in T : \A y \in T : x <= y
  <2> HIDE DEF T
  <2> QED
    BY <1>2, HasLeast
<1>4. PICK k \in S : x = Behind(k)
  BY <1>3
<1>5. \A j \in S : Behind(k) <= Behind(j)
  BY <1>3, <1>4
<1>6. \A j \in S : j <= k
  BY <1>1, <1>5 DEF Behind
<1> QED
  BY <1>6 DEF LastOf

\* main's loop, and what it should leave: after k arguments, what follows the
\* last occurrence of the option among them.
Loop(args, o, default, f) ==
  f = [k \in 0 .. Len(args) |->
         IF k = 0 THEN default
         ELSE IF args[k].option = o THEN args[k + 1].number ELSE f[k - 1]]

Upto(args, o, k) == {j \in 1 .. k : args[j].option = o}

Left(args, o, default, k) ==
  IF Upto(args, o, k) = {} THEN default ELSE args[LastOf(Upto(args, o, k)) + 1].number

\* One more argument leaves what the loop does with it.
LEMMA OneMoreArgument ==
  ASSUME NEW args \in Seq(Argument), NEW o, NEW default, NEW k \in 0 .. Len(args)
  PROVE  Left(args, o, default, k) =
           IF k = 0 THEN default
           ELSE IF args[k].option = o THEN args[k + 1].number
           ELSE Left(args, o, default, k - 1)
<1>0. Len(args) \in Nat
  OBVIOUS
<1>1. CASE k = 0
  <2>1. Upto(args, o, k) = {}
    BY <1>1 DEF Upto
  <2> QED
    BY <1>1, <2>1 DEF Left
<1>2. CASE k # 0 /\ args[k].option = o
  <2>1. k \in Nat /\ Upto(args, o, k) \subseteq 1 .. k /\ k \in Upto(args, o, k)
    BY <1>0, <1>2 DEF Upto
  <2>2. /\ LastOf(Upto(args, o, k)) \in Upto(args, o, k)
        /\ \A j \in Upto(args, o, k) : j <= LastOf(Upto(args, o, k))
    BY <2>1, HasLast
  <2>3. LastOf(Upto(args, o, k)) = k
    BY <2>1, <2>2
  <2> QED
    BY <1>2, <2>1, <2>3 DEF Left
<1>3. CASE k # 0 /\ args[k].option # o
  <2>1. Upto(args, o, k) = Upto(args, o, k - 1)
    BY <1>0, <1>3 DEF Upto
  <2> QED
    BY <1>3, <2>1 DEF Left
<1> QED
  BY <1>1, <1>2, <1>3

\* So the loop has a solution, and every solution leaves that.
LEMMA LoopExists ==
  ASSUME NEW args \in Seq(Argument), NEW o, NEW default
  PROVE  \E f : Loop(args, o, default, f)
<1> DEFINE g == [k \in 0 .. Len(args) |-> Left(args, o, default, k)]
<1>1. ASSUME NEW k \in 0 .. Len(args)
      PROVE  g[k] = IF k = 0 THEN default
                    ELSE IF args[k].option = o THEN args[k + 1].number ELSE g[k - 1]
  <2>1. k # 0 => k - 1 \in 0 .. Len(args)
    OBVIOUS
  <2> QED
    BY <2>1, OneMoreArgument
<1>2. Loop(args, o, default, g)
  BY <1>1 DEF Loop
<1> QED
  BY <1>2

LEMMA LoopLeaves ==
  ASSUME NEW args \in Seq(Argument), NEW o, NEW default, NEW f, Loop(args, o, default, f),
         NEW k \in 0 .. Len(args)
  PROVE  f[k] = Left(args, o, default, k)
<1> DEFINE Differ == {j \in 0 .. Len(args) : f[j] # Left(args, o, default, j)}
<1>0. Len(args) \in Nat
  OBVIOUS
<1>1. ASSUME Differ # {} PROVE FALSE
  <2>1. PICK b \in Differ : \A j \in Differ : b <= j
    <3>1. Differ \subseteq Nat
      BY <1>0
    <3> HIDE DEF Differ
    <3> QED
      BY <1>1, <3>1, HasLeast
  <2>2. b \in 0 .. Len(args) /\ f[b] # Left(args, o, default, b)
    BY <2>1
  <2>3. f[b] = IF b = 0 THEN default
               ELSE IF args[b].option = o THEN args[b + 1].number ELSE f[b - 1]
    BY <2>2 DEF Loop
  <2>4. b # 0 => f[b - 1] = Left(args, o, default, b - 1)
    <3> SUFFICES ASSUME b # 0 PROVE f[b - 1] = Left(args, o, default, b - 1)
      OBVIOUS
    <3>1. b - 1 \in 0 .. Len(args) /\ ~(b <= b - 1)
      BY <1>0, <2>2
    <3>2. b - 1 \notin Differ
      <4> HIDE DEF Differ
      <4> QED
        BY <2>1, <3>1
    <3> QED
      BY <3>1, <3>2
  <2> QED
    BY <2>2, <2>3, <2>4, OneMoreArgument
<1> QED
  BY <1>1

LEMMA ValueLeft ==
  ASSUME NEW args \in Seq(Argument), NEW o, NEW default
  PROVE  ValueOf(args, o, default) = Left(args, o, default, Len(args))
<1> DEFINE value == CHOOSE f : Loop(args, o, default, f)
<1>1. Loop(args, o, default, value)
  BY LoopExists, Zenon
<1>2. ValueOf(args, o, default) = value[Len(args)]
  BY DEF ValueOf, Loop
<1> HIDE DEF value
<1>3. Len(args) \in 0 .. Len(args)
  OBVIOUS
<1> QED
  BY <1>1, <1>2, <1>3, LoopLeaves

(***************************************************************************)
(* What main's loop over its arguments leaves, whatever is typed but an    *)
(* option with nothing after it: an integer; the default if the option is  *)
(* not there; and if it is there several times, what the argument after    *)
(* its last occurrence reads as.                                           *)
(***************************************************************************)
THEOREM OptionValues ==
  ASSUME NEW args \in Seq(Argument), Complete(args), NEW o \in Options,
         NEW default \in Int
  PROVE  /\ ValueOf(args, o, default) \in Int
         /\ At(args, o) = {} => ValueOf(args, o, default) = default
         /\ \A k \in At(args, o) :
              (\A j \in At(args, o) : j <= k)
                => ValueOf(args, o, default) = args[k + 1].number
<1>0. Len(args) \in Nat
  OBVIOUS
<1>1. Upto(args, o, Len(args)) = At(args, o) /\ At(args, o) \subseteq 1 .. Len(args)
  BY DEF Upto, At
<1>2. ValueOf(args, o, default) =
        IF At(args, o) = {} THEN default ELSE args[LastOf(At(args, o)) + 1].number
  BY <1>1, ValueLeft DEF Left
<1>3. ASSUME At(args, o) # {}, NEW k \in At(args, o), \A j \in At(args, o) : j <= k
      PROVE  ValueOf(args, o, default) = args[k + 1].number
  <2>1. /\ LastOf(At(args, o)) \in At(args, o)
        /\ \A j \in At(args, o) : j <= LastOf(At(args, o))
    BY <1>0, <1>1, <1>3, HasLast
  <2>2. LastOf(At(args, o)) = k
    BY <1>1, <1>3, <2>1
  <2> QED
    BY <1>2, <1>3, <2>2
<1>4. ASSUME At(args, o) # {}
      PROVE  args[LastOf(At(args, o)) + 1].number \in Int
  <2> DEFINE k == LastOf(At(args, o))
  <2>1. k \in At(args, o)
    BY <1>0, <1>1, <1>4, HasLast
  <2> HIDE DEF k
  <2>2. k + 1 \in 1 .. Len(args)
    BY <1>0, <2>1 DEF At, Complete
  <2>3. args[k + 1] \in Argument
    BY <2>2
  <2>4. args[k + 1].number \in Int
    BY <2>3 DEF Argument
  <2> QED
    BY <2>4 DEF k
<1> QED
  BY <1>2, <1>3, <1>4

(***************************************************************************)
(* The frame rate main passes on is never 0, by which sendImageStream      *)
(* divides (airsim-cam-send.cpp:242), nor above 60, whatever was typed.    *)
(* It may be negative.                                                     *)
(***************************************************************************)
THEOREM FrameRateUsable ==
  ASSUME NEW args \in Seq(Argument), Complete(args)
  PROVE  FrameRateOf(args) \in Int \ {0} /\ FrameRateOf(args) <= 60
<1>1. ValueOf(args, "-f", 0) \in Int
  <2>1. "-f" \in Options /\ 0 \in Int
    BY DEF Options
  <2> QED
    BY <2>1, OptionValues
<1> QED
  BY <1>1 DEF FrameRateOf

-----------------------------------------------------------------------------
(***************************************************************************)
(* Types.                                                                  *)
(***************************************************************************)
LEMMA StreamTypeInit == StreamInit => StreamTypeOK
<1> SUFFICES ASSUME StreamInit PROVE StreamTypeOK
  OBVIOUS
<1>1. CameraTypeOK
  BY CameraTypeInit DEF StreamInit
<1>2. << >> \in Seq(Gst!Messages)
  OBVIOUS
<1>3. Gst!GstTypeOK
  BY <1>2, Zenon DEF StreamInit, PlayerInit, Gst!GstInit, Gst!GstTypeOK
<1>4. calls \in 0 .. Len(Calls) /\ linked \subseteq Chain
  BY DEF StreamInit, PlayerInit, Calls, LinuxCalls, JetsonCalls
<1>5. NoImage \in [Fields -> Nat]
  BY DEF NoImage
<1> QED
  BY <1>1, <1>3, <1>4, <1>5 DEF StreamInit, PlayerInit, PlayerTypeOK, StreamTypeOK

\* A link call has a place in the chain.
LEMMA CallFacts ==
  ASSUME PlayerTypeOK, LinkCall
  PROVE  /\ calls' \in 0 .. Len(Calls)
         /\ Calls[calls + 1] \subseteq Chain
<1>1. CASE program = "linux"
  BY <1>1 DEF PlayerTypeOK, LinkCall, Calls, LinuxCalls, Chain
<1>2. CASE program = "jetson"
  BY <1>2 DEF PlayerTypeOK, LinkCall, Calls, JetsonCalls, Chain
<1> QED
  BY <1>1, <1>2 DEF PlayerTypeOK

LEMMA CallsKept == program' = program => Calls' = Calls
BY DEF Calls, LinuxCalls, JetsonCalls

LEMMA PlayerTypes == PlayerTypeOK /\ PlayerNext => PlayerTypeOK'
<1> SUFFICES ASSUME PlayerTypeOK, PlayerNext PROVE PlayerTypeOK'
  OBVIOUS
<1> USE DEF PlayerTypeOK, Gst!GstTypeOK, PlayerGoto, playerGstVars
<1>0. Calls' = Calls
  <2>1. program' = program
    BY DEF PlayerNext, LinuxNext, JetsonNext, CommonNext, CreatePlayer,
           PlayerElementMissing, LinkMade, PlayVideo, PlayerLoop, StopPlayer,
           DeletePlayer, LinuxLinkFails, JetsonLinkFails
  <2> QED
    BY <2>1, CallsKept
<1>1. CASE CreatePlayer
  BY <1>0, <1>1 DEF CreatePlayer
<1>2. CASE PlayerElementMissing
  BY <1>0, <1>2 DEF PlayerElementMissing
<1>3. CASE LinkMade
  <2>1. LinkCall
    BY <1>3 DEF LinkMade
  <2>2. linked' \subseteq Chain
    BY <1>3, <2>1, CallFacts DEF LinkMade
  <2> QED
    BY <1>0, <1>3, <2>1, <2>2, CallFacts DEF LinkMade
<1>4. CASE PlayVideo
  BY <1>0, <1>4 DEF PlayVideo
<1>5. CASE PlayerLoop
  <2>1. player_bus' \in Seq(Gst!Messages)
    BY <1>5 DEF PlayerLoop
  <2>2. player_quit' \in BOOLEAN
    BY <1>5, Zenon DEF PlayerLoop, player_bus_call
  <2> QED
    BY <1>0, <1>5, <2>1, <2>2 DEF PlayerLoop
<1>6. CASE StopPlayer
  BY <1>0, <1>6 DEF StopPlayer
<1>7. CASE DeletePlayer
  BY <1>0, <1>7 DEF DeletePlayer
<1>8. CASE LinuxLinkFails \/ JetsonLinkFails
  <2>1. LinkCall /\ LinkRefused
    BY <1>8 DEF LinuxLinkFails, JetsonLinkFails
  <2>2. linked' \subseteq Chain
    BY <2>1, CallFacts DEF LinkRefused
  <2> QED
    BY <1>0, <1>8, <2>1, <2>2, CallFacts DEF LinuxLinkFails, JetsonLinkFails
<1> QED
  BY <1>1, <1>2, <1>3, <1>4, <1>5, <1>6, <1>7, <1>8
  DEF PlayerNext, LinuxNext, JetsonNext, CommonNext

LEMMA PlayerTypesKept == PlayerTypeOK /\ UNCHANGED playerVars => PlayerTypeOK'
<1> SUFFICES ASSUME PlayerTypeOK, UNCHANGED playerVars PROVE PlayerTypeOK'
  OBVIOUS
<1>1. Calls' = Calls
  BY CallsKept DEF playerVars
<1> QED
  BY <1>1 DEF playerVars, playerGstVars, PlayerTypeOK, Gst!GstTypeOK

LEMMA CameraTypesKept == CameraTypeOK /\ UNCHANGED vars => CameraTypeOK'
BY CameraTypeStep

-----------------------------------------------------------------------------
(***************************************************************************)
(* The caps: main does not play before it has loaded both fields.          *)
(***************************************************************************)
LEMMA CapsInit == Init => CapsInv
BY DEF Init, GstInit, CapsInv

LEMMA CapsStep == CapsInv /\ [Next]_vars => CapsInv'
<1> SUFFICES ASSUME CapsInv, [Next]_vars PROVE CapsInv'
  OBVIOUS
<1> USE DEF CapsInv
<1>1. CASE FeedNext
  BY <1>1
  DEF FeedNext, GetOneImage, GetImageThrows, StoreSize, CheckAppSource, PushBuffer,
      PushCrashes, FeedSleeps, mainVars, gstVars
<1>2. CASE MainNext
  <2>1. CASE ReadArgument
    BY <2>1 DEF ReadArgument, MainGoto, gstVars
  <2>2. CASE WaitForSize \/ CreateAppSource \/ CreateElements \/ Link
    BY <2>2 DEF WaitForSize, CreateAppSource, CreateElements, Link, MainGoto, gstVars
  <2>3. CASE LinkFails \/ Play \/ AddWatch \/ DeletePipeline
    BY <2>3 DEF LinkFails, Play, AddWatch, DeletePipeline, DropPipeline, MainGoto, gstVars
  <2>4. CASE RunMainLoop \/ StopPipeline
    BY <2>4 DEF RunMainLoop, Dispatch, StopPipeline, MainGoto, gstVars
  <2>5. CASE ReturnFailure
    BY <2>5 DEF ReturnFailure, mainVars, gstVars
  <2> QED
    BY <1>2, <2>1, <2>2, <2>3, <2>4, <2>5 DEF MainNext
<1>3. CASE GstNext
  BY <1>3 DEF GstNext, Post, mainVars
<1>4. CASE UNCHANGED vars
  BY <1>4 DEF vars, mainVars, gstVars
<1> QED
  BY <1>1, <1>2, <1>3, <1>4 DEF Next

\* What is streamed has both fields.
LEMMA StreamedCaps ==
  ASSUME CameraTypeOK, CapsInv, Streams
  PROVE  caps \in [Fields -> Nat]
BY DEF CameraTypeOK, CapsInv, Streams

LEMMA StreamTypeStep ==
  StreamTypeOK /\ CapsInv /\ [StreamNext]_streamVars => (StreamTypeOK /\ CapsInv)'
<1> SUFFICES ASSUME StreamTypeOK, CapsInv, [StreamNext]_streamVars
             PROVE  StreamTypeOK' /\ CapsInv'
  OBVIOUS
<1> USE DEF StreamTypeOK
<1>0. NoImage \in [Fields -> Nat]
  BY DEF NoImage
<1>1. CASE SenderStep
  <2>1. CameraTypeOK' /\ CapsInv'
    BY <1>1, CameraTypeStep, CapsStep DEF SenderStep
  <2>2. PlayerTypeOK'
    BY <1>1, PlayerTypesKept DEF SenderStep
  <2>3. picture' \in [Fields -> Nat] /\ key' \in BOOLEAN
    BY <1>1, StreamedCaps, Zenon DEF SenderStep
  <2> QED
    BY <1>1, <2>1, <2>2, <2>3 DEF SenderStep
<1>2. CASE UNCHANGED vars
  <2>1. CameraTypeOK' /\ CapsInv'
    BY <1>2, CameraTypesKept, CapsStep
  <2>2. CASE PlayerStep
    <3>1. CASE PlayerNext
      BY <2>1, <2>2, <3>1, PlayerTypes DEF PlayerStep
    <3>2. CASE PlayerGstNext
      <4>1. Gst!GstTypeOK'
        <5>1. PICK m \in Gst!Messages : Gst!Post(m)
          BY <3>2 DEF PlayerGstNext, Gst!Messages
        <5>2. player_bus' \in Seq(Gst!Messages)
          BY <5>1 DEF Gst!Post, PlayerTypeOK, Gst!GstTypeOK
        <5> QED
          BY <5>1, <5>2 DEF Gst!Post, PlayerTypeOK, Gst!GstTypeOK
      <4>2. Calls' = Calls
        BY <3>2, CallsKept DEF PlayerGstNext
      <4>3. PlayerTypeOK'
        BY <3>2, <4>1, <4>2 DEF PlayerGstNext, PlayerTypeOK
      <4> QED
        BY <2>1, <2>2, <4>3 DEF PlayerStep
    <3> QED
      BY <2>2, <3>1, <3>2 DEF PlayerStep
  <2>3. CASE PictureLost \/ PictureShown \/ PictureUndecoded
    <3>1. PlayerTypeOK'
      BY <2>3, PlayerTypesKept DEF PictureLost, PictureShown, PictureUndecoded
    <3> QED
      BY <1>0, <2>1, <2>3, <3>1
      DEF PictureLost, PictureShown, PictureUndecoded, PictureArrives
  <2>4. CASE PictureNotLinked
    <3>1. Calls' = Calls
      BY <2>4, CallsKept DEF PictureNotLinked
    <3>2. player_bus' \in Seq(Gst!Messages)
      BY <2>4 DEF PictureNotLinked, PlayerTypeOK, Gst!GstTypeOK, Gst!Messages
    <3>3. Gst!GstTypeOK'
      BY <2>4, <3>2 DEF PictureNotLinked, PlayerTypeOK, Gst!GstTypeOK
    <3>4. PlayerTypeOK'
      BY <2>4, <3>1, <3>3 DEF PictureNotLinked, PlayerTypeOK
    <3> QED
      BY <1>0, <2>1, <2>4, <3>4 DEF PictureNotLinked, PictureArrives
  <2>5. CASE UNCHANGED streamVars
    <3>1. PlayerTypeOK'
      BY <2>5, PlayerTypesKept DEF streamVars
    <3> QED
      BY <2>1, <2>5, <3>1 DEF streamVars
  <2> QED
    BY <1>2, <2>2, <2>3, <2>4, <2>5, <1>1 DEF StreamNext
<1>3. SenderStep \/ UNCHANGED vars
  BY DEF StreamNext, PlayerStep, PictureLost, PictureShown, PictureUndecoded,
         PictureNotLinked, PictureArrives, streamVars
<1> QED
  BY <1>1, <1>2, <1>3

(***************************************************************************)
(* The camera streamer's state keeps its types.                            *)
(***************************************************************************)
THEOREM StreamTypes == StreamSpec => []StreamTypeOK
<1>1. StreamInit => StreamTypeOK /\ CapsInv
  BY StreamTypeInit, CapsInit DEF StreamInit
<1>2. StreamSpec => [](StreamTypeOK /\ CapsInv)
  BY <1>1, StreamTypeStep, PTL DEF StreamSpec
<1> QED
  BY <1>2, PTL

-----------------------------------------------------------------------------
(***************************************************************************)
(* The size of what is shown.                                              *)
(***************************************************************************)
LEMMA PictureStep ==
  ASSUME CameraTypeOK, CapsInv, CapsAreCameraSize, PictureInv, [StreamNext]_streamVars
  PROVE  PictureInv'
<1> USE DEF PictureInv
<1>1. CASE SenderStep
  <2>1. Streams => caps = CameraSize
    <3> SUFFICES ASSUME Streams PROVE caps = CameraSize
      OBVIOUS
    <3>1. caps \in [Fields -> Nat]
      BY StreamedCaps
    <3>2. CameraSize \in [Fields -> Nat \ {0}]
      BY CameraAssumption
    <3>3. \A f \in Fields : caps[f] = CameraSize[f]
      BY <3>1 DEF CapsAreCameraSize
    <3> QED
      BY <3>1, <3>2, <3>3
  <2> QED
    BY <1>1, <2>1 DEF SenderStep
<1>2. CASE PlayerStep
  BY <1>2 DEF PlayerStep
<1>3. CASE PictureLost \/ PictureShown \/ PictureUndecoded \/ PictureNotLinked
  BY <1>3 DEF PictureLost, PictureShown, PictureUndecoded, PictureNotLinked, PictureArrives
<1>4. CASE UNCHANGED streamVars
  BY <1>4 DEF streamVars
<1> QED
  BY <1>1, <1>2, <1>3, <1>4 DEF StreamNext

LEMMA SenderSteps == [StreamNext]_streamVars => [Next]_vars
BY DEF StreamNext, SenderStep, PlayerStep, PictureLost, PictureShown, PictureUndecoded,
       PictureNotLinked, PictureArrives, streamVars

(***************************************************************************)
(* If AirSim has images from the first one on, what the receiver shows has *)
(* the camera's width and height, for either receiver, any faults and any  *)
(* order in which the threads and programs run.                            *)
(***************************************************************************)
THEOREM RightPictures ==
  ASSUME ~LaterFailures
  PROVE  StreamSpec => []ShownAtCameraSize
<1> DEFINE CameraInv == CameraTypeOK /\ SizeInv /\ CapsAreCameraSize /\ CapsInv
           StreamInv == CameraInv /\ PictureInv
<1>1. StreamInit => StreamInv
  BY CameraTypeInit, SizeInit, CapsInit DEF StreamInit, PictureInv
<1>2. StreamInv /\ [StreamNext]_streamVars => StreamInv'
  <2> SUFFICES ASSUME StreamInv, [StreamNext]_streamVars PROVE StreamInv'
    OBVIOUS
  <2>1. [Next]_vars
    BY SenderSteps
  <2>2. CameraInv'
    BY <2>1, CameraTypeStep, SizeStep, CapsStep
  <2> QED
    BY <2>2, PictureStep
<1>3. StreamInv => ShownAtCameraSize
  BY DEF PictureInv, ShownAtCameraSize
<1> QED
  BY <1>1, <1>2, <1>3, PTL DEF StreamSpec

-----------------------------------------------------------------------------
(***************************************************************************)
(* The phases in which the two pipelines play.                             *)
(***************************************************************************)
LEMMA PhaseInit == StreamInit => PhaseInv /\ JetsonInv
BY DEF StreamInit, Init, GstInit, PlayerInit, Gst!GstInit, PhaseInv, JetsonInv

\* Of a sender's step the phase keeps track of these.
LEMMA SenderPhases ==
  ASSUME m_pc \in {"watch", "loop", "stop"} <=> pipeline = "playing", [Next]_vars
  PROVE  /\ m_pc' \in {"watch", "loop", "stop"} <=> pipeline' = "playing"
         /\ SenderPlayed => SenderPlayed'
<1> USE DEF SenderPlayed
<1>1. CASE FeedNext
  BY <1>1
  DEF FeedNext, GetOneImage, GetImageThrows, StoreSize, CheckAppSource, PushBuffer,
      PushCrashes, FeedSleeps, mainVars, gstVars
<1>2. CASE MainNext
  <2>1. CASE ReadArgument
    BY <2>1 DEF ReadArgument, MainGoto, gstVars
  <2>2. CASE WaitForSize \/ CreateAppSource \/ CreateElements \/ Link
    BY <2>2 DEF WaitForSize, CreateAppSource, CreateElements, Link, MainGoto, gstVars
  <2>3. CASE LinkFails \/ Play \/ AddWatch \/ DeletePipeline
    BY <2>3 DEF LinkFails, Play, AddWatch, DeletePipeline, DropPipeline, MainGoto, gstVars
  <2>4. CASE RunMainLoop \/ StopPipeline
    BY <2>4 DEF RunMainLoop, Dispatch, StopPipeline, MainGoto, gstVars
  <2>5. CASE ReturnFailure
    BY <2>5 DEF ReturnFailure, mainVars, gstVars
  <2> QED
    BY <1>2, <2>1, <2>2, <2>3, <2>4, <2>5 DEF MainNext
<1>3. CASE GstNext
  BY <1>3 DEF GstNext, Post, mainVars
<1>4. CASE UNCHANGED vars
  BY <1>4 DEF vars, mainVars, gstVars
<1> QED
  BY <1>1, <1>2, <1>3, <1>4 DEF Next

LEMMA PlayerPhases ==
  ASSUME v_pc \in {"loop", "stop"} <=> player = "playing", status = -1 => v_pc = "returned",
         PlayerNext
  PROVE  /\ v_pc' \in {"loop", "stop"} <=> player' = "playing"
         /\ status' = -1 => v_pc' = "returned"
<1> USE DEF PlayerGoto, playerGstVars
<1>1. CASE CommonNext
  BY <1>1 DEF CommonNext, CreatePlayer, PlayerElementMissing, LinkMade, PlayVideo,
              PlayerLoop, StopPlayer, DeletePlayer
<1>2. CASE LinuxLinkFails \/ JetsonLinkFails
  BY <1>2 DEF LinuxLinkFails, JetsonLinkFails
<1> QED
  BY <1>1, <1>2 DEF PlayerNext, LinuxNext, JetsonNext

LEMMA PhaseStep == PhaseInv /\ [StreamNext]_streamVars => PhaseInv'
<1> SUFFICES ASSUME PhaseInv, [StreamNext]_streamVars PROVE PhaseInv'
  OBVIOUS
<1> USE DEF PhaseInv
<1>1. /\ m_pc' \in {"watch", "loop", "stop"} <=> pipeline' = "playing"
      /\ SenderPlayed => SenderPlayed'
  BY SenderSteps, SenderPhases
<1>2. CASE SenderStep
  <2>1. Streams => SenderPlayed
    BY DEF Streams, SenderPlayed
  <2> QED
    BY <1>1, <1>2, <2>1 DEF SenderStep, playerVars, playerGstVars
<1>3. CASE PlayerStep
  <2>1. CASE PlayerNext
    BY <1>1, <1>3, <2>1, PlayerPhases DEF PlayerStep
  <2>2. CASE PlayerGstNext
    BY <1>1, <1>3, <2>2 DEF PlayerStep, PlayerGstNext, Gst!Post
  <2> QED
    BY <1>3, <2>1, <2>2 DEF PlayerStep
<1>4. CASE PictureLost \/ PictureShown \/ PictureUndecoded \/ PictureNotLinked
  BY <1>1, <1>4
  DEF PictureLost, PictureShown, PictureUndecoded, PictureNotLinked, PictureArrives,
      playerVars, playerGstVars
<1>5. CASE UNCHANGED streamVars
  BY <1>1, <1>5 DEF streamVars, playerVars, playerGstVars
<1> QED
  BY <1>2, <1>3, <1>4, <1>5 DEF StreamNext

-----------------------------------------------------------------------------
(***************************************************************************)
(* The chain of the Jetson program.                                        *)
(***************************************************************************)
LEMMA JetsonPlayerStep ==
  ASSUME PlayerTypeOK, JetsonInv, PlayerNext
  PROVE  JetsonInv'
<1> SUFFICES ASSUME program' = "jetson" PROVE JetsonInv'
  BY DEF JetsonInv
<1> USE DEF PlayerGoto, playerGstVars
<1>0. program = "jetson" /\ (CommonNext \/ JetsonLinkFails)
  BY DEF PlayerNext, LinuxNext, JetsonNext, CommonNext, CreatePlayer,
         PlayerElementMissing, LinkMade, PlayVideo, PlayerLoop, StopPlayer,
         DeletePlayer, LinuxLinkFails
<1>1. Calls = JetsonCalls /\ Calls' = JetsonCalls
  BY <1>0 DEF Calls, JetsonCalls
<1>2. CASE LinkMade
  <2>1. /\ calls \in 0 .. 4
        /\ Len(JetsonCalls) = 5
        /\ JetsonCalls[calls + 1] = {calls + 1}
    BY <1>1, <1>2 DEF LinkMade, LinkCall, PlayerTypeOK, JetsonCalls
  <2>2. linked' = (1 .. calls) \cup {calls + 1}
    BY <1>0, <1>1, <1>2, <2>1 DEF LinkMade, JetsonInv
  <2>3. linked' = 1 .. calls'
    BY <1>2, <2>1, <2>2 DEF LinkMade, LinkCall
  <2> QED
    BY <1>0, <1>1, <1>2, <2>1, <2>3 DEF LinkMade, JetsonInv
<1>3. CASE CreatePlayer \/ PlayerElementMissing
  BY <1>0, <1>1, <1>3 DEF CreatePlayer, PlayerElementMissing, JetsonInv
<1>4. CASE PlayVideo \/ PlayerLoop \/ StopPlayer \/ DeletePlayer
  BY <1>0, <1>1, <1>4 DEF PlayVideo, PlayerLoop, StopPlayer, DeletePlayer, JetsonInv
<1>5. CASE JetsonLinkFails
  BY <1>0, <1>1, <1>5 DEF JetsonLinkFails, JetsonInv
<1> QED
  BY <1>0, <1>2, <1>3, <1>4, <1>5 DEF CommonNext

LEMMA JetsonStep == PlayerTypeOK /\ JetsonInv /\ [StreamNext]_streamVars => JetsonInv'
<1> SUFFICES ASSUME PlayerTypeOK, JetsonInv, [StreamNext]_streamVars PROVE JetsonInv'
  OBVIOUS
<1>1. CASE PlayerNext
  BY <1>1, JetsonPlayerStep
<1>2. CASE UNCHANGED <<program, v_pc, calls, linked>>
  BY <1>2, CallsKept DEF JetsonInv
<1> QED
  BY <1>1, <1>2
  DEF StreamNext, SenderStep, PlayerStep, PlayerGstNext, PictureLost, PictureShown,
      PictureUndecoded, PictureNotLinked, PictureArrives, streamVars, playerVars, playerGstVars

(***************************************************************************)
(* The Jetson program never plays a chain that lacks a link, so that data  *)
(* meets a missing link in the Linux program only.                         *)
(***************************************************************************)
THEOREM JetsonIsLinked == StreamSpec => []JetsonPlaysLinked
<1> DEFINE Inv == StreamTypeOK /\ CapsInv /\ PhaseInv /\ JetsonInv
<1>1. StreamInit => Inv
  BY StreamTypeInit, CapsInit, PhaseInit DEF StreamInit
<1>2. Inv /\ [StreamNext]_streamVars => Inv'
  BY StreamTypeStep, PhaseStep, JetsonStep DEF StreamTypeOK
<1>3. Inv => JetsonPlaysLinked
  BY DEF PhaseInv, JetsonInv, JetsonPlaysLinked, Calls, JetsonCalls, Chain
<1> QED
  BY <1>1, <1>2, <1>3, PTL DEF StreamSpec

-----------------------------------------------------------------------------
(***************************************************************************)
(* The view: what each step does to the life of either program.            *)
(***************************************************************************)
LEMMA ViewStart == StreamInit => View!ViewInit
<1> SUFFICES ASSUME StreamInit PROVE View!ViewInit
  OBVIOUS
<1>1. m_pc = "width" /\ camera_up = TRUE /\ v_pc = "elements"
  BY DEF StreamInit, Init, PlayerInit
<1>2. SenderLife = "starting"
  <2>1. ~SenderPlayed
    BY <1>1 DEF SenderPlayed
  <2> QED
    BY <1>1, <2>1 DEF SenderLife
<1>3. ReceiverLife = "starting"
  BY <1>1 DEF ReceiverLife
<1> QED
  BY <1>2, <1>3 DEF StreamInit, View!ViewInit

LEMMA SenderLifeStep ==
  ASSUME PhaseInv, PhaseInv', [Next]_vars
  PROVE  SenderLife' = SenderLife \/ <<SenderLife, SenderLife'>> \in View!Moves
<1> USE DEF SenderLife, SenderPlayed, PhaseInv, View!Moves
<1>1. CASE FeedNext
  BY <1>1
  DEF FeedNext, GetOneImage, GetImageThrows, StoreSize, CheckAppSource, PushBuffer,
      PushCrashes, FeedSleeps, FeedGoto, mainVars, feedVars, gstVars
<1>2. CASE MainNext
  <2>1. CASE ReadArgument
    BY <2>1 DEF ReadArgument, MainGoto, gstVars
  <2>2. CASE WaitForSize \/ CreateAppSource \/ CreateElements \/ Link
    BY <2>2 DEF WaitForSize, CreateAppSource, CreateElements, Link, MainGoto, gstVars
  <2>3. CASE LinkFails \/ Play \/ AddWatch \/ DeletePipeline
    BY <2>3 DEF LinkFails, Play, AddWatch, DeletePipeline, DropPipeline, MainGoto, gstVars
  <2>4. CASE RunMainLoop \/ StopPipeline
    BY <2>4 DEF RunMainLoop, Dispatch, StopPipeline, MainGoto, gstVars
  <2>5. CASE ReturnFailure
    BY <2>5 DEF ReturnFailure, mainVars, gstVars
  <2> QED
    BY <1>2, <2>1, <2>2, <2>3, <2>4, <2>5 DEF MainNext
<1>3. CASE GstNext
  BY <1>3 DEF GstNext, Post, mainVars
<1>4. CASE UNCHANGED vars
  BY <1>4 DEF vars, mainVars, gstVars
<1> QED
  BY <1>1, <1>2, <1>3, <1>4 DEF Next

LEMMA ReceiverLifeStep ==
  ASSUME PlayerTypeOK, PhaseInv, PhaseInv', PlayerNext
  PROVE  ReceiverLife' = ReceiverLife \/ <<ReceiverLife, ReceiverLife'>> \in View!Moves
<1> USE DEF ReceiverLife, PhaseInv, PlayerTypeOK, View!Moves, PlayerGoto, playerGstVars
<1>1. CASE CreatePlayer \/ PlayerElementMissing \/ LinkMade
  BY <1>1 DEF CreatePlayer, PlayerElementMissing, LinkMade
<1>2. CASE PlayVideo \/ PlayerLoop \/ StopPlayer \/ DeletePlayer
  BY <1>2 DEF PlayVideo, PlayerLoop, StopPlayer, DeletePlayer
<1>3. CASE LinuxLinkFails \/ JetsonLinkFails
  BY <1>3 DEF LinuxLinkFails, JetsonLinkFails
<1> QED
  BY <1>1, <1>2, <1>3 DEF PlayerNext, LinuxNext, JetsonNext, CommonNext

\* What keeps the state of a program keeps its life.
LEMMA LivesKept ==
  /\ UNCHANGED vars => UNCHANGED SenderLife
  /\ UNCHANGED <<v_pc, status, player>> => UNCHANGED ReceiverLife
BY DEF vars, mainVars, gstVars, SenderLife, SenderPlayed, ReceiverLife

LEMMA ViewStep ==
  ASSUME PlayerTypeOK, PhaseInv, PhaseInv', PictureInv, [StreamNext]_streamVars
  PROVE  [View!ViewNext]_(View!viewVars)
<1> USE DEF View!ViewNext, View!viewVars
<1>1. CASE SenderStep
  <2>1. SenderLife' = SenderLife \/ <<SenderLife, SenderLife'>> \in View!Moves
    BY <1>1, SenderLifeStep DEF SenderStep
  <2>2. UNCHANGED <<ReceiverLife, shown>>
    BY <1>1, LivesKept DEF SenderStep, playerVars, playerGstVars
  <2> QED
    BY <2>1, <2>2 DEF View!SenderMoves
<1>2. CASE PlayerStep
  <2>1. UNCHANGED <<SenderLife, shown>>
    BY <1>2, LivesKept DEF PlayerStep
  <2>2. CASE PlayerNext
    <3>1. ReceiverLife' = ReceiverLife \/ <<ReceiverLife, ReceiverLife'>> \in View!Moves
      BY <2>2, ReceiverLifeStep
    <3> QED
      BY <2>1, <3>1 DEF View!ReceiverMoves
  <2>3. CASE PlayerGstNext
    BY <2>1, <2>3, LivesKept DEF PlayerGstNext, Gst!Post
  <2> QED
    BY <1>2, <2>2, <2>3 DEF PlayerStep
<1>3. CASE PictureShown
  <2>1. UNCHANGED <<SenderLife, ReceiverLife>>
    BY <1>3, LivesKept DEF PictureShown, PictureArrives, playerVars, playerGstVars
  <2>2. SenderLife \in {"playing", "stopped"}
    BY <1>3 DEF PictureShown, PictureArrives, PhaseInv, SenderLife
  <2>3. ReceiverLife = "playing"
    BY <1>3 DEF PictureShown, PictureArrives, PhaseInv, ReceiverLife
  <2>4. shown' = CameraSize
    BY <1>3 DEF PictureShown, PictureArrives, PictureInv
  <2> QED
    BY <2>1, <2>2, <2>3, <2>4 DEF View!Shows
<1>4. CASE PictureLost \/ PictureUndecoded \/ PictureNotLinked \/ UNCHANGED streamVars
  <2>1. UNCHANGED <<SenderLife, ReceiverLife, shown>>
    BY <1>4, LivesKept
    DEF PictureLost, PictureUndecoded, PictureNotLinked, PictureArrives, streamVars,
        playerVars, playerGstVars
  <2> QED
    BY <2>1
<1> QED
  BY <1>1, <1>2, <1>3, <1>4 DEF StreamNext

(***************************************************************************)
(* The camera streamer implements its abstract specification, for either   *)
(* receiver, any command lines, faults and messages of GStreamer, if       *)
(* AirSim has images from the first one on.                                *)
(***************************************************************************)
THEOREM StreamImplementsView ==
  ASSUME ~LaterFailures
  PROVE  StreamSpec => StreamKeepsView
<1> DEFINE Inv == /\ StreamTypeOK /\ CapsInv /\ SizeInv /\ CapsAreCameraSize
                  /\ PictureInv /\ PhaseInv
<1>1. StreamInit => Inv
  BY StreamTypeInit, SizeInit, CapsInit, PhaseInit DEF StreamInit, PictureInv
<1>2. Inv /\ [StreamNext]_streamVars => Inv'
  <2> SUFFICES ASSUME Inv, [StreamNext]_streamVars PROVE Inv'
    OBVIOUS
  <2>1. [Next]_vars
    BY SenderSteps
  <2>2. (SizeInv /\ CapsAreCameraSize)'
    BY <2>1, SizeStep DEF StreamTypeOK
  <2>3. PictureInv'
    BY PictureStep DEF StreamTypeOK
  <2> QED
    BY <2>2, <2>3, StreamTypeStep, PhaseStep
<1>3. Inv /\ Inv' /\ [StreamNext]_streamVars => [View!ViewNext]_(View!viewVars)
  BY ViewStep DEF StreamTypeOK
<1> QED
  BY <1>1, <1>2, <1>3, ViewStart, PTL DEF StreamSpec, StreamKeepsView, View!ViewSpec

=============================================================================
