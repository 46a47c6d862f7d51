------------------------- MODULE CameraSender_proofs -------------------------
(***************************************************************************)
(* Proofs about the camera sender, for every size of images and every      *)
(* choice of faults: its types, the element images are pushed into, and    *)
(* the size the pipeline is built for.                                     *)
(***************************************************************************)
EXTENDS CameraSender, TLAPS

\* The two fields that the threads store and load one at a time.
LEMMA FieldFacts == "width" \in Fields /\ "height" \in Fields
BY DEF Fields

-----------------------------------------------------------------------------
(***************************************************************************)
(* Types.                                                                  *)
(***************************************************************************)
LEMMA CameraTypeInit == Init => CameraTypeOK
<1> SUFFICES ASSUME Init PROVE CameraTypeOK
  OBVIOUS
<1>0. << >> \in Seq(Messages)
  OBVIOUS
<1>1. GstTypeOK
  BY <1>0, Zenon DEF Init, GstInit, GstTypeOK
<1>2. NoImage \in [Fields -> Nat]
  BY DEF NoImage
<1>3. DOMAIN caps \subseteq Fields /\ caps \in [DOMAIN caps -> Nat]
  BY DEF Init
<1>4. links \in 0 .. 4
  BY DEF Init
<1> QED
  BY <1>1, <1>2, <1>3, <1>4, Zenon DEF Init, CameraTypeOK

LEMMA FeedTypes == CameraTypeOK /\ FeedNext => CameraTypeOK'
<1> SUFFICES ASSUME CameraTypeOK, FeedNext PROVE CameraTypeOK'
  OBVIOUS
<1> USE DEF CameraTypeOK, GstTypeOK, FeedGoto, mainVars, feedVars, gstVars
<1>1. CASE GetOneImage
  <2>1. NoImage \in [Fields -> Nat] /\ CameraSize \in [Fields -> Nat]
    BY CameraAssumption DEF NoImage
  <2> QED
    BY <1>1, <2>1 DEF GetOneImage
<1>2. CASE GetImageThrows
  BY <1>2 DEF GetImageThrows
<1>3. CASE StoreSize("width", "height")
  BY <1>3, FieldFacts DEF StoreSize
<1>4. CASE StoreSize("height", "check")
  BY <1>4, FieldFacts DEF StoreSize
<1>5. CASE CheckAppSource
  BY <1>5 DEF CheckAppSource
<1>6. CASE PushBuffer
  BY <1>6 DEF PushBuffer
<1>7. CASE PushCrashes
  BY <1>7 DEF PushCrashes
<1>8. CASE FeedSleeps
  BY <1>8 DEF FeedSleeps
<1> QED
  BY <1>1, <1>2, <1>3, <1>4, <1>5, <1>6, <1>7, <1>8 DEF FeedNext

LEMMA MainTypes == CameraTypeOK /\ MainNext => CameraTypeOK'
<1> SUFFICES ASSUME CameraTypeOK, MainNext PROVE CameraTypeOK'
  OBVIOUS
<1> USE DEF CameraTypeOK, GstTypeOK, MainGoto, feedVars, gstVars
<1>1. CASE WaitForSize
  BY <1>1 DEF WaitForSize
<1>2. CASE ReadArgument
  <2>1. PICK f \in Fields \ DOMAIN caps :
           caps' = [g \in DOMAIN caps \cup {f} |->
                      IF g = f THEN image_size[f] ELSE caps[g]]
    BY <1>2 DEF ReadArgument
  <2>2. image_size[f] \in Nat
    BY <2>1
  <2>3. DOMAIN caps' \subseteq Fields /\ caps' \in [DOMAIN caps' -> Nat]
    BY <2>1, <2>2
  <2> QED
    BY <1>2, <2>3 DEF ReadArgument
<1>3. CASE CreateAppSource
  BY <1>3 DEF CreateAppSource
<1>4. CASE CreateElements
  BY <1>4 DEF CreateElements
<1>5. CASE Link
  BY <1>5 DEF Link
<1>6. CASE LinkFails
  BY <1>6 DEF LinkFails, DropPipeline
<1>7. CASE Play
  BY <1>7 DEF Play
<1>8. CASE AddWatch
  BY <1>8 DEF AddWatch
<1>9. CASE RunMainLoop
  <2>1. CASE Dispatch
    <3>1. bus' \in Seq(Messages)
      BY <2>1 DEF Dispatch
    <3> QED
      BY <1>9, <2>1, <3>1 DEF RunMainLoop, Dispatch, bus_call
  <2>2. CASE UNCHANGED gstVars
    BY <1>9, <2>2 DEF RunMainLoop
  <2> QED
    BY <1>9, <2>1, <2>2 DEF RunMainLoop
<1>10. CASE StopPipeline
  BY <1>10 DEF StopPipeline
<1>11. CASE DeletePipeline
  BY <1>11 DEF DeletePipeline, DropPipeline
<1>12. CASE ReturnFailure
  BY <1>12 DEF ReturnFailure, mainVars
<1> QED
  BY <1>1, <1>2, <1>3, <1>4, <1>5, <1>6, <1>7, <1>8, <1>9, <1>10, <1>11, <1>12
  DEF MainNext

LEMMA CameraTypeStep == CameraTypeOK /\ [Next]_vars => CameraTypeOK'
<1> SUFFICES ASSUME CameraTypeOK, [Next]_vars PROVE CameraTypeOK'
  OBVIOUS
<1>1. CASE FeedNext
  BY <1>1, FeedTypes
<1>2. CASE MainNext
  BY <1>2, MainTypes
<1>3. CASE GstNext
  <2>1. PICK m \in Messages : Post(m)
    BY <1>3 DEF GstNext
  <2>2. bus' \in Seq(Messages)
    BY <2>1 DEF Post, CameraTypeOK, GstTypeOK
  <2> QED
    BY <1>3, <2>1, <2>2
    DEF GstNext, Post, CameraTypeOK, GstTypeOK, mainVars, feedVars
<1>4. CASE UNCHANGED vars
  BY <1>4 DEF vars, CameraTypeOK, GstTypeOK, mainVars, feedVars, gstVars
<1> QED
  BY <1>1, <1>2, <1>3, <1>4 DEF Next

(***************************************************************************)
(* The camera sender's state keeps its types.                              *)
(***************************************************************************)
THEOREM CameraTypes == Spec => []CameraTypeOK
BY CameraTypeInit, CameraTypeStep, PTL DEF Spec

-----------------------------------------------------------------------------
(***************************************************************************)
(* The element.                                                            *)
(***************************************************************************)
LEMMA ElementStep == ElementInv /\ [Next]_vars => ElementInv'
<1> SUFFICES ASSUME ElementInv, [Next]_vars PROVE ElementInv'
  OBVIOUS
<1> USE DEF ElementInv
<1>1. CASE FeedNext
  BY <1>1
  DEF FeedNext, GetOneImage, GetImageThrows, StoreSize, CheckAppSource, PushBuffer,
      PushCrashes, FeedSleeps, FeedGoto, mainVars, feedVars
<1>2. CASE MainNext
  <2>1. CASE CreateAppSource
    BY <2>1 DEF CreateAppSource, MainGoto, feedVars
  <2>2. CASE LinkFails \/ DeletePipeline
    BY <2>2 DEF LinkFails, DeletePipeline, DropPipeline, MainGoto, feedVars
  <2>3. CASE ReturnFailure
    BY <2>3 DEF ReturnFailure, mainVars, feedVars
  <2>4. CASE WaitForSize \/ ReadArgument \/ CreateElements \/ Link \/ Play
    BY <2>4
    DEF WaitForSize, ReadArgument, CreateElements, Link, Play, MainGoto, feedVars
  <2>5. CASE AddWatch \/ RunMainLoop \/ StopPipeline
    BY <2>5 DEF AddWatch, RunMainLoop, StopPipeline, MainGoto, feedVars
  <2> QED
    BY <1>2, <2>1, <2>2, <2>3, <2>4, <2>5 DEF MainNext
<1>3. CASE GstNext
  BY <1>3 DEF GstNext, mainVars, feedVars
<1>4. CASE UNCHANGED vars
  BY <1>4 DEF vars, mainVars, feedVars
<1> QED
  BY <1>1, <1>2, <1>3, <1>4 DEF Next

(***************************************************************************)
(* Until the pipeline is released, images are pushed into an appsrc that   *)
(* exists: the null check of sendImageStream suffices for the start,       *)
(* because main changes the field from null to an element and never back.  *)
(***************************************************************************)
THEOREM ElementForPushes == Spec => []PushesHaveElement
<1>1. Init => ElementInv
  BY DEF Init, ElementInv
<1>2. CameraTypeOK /\ ElementInv => PushesHaveElement
  BY DEF CameraTypeOK, ElementInv, PushesHaveElement
<1> QED
  BY <1>1, <1>2, ElementStep, CameraTypes, PTL DEF Spec

-----------------------------------------------------------------------------
(***************************************************************************)
(* The size.                                                               *)
(***************************************************************************)
LEMMA SizeInit == Init => SizeInv /\ CapsAreCameraSize
BY DEF Init, SizeInv, CapsAreCameraSize, NoImage, Fields

LEMMA SizeStep ==
  ASSUME ~LaterFailures, CameraTypeOK, SizeInv, CapsAreCameraSize, [Next]_vars
  PROVE  SizeInv' /\ CapsAreCameraSize'
<1> USE DEF SizeInv, CapsAreCameraSize
<1>0. /\ CameraSize \in [Fields -> Nat \ {0}]
      /\ \A f \in Fields : NoImage[f] = 0
  BY CameraAssumption DEF NoImage
<1>1. CASE FeedNext
  <2>1. CASE GetOneImage
    BY <1>0, <2>1 DEF GetOneImage, FeedGoto, mainVars, Fields
  <2>2. CASE \E to \in {"height", "check"}, f \in Fields : StoreSize(f, to)
    <3>1. PICK to \in {"height", "check"}, f \in Fields : StoreSize(f, to)
      BY <2>2
    <3>2. new_image[f] \in {0, CameraSize[f]}
      BY <1>0, <3>1
    <3>3. image_size[f] # 0 => new_image[f] # 0
      BY <1>0, <3>1
    <3>4. new_image[f] # 0 => new_image = CameraSize
      BY <1>0, <3>1
    <3>5. \A g \in Fields :
            image_size'[g] = IF g = f THEN new_image[f] ELSE image_size[g]
      BY <3>1 DEF StoreSize, CameraTypeOK
    <3> QED
      BY <3>1, <3>2, <3>3, <3>4, <3>5, FieldFacts DEF StoreSize, mainVars
  <2>3. CASE GetImageThrows \/ PushCrashes
    BY <2>3 DEF GetImageThrows, PushCrashes, mainVars, feedVars
  <2>4. CASE CheckAppSource \/ PushBuffer \/ FeedSleeps
    BY <2>4 DEF CheckAppSource, PushBuffer, FeedSleeps, mainVars
  <2> QED
    BY <1>1, <2>1, <2>2, <2>3, <2>4, FieldFacts DEF FeedNext
<1>2. CASE MainNext
  <2>1. CASE WaitForSize
    BY <2>1 DEF WaitForSize, MainGoto, feedVars
  <2>2. CASE ReadArgument
    <3>1. PICK f \in Fields \ DOMAIN caps :
             caps' = [g \in DOMAIN caps \cup {f} |->
                        IF g = f THEN image_size[f] ELSE caps[g]]
      BY <2>2 DEF ReadArgument
    <3>2. image_size[f] # 0
      BY <2>2, <3>1 DEF ReadArgument, MainGoto, Fields
    <3>3. image_size[f] = CameraSize[f]
      BY <3>1, <3>2
    <3>4. CapsAreCameraSize'
      BY <3>1, <3>3
    <3> QED
      BY <2>2, <3>4 DEF ReadArgument, MainGoto, feedVars
  <2>3. CASE CreateAppSource \/ CreateElements \/ Link \/ LinkFails \/ Play
    BY <2>3
    DEF CreateAppSource, CreateElements, Link, LinkFails, Play, MainGoto, feedVars
  <2>4. CASE AddWatch \/ RunMainLoop \/ StopPipeline \/ DeletePipeline
    BY <2>4
    DEF AddWatch, RunMainLoop, StopPipeline, DeletePipeline, MainGoto, feedVars
  <2>5. CASE ReturnFailure
    BY <2>5 DEF ReturnFailure, mainVars, feedVars
  <2> QED
    BY <1>2, <2>1, <2>2, <2>3, <2>4, <2>5 DEF MainNext
<1>3. CASE GstNext
  BY <1>3 DEF GstNext, mainVars, feedVars
<1>4. CASE UNCHANGED vars
  BY <1>4 DEF vars, mainVars, feedVars
<1> QED
  BY <1>1, <1>2, <1>3, <1>4 DEF Next

(***************************************************************************)
(* If AirSim has images from the first one on, the pipeline is built for   *)
(* the camera's size, whatever the order of the two threads' loads and     *)
(* stores: what main saw to be there is still there when it reads again.   *)
(***************************************************************************)
THEOREM RightCaps ==
  ASSUME ~LaterFailures
  PROVE  Spec => []CapsAreCameraSize
<1>1. CameraTypeOK /\ (SizeInv /\ CapsAreCameraSize) /\ [Next]_vars
        => (SizeInv /\ CapsAreCameraSize)'
  BY SizeStep
<1>2. Spec => [](SizeInv /\ CapsAreCameraSize)
  BY <1>1, SizeInit, CameraTypes, PTL DEF Spec
<1> QED
  BY <1>2, PTL

=============================================================================
