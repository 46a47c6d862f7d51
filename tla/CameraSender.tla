---------------------------- MODULE CameraSender ----------------------------
(***************************************************************************)
(* airsim-cam-send: the thread feedAppSrc fetches images from AirSim and   *)
(* pushes them into the pipeline's appsrc; main waits until the image size *)
(* is known, builds and plays the pipeline, and stops it on an error or    *)
(* the end of the stream.  They share PipelineData without a lock.  In the *)
(* build the repository describes (no optimisation) every access to a      *)
(* field of it is one load or one store.                                   *)
(*                                                                         *)
(* AirSim and GStreamer are external.  A fetched image has the camera's    *)
(* size, or the size 0 x 0 when AirSim had none to give.                   *)
(***************************************************************************)
EXTENDS GstPipeline

CONSTANTS
  CameraSize,     \* the size of the camera's images
  LaterFailures,  \* whether AirSim may have none to give after it gave one
  CameraFaults    \* "element", "queue": cannot be created; "link": refused;
                  \* "rpc": simGetImages throws

Fields == {"width", "height"}
NoImage == [f \in Fields |-> 0]

ASSUME CameraAssumption ==
  /\ CameraSize \in [Fields -> Nat \ {0}]
  /\ LaterFailures \in BOOLEAN
  /\ CameraFaults \subseteq {"element", "queue", "link", "rpc"}

VARIABLES
  camera_up,    \* FALSE once the process ended
  image_size,   \* data.image_width and data.image_height
  app_source,   \* data.app_source: "null", "made", or "freed" with the pipeline
  queue_0,      \* whether data.queue_0 could be created
  m_pc,         \* main: see MainNext
  caps,         \* the arguments of runGstreamer evaluated so far
  links,        \* links made so far
  f_pc,         \* feedAppSrc: see FeedNext
  new_image     \* the size of the image it has

mainVars == <<m_pc, caps, links, queue_0>>
feedVars == <<f_pc, new_image, image_size>>
vars == <<camera_up, app_source, mainVars, feedVars, gstVars>>

Init ==
  /\ camera_up = TRUE
  /\ image_size = NoImage
  /\ app_source = "null" /\ queue_0 = FALSE
  /\ m_pc = "width" /\ caps = [f \in {} |-> 0] /\ links = 0
  /\ f_pc = "fetch" /\ new_image = NoImage
  /\ GstInit

-----------------------------------------------------------------------------
(* The thread feedAppSrc: sendImageStream.                                 *)

FeedGoto(from, to) == camera_up /\ f_pc = from /\ f_pc' = to

GetOneImage ==
  /\ FeedGoto("fetch", "width")
  /\ \/ new_image' = CameraSize
     \/ /\ new_image = NoImage \/ LaterFailures
        /\ new_image' = NoImage
  /\ UNCHANGED <<camera_up, app_source, image_size, mainVars, gstVars>>

GetImageThrows ==
  /\ camera_up /\ f_pc = "fetch" /\ "rpc" \in CameraFaults
  /\ camera_up' = FALSE
  /\ UNCHANGED <<app_source, feedVars, mainVars, gstVars>>

StoreSize(f, to) ==
  /\ FeedGoto(f, to)
  /\ image_size' = [image_size EXCEPT ![f] = new_image[f]]
  /\ UNCHANGED <<camera_up, app_source, new_image, mainVars, gstVars>>

\* Mutant: the check the wrong way round.
CheckAppSource_Inverted ==
  /\ \/ app_source # "null" /\ FeedGoto("check", "sleep")
     \/ app_source = "null" /\ FeedGoto("check", "push")
  /\ UNCHANGED <<camera_up, app_source, new_image, image_size, mainVars, gstVars>>

CheckAppSource ==
  /\ \/ app_source = "null" /\ FeedGoto("check", "sleep")
     \/ app_source # "null" /\ FeedGoto("check", "push")
  /\ UNCHANGED <<camera_up, app_source, new_image, image_size, mainVars, gstVars>>

PushBuffer ==
  /\ FeedGoto("push", "sleep")
  /\ UNCHANGED <<camera_up, app_source, new_image, image_size, mainVars, gstVars>>

\* A push into an element that is gone need not return.
PushCrashes ==
  /\ camera_up /\ f_pc = "push" /\ app_source = "freed"
  /\ camera_up' = FALSE
  /\ UNCHANGED <<app_source, feedVars, mainVars, gstVars>>

FeedSleeps ==
  /\ FeedGoto("sleep", "fetch")
  /\ UNCHANGED <<camera_up, app_source, new_image, image_size, mainVars, gstVars>>

FeedNext ==
  \/ GetOneImage \/ GetImageThrows
  \/ StoreSize("width", "height") \/ StoreSize("height", "check")
  \/ CheckAppSource
  \/ PushBuffer \/ PushCrashes
  \/ FeedSleeps

-----------------------------------------------------------------------------
(* The thread main: the wait, runGstreamer, and what becomes of its result.*)

MainGoto(from, to) == camera_up /\ m_pc = from /\ m_pc' = to

\* Mutant: || for &&.
WaitForSize_Either ==
  /\ \/ image_size["width"] # 0 /\ MainGoto("width", "argument")
     \/ image_size["width"] = 0 /\ MainGoto("width", "height")
     \/ image_size["height"] # 0 /\ MainGoto("height", "argument")
     \/ image_size["height"] = 0 /\ MainGoto("height", "width")
  /\ UNCHANGED <<camera_up, app_source, caps, links, queue_0, feedVars, gstVars>>

\* The condition of the if in main's loop: two loads, the second only if needed.
WaitForSize ==
  /\ \/ image_size["width"] # 0 /\ MainGoto("width", "height")
     \/ image_size["height"] # 0 /\ MainGoto("height", "argument")
     \/ image_size["height"] = 0 /\ MainGoto("height", "width")
  /\ UNCHANGED <<camera_up, app_source, caps, links, queue_0, feedVars, gstVars>>

\* Mutant: width passed for height and height for width.
ReadArgument_Swapped ==
  /\ \E f \in Fields \ DOMAIN caps :
        caps' = [g \in DOMAIN caps \cup {f} |->
                   IF g = f THEN image_size[CHOOSE h \in Fields : h # f] ELSE caps[g]]
  /\ \/ DOMAIN caps' # Fields /\ MainGoto("argument", "argument")
     \/ DOMAIN caps' = Fields /\ MainGoto("argument", "app_source")
  /\ UNCHANGED <<camera_up, app_source, links, queue_0, feedVars, gstVars>>

\* The arguments are loaded again, in an order the language leaves open.
ReadArgument ==
  /\ \E f \in Fields \ DOMAIN caps :
        caps' = [g \in DOMAIN caps \cup {f} |->
                   IF g = f THEN image_size[f] ELSE caps[g]]
  /\ \/ DOMAIN caps' # Fields /\ MainGoto("argument", "argument")
     \/ DOMAIN caps' = Fields /\ MainGoto("argument", "app_source")
  /\ UNCHANGED <<camera_up, app_source, links, queue_0, feedVars, gstVars>>

CreateAppSource ==
  /\ MainGoto("app_source", "elements")
  /\ \/ app_source' = "made"
     \/ "element" \in CameraFaults /\ UNCHANGED app_source
  /\ UNCHANGED <<camera_up, caps, links, queue_0, feedVars, gstVars>>

\* queue_0 is not among the elements the code looks at.
CreateElements ==
  /\ \/ queue_0' = TRUE
     \/ "queue" \in CameraFaults /\ queue_0' = FALSE
  /\ \/ app_source = "made" /\ MainGoto("elements", "link")
     \/ "element" \in CameraFaults /\ MainGoto("elements", "failed")
  /\ pipeline' = "null"
  /\ UNCHANGED <<camera_up, app_source, caps, links, feedVars, bus, quit>>

\* Mutant: one link too many.
Link_OneMore ==
  /\ \/ links < 4 /\ MainGoto("link", "link")
     \/ links = 4 /\ MainGoto("link", "play")
  /\ links = 0 => queue_0
  /\ links' = links + 1
  /\ UNCHANGED <<camera_up, app_source, caps, queue_0, feedVars, gstVars>>

\* The four links from app_source to sink_udp, one call each.
Link ==
  /\ \/ links < 3 /\ MainGoto("link", "link")
     \/ links = 3 /\ MainGoto("link", "play")
  /\ links = 0 => queue_0
  /\ links' = links + 1
  /\ UNCHANGED <<camera_up, app_source, caps, queue_0, feedVars, gstVars>>

\* The pipeline owns its elements; it had the only reference to app_source.
\* "failed" and "join" begin here: what runGstreamer still does before it
\* returns touches nothing that the other thread uses.
DropPipeline == pipeline' = "freed" /\ app_source' = "freed"

LinkFails ==
  /\ MainGoto("link", "failed")
  /\ "link" \in CameraFaults \/ (links = 0 /\ ~queue_0)
  /\ DropPipeline
  /\ UNCHANGED <<camera_up, caps, links, queue_0, feedVars, bus, quit>>

Play ==
  /\ MainGoto("play", "watch")
  /\ pipeline' = "playing"
  /\ UNCHANGED <<camera_up, app_source, caps, links, queue_0, feedVars, bus, quit>>

\* What the bus holds by now it keeps for the watch.
AddWatch ==
  /\ MainGoto("watch", "loop")
  /\ UNCHANGED <<camera_up, app_source, caps, links, queue_0, feedVars, gstVars>>

RunMainLoop ==
  /\ \/ MainGoto("loop", "loop") /\ Dispatch
     \/ MainGoto("loop", "stop") /\ quit /\ UNCHANGED gstVars
  /\ UNCHANGED <<camera_up, app_source, caps, links, queue_0, feedVars>>

StopPipeline ==
  /\ MainGoto("stop", "delete")
  /\ pipeline' = "stopped" /\ bus' = << >>
  /\ UNCHANGED <<camera_up, app_source, caps, links, queue_0, feedVars, quit>>

\* Status 0: main joins the other thread, which never ends.
DeletePipeline ==
  /\ MainGoto("delete", "join")
  /\ DropPipeline
  /\ UNCHANGED <<camera_up, caps, links, queue_0, feedVars, bus, quit>>

\* Mutant: main joins the other thread whatever the status.
ReturnFailure_Joins ==
  /\ MainGoto("failed", "join")
  /\ UNCHANGED <<camera_up, app_source, caps, links, queue_0, feedVars, gstVars>>

\* Status -1: main returns and destroys a thread nobody joined: std::terminate.
ReturnFailure ==
  /\ camera_up /\ m_pc = "failed"
  /\ camera_up' = FALSE
  /\ UNCHANGED <<app_source, feedVars, mainVars, gstVars>>

MainNext ==
  \/ WaitForSize \/ ReadArgument
  \/ CreateAppSource \/ CreateElements
  \/ Link \/ LinkFails
  \/ Play \/ AddWatch \/ RunMainLoop
  \/ StopPipeline \/ DeletePipeline
  \/ ReturnFailure

-----------------------------------------------------------------------------
GstNext ==
  /\ camera_up
  /\ \E m \in Messages : Post(m)
  /\ UNCHANGED <<camera_up, app_source, mainVars, feedVars>>

Next == FeedNext \/ MainNext \/ GstNext

Spec == Init /\ [][Next]_vars

(***************************************************************************)
(* Both threads run, and AirSim answers; GStreamer need not post anything. *)
(***************************************************************************)
FairSpec == Spec /\ WF_vars(FeedNext) /\ WF_vars(MainNext)

-----------------------------------------------------------------------------
(***************************************************************************)
(* Types of the camera sender's state.                                     *)
(***************************************************************************)
CameraTypeOK ==
  /\ GstTypeOK
  /\ camera_up \in BOOLEAN
  /\ image_size \in [Fields -> Nat] /\ new_image \in [Fields -> Nat]
  /\ app_source \in {"null", "made", "freed"} /\ queue_0 \in BOOLEAN
  /\ m_pc \in {"width", "height", "argument", "app_source", "elements", "link",
               "play", "watch", "loop", "stop", "delete", "join", "failed"}
  /\ DOMAIN caps \subseteq Fields /\ caps \in [DOMAIN caps -> Nat]
  /\ links \in 0 .. 4
  /\ f_pc \in {"fetch", "width", "height", "check", "push", "sleep"}

(***************************************************************************)
(* The pipeline is built for the size of the camera's images, though main  *)
(* reads width and height while the other thread writes them, each twice:  *)
(* once to see that it is there and once to pass it on.  This needs that   *)
(* AirSim, once it had an image, always has one: a size of 0 that comes    *)
(* between the two reads is passed on.                                     *)
(***************************************************************************)
CapsAreCameraSize == \A f \in DOMAIN caps : caps[f] = CameraSize[f]

(***************************************************************************)
(* Until the pipeline is released, every image is pushed into an appsrc    *)
(* that exists: main creates it while the other thread already looks for   *)
(* it.                                                                     *)
(***************************************************************************)
PushesHaveElement ==
  camera_up /\ f_pc = "push" => app_source = "made" \/ m_pc \in {"failed", "join"}

(***************************************************************************)
(* "check that appsrc element is created in gstreamer thread before using" *)
(* (airsim-cam-send.cpp:218): what an image is pushed into is an element.  *)
(***************************************************************************)
PushesOnlyIntoElement == camera_up /\ f_pc = "push" => app_source = "made"

(***************************************************************************)
(* Once the first image has come, the stream plays, or the program ends    *)
(* ("Pipeline failed to run: terminating feedAppSrc and the program").     *)
(***************************************************************************)
StreamStarts ==
  image_size = CameraSize /\ pipeline = "none" ~> (pipeline = "playing" \/ ~camera_up)

(***************************************************************************)
(* While the stream plays, images are pushed into it.                      *)
(***************************************************************************)
ImagesReachPipeline ==
  pipeline = "playing" ~> (f_pc = "push" \/ pipeline # "playing" \/ ~camera_up)

(***************************************************************************)
(* An error or the end of the stream stops the pipeline, also when it was  *)
(* posted before main watched the bus or ran its loop.                     *)
(***************************************************************************)
StopsOnMessage ==
  (\E k \in DOMAIN bus : bus[k] \in StopMessages) ~> (pipeline = "freed" \/ ~camera_up)

-----------------------------------------------------------------------------
(***************************************************************************)
(* Why main reads the right size: the parts of the inductive invariant.    *)
(***************************************************************************)

\* Fields that main has seen to be there stay so while AirSim has images.
SizeInv ==
  /\ new_image \in {NoImage, CameraSize}
  /\ \A f \in Fields : image_size[f] \in {0, CameraSize[f]}
  /\ (\E f \in Fields : image_size[f] # 0) => new_image = CameraSize
  /\ m_pc # "width" => image_size["width"] # 0
  /\ m_pc \notin {"width", "height"} => image_size["height"] # 0

\* app_source only ever goes from null to made to freed.
ElementInv ==
  /\ f_pc = "push" => app_source # "null"
  /\ app_source = "freed" => m_pc \in {"failed", "join"}

=============================================================================
