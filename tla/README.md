# TLA+ specification of the AirSim integration

The repository connects a Gazebo simulation (physics) with an AirSim simulation
(rendering). Two families of programs do that:

- the **pose streamer**: `send_drone_pose` runs next to Gazebo, `receive_drone_pose`
  next to AirSim. Drone poses travel between them in UDP datagrams, and AirSim's
  vehicles follow Gazebo's drones;
- the **camera streamer**: `airsim-cam-send` takes images from AirSim and streams
  them over GStreamer to a receiver on Linux or on a Jetson board.

This directory models the pose streamer from the callback of Gazebo to the remote
calls of AirSim, with restarts of its two programs, and the camera streamer from the
image thread to the receivers' windows. It checks them with TLC, and proves their
invariants, and that either streamer implements its abstract specification, with TLAPS.
Paths below are relative to the repository's root, `src/` in `PROJECT.json`.

    cd tla
    tlc -workers 2 -config streaming_safety.cfg MCPoseStreaming.tla
    tlapm AnySender_proofs.tla

## 1. Inventory

### Pose streamer

    Gazebo ──update──> cbLocalPose ──send()──> network ──recv()──> receiver thread
    (250 Hz)           trackDroneIds            UDP                   │ 4 stores, under the mutex
                       pose_to_udp_message                            v
                                                              pose_message (one slot)
                                                              │                 │
                                                  under the mutex       under the mutex
                                                              v                 v
                                                        print thread     handler thread ──RPC──> AirSim
                                                                         spawn_vehicle, set_vehicle_pose

| component | source | state | operations |
|---|---|---|---|
| pose codec | `pose_send_receive/pose.hpp`, `net_endian.hpp`, conversions in `udp_sender.cpp`, `udp_receiver.cpp` | none | `pose_to_udp_message`, `udp_message_to_pose`, `hton64`, `ntoh64` |
| drone id table | `gazebo_drone_pose.cpp:22-45` | `droneIds`, `uniqueDroneCount` | `trackDroneIds` |
| Gazebo callback | `gazebo_drone_pose.cpp:48-173` | static `count`; per call the two poses in hand and the current name | one pass of the loop per entry of the update |
| sockets | `udp_sender.cpp`, `udp_receiver.cpp` | `sock` | `create_socket`, `send_pose_message`, the constructor of `UDPReceiver` |
| receiver thread | `udp_receiver.cpp:68-109` | its buffer `udp_pose_message` | `recv`, lock, four stores, unlock |
| shared message | `receive_drone_pose.cpp:233-255` | `pose_message`, `mutex_pose_message` | lock, unlock |
| handler thread | `pose_handlers.cpp` | `msg_count`, static `unique_drones` | spawn, set, sleep |
| AirSim adapter | `airsim_pose.cpp` | none (AirSim keeps the vehicles) | `spawn_vehicle`, `set_vehicle_pose` |
| print thread | `receive_drone_pose.cpp:30-72` | `printed_drone_ids`, `repeat_count` | print or count, clear, sleep |
| camera pose setter | `receive_drone_pose.cpp:131-185` | `msg_count` | dead code: nothing calls it |
| command lines | every `main` | ports, host, frame rate | parse once |

How they interact: the callback runs in Gazebo's transport thread, one call after
another. Sender and receiver know each other only by datagrams; nothing is
acknowledged. The three receiver threads share one message and one mutex. The
handler holds the mutex during its blocking remote calls, so a slow AirSim makes
the receiver thread wait and the kernel's socket buffer fill.

What is hard here:

- *order*: body and camera of a drone are paired by the order of an update's entries
  alone, and the sentinel −1.0 that says "not seen yet" is also a legal value;
- *one counter for all drones*: it moves on per update, while the handler compares it
  across all drones; one slot for all drones, overwritten whether read or not;
- *unreliable delivery*: loss, duplication, overtaking, a full socket buffer;
- *interleaving*: four separate stores against two readers, and a mutex that one
  thread takes in a loop without a pause;
- *failure in the middle*: `std::stoi` throws inside an update, an RPC throws with the
  mutex locked, AirSim refuses a vehicle whose id is already remembered, `recv` fails
  and the old buffer is published again;
- *restarts*: neither program keeps anything, while Gazebo, AirSim and the other
  program go on with what they know;
- *limits*: an `int` counter that overflows, `uint16_t` ids, counter 0 as a mark.

What makes it correct: ids are unique and stable; a message holds body and camera
of one drone in one update under that drone's id; counters order messages as updates
are ordered; a reader sees one datagram whole; a vehicle exists when it is set, shows
only poses of its own drone, and never goes back in time; every thread gets the mutex;
what Gazebo publishes keeps reaching AirSim.

### Camera streamer

    AirSim ──image──> feedAppSrc ──push──> appsrc ─ queue ─ convert ─ x264enc ─ rtp ─ udpsink ──> receiver
                          │                   ^                                  │
                 width, height                │ created, linked, played          │ bus messages
                          v                   │ and released by main             v
                        PipelineData, no lock ── main ─────────────────> bus_call, main loop

| component | source | state | operations |
|---|---|---|---|
| camera sender | `camera/send/src/airsim-cam-send.cpp` | `PipelineData` shared by two threads without a lock | image thread: fetch, store the size, push; main: wait for the size, build and run the pipeline, release it, join |
| camera receivers | `camera/receive/{linux,jetson}/src/*.cpp` | pipeline and main loop | build, link, play, stop on error or end of stream, release |

Hard here: main reads each of two fields twice while the other thread writes them;
the other thread looks for an element that main creates and later releases; a
pipeline plays before anybody watches its bus; any creation, link or remote call may
fail; sender and receiver are started in any order and never hear of each other; a failed
link ends the Jetson receiver, and not the Linux one. What makes it correct: the pipeline is built for the camera's size, images are
pushed into an element that exists, the stream starts once there are images, an error or the end
of the stream stops it, what is shown has the camera's width and height, and a
receiver that cannot show anything ends.

## 2. Modules

| module | models | notes |
|---|---|---|
| `PoseTransfer` | the structs and the codec | a pose is *whose* it is, *which link*, *which update*, whether x is the sentinel, whether it is truncated |
| `DroneIds` | `trackDroneIds` | a name is what follows its last `_gid_` |
| `UdpLink` | network and socket buffer | external; bounded queue with loss, duplication, overtaking |
| `GazeboDronePose` | `cbLocalPose`, `send_pose_message` | one action per loop pass; extends the three above |
| `SharedPose` | slot, mutex, process | what the receiver's threads share |
| `UdpReceiver` | `listen_pose_message` | one action per store |
| `AirSim` | `AirSimPose` and AirSim behind it | where each vehicle is shown |
| `PoseHandlers` | `set_drone_pose`, `spawn_unique_drone` | |
| `PrintPose` | `print_pose` | |
| `ReceiveDronePose` | `main` of the receiver: the three threads | the fairness of the threads |
| `AnySender` | the receiver against an arbitrary sender | |
| `PoseStreaming` | sender, link and receiver | |
| `PoseMirror` | abstract specification of the pose streamer | |
| `GstPipeline` | a pipeline, its bus, the main loop | external, but for `bus_call` |
| `CameraSender` | both threads of `airsim-cam-send` | one action per load or store of a shared field |
| `PoseCodec` | bytes, sizes and truncation of `net_endian.hpp` and the conversions | pure operators, for any width of a word |
| `PoseSockets` | `create_socket`, the constructor of `UDPReceiver` | an address is what becomes of it |
| `PoseRestarts` | stop and start of either pose program | extends `PoseStreaming` and `PoseSockets` |
| `CommandLine` | `-p` and `-f` | an argument is an option, a number, or neither |
| `CameraReceiver` | both receivers | one program counter, two ways to link |
| `CameraStreaming` | sender, network and one receiver | extends the three camera modules |
| `CameraView` | abstract specification of the camera streamer | |
| `MC*` | instances for TLC | |
| `*_proofs` | theorems and proofs | `ReceiveDronePose_proofs` has the lemmas about the receiver that `AnySender_proofs` and `PoseStreaming_proofs` share |

The composition: `GazeboDronePose` extends `DroneIds` and `UdpLink`;
`ReceiveDronePose` extends `UdpReceiver`, `PoseHandlers` and `PrintPose`, which all
extend `SharedPose`; `AnySender` and `PoseStreaming` close the receiver with two
different environments.

### How state and actions correspond to the code

`GazeboDronePose`. `count`, `droneIds`, `uniqueDroneCount`, `drone_pose`,
`camera_pose`, `current_drone_name`, `i` are the variables of that name, except that
`i` counts from 1 and is 0 between two callbacks. `update` is `*msg`. `tick` (the
number of callbacks so far, unbounded) and `sent` (all messages sent) are history.
`CallbackStarts` is lines 48-74. A pass of the loop is one action that depends on
the entry's kind, `DroneBodyPose`, `CameraPose` or `OtherLinkPose`; the `if` of line
135 at the end of each pass is part of it (`SendIfComplete`). A pass over another
link ends in the same `if`, which cannot hold there: whatever pass last changed a
pose has already reset both when both were seen. `DroneNameThrows` is `std::stoi`'s
`out_of_range` leaving the callback. `CallbackEnds` is `++count`.

`UdpReceiver`. `rx_pc` names the line about to run. `recv` delivers a datagram
(`RxDatagram`) or returns 0 or −1 (`RxNothing`); the code takes the same path in the
three cases. The buffer starts as any member of `StackContents`, since the code
does not initialise it. The four assignments of `udp_message_to_pose` are separate
actions: whether others see them apart is a question of the mutex, which the model
therefore must not presuppose.

`PoseHandlers`, `PrintPose`. One action per statement that another thread can see.
`HandlerThrows` is an exception of a remote call, which no thread function catches:
`std::terminate` ends the process (`receiver_up`). An answer that is late throws too, so the
call may have had its effect before. The sleeps are program points.

`AirSim`. `vehicles` maps an id to what AirSim shows for it: the pose in AirSim's
axes and the offset in units of 5 m (`spawn_vehicle` adds id + 1 of them,
`set_vehicle_pose` none). AirSim keeps a vehicle whose name is taken, may refuse to
add one, and throws for one it does not have. Any other call may throw as well, before or
after it had its effect, also the one that would add a vehicle which is there.

`CameraSender`. `f_pc` and `m_pc` are where `feedAppSrc` and `main` are. Each store
to `image_width` and `image_height`, and each load of them by `main`, is an action:
`WaitForSize` is the condition at line 307 (its busy wait takes no step while the width is 0),
`ReadArgument` loads the two again at line 309 in either order. This is the code of a build
without optimisation, which is what the README and `CMakeLists.txt` describe (no build
type, no flags); an optimising compiler might load the fields once and wait for
ever, since their accesses race. `app_source` is null, an element, or a pointer to an element released with
the pipeline (`DropPipeline`); a push into the last is undefined, and the model lets it
return or end the process. Link 4 is `gst_element_link_many`, one call. `ReturnFailure` is the return of `main` that
destroys a joinable thread and so calls `std::terminate`.

`CameraReceiver`. `v_pc` is where `runGstreamer` is. The two programs differ in
`LinuxNext` and `JetsonNext`: how links are grouped into calls (`Calls`) and what a
refused one means. `gst_element_link_many` makes the links before the one that is
refused, so `linked` may be any of these prefixes; the Linux program plays what there is.
`PlayerGstNext` is what GStreamer posts by itself. Neither receiver can see an end
of stream: RTP over UDP has none.

`CameraStreaming`. `picture` is the picture under way and `shown` the one in
the window, by their sizes; `caps` of the sender says which size that is. `key` says whether it
can be decoded by itself, which is up to the encoder and the payloader (both left at
their defaults in this, `airsim-cam-send.cpp:79` and `113-115`): a receiver that has shown
nothing yet drops the others (`PictureUndecoded`). A
picture that reaches a pipeline with a missing link makes the source post an error
(`PictureNotLinked`). Ports come from the command lines (`PortOf`): an argument that is
not a number leaves 0 in `port`, and the program goes on with it. `ValueOf` is the loop over the
arguments as a recursive function: what the variable holds after `k` of them.

`PoseRestarts`. A program may stop at any step, in the middle of an update or with the
mutex held. `SenderStarts` and `ReceiverStarts` set what `main` and the static variables
begin with; `sent`, `tick` and `vehicles` are Gazebo's, AirSim's and history, and stay.
A datagram under way may survive the receiver's socket. `StartFails` is `exit(-1)` when
no address can be used (`PoseSockets`).

`PoseCodec`. `reverse_bytes_int64` and `reverse_bytes_uint64` are the two overloads;
`htonl` is any function on words that undoes itself. `(int64_t) htonl(x) << 32` may turn
negative, which is `ShiftedInt64`. A double is an integer number of steps, `StepsPerUnit`
of which make one unit of the wire, and `double_to_udp_int64` truncates towards 0.

## 3. Runs

Runs that pass:

| run | question | properties |
|---|---|---|
| `gazebo_grouped` | does the sender keep its promises for updates in the order its comments expect? | `GazeboTypeOK`, `IdsUnique`, `CameraOfSameDrone`, `CountersFollowUpdates` |
| `receiver_threads` | are the three threads right for any arrivals and for a failing `recv`? | `TypeOK`, `ReadersSeeWholeMessage`, `SetFindsVehicle`, `VehicleNeverGoesBack`, `WaitersGetMutex` |
| `streaming_safety` | does the whole pipeline mirror Gazebo with a faulty link and failing RPCs? | `TypeOK`, `VehicleShowsItsDrone`, `MirrorsGazebo`, `IdsStable` |
| `streaming_live` | do updates keep reaching AirSim? | `UpdatesReachAirSim` |
| `camera_sender` | do the camera sender's threads start, feed and stop the stream, whatever fails? | `CameraTypeOK`, `CapsAreCameraSize`, `PushesHaveElement`, `StreamStarts`, `ImagesReachPipeline`, `StopsOnMessage` |
| `restarts` | does the pose streamer stay right when a program is stopped at any step and started again? | `MirrorsGazebo`, `HeardAfterRestart` |
| `camera_streaming` | does either receiver, started before or after the sender, show the camera's pictures or end? | `StreamTypeOK`, `ShownAtCameraSize`, `JetsonPlaysLinked`, `StreamKeepsView`, `StreamIsShown`, `BrokenPlayerReturns` |

TLC also evaluates assumptions about the pure operators: `RoundTrip` and `SizesAgree`
of `PoseCodec` (in `MCAnySender`), `LoopFindsFirst`, what the loop of `PoseSockets` finds
(in `MCPoseRestarts`), and `CommandLineExamples` (in `MCCameraStreaming`).

Runs that end in a violation, each a place where the code does something other than
what the repository says of it:

| run | statement | what happens |
|---|---|---|
| `id_clash` | "gives a single unique uint16_t id to each unique drone name" (`gazebo_drone_pose.hpp:37`) | a name without a number gets the count 0, and a name with `_gid_0` gets 0 as well |
| `sentinel_pose` | "the following camera orientation is for the drone id associated with the drone position above" (`gazebo_drone_pose.cpp:121`) | a body with x = −1.0 counts as unseen, and its camera is sent with the next drone's body. The comment at line 132 knows of the value, and expects a momentary loss rather than a mix-up |
| `shared_counter` | "a counter that increments every time we send a message" (`pose.hpp:22`) | all drones of an update have the same counter |
| `drones_spawned` | "the same number of drones will be spawned in AirSim" (`README.md:137`) | the handler wakes each time after the other drone's message has taken the slot; one of two drones is never spawned, though the link loses nothing |
| `camera_stopped` | "check that appsrc element is created in gstreamer thread before using" (`airsim-cam-send.cpp:218`) | after an end of stream `main` releases the pipeline, then joins the image thread, which goes on pushing into the element that went with it |

`drones_spawned` is checked with `MaxCallbacks` updates, after which Gazebo is
silent; the code lets the same schedule go on for ever, since the slot has no memory
and nothing relates the handler's 5 ms to Gazebo's 4 ms.

### Bounds, and why they are enough

- Two drones (and a third model without a usable name in `gazebo_grouped`): ids,
  slot and counter are shared pairwise, a pair shows every mix-up the code allows.
- `MaxCallbacks` 2 to 5 updates: in `gazebo_grouped`, with `IntMax` = 1, five updates
  pass through 0, 1, −2, −1, 0, so the overflow and the return to 0 both happen.
  In the pipeline three updates are an update 0 (whose counter is 0), one that
  overtakes and one that is overtaken; in `streaming_safety` the third comes after the overflow.
- `IntMax`, `IdSpace` and `Uint64Space` stand for 2^31 − 1, 2^16 and 2^64; the
  assumption `Uint64Space >= 4 * (IntMax + 1)` keeps what matters of their order.
  `gazebo_grouped` has the number 5 in a space of 4 ids, so truncation happens.
- `WireCap` is the socket buffer: 1 or 2 so that it overflows, 6 in the two runs over
  a link that keeps every datagram (three updates of two drones).
- `RepeatLimit` is 0 for 1000000: the printer passes through every branch in a few
  rounds. In the proofs it is any natural number.
- Datagrams of `receiver_threads`: two drones, counters 0 to 2, and two contents of
  the uninitialised buffer, one of which is a message nobody sent.

- `BusCap` is the number of bus messages waiting at a time; two show a stop behind
  another message. The proofs hold for any.
- `camera_sender` sets `LaterFailures` to FALSE: AirSim may have no image at first, but
  has one from then on. With TRUE, TLC refutes `CapsAreCameraSize` (main sees the size,
  AirSim fails once, main loads a 0), as the property's comment says. So what the code
  does when AirSim has none in between (`airsim-cam-send.cpp:214-216` stores whatever comes) is
  assumed away in all runs, and a hypothesis of the theorems.
- `SetFindsVehicle` supposes that AirSim refuses no vehicle. Without that hypothesis, and with
  `"refuse"` among `RpcFaults`, TLC refutes it in the model of `receiver_threads`: the id is remembered,
  the answer dropped, the next call throws and the process ends.

- `restarts` has one drone, a link that keeps order, a socket buffer of one datagram (what comes
  meanwhile is dropped), remote calls that may throw, and one start in all, of either
  program, successful or not. A restarted sender counts from 0, and five updates let it
  count past what the old one reached.
    - `HeardAfterRestart` is about the time a restarted sender is not heard, while its counters are
      not above those the receiver knows: it is over with the first datagram, entered last into
      the socket, whose counter is above those of all earlier updates. It promises
      nothing before, and it allows that a program stops. If AirSim fails the call for a
      vehicle it has, which is one way to read the todo at `pose_handlers.cpp:22-24`, a restarted
      receiver stops every time; if AirSim only refuses it, the receiver goes on and moves
      the vehicle. Which of the two it does is not in this repository, and both are in the run.
    - Order matters: a new receiver compares with 0, so over a link
      that lets datagrams overtake each other, one older than what AirSim shows moves
      a vehicle back after a restart. With `"reorder"` among the faults and two places in the buffer TLC
      refutes `MirrorsGazebo` in this model. Without restarts `streaming_safety` allows overtaking.
    - What two drones may do to each other across restarts, over any link, is proved
      (`DronesKeepVehicles`), not run: the liveness property of this run takes TLC too long with two.
- `camera_streaming` has one picture under way, which a newer one replaces, a sender whose
  remote calls may fail, and receivers in which any element or link may fail. The sender's
  own faults in building its pipeline are in `camera_sender`. Any picture may be a key frame or
  not, in any order.
- `RoundTrip` is evaluated for words of four bits; the theorems are about any width.

Deadlock is checked in `receiver_threads`, `streaming_live` and `drones_spawned`. It is not in the runs
of the pose sender, where Gazebo may stop, and in `streaming_safety`, `restarts` and the
camera's runs, where a program may end for good.

### Fairness

Safety runs assume none. For the liveness runs:

- weak fairness of every step a thread can take by itself: the operating system
  runs it;
- weak fairness of `RxDatagram`: `recv` returns when a datagram is there. `RxNothing` is not fair;
- strong fairness of the three lock steps. A `std::mutex` does not promise that a
  waiter gets it, but the code leaves it free for long: the handler sleeps 5 ms in
  every round and the printer 500 ms after its repeats, neither with the mutex held;
- weak fairness of both threads of the camera sender: they wait for no lock, and AirSim
  answers a request for an image, if only with none. GStreamer need not post anything;
- weak fairness of the receiver's `runGstreamer`, which waits only for its bus;
- of the stream, which is external: strong fairness of pushing a picture that can be decoded by
  itself (the encoder makes one again and again), and of the arrival of such pictures (the
  network loses some, not all for ever). `StreamIsShown` says what the programs
  add to that: once both play, images keep being pushed, until a picture is shown or one of them ends;
- nothing of stops and starts: nobody has to stop a program or to start it again. What
  `restarts` promises holds while both programs run;
- weak fairness of the steps inside a callback. `CallbackStarts` is not fair: Gazebo
  may be paused.

`WaitersGetMutex` is about the other half: with those assumptions a thread still
starves if another one keeps the mutex on some path. `PoseStreaming` leaves
the printer out. It writes nothing that others read, and `receiver_threads` shows that
it gives the mutex back.

## 4. The abstract specification

`PoseMirror` says what AirSim shows with respect to what Gazebo published, without
threads, slot, counters or link: a vehicle appears once, with a published pose of
its id, beside its place; afterwards it moves only to published poses of the same
drone and of a later update (or of the same one, which takes the spawn offset away). `PoseStreaming` implements it with
`published <- sent`, `shown <- vehicles`: this is `MirrorsGazebo`. It promises nothing
about *which* updates are shown; that is `UpdatesReachAirSim`. `PoseRestarts` implements
the same specification, with stops and starts of either program as stutters.

`CameraView` says what the user of the camera streamer sees: two programs, each of which
starts, plays if it can, and stops for good, and a window that comes to show pictures of
the camera's size, never of a sender that failed to play, and only while the receiver
plays. `CameraStreaming` implements it (`StreamKeepsView`): `SenderLife` and `ReceiverLife`
read the life of a program from its phase and its pipeline. A sender whose process ended
in the middle of a stream has stopped, one whose process ended before it has failed; a receiver has
failed when it returns -1, so that -1 means it never played.

## 5. What is proved

For every value of the constants that satisfies the modules' assumptions:

| theorem | says | argument |
|---|---|---|
| `TypeInvariance`, `Invariance` (`AnySender_proofs`) | the receiver's types, and `Inv` | one lemma per thread and part |
| `WholeReads` | `ReadersSeeWholeMessage` | from `Inv` |
| `SetsAreSafe` | `SetFindsVehicle` | from `Inv` |
| `NeverBack` | `VehicleNeverGoesBack`, if datagrams are numbered by update | `Inv` and `AheadInv` |
| `GazeboTypes` (`GazeboDronePose_proofs`) | the sender's types and `BodyInv` | inductive together |
| `StableIds` | `IdsStable` | from the types |
| `DistinctIds` | `IdsUnique`, if `Numbered` or `Counted` | `NumberedInv` resp. `CountedInv` |
| `SameDrone` | `CameraOfSameDrone`, if `UpdatesAreGrouped` | `PairInv` |
| `OrderedCounters` | `CountersFollowUpdates` | `CounterInv` |
| `CameraTypes` (`CameraSender_proofs`) | the camera sender's types | inductive |
| `ElementForPushes` | `PushesHaveElement` | `ElementInv` |
| `RightCaps` | `CapsAreCameraSize`, if AirSim has images from the first on | `SizeInv` |
| `StreamTypes` (`CameraStreaming_proofs`) | the types of sender, network and receiver | inductive with `CapsInv` |
| `RightPictures` | `ShownAtCameraSize`, if AirSim has images from the first on | `SizeInv`, `CapsInv`, `PictureInv` |
| `JetsonIsLinked` | `JetsonPlaysLinked` | `PhaseInv`, `JetsonInv` |
| `StreamImplementsView` | `StreamKeepsView`: the refinement of section 4, if AirSim has images from the first on | step simulation from `SizeInv`, `CapsInv`, `PictureInv`, `PhaseInv` |
| `OptionValues`, `FrameRateUsable` | what the loop over the arguments leaves: an integer, the default without the option, the number after its last occurrence otherwise; and the frame rate is neither 0 nor above 60 | the least-number principle, for the recursion and for the last occurrence |
| `StreamerTypes` (`PoseStreaming_proofs`) | the pose streamer's types | inductive with `BodyInv` |
| `OwnDrone` | `VehicleShowsItsDrone`, under `MirrorConditions` | `VehicleInv` |
| `Mirrors` | `MirrorsGazebo`: the refinement of section 4, under `MirrorConditions` | step simulation from `StreamInv` |
| `RestartTypes` (`PoseRestarts_proofs`) | the types, across restarts | inductive with `BodyInv` |
| `IdsSurviveRestarts` | `OneIdPerDrone` across restarts, if names carry numbers | `SentNumbered` |
| `DronesKeepVehicles` | `VehicleKeepsItsDrone` across restarts, over any link, if names carry numbers | `AcrossInv` without its order, `SentNumbered` |
| `MirrorsAcrossRestarts` | `MirrorsGazebo` across restarts, under `OrderConditions` | step simulation from `AcrossInv` |
| `FirstAddress` | `create_socket` ends with the first address that can be used, and with none only if there is none | the least-number principle, twice: the recursion has a solution, and what the solution is |
| `SignedRoundTrip`, `UnsignedRoundTrip` (`PoseCodec_proofs`) | `ntoh64` undoes `hton64` | quotient and remainder by a word |
| `ArrivesTruncated` | a coordinate arrives less than a unit off, towards 0 | `SignedRoundTrip` |
| `StructArrives` | the receiver has the bytes of the message, whatever was sent behind them | sizes |

Why the invariants must be strengthened:

- `ReadersSeeWholeMessage` by itself says nothing of the states in which the receiver
  has stored two of four fields. `MutexInv` ties each thread's program counter to the
  mutex, so that no reader is reading then, and `MessageInv` says which fields
  already agree with the buffer, so that after the fourth the slot is one datagram.
- `SetFindsVehicle` needs that the message for which the handler spawned is the one it
  sets (`SpawnInv`), which again needs the mutex.
- `VehicleNeverGoesBack` compares with `msg_count`: no vehicle is ahead of it, except
  for the moment between spawning and setting (`AheadInv`).
- `CameraOfSameDrone` needs, in the middle of an update, that no camera is in hand
  and that a body whose camera is still to come is (`PairInv`), and that the body in
  hand has the current name and id (`BodyInv`).
- `CountersFollowUpdates` fixes the counter as a function of the number of updates
  (`CountAt`) up to 2^32 of them. Beyond, counters repeat: 198 days at 250 Hz.

- `VehicleShowsItsDrone` and the refinement need that whatever the handler may act on has
  been sent, wherever it is: on the link, in the buffer, in the slot or half stored
  (`LinkInv`, whose parts `SlotIn` and `StoredInv` are those of the receiver's own proof
  with another set of messages). Then every vehicle shows a message that was sent, not newer than
  `msg_count`, or the one about to be set (`VehicleInv`). What the sender's invariants say of
  all messages sent (ids, pairs, counters) gives the rest: `Move` needs that a greater
  counter is a later update, and `Appear` and `Move` that an id names one drone.
- `ShownAtCameraSize` needs that the pipeline plays only after `main` has loaded both
  fields (`CapsInv`), and the same of the picture under way (`PictureInv`).
- `OneIdPerDrone` is about messages of processes that are gone, of which no variable is
  left but `sent`; `SentNumbered` says that an id is a function of the name alone.
- Across restarts counters say nothing: a new sender counts from 0 and a new receiver
  compares with 0. What keeps a vehicle from going back is that datagrams arrive in order
  (`InOrder`): of the vehicles, the slot, the buffer and the link, each holds nothing of an
  earlier update than the one before it. A message the handler has done with, or one with counter 0, does not take part
  (`Held`, `Slotted`), and a new process starts with neither. So the theorem needs no bound on the
  number of updates and no order of their entries, which the one without restarts (`Mirrors`) does,
  and that one needs no order of the link.
- The view of the camera streamer needs that the pipelines play in certain phases only and that a picture
  under way comes from a sender that played (`PhaseInv`); that `shown` is of the camera's
  size is not enough to say so.
- `CapsAreCameraSize` needs that a field main has seen to be there still is when it
  loads it again: the image thread stores only the camera's size once it had an image (`SizeInv`).

The hypotheses are part of the statements and not more than the code needs: without
`Numbered` or `Counted` the run `id_clash` refutes `IdsUnique`, without grouped updates and visible
bodies `sentinel_pose` refutes `CameraOfSameDrone`. `NeverBack` assumes of the sender
what `OrderedCounters` proves up to the overflow. `MirrorConditions` collects what the
refinement needs: grouped updates, `Numbered` or `Counted` names, no more updates than
the counter keeps in order, and, if `recv` fails before the first datagram, that the
uninitialised buffer has counter 0.

`OrderConditions` is what the refinement needs across restarts: names with numbers, a link
that may lose datagrams but neither repeats nor reorders them, and an uninitialised buffer with
counter 0 if `recv` may fail before the first datagram. With reordering TLC refutes it (section 3); a
repeated datagram comes at the end of the queue and is out of order there.

The library's induction theorems take an operator, which the provers cannot instantiate. Where
data had to be induced over (the last option of a command line, the loop over the addresses) the proofs use
that the natural numbers are well-ordered, which is about sets (`HasLeast`).

Only model-checked are the liveness properties (`WaitersGetMutex`, `UpdatesReachAirSim`,
`EveryDroneSpawned` in its violation, `StreamStarts`, `ImagesReachPipeline`, `StopsOnMessage`,
`HeardAfterRestart`, `StreamIsShown`, `BrokenPlayerReturns`), which are out of the prover's reach: it has no rule
for fairness and `ENABLED`. Every invariant and every action property of a passing run is proved.

## 6. What is left out, and why

- Numbers inside a pose: axis conversion and scaling do not depend on state.
  That a pose passed through each of them once is kept (`fixed`, `ned`). `PoseCodec` has
  the integers; the rounding of the doubles and the undefined cast of values beyond
  2^63 / 10^5 are left out.
- What is printed. The print thread itself is modelled, since it takes the mutex.
- `exit_flag`: `main` sets it to true and never again; only a unit test clears it.
- Overlapping callbacks: Gazebo's transport runs those of one subscriber one by one.
- The destructors of the sockets: both `main`s loop for ever or end without unwinding.
- The options `-a` and `-r`, and those of the pose programs: they are read once, before
  anything that is modelled, and no property tells their values apart (`roll_override`
  is printed and not used).
- `set_drone_pose_as_camera_pose` and its helpers (`receive_drone_pose.cpp:81-185`):
  nothing calls them, so there is no behaviour to model.
- Big-endian machines, where `hton64` does nothing.
- The configuration of GStreamer elements, and encoding: external. Of encoding, only that some
  pictures cannot be decoded by themselves is kept.
- A bus keeps its messages until somebody watches it (`AddWatch` changes nothing but where `main`
  is): GStreamer's part, assumed.
- Releasing the pipeline and returning from `runGstreamer` are one step, the release
  (`DropPipeline`): what follows changes nothing the image thread reads, so no order of the
  two threads is lost.
- The overflow of `count` is undefined in C++. The model wraps, which is what the build without
  optimisation that the repository describes does.
- Tests, build files and scripts: read for what they say of the program.

## 7. Plan

Done, in this order: pose sender, receiver threads, pose streamer, abstract
specification, camera sender and their proofs; then the camera receivers and the camera
streamer, restarts, sockets, command lines, the codec, and the proofs of the refinement,
of the camera streamer, of restarts and of the codec; then the refinement across restarts,
the abstract specification of the camera streamer and its refinement, and the proofs about command lines,
addresses and the layout of a datagram.

What could follow:

1. Restarts over a link that lets datagrams overtake, against an abstract
   specification that lets a vehicle go back once per restart of the receiver.
2. A run of restarts with two drones whose names carry no numbers, to show how ids change hands.
3. The safety halves of the liveness properties: which phases a thread passes through between two
   states, as action properties.
4. Real-time bounds: 4 ms between updates, 5 ms between looks of the handler.
