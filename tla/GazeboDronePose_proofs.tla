------------------------ MODULE GazeboDronePose_proofs ------------------------
(***************************************************************************)
(* What send_drone_pose guarantees whatever Gazebo publishes, and what it  *)
(* guarantees if updates are grouped, or names distinct.                   *)
(***************************************************************************)
EXTENDS GazeboDronePose, FiniteSetTheorems, TLAPS

gvars == <<gazeboVars, wire>>

-----------------------------------------------------------------------------
(***************************************************************************)
(* Arithmetic of the counter and of the ids.                               *)
(***************************************************************************)
LEMMA Uint16Type ==
  ASSUME NEW n \in Int
  PROVE  Uint16(n) \in 0 .. IdSpace - 1
BY IdAssumption DEF Uint16

LEMMA Uint64Type ==
  ASSUME NEW n \in -IntMax - 1 .. IntMax
  PROVE  Uint64(n) \in Nat
BY GazeboAssumption DEF Uint64

LEMMA NextIntType ==
  ASSUME NEW n \in -IntMax - 1 .. IntMax
  PROVE  NextInt(n) \in -IntMax - 1 .. IntMax
BY GazeboAssumption DEF NextInt

\* Until the int is back at 0, count goes up by one or wraps as NextInt does.
LEMMA CountAtStep ==
  ASSUME NEW t \in Nat, t + 1 < 2 * (IntMax + 1)
  PROVE  NextInt(CountAt(t)) = CountAt(t + 1)
BY GazeboAssumption DEF NextInt, CountAt

LEMMA CountersGrow ==
  ASSUME NEW s \in Nat, NEW t \in Nat, s < t, t < 2 * (IntMax + 1)
  PROVE  Uint64(CountAt(s)) < Uint64(CountAt(t))
BY GazeboAssumption DEF Uint64, CountAt

-----------------------------------------------------------------------------
(***************************************************************************)
(* trackDroneIds only ever adds to the table, and names it is called for   *)
(* are in the table when it returns.                                       *)
(***************************************************************************)
LEMMA TableGrows ==
  ASSUME NEW n, trackDroneIds(n)
  PROVE  /\ n \in DOMAIN droneIds'
         /\ \A m \in DOMAIN droneIds :
              m \in DOMAIN droneIds' /\ droneIds'[m] = droneIds[m]
BY DEF trackDroneIds, idVars

LEMMA NewIdType ==
  ASSUME NEW m \in Models, GidSuffix[m] # OutOfRange, uniqueDroneCount \in 0 .. IdSpace - 1
  PROVE  NewId(m) \in 0 .. IdSpace - 1
<1>1. CASE GidSuffix[m] \in Int
  BY <1>1, Uint16Type DEF NewId
<1>2. CASE GidSuffix[m] \notin Int
  BY <1>2 DEF NewId
<1> QED
  BY <1>1, <1>2

LEMMA TableType ==
  ASSUME IdsTypeOK, NEW n \in Models, trackDroneIds(n)
  PROVE  IdsTypeOK'
<1>1. CASE n \in DOMAIN droneIds
  BY <1>1 DEF trackDroneIds, idVars, IdsTypeOK
<1>2. CASE n \notin DOMAIN droneIds
  <2>1. NewId(n) \in 0 .. IdSpace - 1
    BY <1>2, NewIdType DEF trackDroneIds, IdsTypeOK
  <2>2. uniqueDroneCount' \in 0 .. IdSpace - 1
    BY <1>2, Uint16Type, IdAssumption DEF trackDroneIds, IdsTypeOK
  <2> QED
    BY <1>2, <2>1, <2>2 DEF trackDroneIds, IdsTypeOK
<1> QED
  BY <1>1, <1>2

-----------------------------------------------------------------------------
(***************************************************************************)
(* Types.  That drone_id has one needs BodyInv: when a message is sent,    *)
(* the current name is in the table.                                       *)
(***************************************************************************)
LEMMA UnsetPoseType == UnsetPose \in Pose
BY DEF UnsetPose, Pose, Sentinel

LEMMA EntryPose ==
  ASSUME GazeboTypeOK, i \in 1 .. Len(update)
  PROVE  /\ update[i] \in Entry
         /\ update[i].model \in Models
         /\ update[i].link # "other" => PoseOf(update[i]) \in Pose
<1>1. update[i] \in Entry /\ tick \in Nat
  BY DEF GazeboTypeOK
<1>2. ASSUME NEW e \in Entry, e.link # "other"
      PROVE  PoseOf(e) \in Pose
  BY <1>1, <1>2 DEF Entry, Pose, PoseOf
<1> QED
  BY <1>1, <1>2 DEF Entry

\* What SendIfComplete does to the types.
LEMMA SendType ==
  ASSUME GazeboTypeOK, IdsTypeOK', NEW d \in Pose, NEW c \in Pose, NEW name,
         d.xi # Sentinel => name \in DOMAIN droneIds',
         SendIfComplete(d, c, name)
  PROVE  /\ drone_pose' \in Pose /\ camera_pose' \in Pose
         /\ sent' \subseteq PoseMessage
<1> DEFINE m == [message_counter |-> Uint64(count), drone |-> d,
                 camera |-> c, drone_id |-> droneIds'[name]]
<1>1. CASE d.xi # Sentinel /\ c.xi # Sentinel
  <2>1. sent' = sent \cup {m} /\ drone_pose' = UnsetPose /\ camera_pose' = UnsetPose
    BY <1>1 DEF SendIfComplete, send_pose_message
  <2>2. Uint64(count) \in Nat
    BY Uint64Type DEF GazeboTypeOK
  <2>3. droneIds'[name] \in Nat
    BY <1>1, IdAssumption DEF IdsTypeOK
  <2>4. m \in PoseMessage
    BY <2>2, <2>3 DEF PoseMessage
  <2> QED
    BY <2>1, <2>4, UnsetPoseType DEF GazeboTypeOK
<1>2. CASE ~(d.xi # Sentinel /\ c.xi # Sentinel)
  BY <1>2 DEF SendIfComplete, GazeboTypeOK
<1> QED
  BY <1>1, <1>2

\* What it leaves in hand.
LEMMA SendInHand ==
  ASSUME NEW d, NEW c, NEW name, SendIfComplete(d, c, name)
  PROVE  \/ drone_pose' = d /\ camera_pose' = c /\ (d.xi = Sentinel \/ c.xi = Sentinel)
            /\ sent' = sent
         \/ drone_pose'.xi = Sentinel /\ camera_pose'.xi = Sentinel
            /\ d.xi # Sentinel /\ c.xi # Sentinel
            /\ sent' = sent \cup {[message_counter |-> Uint64(count), drone |-> d,
                                   camera |-> c, drone_id |-> droneIds'[name]]}
BY DEF SendIfComplete, send_pose_message, UnsetPose

LEMMA TypeInit == GazeboInit => GazeboTypeOK /\ BodyInv
BY UnsetPoseType, IdAssumption, GazeboAssumption
   DEF GazeboInit, IdsInit, GazeboTypeOK, IdsTypeOK, BodyInv, UnsetPose

LEMMA TypeStep ==
  GazeboTypeOK /\ BodyInv /\ [GazeboNext]_gvars => GazeboTypeOK' /\ BodyInv'
<1> SUFFICES ASSUME GazeboTypeOK, BodyInv, [GazeboNext]_gvars
             PROVE  GazeboTypeOK' /\ BodyInv'
  OBVIOUS
<1>1. ASSUME NEW u \in Updates, CallbackStarts(u) PROVE GazeboTypeOK' /\ BodyInv'
  <2>1. u \in Seq(Entry)
    BY GazeboAssumption
  <2> QED
    BY <1>1, <2>1, UnsetPoseType
       DEF CallbackStarts, GazeboTypeOK, IdsTypeOK, idVars, BodyInv, UnsetPose
<1>2. CASE DroneBodyPose
  <2>1. /\ i \in 1 .. Len(update) /\ update[i].link = "body"
        /\ trackDroneIds(update[i].model)
        /\ current_drone_name' = update[i].model
        /\ SendIfComplete(PoseOf(update[i]), camera_pose, update[i].model)
        /\ i' = i + 1 /\ UNCHANGED <<sender_up, count, tick, update>>
    BY <1>2 DEF DroneBodyPose, AtEntry
  <2>2. update[i].model \in Models /\ PoseOf(update[i]) \in Pose
    BY <2>1, EntryPose
  <2>3. IdsTypeOK' /\ update[i].model \in DOMAIN droneIds'
    BY <2>1, <2>2, TableType, TableGrows DEF GazeboTypeOK
  <2>4. drone_pose' \in Pose /\ camera_pose' \in Pose /\ sent' \subseteq PoseMessage
    BY <2>1, <2>2, <2>3, SendType DEF GazeboTypeOK
  <2>5. GazeboTypeOK'
    BY <2>1, <2>2, <2>3, <2>4 DEF GazeboTypeOK
  <2>6. BodyInv'
    BY <2>1, <2>3, SendInHand DEF BodyInv, PoseOf
  <2> QED
    BY <2>5, <2>6
<1>3. CASE DroneNameThrows
  BY <1>3 DEF DroneNameThrows, cbVars, idVars, GazeboTypeOK, IdsTypeOK, BodyInv
<1>4. CASE CameraPose
  <2>1. /\ i \in 1 .. Len(update) /\ update[i].link = "camera"
        /\ UNCHANGED <<droneIds, uniqueDroneCount, sender_up, count, tick, update,
                       current_drone_name>>
        /\ SendIfComplete(drone_pose, PoseOf(update[i]), current_drone_name)
        /\ i' = i + 1
    BY <1>4 DEF CameraPose, AtEntry, idVars
  <2>2. PoseOf(update[i]) \in Pose
    BY <2>1, EntryPose
  <2>3. IdsTypeOK'
    BY <2>1 DEF GazeboTypeOK, IdsTypeOK
  <2>4. drone_pose' \in Pose /\ camera_pose' \in Pose /\ sent' \subseteq PoseMessage
    BY <2>1, <2>2, <2>3, SendType DEF GazeboTypeOK, BodyInv
  <2>5. GazeboTypeOK'
    BY <2>1, <2>3, <2>4 DEF GazeboTypeOK
  <2>6. BodyInv'
    BY <2>1, SendInHand DEF BodyInv
  <2> QED
    BY <2>5, <2>6
<1>5. CASE OtherLinkPose
  BY <1>5 DEF OtherLinkPose, AtEntry, idVars, GazeboTypeOK, IdsTypeOK, BodyInv
<1>6. CASE CallbackEnds
  BY <1>6, NextIntType DEF CallbackEnds, idVars, GazeboTypeOK, IdsTypeOK, BodyInv
<1>7. CASE UNCHANGED gvars
  BY <1>7 DEF gvars, gazeboVars, cbVars, idVars, GazeboTypeOK, IdsTypeOK, BodyInv
<1> QED
  BY <1>1, <1>2, <1>3, <1>4, <1>5, <1>6, <1>7 DEF GazeboNext

(***************************************************************************)
(* The sender's state has its types, whatever Gazebo publishes.            *)
(***************************************************************************)
THEOREM GazeboTypes == GazeboSpec => [](GazeboTypeOK /\ BodyInv)
BY TypeInit, TypeStep, PTL DEF GazeboSpec, AloneInit, gvars

(***************************************************************************)
(* A name keeps its id, whatever Gazebo publishes.                         *)
(***************************************************************************)
THEOREM StableIds == GazeboSpec => IdsStable
<1>1. [GazeboNext]_gvars =>
        [\A m \in DOMAIN droneIds :
           m \in DOMAIN droneIds' /\ droneIds'[m] = droneIds[m]]_droneIds
  <2> SUFFICES ASSUME [GazeboNext]_gvars, droneIds' # droneIds
               PROVE  \A m \in DOMAIN droneIds :
                        m \in DOMAIN droneIds' /\ droneIds'[m] = droneIds[m]
    OBVIOUS
  <2>1. DroneBodyPose
    BY DEF GazeboNext, CallbackStarts, DroneNameThrows, CameraPose, OtherLinkPose,
           CallbackEnds, gvars, gazeboVars, idVars
  <2> QED
    BY <2>1, TableGrows DEF DroneBodyPose
<1> QED
  BY <1>1, PTL DEF GazeboSpec, AloneInit, IdsStable, gvars

-----------------------------------------------------------------------------
(***************************************************************************)
(* The counter.                                                            *)
(***************************************************************************)
LEMMA CounterInit == GazeboInit => CounterInv
BY GazeboAssumption DEF GazeboInit, CounterInv, CountAt

LEMMA CounterStep ==
  ASSUME GazeboTypeOK, BodyInv, CounterInv, [GazeboNext]_gvars
  PROVE  CounterInv'
<1>a. tick \in Nat /\ sent \subseteq PoseMessage
  BY DEF GazeboTypeOK
<1>1. ASSUME UNCHANGED <<count, tick, sent>> PROVE CounterInv'
  BY <1>1 DEF CounterInv
\* A message sent now carries the body and the counter of this update.
<1>2. ASSUME UNCHANGED <<count, tick>>, NEW d, NEW c, NEW name,
             SendIfComplete(d, c, name),
             d.xi # Sentinel => d.tick = tick
      PROVE  CounterInv'
  <2>1. CASE sent' = sent
    BY <1>2, <2>1, <1>1
  <2>2. CASE sent' # sent
    <3> DEFINE m == [message_counter |-> Uint64(count), drone |-> d,
                     camera |-> c, drone_id |-> droneIds'[name]]
    <3>1. sent' = sent \cup {m} /\ d.tick = tick
      BY <1>2, <2>2, SendInHand
    <3>2. m.drone.tick = tick /\ m.message_counter = Uint64(count)
      BY <3>1
    <3>3. m.drone.tick < 2 * (IntMax + 1)
            => m.message_counter = Uint64(CountAt(m.drone.tick))
      BY <3>2 DEF CounterInv
    <3> HIDE DEF m
    <3> QED
      BY <1>2, <1>a, <3>1, <3>2, <3>3 DEF CounterInv
  <2> QED
    BY <2>1, <2>2
<1>3. ASSUME NEW u \in Updates, CallbackStarts(u) PROVE CounterInv'
  BY <1>1, <1>3 DEF CallbackStarts
<1>4. CASE DroneBodyPose
  BY <1>2, <1>4 DEF DroneBodyPose, PoseOf
<1>5. CASE CameraPose
  <2>1. drone_pose.xi # Sentinel => drone_pose.tick = tick
    BY <1>5 DEF CameraPose, AtEntry, BodyInv
  <2> QED
    BY <1>2, <1>5, <2>1 DEF CameraPose
<1>6. CASE DroneNameThrows \/ OtherLinkPose \/ UNCHANGED gvars
  BY <1>1, <1>6 DEF DroneNameThrows, OtherLinkPose, gvars, gazeboVars
<1>7. CASE CallbackEnds
  <2>1. tick' = tick + 1 /\ count' = NextInt(count) /\ sent' = sent
    BY <1>7 DEF CallbackEnds
  <2>2. tick' < 2 * (IntMax + 1) => count' = CountAt(tick')
    BY <1>a, <2>1, CountAtStep, GazeboAssumption DEF CounterInv
  <2>3. \A m \in sent : m.drone.tick \in Nat
    BY <1>a DEF PoseMessage, Pose
  <2> QED
    BY <1>a, <2>1, <2>2, <2>3 DEF CounterInv
<1> QED
  BY <1>3, <1>4, <1>5, <1>6, <1>7 DEF GazeboNext

(***************************************************************************)
(* Counters order messages by update until the int is back at 0: for the   *)
(* first 2^32 updates, 198 days at 250 Hz.                                 *)
(***************************************************************************)
THEOREM OrderedCounters == GazeboSpec => []CountersFollowUpdates
<1>1. GazeboSpec => []CounterInv
  BY CounterInit, CounterStep, GazeboTypes, PTL DEF GazeboSpec, AloneInit, gvars
<1>2. GazeboTypeOK /\ CounterInv => CountersFollowUpdates
  <2> SUFFICES ASSUME GazeboTypeOK, CounterInv, NEW m \in sent, NEW n \in sent,
                      m.drone.tick < n.drone.tick, n.drone.tick < 2 * (IntMax + 1)
               PROVE  m.message_counter < n.message_counter
    BY DEF CountersFollowUpdates
  <2>1. m.drone.tick \in Nat /\ n.drone.tick \in Nat
    BY DEF GazeboTypeOK, PoseMessage, Pose
  <2>2. m.drone.tick < 2 * (IntMax + 1)
    BY <2>1, GazeboAssumption
  <2>3. /\ m.message_counter = Uint64(CountAt(m.drone.tick))
        /\ n.message_counter = Uint64(CountAt(n.drone.tick))
    BY <2>2 DEF CounterInv
  <2> QED
    BY <2>1, <2>3, CountersGrow
<1> QED
  BY <1>1, <1>2, GazeboTypes, PTL

-----------------------------------------------------------------------------
(***************************************************************************)
(* Pairing, if every update is grouped as the comments of cbLocalPose say. *)
(***************************************************************************)
UpdatesAreGrouped == \A u \in Updates : Grouped(u)

PairTypes == GazeboTypeOK /\ BodyInv /\ PairInv /\ CameraOfSameDrone

LEMMA PairInit == GazeboInit => PairInv /\ CameraOfSameDrone
BY DEF GazeboInit, PairInv, CameraOfSameDrone, Grouped, UnsetPose

\* The body a camera entry finds in hand is its own.
LEMMA CameraFindsBody ==
  ASSUME GazeboTypeOK, PairInv, i \in 1 .. Len(update), update[i].link = "camera"
  PROVE  drone_pose.xi # Sentinel /\ drone_pose.model = update[i].model
<1>1. PICK j \in DOMAIN update : BodyOf(update, j, i)
  BY DEF PairInv, Grouped, GazeboTypeOK
<1>2. j \in 1 .. i - 1
  BY <1>1 DEF BodyOf, GazeboTypeOK
<1> QED
  BY <1>1, <1>2 DEF BodyOf, PairInv

LEMMA PairStep ==
  ASSUME UpdatesAreGrouped, PairTypes, [GazeboNext]_gvars
  PROVE  PairInv' /\ CameraOfSameDrone'
<1> USE DEF PairTypes
<1>1. ASSUME NEW u \in Updates, CallbackStarts(u) PROVE PairInv' /\ CameraOfSameDrone'
  BY <1>1 DEF CallbackStarts, UpdatesAreGrouped, PairInv, CameraOfSameDrone, UnsetPose,
              idVars
<1>2. CASE DroneBodyPose
  <2>1. /\ i \in 1 .. Len(update) /\ update[i].link = "body"
        /\ trackDroneIds(update[i].model)
        /\ SendIfComplete(PoseOf(update[i]), camera_pose, update[i].model)
        /\ i' = i + 1 /\ UNCHANGED update
    BY <1>2 DEF DroneBodyPose, AtEntry
  <2>2. /\ drone_pose' = PoseOf(update[i]) /\ camera_pose' = camera_pose
        /\ sent' = sent
    BY <2>1, SendInHand DEF PairInv
  <2>3. CameraOfSameDrone'
    BY <2>1, <2>2, TableGrows DEF CameraOfSameDrone
  <2>4. ASSUME NEW j \in 1 .. i' - 1, update'[j].link = "body", update'[j].xi # Sentinel,
               \A l \in j + 1 .. i' - 1 : update'[l].link = "other"
        PROVE  drone_pose'.xi # Sentinel /\ drone_pose'.model = update'[j].model
    <3>1. j = i
      BY <2>1, <2>4
    <3> QED
      BY <2>1, <2>2, <2>4, <3>1 DEF PoseOf
  <2>5. PairInv'
    BY <2>1, <2>2, <2>4 DEF PairInv
  <2> QED
    BY <2>3, <2>5
<1>3. CASE CameraPose
  <2>1. /\ i \in 1 .. Len(update) /\ update[i].link = "camera"
        /\ SendIfComplete(drone_pose, PoseOf(update[i]), current_drone_name)
        /\ i' = i + 1 /\ UNCHANGED <<update, droneIds, tick>>
    BY <1>3 DEF CameraPose, AtEntry, idVars
  <2>2. drone_pose.xi # Sentinel /\ drone_pose.model = update[i].model
    BY <2>1, CameraFindsBody
  <2>3. camera_pose'.xi = Sentinel
    BY <2>1, <2>2, SendInHand
  <2>4. PairInv'
    <3>1. ASSUME NEW j \in 1 .. i' - 1, update'[j].link = "body"
          PROVE  i \in j + 1 .. i' - 1 /\ update'[i].link # "other"
      BY <2>1, <3>1
    <3> QED
      BY <2>1, <2>3, <3>1 DEF PairInv
  <2>5. CameraOfSameDrone'
    <3>1. CASE sent' = sent
      BY <2>1, <3>1 DEF CameraOfSameDrone
    <3>2. CASE sent' # sent
      <4> DEFINE m == [message_counter |-> Uint64(count), drone |-> drone_pose,
                       camera |-> PoseOf(update[i]),
                       drone_id |-> droneIds'[current_drone_name]]
      <4>1. sent' = sent \cup {m}
        BY <2>1, <3>2, SendInHand
      <4>2. /\ m.drone.link = "body" /\ m.camera.link = "camera"
            /\ m.drone.model = m.camera.model /\ m.drone.tick = m.camera.tick
            /\ m.drone.model \in DOMAIN droneIds'
            /\ m.drone_id = droneIds'[m.drone.model]
        BY <2>1, <2>2 DEF BodyInv, PoseOf
      <4> HIDE DEF m
      <4> QED
        BY <2>1, <4>1, <4>2 DEF CameraOfSameDrone
    <3> QED
      BY <3>1, <3>2
  <2> QED
    BY <2>4, <2>5
<1>4. CASE OtherLinkPose
  <2>1. /\ i \in 1 .. Len(update) /\ update[i].link = "other" /\ i' = i + 1
        /\ UNCHANGED <<update, droneIds, drone_pose, camera_pose, sent>>
    BY <1>4 DEF OtherLinkPose, AtEntry, idVars
  <2>2. ASSUME NEW j \in 1 .. i' - 1, update'[j].link = "body", update'[j].xi # Sentinel,
               \A l \in j + 1 .. i' - 1 : update'[l].link = "other"
        PROVE  drone_pose'.xi # Sentinel /\ drone_pose'.model = update'[j].model
    <3>1. j \in 1 .. i - 1 /\ \A l \in j + 1 .. i - 1 : update[l].link = "other"
      BY <2>1, <2>2
    <3> QED
      BY <2>1, <2>2, <3>1 DEF PairInv
  <2> QED
    BY <2>1, <2>2 DEF PairInv, CameraOfSameDrone
<1>5. CASE CallbackEnds
  BY <1>5 DEF CallbackEnds, idVars, PairInv, CameraOfSameDrone
<1>6. CASE DroneNameThrows \/ UNCHANGED gvars
  BY <1>6 DEF DroneNameThrows, gvars, gazeboVars, cbVars, idVars, PairInv, CameraOfSameDrone
<1> QED
  BY <1>1, <1>2, <1>3, <1>4, <1>5, <1>6 DEF GazeboNext

(***************************************************************************)
(* If every update is grouped, a message never mixes two drones.           *)
(***************************************************************************)
THEOREM SameDrone ==
  ASSUME UpdatesAreGrouped
  PROVE  GazeboSpec => []CameraOfSameDrone
<1>1. GazeboSpec => [](PairInv /\ CameraOfSameDrone)
  <2>1. PairTypes /\ [GazeboNext]_gvars => (PairInv /\ CameraOfSameDrone)'
    BY PairStep
  <2> QED
    BY <2>1, PairInit, GazeboTypes, PTL DEF GazeboSpec, AloneInit, gvars, PairTypes
<1> QED
  BY <1>1, PTL

-----------------------------------------------------------------------------
(***************************************************************************)
(* Distinct ids, if names tell the drones apart.                           *)
(***************************************************************************)

\* The table changes only by an entry for a name that is new to it.
LEMMA TableChange ==
  ASSUME GazeboTypeOK, [GazeboNext]_gvars
  PROVE  \/ UNCHANGED <<droneIds, uniqueDroneCount>>
         \/ \E m \in Models \ DOMAIN droneIds :
              /\ GidSuffix[m] # OutOfRange
              /\ DOMAIN droneIds' = DOMAIN droneIds \cup {m}
              /\ droneIds'[m] = NewId(m)
              /\ \A n \in DOMAIN droneIds : droneIds'[n] = droneIds[n]
              /\ uniqueDroneCount' = Uint16(uniqueDroneCount + 1)
<1>1. CASE DroneBodyPose
  <2>1. update[i].model \in Models /\ trackDroneIds(update[i].model)
    BY <1>1, EntryPose DEF DroneBodyPose, AtEntry
  <2> QED
    BY <2>1 DEF trackDroneIds, idVars
<1>2. CASE ~DroneBodyPose
  BY <1>2 DEF GazeboNext, CallbackStarts, DroneNameThrows, CameraPose, OtherLinkPose,
              CallbackEnds, gvars, gazeboVars, idVars
<1> QED
  BY <1>1, <1>2

LEMMA NumberedStep ==
  ASSUME Numbered, GazeboTypeOK, NumberedInv, [GazeboNext]_gvars
  PROVE  NumberedInv'
<1>1. CASE UNCHANGED <<droneIds, uniqueDroneCount>>
  BY <1>1 DEF NumberedInv
<1>2. CASE ~UNCHANGED <<droneIds, uniqueDroneCount>>
  <2>1. PICK m \in Models \ DOMAIN droneIds :
          /\ GidSuffix[m] # OutOfRange
          /\ DOMAIN droneIds' = DOMAIN droneIds \cup {m}
          /\ droneIds'[m] = NewId(m)
          /\ \A n \in DOMAIN droneIds : droneIds'[n] = droneIds[n]
    BY <1>2, TableChange
  <2>2. GidSuffix[m] \in Int
    BY <2>1 DEF Numbered
  <2> QED
    BY <2>1, <2>2 DEF NumberedInv, NewId
<1> QED
  BY <1>1, <1>2

LEMMA CountedStep ==
  ASSUME Counted, GazeboTypeOK, IdsUnique, CountedInv, [GazeboNext]_gvars
  PROVE  IdsUnique' /\ CountedInv'
<1>1. CASE UNCHANGED <<droneIds, uniqueDroneCount>>
  BY <1>1 DEF IdsUnique, CountedInv
<1>2. CASE ~UNCHANGED <<droneIds, uniqueDroneCount>>
  <2>1. PICK m \in Models \ DOMAIN droneIds :
          /\ DOMAIN droneIds' = DOMAIN droneIds \cup {m}
          /\ droneIds'[m] = NewId(m)
          /\ \A n \in DOMAIN droneIds : droneIds'[n] = droneIds[n]
          /\ uniqueDroneCount' = Uint16(uniqueDroneCount + 1)
    BY <1>2, TableChange
  <2> DEFINE n == Cardinality(DOMAIN droneIds)
  <2>2. DOMAIN droneIds \subseteq Models /\ DOMAIN droneIds \cup {m} \subseteq Models
    BY <2>1 DEF GazeboTypeOK, IdsTypeOK
  <2>3. IsFiniteSet(DOMAIN droneIds) /\ n \in Nat
    BY <2>2, FS_Subset, FS_CardinalityType DEF Counted
  <2>4. Cardinality(DOMAIN droneIds') = n + 1
    BY <2>1, <2>3, FS_AddElement
  <2>5. n + 1 <= IdSpace
    <3>1. Cardinality(DOMAIN droneIds \cup {m}) <= Cardinality(Models)
      BY <2>2, FS_Subset DEF Counted
    <3>2. Cardinality(Models) \in Nat
      BY FS_CardinalityType DEF Counted
    <3> QED
      BY <2>1, <2>3, <2>4, <3>1, <3>2, IdAssumption DEF Counted
  <2>6. uniqueDroneCount = n
    BY <2>3, <2>5, IdAssumption DEF CountedInv
  <2>7. droneIds'[m] = n
    BY <2>1, <2>6 DEF NewId, Counted
  <2>8. n + 1 < IdSpace => uniqueDroneCount' = n + 1
    BY <2>1, <2>3, <2>6, IdAssumption DEF Uint16
  <2>9. \A k \in DOMAIN droneIds : droneIds[k] < n /\ droneIds[k] \in Nat
    BY IdAssumption DEF CountedInv, GazeboTypeOK, IdsTypeOK
  <2> HIDE DEF n
  <2>10. CountedInv'
    <3>1. \A k \in DOMAIN droneIds' : droneIds'[k] < n + 1
      BY <2>1, <2>3, <2>7, <2>9
    <3> QED
      BY <2>4, <2>8, <3>1 DEF CountedInv
  <2>11. IdsUnique'
    BY <2>1, <2>3, <2>7, <2>9 DEF IdsUnique
  <2> QED
    BY <2>10, <2>11
<1> QED
  BY <1>1, <1>2

(***************************************************************************)
(* What holds of the table if names tell the drones apart.                 *)
(***************************************************************************)
TableInv ==
  /\ Numbered => NumberedInv
  /\ Counted => IdsUnique /\ CountedInv

LEMMA TableInit == GazeboInit => TableInv
<1> SUFFICES ASSUME GazeboInit PROVE NumberedInv /\ IdsUnique /\ CountedInv
  BY DEF TableInv
<1>1. DOMAIN droneIds = {} /\ uniqueDroneCount = 0
  BY DEF GazeboInit, IdsInit
<1> QED
  BY <1>1, FS_EmptySet DEF NumberedInv, IdsUnique, CountedInv

LEMMA TableStep ==
  ASSUME GazeboTypeOK, TableInv, [GazeboNext]_gvars
  PROVE  TableInv'
BY NumberedStep, CountedStep DEF TableInv, Numbered, Counted

LEMMA TableUnique ==
  ASSUME Numbered \/ Counted, GazeboTypeOK, TableInv
  PROVE  IdsUnique
<1>1. CASE Counted
  BY <1>1 DEF TableInv
<1>2. CASE Numbered
  <2> SUFFICES ASSUME NEW m \in DOMAIN droneIds, NEW n \in DOMAIN droneIds,
                      droneIds[m] = droneIds[n]
               PROVE  m = n
    BY DEF IdsUnique
  <2>1. NumberedInv
    BY <1>2 DEF TableInv
  <2>2. /\ m \in Models /\ n \in Models
        /\ GidSuffix[m] # OutOfRange /\ GidSuffix[n] # OutOfRange
    BY <2>1, IdAssumption DEF GazeboTypeOK, IdsTypeOK, NumberedInv
  <2> QED
    BY <1>2, <2>1, <2>2 DEF Numbered, NumberedInv
<1> QED
  BY <1>1, <1>2

(***************************************************************************)
(* If all names carry numbers that differ as 16-bit values, or none does   *)
(* and there are not more models than values, ids are distinct.            *)
(***************************************************************************)
THEOREM DistinctIds ==
  ASSUME Numbered \/ Counted
  PROVE  GazeboSpec => []IdsUnique
<1>1. GazeboTypeOK /\ TableInv /\ [GazeboNext]_gvars => TableInv'
  BY TableStep
<1>2. GazeboTypeOK /\ TableInv => IdsUnique
  BY TableUnique
<1> QED
  BY <1>1, <1>2, TableInit, GazeboTypes, PTL DEF GazeboSpec, AloneInit, gvars

=============================================================================
