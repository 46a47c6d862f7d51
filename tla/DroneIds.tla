------------------------------ MODULE DroneIds ------------------------------
(***************************************************************************)
(* GenerateCbLocalPose::trackDroneIds: the sender's table from Gazebo      *)
(* model names to the 16-bit ids that name the vehicles in AirSim.         *)
(*                                                                         *)
(* A name matters only through the suffix after its last "_gid_": absent   *)
(* (or at position 0), a number std::stoi reads, text it rejects with      *)
(* std::invalid_argument, or a number it rejects with std::out_of_range.   *)
(***************************************************************************)
EXTENDS PoseTransfer

CONSTANTS
  GidSuffix,    \* what follows "_gid_" in each model's name
  NoGid, NotANumber, OutOfRange,
  IdSpace       \* number of values of a uint16_t: 65536 in the code

ASSUME IdAssumption ==
  /\ IdSpace \in Nat \ {0}
  /\ {NoGid, NotANumber, OutOfRange} \cap Int = {}
  /\ OutOfRange \notin {NoGid, NotANumber}
  /\ GidSuffix \in [Models -> Int \cup {NoGid, NotANumber, OutOfRange}]

VARIABLES
  droneIds,           \* id of every model name seen so far
  uniqueDroneCount    \* uint16_t count of names given an id

idVars == <<droneIds, uniqueDroneCount>>

Uint16(n) == n % IdSpace

IdsInit ==
  /\ droneIds = [m \in {} |-> 0]
  /\ uniqueDroneCount = 0

\* std::stoi throws std::out_of_range, which the function does not catch.
GidThrows(m) == m \notin DOMAIN droneIds /\ GidSuffix[m] = OutOfRange

\* Mutant: the table's default value for a name it does not have.
NewId_Default(m) == 0

NewId(m) ==
  IF GidSuffix[m] \in Int THEN Uint16(GidSuffix[m]) ELSE uniqueDroneCount

\* Mutant: without the early return for a name already in the table.
trackDroneIds_NoLookup(m) ==
  /\ GidSuffix[m] # OutOfRange
  /\ droneIds' = [n \in DOMAIN droneIds \cup {m} |->
                    IF n = m THEN NewId(m) ELSE droneIds[n]]
  /\ uniqueDroneCount' = Uint16(uniqueDroneCount + 1)

trackDroneIds(m) ==
  \/ /\ m \in DOMAIN droneIds
     /\ UNCHANGED idVars
  \/ /\ m \notin DOMAIN droneIds
     /\ GidSuffix[m] # OutOfRange
     /\ droneIds' = [n \in DOMAIN droneIds \cup {m} |->
                       IF n = m THEN NewId(m) ELSE droneIds[n]]
     /\ uniqueDroneCount' = Uint16(uniqueDroneCount + 1)

IdsTypeOK ==
  /\ DOMAIN droneIds \subseteq Models
  /\ \A m \in DOMAIN droneIds : droneIds[m] \in 0 .. IdSpace - 1
  /\ droneIds = [m \in DOMAIN droneIds |-> droneIds[m]]
  /\ uniqueDroneCount \in 0 .. IdSpace - 1

-----------------------------------------------------------------------------
(***************************************************************************)
(* Two names never share an id: trackDroneIds "gives a single unique       *)
(* uint16_t id to each unique drone name" (gazebo_drone_pose.hpp:37), and  *)
(* the vehicles of AirSim are told apart by nothing else.                  *)
(***************************************************************************)
IdsUnique ==
  \A m, n \in DOMAIN droneIds : droneIds[m] = droneIds[n] => m = n

(***************************************************************************)
(* Once a name has an id it keeps it, whatever the order in which later    *)
(* updates list the models: a vehicle is never handed to another model.    *)
(***************************************************************************)
IdsStable ==
  [][\A m \in DOMAIN droneIds :
        m \in DOMAIN droneIds' /\ droneIds'[m] = droneIds[m]]_droneIds

=============================================================================
