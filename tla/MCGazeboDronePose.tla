------------------------- MODULE MCGazeboDronePose --------------------------
(***************************************************************************)
(* Small worlds for the sender: a drone with a camera, a drone whose       *)
(* camera comes after another link, a model without a camera, a name whose *)
(* number std::stoi refuses.                                               *)
(***************************************************************************)
EXTENDS GazeboDronePose

CONSTANTS a, b, c

At(m, l, x) == [model |-> m, link |-> l, xi |-> x]

Body(m) == At(m, "body", OtherXi)
Camera(m) == At(m, "camera", OtherXi)
Rotor(m) == At(m, "other", OtherXi)

MCModels == {a, b, c}

\* The comments' order of entries, with every way to leave out or to mark.
MCGrouped == {
  << Body(a), Camera(a), Body(b), Rotor(b), Camera(b) >>,
  << Body(b), Camera(b), Body(a), Rotor(a) >>,
  << At(b, "body", Sentinel), Body(a), At(a, "camera", Sentinel),
     Body(b), Camera(b), Body(c), Camera(c) >>,
  << >> }

\* The drones of the unit test, published by a Gazebo that is never idle.
MCTwoDrones == { << Body(a), Camera(a), Body(b), Camera(b) >> }

\* Drone a passes through the orientation the code takes for "not seen".
MCSentinel == MCTwoDrones \cup {
  << At(a, "body", Sentinel), Camera(a), Body(b), Camera(b) >> }

MCNumbered == [m \in MCModels |-> CASE m = a -> 5 [] m = b -> 2 [] m = c -> OutOfRange]

\* The second name to be seen carries the number the first was given.
MCMixed == [m \in MCModels |-> CASE m = a -> NoGid [] m = b -> 0 [] m = c -> NotANumber]

ASSUME GroupedAssumption ==
  \A u \in MCGrouped \cup MCTwoDrones : Grouped(u)

=============================================================================
