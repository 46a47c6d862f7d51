--------------------------- MODULE MCPoseStreaming ---------------------------
(***************************************************************************)
(* Two drones with cameras, whose names carry no usable number, published  *)
(* together in every update.                                               *)
(***************************************************************************)
EXTENDS PoseStreaming

CONSTANTS a, b

MCModels == {a, b}

At(m, l) == [model |-> m, link |-> l, xi |-> OtherXi]

MCTwoDrones ==
  { << At(a, "body"), At(a, "camera"), At(b, "body"), At(b, "camera") >> }

MCNames == [m \in MCModels |-> IF m = a THEN NoGid ELSE NotANumber]

MCStack == { pose_to_udp_message(ZeroMessage) }

ASSUME GroupedAssumption == \A u \in MCTwoDrones : Grouped(u)

=============================================================================
