--------------------------- MODULE MCPoseRestarts ---------------------------
(***************************************************************************)
(* One drone with a camera, whose name carries a number; programs whose    *)
(* first address, or all, cannot be used.  Five updates let a restarted    *)
(* sender count past the message last applied.                             *)
(***************************************************************************)
EXTENDS PoseRestarts

CONSTANT a

MCModels == {a}

Part(l) == [model |-> a, link |-> l, xi |-> OtherXi]

MCUpdates == { << Part("body"), Part("camera") >> }

MCNames == [m \in MCModels |-> 0]

MCStack == { pose_to_udp_message(ZeroMessage) }

MCAddresses == { << >>, << "no_socket", "refused" >>, << "refused", "ready" >> }

ASSUME GroupedAssumption == \A u \in MCUpdates : Grouped(u)

\* What the loop over the addresses finds.
ASSUME LoopFindsFirst ==
  \A n \in 0 .. 3 : \A os \in [1 .. n -> Outcomes] :
    create_socket(os) = SelectInSeq(os, LAMBDA o : o = "ready")

=============================================================================
