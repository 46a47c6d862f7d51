--------------------------- MODULE MCCameraSender ----------------------------
(***************************************************************************)
(* A camera whose images are wider than high, so that width and height are *)
(* told apart.                                                             *)
(***************************************************************************)
EXTENDS CameraSender

MCSize == [f \in Fields |-> IF f = "width" THEN 4 ELSE 3]

=============================================================================
