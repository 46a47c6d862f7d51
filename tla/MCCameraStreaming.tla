------------------------- MODULE MCCameraStreaming --------------------------
(***************************************************************************)
(* A camera whose images are wider than high; a sender started without     *)
(* options, a receiver without or with a port that is not a number.        *)
(***************************************************************************)
EXTENDS CameraStreaming

MCSize == [f \in Fields |-> IF f = "width" THEN 4 ELSE 3]

MCSenderCommands == {<< >>}

MCReceiverCommands == {<< >>, <<Option("-p"), NotANumberText>>}

\* How the programs read what they are started with.
ASSUME CommandLineExamples ==
  /\ PortOf(<< >>) = 5000
  /\ PortOf(<<Option("-p"), Number(6000)>>) = 6000
  /\ PortOf(<<Option("-p"), Number(6000), Option("-p"), NotANumberText>>) = 0
  /\ PortOf(<<Option("-f"), Option("-p"), Number(6000)>>) = 6000
  /\ \A n \in -70 .. 70 : FrameRateOf(<<Option("-f"), Number(n)>>) \in (-70 .. 60) \ {0}

=============================================================================
