--------------------------- MODULE MCCameraQueue ---------------------------
(* Instances of CameraQueue for TLC.                                       *)
EXTENDS CameraQueue

\* Instants of the captures; the second image alone exceeds MCMaxBytes = 2
\* together with any other.
TwoCaptures == {1, 2}

SizeOf == [c \in Captures |-> IF c = 2 THEN 2 ELSE 1]

\* Two small instances in one run: one image and faults, or two images and none.
OneOrTwo == faults = 0 \/ (row[2] = "absent" /\ 2 \notin files)

\* LiveSpec of the two; nothing that is fair is ever kept from happening.
SmallLiveSpec ==
  /\ Init /\ [][Next /\ OneOrTwo']_vars
  /\ LoopsAreFair /\ ServerIsFair

=============================================================================
