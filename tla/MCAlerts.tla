------------------------------ MODULE MCAlerts ------------------------------
(***************************************************************************)
(* Small instances of HealthAlerts and MotionEvents for TLC. The two loops *)
(* have no state in common, so that a behaviour is one of the one or of    *)
(* the other.                                                              *)
(***************************************************************************)
EXTENDS HealthAlerts, MotionEvents

TwoChats == {1, 2}

\* Three images in a row and one beyond the cooldown.
FourImages == {1, 2, 3, 5}

VARIABLE loop  \* the loop of the instance

vars == <<loop, alertVars, healthVars, motionVars>>

\* What happens to the camera during a pass shows in the next one, as if it had
\* happened between the two, and the recipients are read once for a message.
CameraWaits == passing => UNCHANGED cameraVars
RecipientsWait == left # {} => UNCHANGED reachable

\* Image 2 may be late or disappear: as an image to be analysed, as the previous
\* one, and as the photo of an event.
OneIsUnsteady ==
  /\ image[3] # "absent" => image[1] # "absent"
  /\ image[5] # "absent" => image[1] # "absent" /\ image[3] # "absent"
  /\ \A i \in Images : image[i] = "deleted" => i = 2

Init == loop \in {"health", "motion"} /\ HealthInit /\ MotionInit

Health == loop = "health" /\ HealthNext /\ CameraWaits /\ UNCHANGED <<loop, motionVars>>
Motion == loop = "motion" /\ MotionNext /\ UNCHANGED <<loop, healthVars>>

\* HealthFairness and MotionFairness, each for its loop.
LoopFairness ==
  /\ WF_vars(loop = "health" /\ (StartHealthPass \/ HealthPassStep) /\ UNCHANGED <<loop, motionVars>>)
  /\ WF_vars(loop = "motion" /\ (ClaimAnalyses \/ MotionPassStep) /\ UNCHANGED <<loop, healthVars>>)

Spec == Init /\ [][(Health \/ Motion) /\ RecipientsWait /\ OneIsUnsteady']_vars /\ LoopFairness

\* Each loop keeps its state well-typed.
TypeOK == (loop = "health" => HealthTypeOK) /\ (loop = "motion" => MotionTypeOK)

\* What the rows say of alerts and photos is what the recipients have got.
RecordsAreTrue == RecordedMeansTold /\ AlertStatusIsTrue

\* No alert comes twice to anyone without a failure that explains it.
RepeatsNeedFaults == AlertRepeatsNeedFaults /\ PhotoRepeatsNeedFaults

\* HealthFollows speaks of the behaviours of the health loop.
HealthFollowsThere == loop = "health" => HealthFollows

\* The health loop catches up with the camera and with its recipients.
HealthCatchesUp == HealthFollowsThere /\ FirstAlertIsRetried

=============================================================================
