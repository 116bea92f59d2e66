---------------------------- MODULE MCImageStore ----------------------------
(* Small instances of ImageStore for TLC. *)
EXTENDS ImageStore

OneImage == {1}
TwoImages == {1, 2}

\* Requests are numbered; with one image all carry it, with two the odd ones
\* carry the first.
TwoUploads == {1, 2}
ThreeUploads == {1, 2, 3}
SameImage == [u \in Uploads |-> 1]
OddFirst == [u \in Uploads |-> IF u % 2 = 1 THEN 1 ELSE 2]

\* Two small instances in one run: one image that is sent twice, exported and
\* disturbed by a fault, or two images that are sent once each. Of the requests
\* for one image the third is sent after the first, and no image is old before
\* it is sent, which are other orders of the same steps; and the export has an
\* image, without which it touches nothing.
OneOrTwo ==
  /\ \/ request[2] = "unsent"
     \/ request[3] = "unsent" /\ exportStep = "idle" /\ faults = 0
  /\ request[1] = "unsent" => request[3] = "unsent"
  /\ \A i \in old : request[i] # "unsent"
  /\ exportStep # "idle" => exportImages # {}

\* The same two instances where progress is at stake, with emergencies in the
\* first. What fairness asks for is never cut off: nobody has to send a request,
\* to take an export, to fail or to begin an emergency.
LiveOneOrTwo ==
  /\ \/ request[2] = "unsent"
     \/ request[3] = "unsent" /\ faults = 0 /\ retentionStep \in {"idle", "locked", "deleting"}
  /\ request[1] = "unsent" => request[3] = "unsent"

LiveSpec == Init /\ [][Next /\ LiveOneOrTwo']_vars /\ Fairness

=============================================================================
