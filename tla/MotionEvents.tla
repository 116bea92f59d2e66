----------------------------- MODULE MotionEvents -----------------------------
(***************************************************************************)
(* Motion: the analyses of stored images, the grouping of detections into  *)
(* events, and one alert per event (process_due_motion_analyses_once).     *)
(*                                                                         *)
(* A pass is one transaction with the requests to Telegram inside it. db   *)
(* holds what is committed, tx what the transaction of the pass sees; they *)
(* are the same between passes.                                            *)
(***************************************************************************)
EXTENDS AlertRecipients

CONSTANTS
  Images,     \* the scheduled images, by captured_at_utc
  Cooldown,   \* motion_cooldown_seconds
  MaxGap,     \* maximum_previous_age, three capture intervals
  BatchSize   \* analyses, and pending alerts, of one pass

ASSUME ImagesAssumption == Images \subseteq Nat \ {0} /\ IsFiniteSet(Images)
ASSUME MotionAssumption == Cooldown \in Nat /\ MaxGap \in Nat /\ BatchSize \in Nat \ {0}

VARIABLES
  motionOn,  \* cameras.motion_enabled
  image,     \* images.storage_state; the file of a deleted image is gone
  db,        \* analysis: motion_analyses.status; detected: the images with motion;
             \* members: motion_event_images; last, alert: last_detected_at_utc and
             \* alert_status of an event, which has the number of its representative
             \* image. PROCESSING is set and left within one transaction.
  tx,
  motionStep, \* "idle", "analyse" (the claimed analyses), "deliver" (pending alerts)
  batch,      \* the analyses or alerts of the pass still to be looked at
  alerting,   \* the event whose alert is on the way, 0 if none
  photos      \* history: how often the alert of an event has arrived in a chat

motionVars == <<motionOn, image, db, tx, motionStep, batch, alerting, photos>>

Events(d) == {e \in Images : d.last[e] > 0}

MotionTypeOK ==
  /\ AlertTypeOK
  /\ motionOn \in BOOLEAN /\ image \in [Images -> {"absent", "stored", "deleted"}]
  /\ {db, tx} \subseteq
       [analysis : [Images -> {"none", "pending", "completed", "skipped", "failed"}],
        detected : SUBSET Images, members : SUBSET (Images \X Images),
        last : [Images -> Images \cup {0}],
        alert : [Images -> {"none", "pending", "sent", "failed"}]]
  /\ motionStep \in {"idle", "analyse", "deliver"} /\ batch \subseteq Images
  /\ motionStep = "idle" => tx = db /\ batch = {} /\ alerting = 0
  /\ alerting \in Events(tx) \cup {0} /\ (alerting = 0 <=> left = {})
  /\ photos \in [Chats \X Images -> Nat]

MotionInit ==
  /\ AlertInit
  /\ motionOn = TRUE /\ image = [i \in Images |-> "absent"]
  /\ db = [analysis |-> [i \in Images |-> "none"], detected |-> {}, members |-> {},
           last |-> [i \in Images |-> 0], alert |-> [i \in Images |-> "none"]]
  /\ tx = db
  /\ motionStep = "idle" /\ batch = {} /\ alerting = 0
  /\ photos = [arrival \in Chats \X Images |-> 0]

-----------------------------------------------------------------------------
(* The surroundings.                                                       *)

\* An upload commits its image and the pending analysis, in any order of capture.
ImageStored(i) ==
  /\ image[i] = "absent" /\ image' = [image EXCEPT ![i] = "stored"]
  /\ db' = [db EXCEPT !.analysis[i] = "pending"] /\ tx' = [tx EXCEPT !.analysis[i] = "pending"]
  /\ UNCHANGED <<motionOn, motionStep, batch, alerting, photos, alertVars>>

\* Retention spares an image whose analysis is outstanding, and no other.
ImageDeleted(i) ==
  /\ image[i] = "stored" /\ db.analysis[i] # "pending"
  /\ image' = [image EXCEPT ![i] = "deleted"]
  /\ UNCHANGED <<motionOn, db, tx, motionStep, batch, alerting, photos, alertVars>>

\* A pass reads the camera once.
MotionToggles ==
  /\ motionStep = "idle" /\ motionOn' = ~motionOn
  /\ UNCHANGED <<image, db, tx, motionStep, batch, alerting, photos, alertVars>>

MotionRecipientsChange == ReachabilityChanges /\ UNCHANGED motionVars

-----------------------------------------------------------------------------
(* The analyses of a pass.                                                 *)

Oldest(S) == {i \in S : Cardinality({k \in S : k < i}) < BatchSize}

\* claim_due_motion_analyses
ClaimAnalyses ==
  /\ motionStep = "idle" /\ motionStep' = "analyse"
  /\ batch' = Oldest({i \in Images : db.analysis[i] = "pending"})
  /\ UNCHANGED <<motionOn, image, db, tx, alerting, photos, alertVars>>

\* _load_previous_image
Previous(i) == {k \in Images : k < i /\ image[k] = "stored" /\ \A n \in Images :
                  k < n /\ n < i => image[n] # "stored"}

Comparable(i) ==
  motionOn /\ image[i] = "stored" /\ \E k \in Previous(i) : i - k <= MaxGap

Analysing(i) ==
  /\ motionStep = "analyse" /\ alerting = 0 /\ batch # {} /\ i = First(batch)
  /\ batch' = batch \ {i}
  /\ UNCHANGED <<motionOn, image, db, motionStep, photos, reachable, faults>>

Finished(i, result) == [tx EXCEPT !.analysis[i] = result]

\* _mark_skipped: motion is off, the image is gone, there is no previous image
\* or it is too old.
Skip(i) ==
  /\ Analysing(i) /\ ~Comparable(i)
  /\ tx' = Finished(i, "skipped") /\ UNCHANGED <<alerting, left>>

\* detect_motion finds no motion, or cannot read an image.
NoMotion(i) ==
  /\ Analysing(i) /\ Comparable(i)
  /\ \E result \in {"completed", "skipped", "failed"} : tx' = Finished(i, result)
  /\ UNCHANGED <<alerting, left>>

\* Mutant: the window is not opened.
InWindowNone(i) == {e \in Events(tx) : tx.last[e] >= i}

\* The events that have not ended longer than the cooldown before.
InWindow(i) == {e \in Events(tx) : tx.last[e] >= i - Cooldown}

\* order_by(last_detected_at_utc.desc()).limit(1)
EventFor(i) == CHOOSE e \in InWindow(i) : \A f \in InWindow(i) : tx.last[f] <= tx.last[e]

\* The alert of event e is sent, unless nobody is to be told.
SendAlert(e, d) ==
  /\ tx' = d
  /\ IF reachable THEN alerting' = e /\ left' = Chats ELSE UNCHANGED <<alerting, left>>

Detected(i) == [Finished(i, "completed") EXCEPT !.detected = @ \cup {i}]

\* An image that comes late may join an event that has begun after it.
Join(i, e) ==
  [Detected(i) EXCEPT !.members = @ \cup {<<e, i>>}, !.last[e] = IF i > @ THEN i ELSE @]

\* record_motion_detection, with an alert for a new event.
NewEvent(i) ==
  /\ Analysing(i) /\ Comparable(i) /\ InWindow(i) = {}
  /\ SendAlert(i, [Detected(i) EXCEPT !.members = @ \cup {<<i, i>>}, !.last[i] = i,
                                      !.alert[i] = "pending"])

\* Mutant: every detection is announced.
JoinsEventLoudly(i) ==
  /\ Analysing(i) /\ Comparable(i) /\ InWindow(i) # {}
  /\ SendAlert(EventFor(i), Join(i, EventFor(i)))

JoinsEvent(i) ==
  /\ Analysing(i) /\ Comparable(i) /\ InWindow(i) # {}
  /\ tx' = Join(i, EventFor(i)) /\ UNCHANGED <<alerting, left>>

-----------------------------------------------------------------------------
(* Alerts, those of new events and those that are pending from earlier.    *)

\* deliver_pending_motion_alerts_once, when the analyses of the pass are done.
StartDelivery ==
  /\ motionStep = "analyse" /\ batch = {} /\ alerting = 0
  /\ motionStep' = "deliver"
  /\ batch' = Oldest({e \in Images : tx.alert[e] = "pending"})
  /\ UNCHANGED <<motionOn, image, db, tx, alerting, photos, alertVars>>

\* Mutant: what is pending is left alone.
DeliverNone(e) ==
  /\ motionStep = "deliver" /\ alerting = 0 /\ batch # {} /\ e = First(batch)
  /\ batch' = batch \ {e}
  /\ UNCHANGED <<motionOn, image, db, tx, motionStep, alerting, left, photos, reachable, faults>>

DeliverPending(e) ==
  /\ motionStep = "deliver" /\ alerting = 0 /\ batch # {} /\ e = First(batch)
  /\ batch' = batch \ {e}
  /\ SendAlert(e, tx)
  /\ UNCHANGED <<motionOn, image, db, motionStep, photos, reachable, faults>>

PhotoAppears == photos' = [photos EXCEPT ![<<First(left), alerting>>] = @ + 1]

MotionAlertSent ==
  /\ alerting # 0 /\ image[alerting] = "stored"
  /\ PhotoAppears /\ SendsOne
  /\ IF LastRecipient THEN tx' = [tx EXCEPT !.alert[alerting] = "sent"] ELSE UNCHANGED tx
  /\ alerting' = IF left' = {} THEN 0 ELSE alerting
  /\ UNCHANGED <<motionOn, image, db, motionStep, batch>>

\* The request fails, whether the photo has appeared or not, or the photo is
\* gone. The alert is not tried again.
MotionAlertFails ==
  /\ alerting # 0
  /\ \/ image[alerting] = "stored" /\ GivesUp /\ (PhotoAppears \/ UNCHANGED photos)
     \/ image[alerting] = "deleted" /\ left' = {} /\ UNCHANGED <<reachable, faults, photos>>
  /\ tx' = [tx EXCEPT !.alert[alerting] = "failed"] /\ alerting' = 0
  /\ UNCHANGED <<motionOn, image, db, motionStep, batch>>

MotionCommit ==
  /\ motionStep = "deliver" /\ batch = {} /\ alerting = 0
  /\ db' = tx /\ motionStep' = "idle"
  /\ UNCHANGED <<motionOn, image, tx, batch, alerting, photos, alertVars>>

\* An exception or the end of the worker: the photos that were sent stay sent.
MotionPassFails ==
  /\ motionStep # "idle"
  /\ Fault /\ left' = {} /\ UNCHANGED reachable
  /\ tx' = db /\ motionStep' = "idle" /\ batch' = {} /\ alerting' = 0
  /\ UNCHANGED <<motionOn, image, db, photos>>

MotionPassStep ==
  \/ \E i \in Images : Skip(i) \/ NoMotion(i) \/ NewEvent(i) \/ JoinsEvent(i) \/ DeliverPending(i)
  \/ StartDelivery \/ MotionAlertSent \/ MotionAlertFails \/ MotionCommit

MotionNext ==
  \/ \E i \in Images : ImageStored(i) \/ ImageDeleted(i)
  \/ MotionToggles \/ MotionRecipientsChange
  \/ ClaimAnalyses \/ MotionPassStep \/ MotionPassFails

MotionSpec == MotionInit /\ [][MotionNext]_<<motionVars, alertVars>>

\* The motion loop runs again and again.
MotionFairness == WF_<<motionVars, alertVars>>(ClaimAnalyses \/ MotionPassStep)

-----------------------------------------------------------------------------
\* "No duplicate motion alert within a grouped event": every detection belongs to
\* exactly one event, however often its analysis was begun again, and an event
\* begins only when the cooldown since every detection of the events before it is
\* over, also when images are uploaded out of order.
EventsPartition ==
  /\ \A i \in db.detected : Cardinality({e \in Images : <<e, i>> \in db.members}) = 1
  /\ \A m \in db.members : m[2] \in db.detected /\ m[1] \in Events(db)
  /\ \A m \in db.members, f \in Events(db) : m[1] < f => f > m[2] + Cooldown

\* A chat gets the photo of an event once, and once more at most for each failure.
PhotoRepeatsNeedFaults == \A p \in DOMAIN photos : photos[p] <= 1 + faults

\* What is recorded of an alert is what happened: sent means that it has arrived
\* everywhere, and only a failure or a deleted photo makes it fail.
AlertStatusIsTrue ==
  \A e \in Events(db) :
    /\ db.alert[e] = "sent" => \A chat \in Chats : photos[<<chat, e>>] > 0
    /\ db.alert[e] = "failed" => faults > 0 \/ image[e] = "deleted"

\* Every analysis ends, and with it the protection of its image from retention;
\* "Retry delivery for pending motion alerts": no alert stays pending once there
\* is somebody to be told. Again and again nothing is left over.
MotionCatchesUp ==
  /\ []<>(\A i \in Images : db.analysis[i] # "pending")
  /\ <>[]reachable => []<>(\A e \in Images : db.alert[e] # "pending")

=============================================================================
