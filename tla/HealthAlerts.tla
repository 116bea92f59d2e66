----------------------------- MODULE HealthAlerts -----------------------------
(***************************************************************************)
(* The health of one camera: what its heartbeats and their absence mean    *)
(* (evaluate_camera_health), and the alerts and recoveries that the health *)
(* loop sends (evaluate_all_cameras_once, sync_health_alerts).             *)
(*                                                                         *)
(* A pass is one transaction with the requests to Telegram inside it: what *)
(* has been sent stays sent when it rolls back. health, active and sent    *)
(* are what is committed.                                                  *)
(***************************************************************************)
EXTENDS AlertRecipients

CONSTANT Reportable  \* the conditions a heartbeat may show

ASSUME ReportableAssumption ==
  {"offline", "last_seen_stale"} \cap Reportable = {} /\ IsFiniteSet(Reportable)

VARIABLES
  enabled,      \* cameras.enabled
  seen,         \* last_seen_at: "recent", more than 10 minutes ago ("late"), 15
                \* minutes ago or never ("gone")
  reported,     \* the conditions of the latest heartbeat
  health,       \* cameras.health_state
  active,       \* alert_states.is_active
  sent,         \* the conditions whose last_sent_at is set
  passing,      \* whether a pass is under way
  verdict,      \* its evaluation: the state and the conditions
  alerts,       \* the alerts it has still to send
  recoveries,   \* the recoveries it has still to send
  message,      \* what is on the way: nothing, or <<kind, condition>>
  delivered,    \* the conditions whose alert this pass has delivered
  told,         \* history: <<chat, condition>> of the alerts that arrived
  alertCount,   \* history: arrivals since the condition was last resolved
  unannounced   \* history: the active conditions that are recorded without their
                \* alert having been delivered this time

cameraVars == <<enabled, seen, reported>>
stateVars  == <<health, active, sent>>
passVars   == <<passing, verdict, alerts, recoveries, message, delivered>>
toldVars   == <<told, alertCount, unannounced>>
healthVars == <<cameraVars, stateVars, passVars, toldVars>>

Conditions == Reportable \cup {"offline", "last_seen_stale"}
HealthStates == {"online", "degraded", "offline", "disabled"}
NoMessage == <<"none", "none">>

HealthTypeOK ==
  /\ AlertTypeOK
  /\ enabled \in BOOLEAN /\ seen \in {"recent", "late", "gone"} /\ reported \subseteq Reportable
  /\ health \in HealthStates /\ active \subseteq Conditions /\ sent \subseteq Conditions
  /\ passing \in BOOLEAN
  /\ verdict \in [state : HealthStates, conditions : SUBSET Conditions]
  /\ alerts \subseteq Conditions /\ recoveries \subseteq Conditions
  /\ message \in {NoMessage} \cup {"alert", "recovery"} \X Conditions
  /\ (message = NoMessage <=> left = {})
  /\ delivered \subseteq Conditions
  /\ ~passing => alerts \cup recoveries \cup delivered = {} /\ message = NoMessage
  /\ told \subseteq Chats \X Conditions
  /\ alertCount \in [Chats \X Conditions -> Nat]
  /\ unannounced \subseteq active

HealthInit ==
  /\ AlertInit
  /\ enabled = TRUE /\ seen = "gone" /\ reported = {}
  /\ health = "offline" /\ active = {} /\ sent = {}
  /\ passing = FALSE /\ verdict = [state |-> "offline", conditions |-> {}]
  /\ alerts = {} /\ recoveries = {} /\ message = NoMessage /\ delivered = {}
  /\ told = {} /\ alertCount = [arrival \in Chats \X Conditions |-> 0] /\ unannounced = {}

-----------------------------------------------------------------------------
(* The camera.                                                             *)

CameraChanges == UNCHANGED <<stateVars, passVars, toldVars, alertVars>>

\* receive_heartbeat
HeartbeatArrives ==
  /\ reported' \in SUBSET Reportable /\ seen' = "recent"
  /\ UNCHANGED enabled /\ CameraChanges

\* Time passes without a heartbeat.
CameraIsQuiet ==
  /\ seen # "gone" /\ seen' = IF seen = "recent" THEN "late" ELSE "gone"
  /\ UNCHANGED <<enabled, reported>> /\ CameraChanges

\* The oldest pending image of the latest heartbeat becomes 30 minutes old.
UploadDelayGrows ==
  /\ "upload_delayed" \in Reportable \ reported /\ reported' = reported \cup {"upload_delayed"}
  /\ UNCHANGED <<enabled, seen>> /\ CameraChanges

\* The administrator disables the camera or enables it again.
EnableChanges == enabled' = ~enabled /\ UNCHANGED <<seen, reported>> /\ CameraChanges

RecipientsChange == ReachabilityChanges /\ UNCHANGED healthVars

-----------------------------------------------------------------------------
(* The pass.                                                               *)

Verdict(state, conditions) == [state |-> state, conditions |-> conditions]

\* evaluate_camera_health with _alert_conditions
Evaluate ==
  LET degraded == reported \cup (IF seen = "late" THEN {"last_seen_stale"} ELSE {}) IN
  IF ~enabled THEN Verdict("disabled", {})
  ELSE IF seen = "gone" THEN Verdict("offline", {"offline"})
  ELSE Verdict(IF degraded = {} THEN "online" ELSE "degraded", degraded)

\* Mutant: an alert is sent when its condition appears.
AlertsDueOnce(conditions) == conditions \ active

\* should_send_alert: not is_active, or never sent before.
AlertsDue(conditions) == conditions \ (active \cap sent)

\* Mutant: last_sent_at is not looked at.
RecoveriesDueAlways(conditions) == active \ conditions

\* What no longer holds is resolved; the recipients are told if last_sent_at is set.
RecoveriesDue(conditions) == (active \ conditions) \cap sent

StartHealthPass ==
  /\ ~passing /\ passing' = TRUE
  /\ verdict' = Evaluate
  /\ alerts' = AlertsDue(Evaluate.conditions)
  /\ recoveries' = RecoveriesDue(Evaluate.conditions)
  /\ UNCHANGED <<cameraVars, stateVars, message, delivered, toldVars, alertVars>>

\* The next message, alerts first: _send_to_alert_recipients. Without a token or
\* a recipient it is skipped.
NextMessage(kind, c) ==
  /\ passing /\ message = NoMessage
  /\ \/ kind = "alert" /\ c \in alerts
     \/ kind = "recovery" /\ alerts = {} /\ c \in recoveries
  /\ alerts' = alerts \ {c} /\ recoveries' = IF kind = "alert" THEN recoveries ELSE recoveries \ {c}
  /\ IF reachable THEN left' = Chats /\ message' = <<kind, c>>
                  ELSE UNCHANGED <<left, message>>
  /\ UNCHANGED <<cameraVars, stateVars, passing, verdict, delivered, toldVars, reachable,
                 faults>>

\* The message on the way appears in the next chat.
Appears ==
  LET arrival == <<First(left), message[2]>> IN
  IF message[1] = "alert"
  THEN /\ told' = told \cup {arrival} /\ alertCount' = [alertCount EXCEPT ![arrival] = @ + 1]
       /\ UNCHANGED unannounced
  ELSE UNCHANGED toldVars

HealthMessageSent ==
  /\ message # NoMessage
  /\ Appears /\ SendsOne
  /\ message' = IF left' = {} THEN NoMessage ELSE message
  /\ delivered' = IF message[1] = "alert" /\ LastRecipient THEN delivered \cup {message[2]}
                  ELSE delivered
  /\ UNCHANGED <<cameraVars, stateVars, passing, verdict, alerts, recoveries>>

\* The request fails, whether the message has appeared or not.
HealthMessageFails ==
  /\ message # NoMessage
  /\ Appears \/ UNCHANGED toldVars
  /\ GivesUp
  /\ message' = NoMessage
  /\ UNCHANGED <<cameraVars, stateVars, passing, verdict, alerts, recoveries, delivered>>

\* Mutant: conditions are added and never resolved.
ActiveAfterUnion == active \cup verdict.conditions

ActiveAfter == verdict.conditions

EndPass ==
  /\ passing' = FALSE /\ alerts' = {} /\ recoveries' = {} /\ message' = NoMessage
  /\ delivered' = {} /\ verdict' = Verdict("offline", {})

HealthCommit ==
  /\ passing /\ alerts = {} /\ recoveries = {} /\ message = NoMessage
  /\ health' = verdict.state /\ active' = ActiveAfter /\ sent' = sent \cup delivered
  /\ alertCount' = [arrival \in Chats \X Conditions |->
                      IF arrival[2] \in active \ ActiveAfter THEN 0 ELSE alertCount[arrival]]
  /\ unannounced' = ((unannounced \cup AlertsDue(verdict.conditions)) \cap ActiveAfter) \ delivered
  /\ EndPass
  /\ UNCHANGED <<cameraVars, told, alertVars>>

\* Mutant: the message on the way is not forgotten.
HealthPassFailsMidway ==
  /\ passing
  /\ Fault /\ UNCHANGED <<reachable, left>>
  /\ EndPass
  /\ UNCHANGED <<cameraVars, stateVars, toldVars>>

\* An exception or the end of the worker: everything rolls back but the messages.
HealthPassFails ==
  /\ passing
  /\ Fault /\ left' = {} /\ UNCHANGED reachable
  /\ EndPass
  /\ UNCHANGED <<cameraVars, stateVars, toldVars>>

HealthPassStep ==
  \/ \E kind \in {"alert", "recovery"}, c \in Conditions : NextMessage(kind, c)
  \/ HealthMessageSent \/ HealthMessageFails \/ HealthCommit

HealthNext ==
  \/ HeartbeatArrives \/ CameraIsQuiet \/ UploadDelayGrows \/ EnableChanges
  \/ RecipientsChange
  \/ StartHealthPass \/ HealthPassStep \/ HealthPassFails

HealthSpec == HealthInit /\ [][HealthNext]_<<healthVars, alertVars>>

\* The health loop runs again and again.
HealthFairness == WF_<<healthVars, alertVars>>(StartHealthPass \/ HealthPassStep)

-----------------------------------------------------------------------------
\* What is recorded of the camera and of its alerts fits together after every
\* commit and every rollback: an offline camera has its one alert, a degraded
\* one has some other, a camera that is online or disabled has none.
AlertsMatchHealth ==
  /\ health = "offline" => active \subseteq {"offline"}
  /\ health = "degraded" => active # {} /\ "offline" \notin active
  /\ health \in {"online", "disabled"} => active = {}

\* Everyone has been told of c since it was last resolved.
Announced(c) == \A chat \in Chats : alertCount[<<chat, c>>] > 0

\* An alert is recorded as sent only when it has arrived at every recipient, and
\* a recovery ends what everyone was told of: this very occurrence, or, if its
\* alert was skipped or failed, an earlier one, since last_sent_at is never
\* cleared.
RecordedMeansTold ==
  /\ Chats \X (sent \cup delivered) \subseteq told
  /\ message[1] = "recovery" =>
       IF message[2] \in unannounced THEN Chats \X {message[2]} \subseteq told
                                    ELSE Announced(message[2])

\* While a condition lasts it is announced once, and once more at most for each
\* failure: a partial one repeats the alert for those who have it.
AlertRepeatsNeedFaults == \A arrival \in DOMAIN alertCount : alertCount[arrival] <= 1 + faults

\* What the camera does for good is what the database says of it in the end.
HealthFollows ==
  /\ <>[]~enabled => <>[](health = "disabled" /\ active = {})
  /\ <>[](enabled /\ seen = "gone") => <>[](health = "offline" /\ active = {"offline"})
  /\ <>[](enabled /\ seen = "recent" /\ reported = {}) => <>[](health = "online" /\ active = {})

\* A condition that has never been announced is announced while it lasts, once
\* there is somebody to be told: again and again no such condition is active.
FirstAlertIsRetried == <>[]reachable => []<>(active \subseteq sent)

=============================================================================
