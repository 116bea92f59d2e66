---------------------------- MODULE AlertsProofs ----------------------------
(***************************************************************************)
(* Proofs about the safety of HealthAlerts and MotionEvents, for any       *)
(* recipients, conditions and images and any number of faults.             *)
(***************************************************************************)
EXTENDS MCAlerts, SetLemmas, FiniteSetTheorems, TLAPS

(***************************************************************************)
(* The inductive invariants of the two loops, apart and together.          *)
(***************************************************************************)

\* A state of health and the conditions that go with it.
Match(state, conditions) ==
  /\ state = "offline" => conditions \subseteq {"offline"}
  /\ state = "degraded" => conditions # {} /\ "offline" \notin conditions
  /\ state \in {"online", "disabled"} => conditions = {}

\* What an alert may be about: of these, those to come, the one on the way and
\* those delivered are apart.
Due == verdict.conditions \ (active \cap sent)

HealthPassInv ==
  /\ alerts \subseteq Due /\ delivered \subseteq Due /\ alerts \cap delivered = {}
  /\ recoveries \subseteq active \cap sent
  /\ message[1] = "alert" => message[2] \in Due \ (alerts \cup delivered)
  /\ message[1] = "recovery" => message[2] \in active \cap sent

\* The recipients whom a message on the way has reached have been told.
ToldInv ==
  /\ Chats \X (sent \cup delivered) \subseteq told
  /\ message[1] = "alert" => (Chats \ left) \X {message[2]} \subseteq told

\* What has been delivered, or is recorded of this occurrence, everyone was told.
AnnouncedInv ==
  /\ \A c \in delivered \cup ((active \cap sent) \ unannounced) : Announced(c)
  /\ message[1] = "alert" => \A chat \in Chats \ left : alertCount[<<chat, message[2]>>] > 0

\* The alert of c to a chat that is not to be sent again if all goes well.
Told(chat, c) ==
  \/ c \in delivered \cup (active \cap sent)
  \/ message = <<"alert", c>> /\ chat \notin left

AlertCountInv ==
  \A chat \in Chats : \A c \in Conditions :
    alertCount[<<chat, c>>] <= IF Told(chat, c) THEN faults + 1 ELSE faults

HealthInv ==
  /\ HealthTypeOK /\ HealthPassInv /\ ToldInv /\ AnnouncedInv /\ AlertCountInv
  /\ Match(health, active) /\ Match(verdict.state, verdict.conditions)

\* Events and analyses, committed or not. Each event ends more than a cooldown
\* before the next one begins.
EventsInv(d, im) ==
  /\ \A i \in Images : im[i] = "absent" => d.analysis[i] = "none"
  /\ \A i \in d.detected : d.analysis[i] = "completed" /\ \E e \in Images :
                             \A f \in Images : <<f, i>> \in d.members <=> f = e
  /\ \A m \in d.members : /\ m[2] \in d.detected /\ m[1] \in Events(d)
                          /\ m[2] <= d.last[m[1]]
  /\ \A e \in Events(d) : e <= d.last[e]
  /\ \A e, f \in Events(d) : e < f => f > d.last[e] + Cooldown
  /\ \A e \in Images : d.alert[e] # "none" => e \in Events(d)

\* What is recorded of an alert is what has happened.
StatusInv(d) ==
  \A e \in Images :
    /\ d.alert[e] = "sent" => \A chat \in Chats : photos[<<chat, e>>] > 0
    /\ d.alert[e] = "failed" => faults > 0 \/ image[e] = "deleted"

MotionPassInv ==
  /\ motionStep = "analyse" => \A i \in batch : tx.analysis[i] = "pending"
  /\ motionStep = "deliver" => \A e \in batch : tx.alert[e] = "pending" /\ e # alerting
  /\ alerting # 0 => /\ tx.alert[alerting] = "pending"
                     /\ \A chat \in Chats \ left : photos[<<chat, alerting>>] > 0

\* The photo of e to a chat that is not to be sent again if all goes well.
Shown(chat, e) ==
  \/ tx.alert[e] \in {"sent", "failed"}
  \/ alerting = e /\ chat \notin left

PhotoCountInv ==
  \A chat \in Chats : \A e \in Images :
    photos[<<chat, e>>] <= IF Shown(chat, e) THEN faults + 1 ELSE faults

MotionInv ==
  /\ MotionTypeOK /\ MotionPassInv /\ PhotoCountInv
  /\ EventsInv(db, image) /\ EventsInv(tx, image) /\ StatusInv(db) /\ StatusInv(tx)

\* The loop that is not looked at has not begun.
HealthRests ==
  /\ health = "offline" /\ active = {} /\ sent = {} /\ delivered = {} /\ message = NoMessage
  /\ alertCount \in [Chats \X Conditions -> {0}]

MotionRests ==
  /\ db.detected = {} /\ db.members = {} /\ Events(db) = {}
  /\ photos \in [Chats \X Images -> {0}]

LoopsInv ==
  /\ loop \in {"health", "motion"} /\ faults \in Nat
  /\ loop = "health" => HealthInv /\ MotionRests
  /\ loop = "motion" => MotionInv /\ HealthRests


-----------------------------------------------------------------------------
(* The health loop. The helpers of the actions are expanded throughout.    *)

USE DEF alertVars, cameraVars, stateVars, passVars, toldVars, healthVars, motionVars, AlertTypeOK,
        CameraChanges, ReachabilityChanges, Fault, SendsOne, GivesUp, EndPass, NoMessage

\* The next recipient.
LEMMA FirstLeft ==
  ASSUME AlertTypeOK, left # {}  PROVE  First(left) \in left /\ First(left) \in Chats
<1>1. \E x \in left : \A y \in left : x <= y
  BY ChatsAssumption, Least
<1> QED
  BY <1>1, Zenon DEF First

\* What the steps of the camera leave alone.
LEMMA CameraSteps ==
  ASSUME HealthTypeOK, HealthNext
  PROVE  \/ StartHealthPass \/ \E kind \in {"alert", "recovery"}, c \in Conditions : NextMessage(kind, c)
         \/ HealthMessageSent \/ HealthMessageFails \/ HealthCommit \/ HealthPassFails
         \/ /\ UNCHANGED <<stateVars, passVars, toldVars, left, faults>>
            /\ reachable' \in BOOLEAN /\ enabled' \in BOOLEAN
            /\ seen' \in {"recent", "late", "gone"} /\ reported' \subseteq Reportable
  BY DEF HealthNext, HealthPassStep, HeartbeatArrives, CameraIsQuiet, UploadDelayGrows,
     EnableChanges, RecipientsChange, HealthTypeOK

\* The evaluation fits.
LEMMA Evaluated ==
  ASSUME HealthTypeOK
  PROVE  /\ Evaluate \in [state : HealthStates, conditions : SUBSET Conditions]
         /\ Match(Evaluate.state, Evaluate.conditions)
<1>1. reported \subseteq Conditions /\ "offline" \notin reported
  BY ReportableAssumption DEF HealthTypeOK, Conditions
<1> QED
  BY <1>1 DEF Evaluate, Verdict, Match, HealthStates, Conditions

\* The message on the way is one, to some recipients.
LEMMA OnTheWay ==
  ASSUME HealthTypeOK, message # NoMessage
  PROVE  /\ message \in {"alert", "recovery"} \X Conditions
         /\ message[1] \in {"alert", "recovery"} /\ message[2] \in Conditions
         /\ left # {} /\ First(left) \in left /\ First(left) \in Chats /\ passing
  BY FirstLeft DEF HealthTypeOK

\* An alert appears in one chat.
LEMMA AlertCounts ==
  ASSUME HealthTypeOK, message # NoMessage, Appears
  PROVE  /\ told \subseteq told' /\ told' \subseteq Chats \X Conditions
         /\ alertCount' \in [Chats \X Conditions -> Nat]
         /\ \A chat \in Chats : \A c \in Conditions :
              alertCount'[<<chat, c>>] = IF message = <<"alert", c>> /\ chat = First(left)
                                     THEN alertCount[<<chat, c>>] + 1 ELSE alertCount[<<chat, c>>]
         /\ message[1] = "alert" => <<First(left), message[2]>> \in told'
<1>1. /\ message \in {"alert", "recovery"} \X Conditions /\ First(left) \in Chats
      /\ message[2] \in Conditions
  BY OnTheWay
<1>2. told \subseteq Chats \X Conditions /\ alertCount \in [Chats \X Conditions -> Nat]
  BY DEF HealthTypeOK
<1> QED
  BY <1>1, <1>2 DEF Appears

\* Types are preserved.
LEMMA HealthTypeStep ==
  ASSUME HealthTypeOK, [HealthNext]_<<healthVars, alertVars>>  PROVE  HealthTypeOK'
<1> USE ChatsAssumption, FaultsAssumption
<1>1. CASE /\ UNCHANGED <<stateVars, passVars, toldVars, left, faults>>
           /\ reachable' \in BOOLEAN /\ enabled' \in BOOLEAN
           /\ seen' \in {"recent", "late", "gone"} /\ reported' \subseteq Reportable
  BY <1>1 DEF HealthTypeOK
<1>2. CASE StartHealthPass
  <2>1. verdict' \in [state : HealthStates, conditions : SUBSET Conditions]
    BY <1>2, Evaluated DEF StartHealthPass
  <2>2. alerts' \subseteq Conditions /\ recoveries' \subseteq Conditions
    BY <1>2, Evaluated DEF StartHealthPass, AlertsDue, RecoveriesDue, HealthTypeOK
  <2> QED
    BY <1>2, <2>1, <2>2 DEF StartHealthPass, HealthTypeOK
<1>3. CASE \E kind \in {"alert", "recovery"}, c \in Conditions : NextMessage(kind, c)
  <2>1. PICK kind \in {"alert", "recovery"}, c \in Conditions : NextMessage(kind, c)
    BY <1>3
  <2>2. <<kind, c>> \in {"alert", "recovery"} \X Conditions /\ <<kind, c>> # NoMessage
    OBVIOUS
  <2>3. alerts' \subseteq Conditions /\ recoveries' \subseteq Conditions
    BY <2>1 DEF NextMessage, HealthTypeOK
  <2>4. /\ left' \subseteq Chats /\ (message' = NoMessage <=> left' = {})
        /\ message' \in {NoMessage} \cup {"alert", "recovery"} \X Conditions
    <3>1. \/ left' = Chats /\ message' = <<kind, c>>
          \/ left' = left /\ message' = message
      BY <2>1, Zenon DEF NextMessage
    <3>2. CASE left' = Chats /\ message' = <<kind, c>>
      BY <2>2, <3>2
    <3>3. CASE left' = left /\ message' = message
      BY <3>3 DEF HealthTypeOK
    <3> QED
      BY <3>1, <3>2, <3>3
  <2>5. /\ passing /\ UNCHANGED <<cameraVars, stateVars, passing, verdict, delivered, toldVars,
                                  reachable, faults>>
    BY <2>1 DEF NextMessage
  <2> QED
    BY <2>3, <2>4, <2>5 DEF HealthTypeOK
<1>4. CASE HealthMessageSent
  <2>1. message # NoMessage /\ Appears /\ unannounced' = unannounced /\ active' = active
    BY <1>4 DEF HealthMessageSent, Appears
  <2>2. /\ message \in {"alert", "recovery"} \X Conditions /\ message[2] \in Conditions /\ passing
        /\ told' \subseteq Chats \X Conditions /\ alertCount' \in [Chats \X Conditions -> Nat]
    BY <2>1, OnTheWay, AlertCounts
  <2>3. /\ UNCHANGED <<cameraVars, stateVars, passing, verdict, alerts, recoveries>>
        /\ left' = left \ {First(left)} /\ UNCHANGED <<reachable, faults>>
        /\ message' = IF left' = {} THEN NoMessage ELSE message
        /\ delivered' \subseteq delivered \cup {message[2]}
    BY <1>4 DEF HealthMessageSent
  <2> QED
    BY <2>1, <2>2, <2>3 DEF HealthTypeOK
<1>5. CASE HealthMessageFails
  <2>1. /\ told' \subseteq Chats \X Conditions /\ alertCount' \in [Chats \X Conditions -> Nat]
        /\ unannounced' = unannounced /\ active' = active
    <3>1. UNCHANGED <<active, unannounced>> /\ (Appears \/ UNCHANGED toldVars)
      BY <1>5 DEF HealthMessageFails, Appears
    <3> QED
      BY <1>5, <3>1, AlertCounts DEF HealthMessageFails, HealthTypeOK
  <2> QED
    BY <1>5, <2>1 DEF HealthMessageFails, HealthTypeOK
<1>6. CASE HealthCommit
  <2>1. Verdict("offline", {}) \in [state : HealthStates, conditions : SUBSET Conditions]
    BY DEF Verdict, HealthStates
  <2>2. alertCount' \in [Chats \X Conditions -> Nat]
    BY <1>6 DEF HealthCommit, HealthTypeOK
  <2>3. verdict.state \in HealthStates /\ verdict.conditions \subseteq Conditions
    BY DEF HealthTypeOK
  <2> QED
    BY <1>6, <2>1, <2>2, <2>3 DEF HealthCommit, ActiveAfter, HealthTypeOK
<1>7. CASE HealthPassFails
  <2>1. Verdict("offline", {}) \in [state : HealthStates, conditions : SUBSET Conditions]
    BY DEF Verdict, HealthStates
  <2>2. AlertTypeOK'
    BY <1>7 DEF HealthPassFails, HealthTypeOK
  <2>3. /\ passing' = FALSE /\ alerts' = {} /\ recoveries' = {} /\ delivered' = {} /\ left' = {}
        /\ message' = NoMessage /\ verdict' = Verdict("offline", {})
        /\ UNCHANGED <<cameraVars, stateVars, toldVars>>
    BY <1>7 DEF HealthPassFails
  <2> QED
    BY <2>1, <2>2, <2>3 DEF HealthTypeOK
<1>8. CASE UNCHANGED <<healthVars, alertVars>>
  BY <1>8 DEF HealthTypeOK
<1> QED
  BY <1>1, <1>2, <1>3, <1>4, <1>5, <1>6, <1>7, <1>8, CameraSteps

\* What a pass has still to send.
LEMMA HealthPassInvStep ==
  ASSUME HealthTypeOK, HealthPassInv, [HealthNext]_<<healthVars, alertVars>>
  PROVE  HealthPassInv'
<1>1. CASE UNCHANGED <<stateVars, passVars>>
  BY <1>1 DEF HealthPassInv, Due
<1>2. CASE StartHealthPass
  <2>1. /\ delivered' = {} /\ message' = NoMessage /\ UNCHANGED <<active, sent>>
        /\ alerts' = verdict'.conditions \ (active \cap sent)
        /\ recoveries' \subseteq active \cap sent
    BY <1>2 DEF StartHealthPass, AlertsDue, RecoveriesDue, HealthTypeOK
  <2> QED
    BY <2>1 DEF HealthPassInv, Due
<1>3. CASE \E kind \in {"alert", "recovery"}, c \in Conditions : NextMessage(kind, c)
  <2>1. PICK kind \in {"alert", "recovery"}, c \in Conditions : NextMessage(kind, c)
    BY <1>3
  <2>2. /\ UNCHANGED <<active, sent, verdict, delivered>>
        /\ alerts' = alerts \ {c} /\ recoveries' \subseteq recoveries
        /\ message' \in {message, <<kind, c>>} /\ message = NoMessage
        /\ kind = "alert" => c \in alerts
        /\ kind = "recovery" => c \in recoveries
    BY <2>1 DEF NextMessage
  <2> QED
    BY <2>2 DEF HealthPassInv, Due
<1>4. CASE HealthMessageSent
  <2>1. /\ UNCHANGED <<active, sent, verdict, alerts, recoveries>>
        /\ message' = NoMessage \/ (message' = message /\ delivered' = delivered)
        /\ \/ delivered' = delivered
           \/ message[1] = "alert" /\ delivered' = delivered \cup {message[2]}
    BY <1>4 DEF HealthMessageSent, LastRecipient
  <2> QED
    BY <2>1 DEF HealthPassInv, Due
<1>5. CASE HealthMessageFails
  <2>1. UNCHANGED <<active, sent, verdict, alerts, recoveries, delivered>> /\ message' = NoMessage
    BY <1>5 DEF HealthMessageFails
  <2> QED
    BY <2>1 DEF HealthPassInv, Due
<1>6. CASE HealthCommit \/ HealthPassFails
  <2>1. alerts' = {} /\ delivered' = {} /\ recoveries' = {} /\ message' = NoMessage
    BY <1>6 DEF HealthCommit, HealthPassFails
  <2> QED
    BY <2>1 DEF HealthPassInv
<1> QED
  BY <1>1, <1>2, <1>3, <1>4, <1>5, <1>6, CameraSteps

\* Who is told, and of what.
LEMMA ToldStep ==
  ASSUME HealthTypeOK, HealthPassInv, ToldInv, [HealthNext]_<<healthVars, alertVars>>
  PROVE  ToldInv'
<1>1. CASE UNCHANGED <<sent, delivered, told, left, message>>
  BY <1>1 DEF ToldInv
<1>2. CASE StartHealthPass
  BY <1>1, <1>2 DEF StartHealthPass
<1>3. CASE \E kind \in {"alert", "recovery"}, c \in Conditions : NextMessage(kind, c)
  <2>1. /\ UNCHANGED <<sent, delivered, told>>
        /\ UNCHANGED <<left, message>> \/ left' = Chats
    BY <1>3 DEF NextMessage
  <2> QED
    BY <2>1 DEF ToldInv
<1>4. CASE HealthMessageSent
  <2> DEFINE k == First(left)
             c == message[2]
  <2>1. /\ message # NoMessage /\ Appears /\ sent' = sent /\ left' = left \ {k}
        /\ message' \in {NoMessage, message}
        /\ \/ delivered' = delivered
           \/ message[1] = "alert" /\ left = {k} /\ delivered' = delivered \cup {c}
    BY <1>4 DEF HealthMessageSent, LastRecipient
  <2>2. told \subseteq told' /\ (message[1] = "alert" => <<k, c>> \in told')
    BY <2>1, AlertCounts
  <2> HIDE DEF k, c
  <2>3. message[1] = "alert" => (Chats \ (left \ {k})) \X {c} \subseteq told'
    BY <2>2 DEF ToldInv, c
  <2>4. Chats \X (sent' \cup delivered') \subseteq told'
    <3>1. CASE delivered' = delivered
      BY <2>1, <2>2, <3>1 DEF ToldInv
    <3>2. CASE message[1] = "alert" /\ left = {k} /\ delivered' = delivered \cup {c}
      <4>1. Chats \X {c} \subseteq told'
        BY <2>3, <3>2
      <4> QED
        BY <2>1, <2>2, <3>2, <4>1 DEF ToldInv
    <3> QED
      BY <2>1, <3>1, <3>2
  <2>5. message'[1] = "alert" => (Chats \ left') \X {message'[2]} \subseteq told'
    BY <2>1, <2>3 DEF c
  <2> QED
    BY <2>4, <2>5 DEF ToldInv
<1>5. CASE HealthMessageFails
  <2>1. sent' = sent /\ delivered' = delivered /\ message' = NoMessage /\ told \subseteq told'
    BY <1>5, AlertCounts DEF HealthMessageFails
  <2> QED
    BY <2>1 DEF ToldInv
<1>6. CASE HealthCommit \/ HealthPassFails
  <2>1. /\ message' = NoMessage /\ told' = told /\ delivered' = {}
        /\ sent' \subseteq sent \cup delivered
    BY <1>6 DEF HealthCommit, HealthPassFails
  <2> QED
    BY <2>1 DEF ToldInv
<1> QED
  BY <1>1, <1>2, <1>3, <1>4, <1>5, <1>6, CameraSteps

\* Who is told of which occurrence.
LEMMA AnnouncedStep ==
  ASSUME HealthTypeOK, HealthPassInv, AnnouncedInv, [HealthNext]_<<healthVars, alertVars>>
  PROVE  AnnouncedInv'
<1>1. CASE UNCHANGED <<active, sent, delivered, alertCount, unannounced, left, message>>
  BY <1>1 DEF AnnouncedInv, Announced
<1>2. CASE StartHealthPass
  BY <1>1, <1>2 DEF StartHealthPass
<1>3. CASE \E kind \in {"alert", "recovery"}, c \in Conditions : NextMessage(kind, c)
  <2>1. /\ UNCHANGED <<active, sent, delivered, alertCount, unannounced>>
        /\ UNCHANGED <<left, message>> \/ left' = Chats
    BY <1>3 DEF NextMessage
  <2> QED
    BY <2>1 DEF AnnouncedInv, Announced
<1>4. CASE HealthMessageSent
  <2>1. /\ message # NoMessage /\ Appears /\ UNCHANGED <<active, sent>>
        /\ left' = left \ {First(left)} /\ message' \in {NoMessage, message}
        /\ \/ delivered' = delivered
           \/ message[1] = "alert" /\ left = {First(left)} /\ delivered' = delivered \cup {message[2]}
    BY <1>4 DEF HealthMessageSent, LastRecipient
  <2>2. unannounced' = unannounced
    BY <2>1 DEF Appears
  <2>3. ASSUME NEW chat \in Chats, NEW c \in Conditions
        PROVE  /\ alertCount[<<chat, c>>] > 0 => alertCount'[<<chat, c>>] > 0
               /\ message = <<"alert", c>> /\ chat = First(left) => alertCount'[<<chat, c>>] > 0
    <3>1. alertCount[<<chat, c>>] \in Nat
      BY DEF HealthTypeOK
    <3>2. alertCount'[<<chat, c>>] = IF message = <<"alert", c>> /\ chat = First(left)
                                     THEN alertCount[<<chat, c>>] + 1 ELSE alertCount[<<chat, c>>]
      BY <2>1, AlertCounts
    <3> QED
      BY <3>1, <3>2
  <2>4. ASSUME message[1] = "alert", NEW chat \in Chats \ left'
        PROVE  alertCount'[<<chat, message[2]>>] > 0
    <3>1. message[2] \in Conditions /\ message = <<"alert", message[2]>>
      BY <2>1, <2>4, OnTheWay
    <3>2. CASE chat = First(left)
      BY <2>3, <3>1, <3>2
    <3>3. CASE chat \notin left
      BY <2>3, <2>4, <3>1, <3>3 DEF AnnouncedInv
    <3> QED
      BY <2>1, <2>4, <3>2, <3>3
  <2>5. ASSUME NEW c \in delivered' \cup ((active' \cap sent') \ unannounced')
        PROVE  Announced(c)'
    <3>1. CASE c \in delivered \cup ((active \cap sent) \ unannounced)
      <4>1. c \in Conditions /\ Announced(c)
        BY <3>1 DEF HealthTypeOK, AnnouncedInv
      <4> QED
        BY <2>3, <4>1 DEF Announced
    <3>2. CASE message[1] = "alert" /\ left = {First(left)} /\ c = message[2]
      BY <2>1, <2>4, <3>2 DEF Announced
    <3> QED
      BY <2>1, <2>2, <2>5, <3>1, <3>2
  <2>6. message'[1] = "alert" => \A chat \in Chats \ left' : alertCount'[<<chat, message'[2]>>] > 0
    BY <2>1, <2>4
  <2> QED
    BY <2>5, <2>6, Zenon DEF AnnouncedInv
<1>5. CASE HealthMessageFails
  <2>1. /\ message # NoMessage /\ UNCHANGED <<active, sent, delivered, unannounced>>
        /\ message' = NoMessage /\ (Appears \/ alertCount' = alertCount)
    BY <1>5 DEF HealthMessageFails, Appears
  <2>2. ASSUME NEW c \in delivered \cup ((active \cap sent) \ unannounced), NEW chat \in Chats
        PROVE  alertCount'[<<chat, c>>] > 0
    <3>1. c \in Conditions /\ alertCount[<<chat, c>>] \in Nat /\ alertCount[<<chat, c>>] > 0
      BY <2>2 DEF HealthTypeOK, AnnouncedInv, Announced
    <3>2. \/ alertCount'[<<chat, c>>] = alertCount[<<chat, c>>]
          \/ alertCount'[<<chat, c>>] = alertCount[<<chat, c>>] + 1
      BY <2>1, <3>1, AlertCounts
    <3> QED
      BY <3>1, <3>2
  <2> QED
    BY <2>1, <2>2 DEF AnnouncedInv, Announced
<1>6. CASE HealthCommit
  <2>1. /\ active' = verdict.conditions /\ sent' = sent \cup delivered /\ delivered' = {}
        /\ message' = NoMessage
        /\ unannounced' = ((unannounced \cup (verdict.conditions \ (active \cap sent)))
                             \cap verdict.conditions) \ delivered
    BY <1>6 DEF HealthCommit, ActiveAfter, AlertsDue
  <2>2. ASSUME NEW c \in (active' \cap sent') \ unannounced'
        PROVE  Announced(c)'
    <3>1. c \in delivered \cup ((active \cap sent) \ unannounced) /\ c \in verdict.conditions
      BY <2>1, <2>2
    <3>2. c \in Conditions /\ Announced(c)
      BY <3>1 DEF HealthTypeOK, AnnouncedInv
    <3>3. \A chat \in Chats : alertCount'[<<chat, c>>] = alertCount[<<chat, c>>]
      BY <1>6, <3>1, <3>2 DEF HealthCommit, ActiveAfter
    <3> QED
      BY <3>2, <3>3 DEF Announced
  <2> QED
    BY <2>1, <2>2 DEF AnnouncedInv
<1>7. CASE HealthPassFails
  <2>1. /\ UNCHANGED <<active, sent, alertCount, unannounced>>
        /\ delivered' = {} /\ message' = NoMessage
    BY <1>7 DEF HealthPassFails
  <2> QED
    BY <2>1 DEF AnnouncedInv, Announced
<1> QED
  BY <1>1, <1>2, <1>3, <1>4, <1>5, <1>6, <1>7, CameraSteps

\* Each alert is sent once in a pass, and not again once it is recorded.
LEMMA AlertCountStep ==
  ASSUME HealthTypeOK, HealthPassInv, AlertCountInv, [HealthNext]_<<healthVars, alertVars>>
  PROVE  AlertCountInv'
<1> SUFFICES ASSUME NEW chat \in Chats, NEW c \in Conditions
             PROVE  alertCount'[<<chat, c>>] <= IF Told(chat, c)' THEN faults' + 1 ELSE faults'
  BY Zenon DEF AlertCountInv
<1> DEFINE n == alertCount[<<chat, c>>]
<1>n. n \in Nat /\ faults \in Nat /\ n <= IF Told(chat, c) THEN faults + 1 ELSE faults
  BY FaultsAssumption DEF HealthTypeOK, AlertCountInv
<1>1. CASE UNCHANGED <<active, sent, delivered, alertCount, left, message, faults>>
  BY <1>n, <1>1 DEF Told
<1>2. CASE StartHealthPass
  BY <1>1, <1>2 DEF StartHealthPass
<1>3. CASE \E kind \in {"alert", "recovery"}, e \in Conditions : NextMessage(kind, e)
  <2>1. /\ UNCHANGED <<active, sent, delivered, alertCount, faults>> /\ message = NoMessage
    BY <1>3 DEF NextMessage
  <2>2. Told(chat, c) => c \in delivered \cup (active \cap sent)
    BY <2>1 DEF Told
  <2>3. Told(chat, c) => Told(chat, c)'
    BY <2>1, <2>2 DEF Told
  <2> QED
    BY <1>n, <2>1, <2>3
<1>4. CASE HealthMessageSent
  <2>1. /\ message # NoMessage /\ Appears /\ UNCHANGED <<active, sent, faults>>
        /\ left' = left \ {First(left)} /\ delivered \subseteq delivered'
        /\ message' = message \/ (message' = NoMessage /\ left' = {})
        /\ message[1] = "alert" /\ left' = {} => message[2] \in delivered'
    BY <1>4, OnTheWay DEF HealthMessageSent, LastRecipient
  <2>2. First(left) \in left
    BY <2>1, OnTheWay
  <2>3. alertCount'[<<chat, c>>] = IF message = <<"alert", c>> /\ chat = First(left)
                                   THEN n + 1 ELSE n
    BY <2>1, AlertCounts
  <2>4. Told(chat, c) => Told(chat, c)'
    BY <2>1 DEF Told
  <2>5. CASE message = <<"alert", c>> /\ chat = First(left)
    <3>1. ~Told(chat, c)
      BY <2>2, <2>5 DEF Told, HealthPassInv, Due
    <3>2. Told(chat, c)'
      BY <2>1, <2>5 DEF Told
    <3> QED
      BY <1>n, <2>1, <2>3, <2>5, <3>1, <3>2
  <2> QED
    BY <1>n, <2>1, <2>3, <2>4, <2>5
<1>5. CASE HealthMessageFails
  <2>1. message # NoMessage /\ faults' = faults + 1 /\ (Appears \/ alertCount' = alertCount)
    BY <1>5 DEF HealthMessageFails
  <2>2. alertCount'[<<chat, c>>] = n \/
          (message = <<"alert", c>> /\ chat = First(left) /\ alertCount'[<<chat, c>>] = n + 1)
    BY <2>1, AlertCounts
  <2>3. message = <<"alert", c>> /\ chat = First(left) => ~Told(chat, c)
    BY <2>1, OnTheWay DEF Told, HealthPassInv, Due
  <2> QED
    BY <1>n, <2>1, <2>2, <2>3
<1>6. CASE HealthCommit
  <2>1. /\ active' = verdict.conditions /\ sent' = sent \cup delivered /\ faults' = faults
        /\ message = NoMessage
        /\ alertCount'[<<chat, c>>] = IF c \in active \ verdict.conditions THEN 0 ELSE n
    BY <1>6 DEF HealthCommit, ActiveAfter
  <2>2. Told(chat, c) => c \in delivered \cup (active \cap sent)
    BY <2>1 DEF Told
  <2>3. Told(chat, c) => Told(chat, c)' \/ c \in active \ verdict.conditions
    BY <2>1, <2>2 DEF Told, HealthPassInv, Due
  <2> QED
    BY <1>n, <2>1, <2>3
<1>7. CASE HealthPassFails
  BY <1>n, <1>7 DEF HealthPassFails
<1> QED
  BY <1>1, <1>2, <1>3, <1>4, <1>5, <1>6, <1>7, CameraSteps

\* The state of health goes with the conditions.
LEMMA MatchStep ==
  ASSUME HealthTypeOK, Match(health, active), Match(verdict.state, verdict.conditions),
         [HealthNext]_<<healthVars, alertVars>>
  PROVE  Match(health, active)' /\ Match(verdict.state, verdict.conditions)'
<1>1. CASE UNCHANGED <<health, active, verdict>>
  BY <1>1 DEF Match
<1>2. CASE StartHealthPass
  BY <1>2, Evaluated DEF StartHealthPass, Match
<1>3. CASE HealthCommit \/ HealthPassFails
  BY <1>3 DEF HealthCommit, HealthPassFails, ActiveAfter, Verdict, Match
<1> QED
  BY <1>1, <1>2, <1>3, CameraSteps DEF NextMessage, HealthMessageSent, HealthMessageFails

\* The health loop keeps its invariant ...
LEMMA HealthStep ==
  ASSUME HealthInv, [HealthNext]_<<healthVars, alertVars>>  PROVE  HealthInv'
  BY HealthTypeStep, HealthPassInvStep, ToldStep, AnnouncedStep, AlertCountStep, MatchStep
  DEF HealthInv

\* ... which holds at first.
LEMMA HealthStart == HealthInit => HealthInv
<1> SUFFICES ASSUME HealthInit  PROVE HealthInv
  OBVIOUS
<1>1. HealthTypeOK
  <2>1. AlertTypeOK /\ left = {} /\ message = NoMessage
    BY FaultsAssumption DEF HealthInit, AlertInit
  <2>2. verdict \in [state : HealthStates, conditions : SUBSET Conditions] /\ health \in HealthStates
    BY DEF HealthInit, HealthStates
  <2>3. alertCount \in [Chats \X Conditions -> Nat]
    BY DEF HealthInit
  <2> QED
    BY <2>1, <2>2, <2>3 DEF HealthInit, HealthTypeOK
<1>2. HealthPassInv /\ ToldInv /\ AnnouncedInv
  BY DEF HealthInit, HealthPassInv, ToldInv, AnnouncedInv, Due
<1>3. AlertCountInv
  BY DEF HealthInit, AlertInit, AlertCountInv
<1> QED
  BY <1>1, <1>2, <1>3 DEF HealthInit, HealthInv, Match

-----------------------------------------------------------------------------
(* The motion loop. The operators on rows are used through the lemmas that *)
(* say what they do to each field.                                         *)

Rows ==
  [analysis : [Images -> {"none", "pending", "completed", "skipped", "failed"}],
   detected : SUBSET Images, members : SUBSET (Images \X Images),
   last : [Images -> Images \cup {0}],
   alert : [Images -> {"none", "pending", "sent", "failed"}]]

\* An analysis is finished.
LEMMA FinishedRows ==
  ASSUME tx \in Rows, NEW i \in Images, NEW result \in {"completed", "skipped", "failed"}
  PROVE  LET d == Finished(i, result) IN
         /\ d \in Rows /\ d.analysis = [tx.analysis EXCEPT ![i] = result]
         /\ d.detected = tx.detected /\ d.members = tx.members /\ d.last = tx.last
         /\ d.alert = tx.alert
<1> USE DEF Finished, Rows
<1>1. Finished(i, result).analysis = [tx.analysis EXCEPT ![i] = result]
  OBVIOUS
<1>2. /\ Finished(i, result).detected = tx.detected /\ Finished(i, result).members = tx.members
      /\ Finished(i, result).last = tx.last /\ Finished(i, result).alert = tx.alert
  OBVIOUS
<1>3. Finished(i, result) \in Rows
  OBVIOUS
<1> QED
  BY <1>1, <1>2, <1>3

\* A detection joins an event.
LEMMA JoinRows ==
  ASSUME tx \in Rows, NEW i \in Images, NEW e \in Images
  PROVE  LET d == Join(i, e) IN
         /\ d \in Rows /\ d.analysis = [tx.analysis EXCEPT ![i] = "completed"]
         /\ d.detected = tx.detected \cup {i} /\ d.members = tx.members \cup {<<e, i>>}
         /\ d.last = [tx.last EXCEPT ![e] = IF i > @ THEN i ELSE @]
         /\ d.alert = tx.alert
<1> DEFINE f == Finished(i, "completed")
<1>1. /\ f \in Rows /\ f.analysis = [tx.analysis EXCEPT ![i] = "completed"]
      /\ f.detected = tx.detected /\ f.members = tx.members /\ f.last = tx.last
      /\ f.alert = tx.alert
  BY FinishedRows
<1>2. Join(i, e) = [[f EXCEPT !.detected = @ \cup {i}] EXCEPT
                      !.members = @ \cup {<<e, i>>}, !.last[e] = IF i > @ THEN i ELSE @]
  BY DEF Join, Detected
<1> HIDE DEF f
<1>3. Join(i, e).analysis = f.analysis /\ Join(i, e).alert = f.alert
  BY <1>1, <1>2 DEF Rows
<1>4. Join(i, e).detected = f.detected \cup {i} /\ Join(i, e).members = f.members \cup {<<e, i>>}
  BY <1>1, <1>2 DEF Rows
<1>5. Join(i, e).last = [f.last EXCEPT ![e] = IF i > @ THEN i ELSE @]
  BY <1>1, <1>2 DEF Rows
<1>6. Join(i, e) \in Rows
  <2>1. Join(i, e) =
          [analysis |-> f.analysis, detected |-> f.detected \cup {i},
           members |-> f.members \cup {<<e, i>>},
           last |-> [f.last EXCEPT ![e] = IF i > @ THEN i ELSE @], alert |-> f.alert]
    BY <1>1, <1>2 DEF Rows
  <2>2. [f.last EXCEPT ![e] = IF i > @ THEN i ELSE @] \in [Images -> Images \cup {0}]
    BY <1>1 DEF Rows
  <2>3. f.detected \cup {i} \in SUBSET Images /\ f.members \cup {<<e, i>>} \in SUBSET (Images \X Images)
    BY <1>1 DEF Rows
  <2>4. /\ f.analysis \in [Images -> {"none", "pending", "completed", "skipped", "failed"}]
        /\ f.alert \in [Images -> {"none", "pending", "sent", "failed"}]
    BY <1>1 DEF Rows
  <2> QED
    BY <2>1, <2>2, <2>3, <2>4 DEF Rows
<1> QED
  BY <1>1, <1>3, <1>4, <1>5, <1>6

\* A detection begins an event.
LEMMA NewEventRows ==
  ASSUME tx \in Rows, NEW i \in Images,
         NEW d, d = [Detected(i) EXCEPT !.members = @ \cup {<<i, i>>}, !.last[i] = i,
                                        !.alert[i] = "pending"]
  PROVE  /\ d \in Rows /\ d.analysis = [tx.analysis EXCEPT ![i] = "completed"]
         /\ d.detected = tx.detected \cup {i} /\ d.members = tx.members \cup {<<i, i>>}
         /\ d.last = [tx.last EXCEPT ![i] = i]
         /\ d.alert = [tx.alert EXCEPT ![i] = "pending"]
<1> DEFINE f == Finished(i, "completed")
<1>1. /\ f \in Rows /\ f.analysis = [tx.analysis EXCEPT ![i] = "completed"]
      /\ f.detected = tx.detected /\ f.members = tx.members /\ f.last = tx.last
      /\ f.alert = tx.alert
  BY FinishedRows
<1>2. d = [[f EXCEPT !.detected = @ \cup {i}] EXCEPT
             !.members = @ \cup {<<i, i>>}, !.last[i] = i, !.alert[i] = "pending"]
  BY DEF Detected
<1> HIDE DEF f
<1>3. d.analysis = f.analysis /\ d.alert = [f.alert EXCEPT ![i] = "pending"]
  BY <1>1, <1>2, ZenonT(60) DEF Rows
<1>4. d.detected = f.detected \cup {i} /\ d.members = f.members \cup {<<i, i>>}
  BY <1>1, <1>2 DEF Rows
<1>5. d.last = [f.last EXCEPT ![i] = i]
  BY <1>1, <1>2 DEF Rows
<1>6. d \in Rows
  <2>1. d = [analysis |-> f.analysis, detected |-> f.detected \cup {i},
             members |-> f.members \cup {<<i, i>>}, last |-> [f.last EXCEPT ![i] = i],
             alert |-> [f.alert EXCEPT ![i] = "pending"]]
    BY <1>1, <1>2 DEF Rows
  <2>2. /\ [f.last EXCEPT ![i] = i] \in [Images -> Images \cup {0}]
        /\ [f.alert EXCEPT ![i] = "pending"] \in [Images -> {"none", "pending", "sent", "failed"}]
    BY <1>1 DEF Rows
  <2>3. f.detected \cup {i} \in SUBSET Images /\ f.members \cup {<<i, i>>} \in SUBSET (Images \X Images)
    BY <1>1 DEF Rows
  <2>4. f.analysis \in [Images -> {"none", "pending", "completed", "skipped", "failed"}]
    BY <1>1 DEF Rows
  <2> QED
    BY <2>1, <2>2, <2>3, <2>4 DEF Rows
<1> QED
  BY <1>1, <1>3, <1>4, <1>5, <1>6

\* The outcome of an alert.
LEMMA AlertRows ==
  ASSUME tx \in Rows, NEW e \in Images, NEW result \in {"sent", "failed"},
         NEW d, d = [tx EXCEPT !.alert[e] = result]
  PROVE  /\ d \in Rows /\ d.alert = [tx.alert EXCEPT ![e] = result]
         /\ d.analysis = tx.analysis /\ d.detected = tx.detected /\ d.members = tx.members
         /\ d.last = tx.last
<1>1. d.alert = [tx.alert EXCEPT ![e] = result]
  BY DEF Rows
<1>2. /\ d.analysis = tx.analysis /\ d.detected = tx.detected /\ d.members = tx.members
      /\ d.last = tx.last
  BY DEF Rows
<1>3. d \in Rows
  BY DEF Rows
<1> QED
  BY <1>1, <1>2, <1>3

\* An analysis that is put down.
LEMMA StoredRows ==
  ASSUME NEW d \in Rows, NEW i \in Images, NEW f, f = [d EXCEPT !.analysis[i] = "pending"]
  PROVE  /\ f \in Rows /\ f.analysis = [d.analysis EXCEPT ![i] = "pending"]
         /\ f.detected = d.detected /\ f.members = d.members /\ f.last = d.last
         /\ f.alert = d.alert
<1>1. f.analysis = [d.analysis EXCEPT ![i] = "pending"]
  BY DEF Rows
<1>2. /\ f.detected = d.detected /\ f.members = d.members /\ f.last = d.last
      /\ f.alert = d.alert
  BY DEF Rows
<1>3. f \in Rows
  BY DEF Rows
<1> QED
  BY <1>1, <1>2, <1>3

\* The rows are rows.
LEMMA TypeRows == ASSUME MotionTypeOK  PROVE  db \in Rows /\ tx \in Rows
  BY DEF MotionTypeOK, Rows

\* The next analysis or alert of the pass.
LEMMA FirstOfBatch ==
  ASSUME MotionTypeOK, batch # {}  PROVE  First(batch) \in batch /\ First(batch) \in Images
<1>1. batch \subseteq Images /\ batch \subseteq Nat
  BY ImagesAssumption DEF MotionTypeOK
<1>2. \E x \in batch : \A y \in batch : x <= y
  BY <1>1, Least
<1> QED
  BY <1>1, <1>2, Zenon DEF First

\* An analysis ends, one way or the other.
LEMMA AnalysisEnds ==
  ASSUME MotionTypeOK, NEW i \in Images, Skip(i) \/ NoMotion(i)
  PROVE  /\ \E result \in {"completed", "skipped", "failed"} : tx' = Finished(i, result)
         /\ Analysing(i) /\ UNCHANGED <<alerting, left>>
  BY DEF Skip, NoMotion

\* The alert that is sent, or not.
LEMMA SendAlertGives ==
  ASSUME NEW e, NEW d, SendAlert(e, d)
  PROVE  /\ tx' = d
         /\ (alerting' = e /\ left' = Chats) \/ (alerting' = alerting /\ left' = left)
  BY DEF SendAlert

\* The event that a detection joins is one of the window, and none of them has
\* ended later.
LEMMA JoinedEvent ==
  ASSUME MotionTypeOK, NEW i \in Images, InWindow(i) # {}
  PROVE  EventFor(i) \in InWindow(i) /\ \A f \in InWindow(i) : tx.last[f] <= tx.last[EventFor(i)]
<1> DEFINE Ends == {tx.last[e] : e \in InWindow(i)}
<1>1. InWindow(i) \subseteq Images /\ tx.last \in [Images -> Images \cup {0}]
  BY TypeRows DEF InWindow, Events, Rows
<1>2. Ends \subseteq Images \cup {0} /\ Ends # {}
  BY <1>1
<1>3. IsFiniteSet(Ends) /\ Ends \subseteq Int
  <2>1. Images \cup {0} \subseteq Int
    BY ImagesAssumption
  <2>2. IsFiniteSet(Images \cup {0})
    BY ImagesAssumption, FS_AddElement
  <2> HIDE DEF Ends
  <2> QED
    BY <1>2, <2>1, <2>2, FS_Subset
<1>4. PICK x \in Ends : \A y \in Ends : y <= x
  BY <1>2, <1>3, Greatest
<1>5. \E e \in InWindow(i) : \A f \in InWindow(i) : tx.last[f] <= tx.last[e]
  BY <1>4
<1> QED
  BY <1>5, Zenon DEF EventFor

\* Types are preserved.
LEMMA MotionTypeStep ==
  ASSUME MotionTypeOK, MotionPassInv, EventsInv(tx, image), [MotionNext]_<<motionVars, alertVars>>
  PROVE  MotionTypeOK'
<1> USE ChatsAssumption, FaultsAssumption
<1>rows. db \in Rows /\ tx \in Rows
  BY TypeRows
<1>type. ASSUME db' \in Rows, tx' \in Rows, AlertTypeOK',
                motionOn' \in BOOLEAN, image' \in [Images -> {"absent", "stored", "deleted"}],
                motionStep' \in {"idle", "analyse", "deliver"}, batch' \subseteq Images,
                motionStep' = "idle" => tx' = db' /\ batch' = {} /\ alerting' = 0,
                alerting' = 0 \/ (alerting' \in Images /\ tx'.last[alerting'] > 0),
                alerting' = 0 <=> left' = {}, photos' \in [Chats \X Images -> Nat]
         PROVE  MotionTypeOK'
  BY <1>type DEF MotionTypeOK, Rows, Events
<1>a. /\ AlertTypeOK /\ motionOn \in BOOLEAN /\ image \in [Images -> {"absent", "stored", "deleted"}]
      /\ motionStep \in {"idle", "analyse", "deliver"} /\ batch \subseteq Images
      /\ motionStep = "idle" => tx = db /\ batch = {} /\ alerting = 0
      /\ alerting = 0 \/ (alerting \in Images /\ tx.last[alerting] > 0)
      /\ alerting = 0 <=> left = {}
      /\ photos \in [Chats \X Images -> Nat]
  BY DEF MotionTypeOK, Events
<1>photos. ASSUME PhotoAppears, alerting # 0  PROVE photos' \in [Chats \X Images -> Nat]
  BY <1>a, <1>photos, FirstLeft DEF PhotoAppears
<1>1. ASSUME NEW i \in Images, ImageStored(i)  PROVE MotionTypeOK'
  <2>1. db' \in Rows /\ tx' \in Rows /\ tx'.last = tx.last
    <3>1. db' = [db EXCEPT !.analysis[i] = "pending"] /\ tx' = [tx EXCEPT !.analysis[i] = "pending"]
      BY <1>1, Zenon DEF ImageStored
    <3>2. db' \in Rows
      BY <1>rows, <3>1, StoredRows, Zenon
    <3>3. tx' \in Rows
      BY <1>rows, <3>1, StoredRows, Zenon
    <3>4. tx'.last = tx.last
      BY <1>rows, <3>1 DEF Rows
    <3> QED
      BY <3>2, <3>3, <3>4
  <2>2. tx = db => tx' = db'
    BY <1>1 DEF ImageStored
  <2> QED
    BY <1>1, <1>a, <2>1, <2>2, <1>type DEF ImageStored
<1>2. ASSUME NEW i \in Images, ImageDeleted(i)  PROVE MotionTypeOK'
  BY <1>2, <1>a, <1>rows, <1>type DEF ImageDeleted
<1>3. CASE MotionToggles \/ MotionRecipientsChange
  BY <1>3, <1>a, <1>rows, <1>type DEF MotionToggles, MotionRecipientsChange
<1>4. CASE ClaimAnalyses
  BY <1>4, <1>a, <1>rows, <1>type DEF ClaimAnalyses, Oldest
<1>5. ASSUME NEW i \in Images, Skip(i) \/ NoMotion(i)  PROVE MotionTypeOK'
  <2>1. PICK result \in {"completed", "skipped", "failed"} : tx' = Finished(i, result)
    BY <1>5, AnalysisEnds
  <2>2. Analysing(i) /\ UNCHANGED <<alerting, left>>
    BY <1>5, AnalysisEnds
  <2>3. tx' \in Rows /\ tx'.last = tx.last
    BY <1>rows, <2>1, FinishedRows
  <2> QED
    BY <1>a, <1>rows, <2>2, <2>3, <1>type DEF Analysing
<1>6. ASSUME NEW i \in Images, NewEvent(i)  PROVE MotionTypeOK'
  <2>1. PICK d : /\ SendAlert(i, d)
                 /\ d = [Detected(i) EXCEPT !.members = @ \cup {<<i, i>>}, !.last[i] = i,
                                             !.alert[i] = "pending"]
    BY <1>6, Zenon DEF NewEvent
  <2>3. d \in Rows /\ d.last = [tx.last EXCEPT ![i] = i]
    BY <1>rows, <2>1, NewEventRows
  <2>4. tx' = d /\ ((alerting' = i /\ left' = Chats) \/ (alerting' = alerting /\ left' = left))
    BY <2>1, SendAlertGives
  <2>2. tx'.last[i] > 0 /\ i # 0
    BY <1>rows, <2>3, <2>4, ImagesAssumption DEF Rows
  <2>5. /\ alerting = 0 /\ motionStep = "analyse" /\ batch' = batch \ {i}
        /\ UNCHANGED <<motionOn, image, db, motionStep, photos, reachable, faults>>
    BY <1>6 DEF NewEvent, Analysing
  <2> QED
    BY <1>a, <1>rows, <2>2, <2>3, <2>4, <2>5, <1>type
<1>7. ASSUME NEW i \in Images, JoinsEvent(i)  PROVE MotionTypeOK'
  <2>1. EventFor(i) \in Images
    BY <1>7, JoinedEvent DEF JoinsEvent, InWindow, Events
  <2>2. tx' \in Rows
    BY <1>7, <1>rows, <2>1, JoinRows DEF JoinsEvent
  <2> QED
    BY <1>7, <1>a, <1>rows, <2>2, <1>type DEF JoinsEvent, Analysing
<1>8. CASE StartDelivery
  BY <1>8, <1>a, <1>rows, <1>type DEF StartDelivery, Oldest
<1>9. ASSUME NEW e \in Images, DeliverPending(e)  PROVE MotionTypeOK'
  <2>1. e \in batch /\ motionStep = "deliver" /\ batch' = batch \ {e}
    BY <1>9, FirstOfBatch DEF DeliverPending
  <2>2. tx.last[e] > 0 /\ e # 0
    BY <2>1, ImagesAssumption DEF MotionPassInv, EventsInv, Events
  <2>3. tx' = tx /\ ((alerting' = e /\ left' = Chats) \/ (alerting' = alerting /\ left' = left))
    BY <1>9, SendAlertGives DEF DeliverPending
  <2> QED
    <3>1. alerting = 0 /\ UNCHANGED <<motionOn, image, db, motionStep, photos, reachable, faults>>
      BY <1>9 DEF DeliverPending
    <3> QED
      BY <1>a, <1>rows, <2>1, <2>2, <2>3, <3>1, <1>type
<1>10. CASE MotionAlertSent
  <2>1. alerting # 0 /\ alerting \in Images /\ photos' \in [Chats \X Images -> Nat]
    BY <1>10, <1>a, <1>photos DEF MotionAlertSent
  <2>2. tx' \in Rows /\ tx'.last = tx.last
    BY <1>10, <1>rows, <2>1, AlertRows DEF MotionAlertSent
  <2> QED
    BY <1>10, <1>a, <1>rows, <2>1, <2>2, <1>type DEF MotionAlertSent
<1>11. CASE MotionAlertFails
  <2>1. alerting # 0 /\ alerting \in Images /\ photos' \in [Chats \X Images -> Nat]
    BY <1>11, <1>a, <1>photos DEF MotionAlertFails
  <2>2. tx' \in Rows
    BY <1>11, <1>rows, <2>1, AlertRows DEF MotionAlertFails
  <2> QED
    <3>1. /\ alerting' = 0 /\ left' = {} /\ UNCHANGED <<motionOn, image, db, motionStep, batch>>
          /\ AlertTypeOK'
      BY <1>11, <1>a DEF MotionAlertFails
    <3>2. motionStep # "idle"
      BY <1>a, <2>1
    <3> QED
      BY <1>a, <1>rows, <2>1, <2>2, <3>1, <3>2, <1>type
<1>12. CASE MotionCommit
  BY <1>12, <1>a, <1>rows, <1>type DEF MotionCommit
<1>13. CASE MotionPassFails
  <2>1. AlertTypeOK' /\ left' = {}
    BY <1>13, <1>a DEF MotionPassFails
  <2>2. /\ tx' = db /\ db' = db /\ motionStep' = "idle" /\ batch' = {} /\ alerting' = 0
        /\ UNCHANGED <<motionOn, image, photos>>
    BY <1>13 DEF MotionPassFails
  <2> QED
    BY <1>a, <1>rows, <2>1, <2>2, <1>type
<1>14. CASE UNCHANGED <<motionVars, alertVars>>
  BY <1>14, <1>a, <1>rows, <1>type
<1> QED
  BY <1>1, <1>2, <1>3, <1>4, <1>5, <1>6, <1>7, <1>8, <1>9, <1>10, <1>11, <1>12, <1>14, <1>13
  DEF MotionNext, MotionPassStep

\* A detection joins the last event of all.
LEMMA JoinKeepsEvents ==
  ASSUME MotionTypeOK, EventsInv(tx, image), NEW i \in Images, tx.analysis[i] = "pending",
         InWindow(i) # {}, NEW f, f = Join(i, EventFor(i))
  PROVE  EventsInv(f, image)
<1> USE ImagesAssumption, MotionAssumption
<1>1. PICK e \in Images : /\ e = EventFor(i) /\ e \in Events(tx) /\ tx.last[e] >= i - Cooldown
                          /\ \A g \in InWindow(i) : tx.last[g] <= tx.last[e]
  BY JoinedEvent DEF InWindow, Events
<1>2. /\ tx \in Rows /\ f.analysis = [tx.analysis EXCEPT ![i] = "completed"]
      /\ f.detected = tx.detected \cup {i} /\ f.members = tx.members \cup {<<e, i>>}
      /\ f.last = [tx.last EXCEPT ![e] = IF i > @ THEN i ELSE @]
      /\ f.alert = tx.alert
  BY <1>1, TypeRows, JoinRows
<1>3. /\ tx.last \in [Images -> Images \cup {0}] /\ tx.members \subseteq Images \X Images
      /\ tx.analysis \in [Images -> {"none", "pending", "completed", "skipped", "failed"}]
      /\ tx.detected \subseteq Images
  BY <1>2 DEF Rows
<1>4. /\ \A g \in Images : g # e => f.last[g] = tx.last[g]
      /\ f.last[e] = IF i > tx.last[e] THEN i ELSE tx.last[e]
  BY <1>2, <1>3
<1>0. /\ e \in Images /\ e \in Nat /\ i \in Nat /\ i > 0 /\ tx.last[e] > 0
      /\ \A g \in Images : tx.last[g] \in Nat /\ g \in Nat
  <2>1. \A g \in Images : tx.last[g] \in Images \cup {0} /\ g \in Nat
    BY <1>3
  <2>2. Images \cup {0} \subseteq Nat /\ i > 0
    OBVIOUS
  <2> QED
    BY <1>1, <2>1, <2>2 DEF Events
<1>16. /\ f.last[e] >= i /\ f.last[e] >= tx.last[e] /\ f.last[e] > 0 /\ f.last[e] \in Nat
  BY <1>0, <1>4
<1>5. Events(f) = Events(tx)
  BY <1>0, <1>4, <1>16 DEF Events
<1>6. \A g \in Events(tx) : g \in Images /\ g <= tx.last[g]
  BY DEF EventsInv, Events
<1>7. \A g, h \in Events(tx) : g < h => h > tx.last[g] + Cooldown
  BY DEF EventsInv
<1>8. \A g \in Events(tx) : ~(e < g)
  <2> SUFFICES ASSUME NEW g \in Events(tx), e < g  PROVE FALSE
    OBVIOUS
  <2>1. /\ g > tx.last[e] + Cooldown /\ g <= tx.last[g] /\ tx.last[g] \in Nat /\ tx.last[e] \in Nat
        /\ g \in Nat
    <3>1. g \in Images /\ g > tx.last[e] + Cooldown /\ g <= tx.last[g]
      BY <1>1, <1>6, <1>7
    <3> QED
      BY <1>0, <3>1
  <2>2. tx.last[g] > tx.last[e] /\ tx.last[g] >= i - Cooldown
    BY <1>1, <2>1
  <2>3. g \in InWindow(i)
    BY <2>2 DEF InWindow
  <2> QED
    BY <1>1, <2>1, <2>2, <2>3
<1>9. i \notin tx.detected /\ \A m \in tx.members : m[2] # i
  BY DEF EventsInv
<1>10. \A j \in Images : image[j] = "absent" => f.analysis[j] = "none"
  BY <1>2, <1>3 DEF EventsInv
<1>11. \A j \in f.detected : /\ f.analysis[j] = "completed"
                             /\ \E g \in Images : \A h \in Images : <<h, j>> \in f.members <=> h = g
  <2> SUFFICES ASSUME NEW j \in f.detected
               PROVE  /\ f.analysis[j] = "completed"
                      /\ \E g \in Images : \A h \in Images : <<h, j>> \in f.members <=> h = g
    OBVIOUS
  <2>1. CASE j = i
    <3>1. \A h \in Images : <<h, i>> \in f.members <=> h = e
      BY <1>2, <1>9
    <3> QED
      BY <1>1, <1>2, <1>3, <2>1, <3>1
  <2>2. CASE j # i
    <3>1. j \in tx.detected /\ j \in Images
      BY <1>2, <1>3, <2>2
    <3>2. \A h \in Images : <<h, j>> \in f.members <=> <<h, j>> \in tx.members
      BY <1>2, <2>2
    <3> QED
      BY <1>2, <1>3, <2>2, <3>1, <3>2 DEF EventsInv
  <2> QED
    BY <2>1, <2>2
<1>12. \A m \in f.members : m[2] \in f.detected /\ m[1] \in Events(f) /\ m[2] <= f.last[m[1]]
  <2> SUFFICES ASSUME NEW m \in f.members
               PROVE  m[2] \in f.detected /\ m[1] \in Events(f) /\ m[2] <= f.last[m[1]]
    OBVIOUS
  <2>1. CASE m = <<e, i>>
    BY <1>1, <1>2, <1>5, <1>16, <2>1
  <2>2. CASE m \in tx.members
    <3>1. m[2] \in tx.detected /\ m[1] \in Events(tx) /\ m[2] <= tx.last[m[1]]
      BY <2>2 DEF EventsInv
    <3>2. m[1] \in Images /\ m[2] \in Images
      BY <1>3, <2>2
    <3> QED
      <4>1. f.last[m[1]] = tx.last[m[1]] \/ (m[1] = e /\ f.last[e] >= tx.last[e])
        BY <1>4, <1>16, <3>2
      <4>2. m[2] <= f.last[m[1]]
        BY <1>0, <1>16, <3>1, <3>2, <4>1
      <4> QED
        BY <1>2, <1>5, <3>1, <4>2
  <2> QED
    BY <1>2, <2>1, <2>2
<1>13. \A g \in Events(f) : g <= f.last[g]
  <2> SUFFICES ASSUME NEW g \in Events(tx)  PROVE g <= f.last[g]
    BY <1>5
  <2>1. g \in Images /\ g \in Nat /\ g <= tx.last[g] /\ tx.last[g] \in Nat
    BY <1>0, <1>6
  <2>2. CASE g = e
    BY <1>16, <2>1, <2>2
  <2>3. CASE g # e
    BY <1>4, <2>1, <2>3
  <2> QED
    BY <2>2, <2>3
<1>14. \A g, h \in Events(f) : g < h => h > f.last[g] + Cooldown
  <2> SUFFICES ASSUME NEW g \in Events(tx), NEW h \in Events(tx), g < h
               PROVE  h > f.last[g] + Cooldown
    BY <1>5
  <2>1. g # e
    BY <1>8
  <2> QED
    BY <1>4, <1>6, <1>7, <2>1
<1>15. \A g \in Images : f.alert[g] # "none" => g \in Events(f)
  BY <1>2, <1>5 DEF EventsInv
<1> QED
  BY <1>10, <1>11, <1>12, <1>13, <1>14, <1>15 DEF EventsInv

\* An event begins after all others.
LEMMA NewEventKeepsEvents ==
  ASSUME MotionTypeOK, EventsInv(tx, image), NEW i \in Images, tx.analysis[i] = "pending",
         InWindow(i) = {}, NEW f,
         f = [Detected(i) EXCEPT !.members = @ \cup {<<i, i>>}, !.last[i] = i,
                                 !.alert[i] = "pending"]
  PROVE  EventsInv(f, image) /\ i \notin Events(tx) /\ tx.alert[i] = "none"
<1> USE ImagesAssumption, MotionAssumption
<1>2. /\ tx \in Rows /\ f.analysis = [tx.analysis EXCEPT ![i] = "completed"]
      /\ f.detected = tx.detected \cup {i} /\ f.members = tx.members \cup {<<i, i>>}
      /\ f.last = [tx.last EXCEPT ![i] = i]
      /\ f.alert = [tx.alert EXCEPT ![i] = "pending"]
  BY TypeRows, NewEventRows
<1>3. /\ tx.last \in [Images -> Images \cup {0}] /\ tx.members \subseteq Images \X Images
      /\ tx.analysis \in [Images -> {"none", "pending", "completed", "skipped", "failed"}]
      /\ tx.detected \subseteq Images
      /\ tx.alert \in [Images -> {"none", "pending", "sent", "failed"}]
  BY <1>2 DEF Rows
<1>4. (\A g \in Images : g # i => f.last[g] = tx.last[g]) /\ f.last[i] = i
  BY <1>2, <1>3
<1>5. Events(f) = Events(tx) \cup {i}
  BY <1>3, <1>4 DEF Events
<1>6. \A g \in Events(tx) : g \in Images /\ g <= tx.last[g] /\ tx.last[g] \in Nat
  BY <1>3 DEF EventsInv, Events
<1>7. \A g, h \in Events(tx) : g < h => h > tx.last[g] + Cooldown
  BY DEF EventsInv
<1>8. \A g \in Events(tx) : g < i /\ i > tx.last[g] + Cooldown
  <2> SUFFICES ASSUME NEW g \in Events(tx)  PROVE g < i /\ i > tx.last[g] + Cooldown
    OBVIOUS
  <2>1. ~(tx.last[g] >= i - Cooldown)
    BY DEF InWindow
  <2> QED
    BY <1>6, <2>1
<1>9. i \notin tx.detected /\ \A m \in tx.members : m[2] # i
  BY DEF EventsInv
<1>10. \A j \in Images : image[j] = "absent" => f.analysis[j] = "none"
  BY <1>2, <1>3 DEF EventsInv
<1>11. \A j \in f.detected : /\ f.analysis[j] = "completed"
                             /\ \E g \in Images : \A h \in Images : <<h, j>> \in f.members <=> h = g
  <2> SUFFICES ASSUME NEW j \in f.detected
               PROVE  /\ f.analysis[j] = "completed"
                      /\ \E g \in Images : \A h \in Images : <<h, j>> \in f.members <=> h = g
    OBVIOUS
  <2>1. CASE j = i
    <3>1. \A h \in Images : <<h, i>> \in f.members <=> h = i
      BY <1>2, <1>9
    <3> QED
      BY <1>2, <1>3, <2>1, <3>1
  <2>2. CASE j # i
    <3>1. j \in tx.detected /\ j \in Images
      BY <1>2, <1>3, <2>2
    <3>2. \A h \in Images : <<h, j>> \in f.members <=> <<h, j>> \in tx.members
      BY <1>2, <2>2
    <3> QED
      BY <1>2, <1>3, <2>2, <3>1, <3>2 DEF EventsInv
  <2> QED
    BY <2>1, <2>2
<1>16. i \notin Events(tx)
  BY <1>8
<1>12. \A m \in f.members : m[2] \in f.detected /\ m[1] \in Events(f) /\ m[2] <= f.last[m[1]]
  <2> SUFFICES ASSUME NEW m \in f.members
               PROVE  m[2] \in f.detected /\ m[1] \in Events(f) /\ m[2] <= f.last[m[1]]
    OBVIOUS
  <2>1. CASE m = <<i, i>>
    BY <1>2, <1>3, <1>4, <1>5, <2>1
  <2>2. CASE m \in tx.members
    <3>1. m[2] \in tx.detected /\ m[1] \in Events(tx) /\ m[2] <= tx.last[m[1]]
      BY <2>2 DEF EventsInv
    <3> QED
      BY <1>2, <1>4, <1>5, <1>6, <1>16, <3>1
  <2> QED
    BY <1>2, <2>1, <2>2
<1>13. \A g \in Events(f) : g <= f.last[g]
  BY <1>4, <1>5, <1>6, <1>16
<1>14. \A g, h \in Events(f) : g < h => h > f.last[g] + Cooldown
  <2> SUFFICES ASSUME NEW g \in Events(f), NEW h \in Events(f), g < h
               PROVE  h > f.last[g] + Cooldown
    OBVIOUS
  <2>1. g # i
    BY <1>5, <1>6, <1>8
  <2> QED
    BY <1>4, <1>5, <1>6, <1>7, <1>8, <2>1
<1>15. \A g \in Images : f.alert[g] # "none" => g \in Events(f)
  BY <1>2, <1>3, <1>5 DEF EventsInv
<1> QED
  BY <1>10, <1>11, <1>12, <1>13, <1>14, <1>15, <1>16 DEF EventsInv

\* Events fit together, committed or not.
LEMMA EventsStep ==
  ASSUME MotionTypeOK, MotionPassInv, EventsInv(db, image), EventsInv(tx, image),
         [MotionNext]_<<motionVars, alertVars>>
  PROVE  EventsInv(db, image)' /\ EventsInv(tx, image)'
<1>rows. db \in Rows /\ tx \in Rows
  BY TypeRows
<1>pending. ASSUME NEW i \in Images, Analysing(i)
            PROVE  tx.analysis[i] = "pending" /\ db' = db /\ image' = image
  BY <1>pending, FirstOfBatch DEF Analysing, MotionPassInv
<1>same. ASSUME UNCHANGED <<db, tx, image>>
         PROVE  EventsInv(db, image)' /\ EventsInv(tx, image)'
  BY <1>same DEF EventsInv, Events
<1>1. ASSUME NEW i \in Images, ImageStored(i)
      PROVE  EventsInv(db, image)' /\ EventsInv(tx, image)'
  <2>1. /\ image[i] = "absent" /\ image' = [image EXCEPT ![i] = "stored"]
        /\ db' = [db EXCEPT !.analysis[i] = "pending"] /\ tx' = [tx EXCEPT !.analysis[i] = "pending"]
    BY <1>1, Zenon DEF ImageStored
  <2>2. ASSUME NEW d \in Rows, EventsInv(d, image),
               NEW f, f = [d EXCEPT !.analysis[i] = "pending"],
               NEW jm, jm = [image EXCEPT ![i] = "stored"]
        PROVE  EventsInv(f, jm)
    <3>1. /\ f.analysis = [d.analysis EXCEPT ![i] = "pending"]
          /\ f.detected = d.detected /\ f.members = d.members /\ f.last = d.last
          /\ f.alert = d.alert
      BY <2>2, StoredRows
    <3>2. /\ d.analysis \in [Images -> {"none", "pending", "completed", "skipped", "failed"}]
          /\ d.detected \subseteq Images
      BY DEF Rows
    <3>3. i \notin d.detected
      BY <2>1, <2>2 DEF EventsInv
    <3>4. \A k \in d.detected : f.analysis[k] = "completed"
      BY <2>2, <3>1, <3>2, <3>3 DEF EventsInv
    <3>5. \A k \in Images : jm[k] = "absent" => f.analysis[k] = "none"
      BY <2>1, <2>2, <3>1, <3>2 DEF EventsInv, MotionTypeOK
    <3> QED
      BY <2>2, <3>1, <3>4, <3>5 DEF EventsInv, Events
  <2>3. EventsInv(db', image') /\ EventsInv(tx', image')
    BY <1>rows, <2>1, <2>2
  <2> QED
    BY <2>3
<1>2. ASSUME NEW i \in Images, ImageDeleted(i)
      PROVE  EventsInv(db, image)' /\ EventsInv(tx, image)'
  <2>1. UNCHANGED <<db, tx>> /\ \A k \in Images : image'[k] = "absent" => image[k] = "absent"
    BY <1>2 DEF ImageDeleted, MotionTypeOK
  <2> QED
    BY <2>1 DEF EventsInv, Events
<1>3. ASSUME NEW i \in Images, Skip(i) \/ NoMotion(i)
      PROVE  EventsInv(db, image)' /\ EventsInv(tx, image)'
  <2>1. PICK result \in {"completed", "skipped", "failed"} : tx' = Finished(i, result)
    BY <1>3, AnalysisEnds
  <2>2. tx.analysis[i] = "pending" /\ db' = db /\ image' = image
    BY <1>3, <1>pending, AnalysisEnds
  <2>3. PICK f : f = Finished(i, result)
    OBVIOUS
  <2>4. /\ f.analysis = [tx.analysis EXCEPT ![i] = result]
        /\ f.detected = tx.detected /\ f.members = tx.members /\ f.last = tx.last
        /\ f.alert = tx.alert
    BY <1>rows, <2>3, FinishedRows
  <2>5. /\ \A k \in tx.detected : k \in Images /\ f.analysis[k] = "completed"
        /\ \A k \in Images : image[k] = "absent" => f.analysis[k] = "none"
    BY <1>rows, <2>2, <2>4 DEF EventsInv, Rows
  <2>6. EventsInv(f, image)
    BY <2>4, <2>5 DEF EventsInv, Events
  <2>7. EventsInv(tx', image') /\ EventsInv(db', image')
    BY <2>1, <2>2, <2>3, <2>6
  <2> QED
    BY <2>7
<1>4. ASSUME NEW i \in Images, NewEvent(i)
      PROVE  EventsInv(db, image)' /\ EventsInv(tx, image)'
  <2>1. PICK d : /\ SendAlert(i, d)
                 /\ d = [Detected(i) EXCEPT !.members = @ \cup {<<i, i>>}, !.last[i] = i,
                                            !.alert[i] = "pending"]
    BY <1>4, Zenon DEF NewEvent
  <2>2. tx.analysis[i] = "pending" /\ db' = db /\ image' = image /\ InWindow(i) = {}
    BY <1>4, <1>pending DEF NewEvent
  <2>3. EventsInv(d, image) /\ tx' = d
    BY <2>1, <2>2, NewEventKeepsEvents, SendAlertGives
  <2>4. EventsInv(tx', image') /\ EventsInv(db', image')
    BY <2>2, <2>3
  <2> QED
    BY <2>4
<1>5. ASSUME NEW i \in Images, JoinsEvent(i)
      PROVE  EventsInv(db, image)' /\ EventsInv(tx, image)'
  <2>1. /\ tx.analysis[i] = "pending" /\ db' = db /\ image' = image /\ InWindow(i) # {}
        /\ tx' = Join(i, EventFor(i))
    BY <1>5, <1>pending DEF JoinsEvent
  <2>2. PICK f : f = Join(i, EventFor(i))
    OBVIOUS
  <2>3. EventsInv(f, image)
    BY <2>1, <2>2, JoinKeepsEvents
  <2>4. EventsInv(tx', image') /\ EventsInv(db', image')
    BY <2>1, <2>2, <2>3
  <2> QED
    BY <2>4
<1>6. ASSUME UNCHANGED <<db, image>>, NEW result \in {"sent", "failed"},
             alerting # 0, tx' = [tx EXCEPT !.alert[alerting] = result]
      PROVE  EventsInv(db, image)' /\ EventsInv(tx, image)'
  <2>1. alerting \in Events(tx)
    BY <1>6 DEF MotionTypeOK
  <2>2. PICK e \in Images : e = alerting
    BY <2>1 DEF Events
  <2>3. PICK f : f = [tx EXCEPT !.alert[e] = result]
    OBVIOUS
  <2>4. /\ f.alert = [tx.alert EXCEPT ![e] = result] /\ f.analysis = tx.analysis
        /\ f.detected = tx.detected /\ f.members = tx.members /\ f.last = tx.last
    BY <1>rows, <2>3, AlertRows
  <2>5. EventsInv(f, image)
    <3>1. Events(f) = Events(tx)
      BY <2>4 DEF Events
    <3>2. \A k \in Images : f.alert[k] # "none" => k \in Events(tx)
      BY <1>rows, <2>1, <2>2, <2>4 DEF EventsInv, Rows
    <3> QED
      BY <2>4, <3>1, <3>2 DEF EventsInv
  <2>6. EventsInv(tx', image') /\ EventsInv(db', image')
    BY <1>6, <2>2, <2>3, <2>5
  <2> QED
    BY <2>6
<1>7. CASE MotionAlertSent
  BY <1>6, <1>7, <1>same DEF MotionAlertSent
<1>8. CASE MotionAlertFails
  BY <1>6, <1>8 DEF MotionAlertFails
<1>9. CASE MotionCommit
  <2>1. db' = tx /\ tx' = tx /\ image' = image
    BY <1>9 DEF MotionCommit
  <2>2. EventsInv(db', image') /\ EventsInv(tx', image')
    BY <2>1
  <2> QED
    BY <2>2
<1>10. CASE MotionPassFails
  <2>1. db' = db /\ tx' = db /\ image' = image
    BY <1>10 DEF MotionPassFails
  <2>2. EventsInv(db', image') /\ EventsInv(tx', image')
    BY <2>1
  <2> QED
    BY <2>2
<1>11. CASE \/ MotionToggles \/ MotionRecipientsChange \/ ClaimAnalyses \/ StartDelivery
            \/ UNCHANGED <<motionVars, alertVars>>
  BY <1>11, <1>same DEF MotionToggles, MotionRecipientsChange, ClaimAnalyses, StartDelivery
<1>12. ASSUME NEW e \in Images, DeliverPending(e)
       PROVE  EventsInv(db, image)' /\ EventsInv(tx, image)'
  BY <1>12, <1>same, SendAlertGives DEF DeliverPending
<1> QED
  BY <1>1, <1>2, <1>3, <1>4, <1>5, <1>7, <1>8, <1>9, <1>10, <1>11, <1>12
  DEF MotionNext, MotionPassStep

\* What a step does about alerts.
LEMMA AlertSteps ==
  ASSUME MotionTypeOK, MotionPassInv, EventsInv(tx, image), [MotionNext]_<<motionVars, alertVars>>
  PROVE  \/ /\ \A e \in Images : db'.alert[e] = db.alert[e] /\ tx'.alert[e] = tx.alert[e]
            /\ UNCHANGED <<alerting, left, photos, faults>>
         \/ /\ alerting = 0 /\ UNCHANGED <<db, photos, faults>>
            /\ \E e \in Images :
                 /\ \/ tx.alert[e] = "pending" /\ tx' = tx
                    \/ tx.alert[e] = "none" /\ tx'.alert = [tx.alert EXCEPT ![e] = "pending"]
                 /\ \/ alerting' = e /\ left' = Chats
                    \/ UNCHANGED <<alerting, left>>
         \/ MotionAlertSent \/ MotionAlertFails \/ MotionCommit \/ MotionPassFails
<1>rows. db \in Rows /\ tx \in Rows
  BY TypeRows
<1>1. ASSUME NEW i \in Images, ImageStored(i)
      PROVE  /\ \A e \in Images : db'.alert[e] = db.alert[e] /\ tx'.alert[e] = tx.alert[e]
             /\ UNCHANGED <<alerting, left, photos, faults>>
  <2>1. db'.alert = db.alert /\ tx'.alert = tx.alert
    BY <1>1, <1>rows DEF ImageStored, Rows
  <2> QED
    BY <1>1, <2>1 DEF ImageStored
<1>2. ASSUME NEW i \in Images, Skip(i) \/ NoMotion(i)
      PROVE  /\ \A e \in Images : db'.alert[e] = db.alert[e] /\ tx'.alert[e] = tx.alert[e]
             /\ UNCHANGED <<alerting, left, photos, faults>>
  <2>1. PICK result \in {"completed", "skipped", "failed"} : tx' = Finished(i, result)
    BY <1>2, AnalysisEnds
  <2>2. Analysing(i) /\ UNCHANGED <<alerting, left>>
    BY <1>2, AnalysisEnds
  <2>3. tx'.alert = tx.alert
    BY <1>rows, <2>1, FinishedRows
  <2> QED
    BY <2>2, <2>3 DEF Analysing
<1>3. ASSUME NEW i \in Images, JoinsEvent(i)
      PROVE  /\ \A e \in Images : db'.alert[e] = db.alert[e] /\ tx'.alert[e] = tx.alert[e]
             /\ UNCHANGED <<alerting, left, photos, faults>>
  <2>1. EventFor(i) \in Images
    BY <1>3, JoinedEvent DEF JoinsEvent, InWindow, Events
  <2>2. tx'.alert = tx.alert
    BY <1>3, <1>rows, <2>1, JoinRows DEF JoinsEvent
  <2> QED
    BY <1>3, <2>2 DEF JoinsEvent, Analysing
<1>4. ASSUME NEW i \in Images, NewEvent(i)
      PROVE  /\ alerting = 0 /\ UNCHANGED <<db, photos, faults>>
             /\ tx.alert[i] = "none" /\ tx'.alert = [tx.alert EXCEPT ![i] = "pending"]
             /\ (alerting' = i /\ left' = Chats) \/ UNCHANGED <<alerting, left>>
  <2>1. PICK d : /\ SendAlert(i, d)
                 /\ d = [Detected(i) EXCEPT !.members = @ \cup {<<i, i>>}, !.last[i] = i,
                                            !.alert[i] = "pending"]
    BY <1>4, Zenon DEF NewEvent
  <2>2. /\ Analysing(i) /\ InWindow(i) = {} /\ tx.analysis[i] = "pending"
    BY <1>4, FirstOfBatch DEF NewEvent, Analysing, MotionPassInv
  <2>3. tx.alert[i] = "none"
    BY <2>1, <2>2, NewEventKeepsEvents
  <2>4. d.alert = [tx.alert EXCEPT ![i] = "pending"]
    BY <1>rows, <2>1, NewEventRows
  <2>5. tx' = d /\ ((alerting' = i /\ left' = Chats) \/ UNCHANGED <<alerting, left>>)
    BY <2>1, SendAlertGives
  <2> QED
    BY <2>2, <2>3, <2>4, <2>5 DEF Analysing
<1>5. ASSUME NEW e \in Images, DeliverPending(e)
      PROVE  /\ alerting = 0 /\ UNCHANGED <<db, photos, faults>>
             /\ tx.alert[e] = "pending" /\ tx' = tx
             /\ (alerting' = e /\ left' = Chats) \/ UNCHANGED <<alerting, left>>
  BY <1>5, FirstOfBatch, SendAlertGives DEF DeliverPending, MotionPassInv
<1>6. ASSUME \/ \E i \in Images : ImageDeleted(i)
             \/ MotionToggles \/ MotionRecipientsChange \/ ClaimAnalyses \/ StartDelivery
             \/ UNCHANGED <<motionVars, alertVars>>
      PROVE  UNCHANGED <<db, tx, alerting, left, photos, faults>>
  BY <1>6 DEF ImageDeleted, MotionToggles, MotionRecipientsChange, ClaimAnalyses, StartDelivery
<1> QED
  BY <1>1, <1>2, <1>3, <1>4, <1>5, <1>6 DEF MotionNext, MotionPassStep

\* One more photo in one chat.
LEMMA PhotoCounts ==
  ASSUME MotionTypeOK, alerting # 0, PhotoAppears
  PROVE  \A chat \in Chats : \A e \in Images :
           photos'[<<chat, e>>] = IF chat = First(left) /\ e = alerting
                                  THEN photos[<<chat, e>>] + 1 ELSE photos[<<chat, e>>]
<1>1. alerting \in Images /\ First(left) \in Chats /\ photos \in [Chats \X Images -> Nat]
  BY FirstLeft DEF MotionTypeOK, Events
<1> QED
  BY <1>1 DEF PhotoAppears

\* What has happened has happened.
LEMMA MotionGrows ==
  ASSUME MotionTypeOK, MotionPassInv, EventsInv(tx, image), [MotionNext]_<<motionVars, alertVars>>
  PROVE  /\ \A chat \in Chats : \A e \in Images :
              photos[<<chat, e>>] \in Nat /\ photos'[<<chat, e>>] >= photos[<<chat, e>>]
         /\ faults \in Nat /\ faults' \in {faults, faults + 1}
         /\ \A e \in Images : image[e] = "deleted" => image'[e] = "deleted"
<1>1. /\ \A chat \in Chats : \A e \in Images : photos[<<chat, e>>] \in Nat
      /\ faults \in Nat /\ image \in [Images -> {"absent", "stored", "deleted"}]
  BY FaultsAssumption DEF MotionTypeOK
<1>2. photos' = photos \/ (alerting # 0 /\ PhotoAppears)
  BY AlertSteps DEF MotionAlertSent, MotionAlertFails, MotionCommit, MotionPassFails
<1>3. faults' \in {faults, faults + 1}
  BY AlertSteps DEF MotionAlertSent, MotionAlertFails, MotionCommit, MotionPassFails
<1>4. image' = image \/ \E i \in Images : ImageStored(i) \/ ImageDeleted(i)
  BY DEF MotionNext, MotionPassStep, MotionToggles, MotionRecipientsChange, ClaimAnalyses, Skip,
     NoMotion, NewEvent, JoinsEvent, Analysing, DeliverPending, StartDelivery, MotionAlertSent,
     MotionAlertFails, MotionCommit, MotionPassFails
<1>5. \A e \in Images : image[e] = "deleted" => image'[e] = "deleted"
  BY <1>1, <1>4 DEF ImageStored, ImageDeleted
<1>6. ASSUME NEW chat \in Chats, NEW e \in Images
      PROVE  photos'[<<chat, e>>] >= photos[<<chat, e>>]
  <2>1. photos'[<<chat, e>>] \in {photos[<<chat, e>>], photos[<<chat, e>>] + 1}
    BY <1>2, PhotoCounts
  <2> QED
    BY <1>1, <2>1
<1> QED
  BY <1>1, <1>3, <1>5, <1>6

\* The records of alerts stay true.
LEMMA StatusStep ==
  ASSUME MotionTypeOK, MotionPassInv, EventsInv(tx, image), StatusInv(db), StatusInv(tx),
         [MotionNext]_<<motionVars, alertVars>>
  PROVE  StatusInv(db)' /\ StatusInv(tx)'
<1>rows. db \in Rows /\ tx \in Rows
  BY TypeRows
<1>kept. ASSUME NEW e \in Images, NEW s, NEW z, z \in {s, "none", "pending"},
                /\ s = "sent" => \A chat \in Chats : photos[<<chat, e>>] > 0
                /\ s = "failed" => faults > 0 \/ image[e] = "deleted"
         PROVE  /\ z = "sent" => \A chat \in Chats : photos'[<<chat, e>>] > 0
                /\ z = "failed" => faults' > 0 \/ image'[e] = "deleted"
  <2>1. \A chat \in Chats : photos[<<chat, e>>] > 0 => photos'[<<chat, e>>] > 0
    <3> SUFFICES ASSUME NEW chat \in Chats, photos[<<chat, e>>] > 0
                 PROVE  photos'[<<chat, e>>] > 0
      OBVIOUS
    <3>1. photos[<<chat, e>>] \in Nat /\ photos'[<<chat, e>>] >= photos[<<chat, e>>]
      BY MotionGrows
    <3>2. photos'[<<chat, e>>] \in Nat
      BY MotionTypeStep DEF MotionTypeOK
    <3> QED
      BY <3>1, <3>2
  <2>2. faults > 0 => faults' > 0
    BY MotionGrows
  <2>3. image[e] = "deleted" => image'[e] = "deleted"
    BY MotionGrows
  <2> QED
    BY <1>kept, <2>1, <2>2, <2>3
<1>db. ASSUME \A e \in Images : db'.alert[e] = db.alert[e]  PROVE StatusInv(db)'
  BY <1>db, <1>kept DEF StatusInv
<1>tx. ASSUME \A e \in Images : tx'.alert[e] \in {tx.alert[e], "none", "pending"}
       PROVE  StatusInv(tx)'
  BY <1>tx, <1>kept DEF StatusInv
<1>1. CASE \A e \in Images : db'.alert[e] = db.alert[e] /\ tx'.alert[e] = tx.alert[e]
  BY <1>1, <1>db, <1>tx
<1>2. ASSUME UNCHANGED db, NEW e \in Images, tx' = tx \/ tx'.alert = [tx.alert EXCEPT ![e] = "pending"]
      PROVE  StatusInv(db)' /\ StatusInv(tx)'
  <2>1. \A k \in Images : tx'.alert[k] \in {tx.alert[k], "none", "pending"}
    BY <1>2, <1>rows DEF Rows
  <2> QED
    BY <1>2, <1>db, <1>tx, <2>1
<1>3. ASSUME UNCHANGED db, alerting # 0, NEW result \in {"sent", "failed"},
             tx' = [tx EXCEPT !.alert[alerting] = result],
             /\ result = "sent" => \A chat \in Chats : photos'[<<chat, alerting>>] > 0
             /\ result = "failed" => faults' > 0 \/ image'[alerting] = "deleted"
      PROVE  StatusInv(db)' /\ StatusInv(tx)'
  <2>1. alerting \in Images
    BY <1>3 DEF MotionTypeOK, Events
  <2>2. tx'.alert = [tx.alert EXCEPT ![alerting] = result]
    BY <1>3, <1>rows, <2>1, AlertRows
  <2>3. \A k \in Images : tx'.alert[k] = IF k = alerting THEN result ELSE tx.alert[k]
    BY <1>rows, <2>1, <2>2 DEF Rows
  <2>4. StatusInv(tx)'
    BY <1>3, <1>kept, <2>3 DEF StatusInv
  <2> QED
    BY <1>3, <1>db, <2>4
<1>4. CASE MotionAlertSent
  <2>1. alerting # 0 /\ alerting \in Images /\ PhotoAppears /\ db' = db
    BY <1>4 DEF MotionAlertSent, MotionTypeOK, Events
  <2>2. CASE LastRecipient
    <3>1. tx' = [tx EXCEPT !.alert[alerting] = "sent"] /\ left = {First(left)}
      BY <1>4, <2>2 DEF MotionAlertSent, LastRecipient
    <3>2. \A chat \in Chats : photos'[<<chat, alerting>>] > 0
      <4> SUFFICES ASSUME NEW chat \in Chats  PROVE photos'[<<chat, alerting>>] > 0
        OBVIOUS
      <4>1. photos[<<chat, alerting>>] \in Nat
        BY <2>1, MotionGrows
      <4>2. photos'[<<chat, alerting>>] = IF chat = First(left) THEN photos[<<chat, alerting>>] + 1
                                          ELSE photos[<<chat, alerting>>]
        BY <2>1, PhotoCounts
      <4>3. chat # First(left) => photos[<<chat, alerting>>] > 0
        BY <2>1, <3>1 DEF MotionPassInv
      <4> QED
        BY <4>1, <4>2, <4>3
    <3> QED
      BY <1>3, <2>1, <3>1, <3>2
  <2>3. CASE ~LastRecipient
    BY <1>4, <1>db, <1>tx, <2>3 DEF MotionAlertSent
  <2> QED
    BY <2>2, <2>3
<1>5. CASE MotionAlertFails
  <2>1. /\ alerting # 0 /\ db' = db /\ tx' = [tx EXCEPT !.alert[alerting] = "failed"]
        /\ faults' = faults + 1 \/ (image[alerting] = "deleted" /\ image' = image)
    BY <1>5 DEF MotionAlertFails
  <2>2. faults' > 0 \/ image'[alerting] = "deleted"
    BY <2>1, MotionGrows
  <2> QED
    BY <1>3, <2>1, <2>2
<1>6. CASE MotionCommit
  <2>1. db' = tx /\ tx' = tx
    BY <1>6 DEF MotionCommit
  <2>2. StatusInv(tx)'
    BY <1>tx, <2>1
  <2> QED
    BY <2>1, <2>2 DEF StatusInv
<1>7. CASE MotionPassFails
  <2>1. db' = db /\ tx' = db
    BY <1>7 DEF MotionPassFails
  <2>2. StatusInv(db)'
    BY <1>db, <2>1
  <2> QED
    BY <2>1, <2>2 DEF StatusInv
<1> QED
  BY <1>1, <1>2, <1>4, <1>5, <1>6, <1>7, AlertSteps

\* A pass looks at pending analyses and at pending alerts.
LEMMA MotionPassInvStep ==
  ASSUME MotionTypeOK, MotionPassInv, EventsInv(db, image), EventsInv(tx, image),
         [MotionNext]_<<motionVars, alertVars>>
  PROVE  MotionPassInv'
<1>rows. db \in Rows /\ tx \in Rows
  BY TypeRows
<1>1. motionStep' = "analyse" => \A i \in batch' : tx'.analysis[i] = "pending"
  <2>1. ASSUME NEW i \in Images, ImageStored(i), motionStep' = "analyse", NEW k \in batch'
        PROVE  tx'.analysis[k] = "pending"
    <3>1. /\ k \in Images /\ tx.analysis[k] = "pending"
          /\ tx.analysis \in [Images -> {"none", "pending", "completed", "skipped", "failed"}]
      BY <1>rows, <2>1 DEF ImageStored, MotionPassInv, MotionTypeOK, Rows
    <3>2. tx'.analysis = [tx.analysis EXCEPT ![i] = "pending"]
      BY <1>rows, <2>1 DEF ImageStored, Rows
    <3> QED
      BY <3>1, <3>2
  <2>2. ASSUME NEW i \in Images, Analysing(i),
               \/ \E result \in {"completed", "skipped", "failed"} : tx' = Finished(i, result)
               \/ tx'.analysis = [tx.analysis EXCEPT ![i] = "completed"]
        PROVE  \A k \in batch' : tx'.analysis[k] = "pending"
    <3>1. batch' = batch \ {i} /\ batch \subseteq Images /\ \A k \in batch : tx.analysis[k] = "pending"
      BY <2>2 DEF Analysing, MotionPassInv, MotionTypeOK
    <3>2. \E result : tx'.analysis = [tx.analysis EXCEPT ![i] = result]
      <4>1. CASE \E result \in {"completed", "skipped", "failed"} : tx' = Finished(i, result)
        <5>1. PICK result \in {"completed", "skipped", "failed"} : tx' = Finished(i, result)
          BY <4>1
        <5>2. tx'.analysis = [tx.analysis EXCEPT ![i] = result]
          BY <1>rows, <5>1, FinishedRows
        <5> QED
          BY <5>2
      <4> QED
        BY <2>2, <4>1
    <3>3. PICK result : tx'.analysis = [tx.analysis EXCEPT ![i] = result]
      BY <3>2
    <3>4. tx.analysis \in [Images -> {"none", "pending", "completed", "skipped", "failed"}]
      BY <1>rows DEF Rows
    <3> QED
      BY <3>1, <3>3, <3>4
  <2>3. ASSUME NEW i \in Images, Skip(i) \/ NoMotion(i)
        PROVE  \A k \in batch' : tx'.analysis[k] = "pending"
    BY <2>2, <2>3, AnalysisEnds
  <2>4. ASSUME NEW i \in Images, JoinsEvent(i)
        PROVE  \A k \in batch' : tx'.analysis[k] = "pending"
    <3>1. EventFor(i) \in Images
      BY <2>4, JoinedEvent DEF JoinsEvent, InWindow, Events
    <3>2. tx'.analysis = [tx.analysis EXCEPT ![i] = "completed"]
      BY <1>rows, <2>4, <3>1, JoinRows DEF JoinsEvent
    <3> QED
      BY <2>2, <2>4, <3>2 DEF JoinsEvent
  <2>5. ASSUME NEW i \in Images, NewEvent(i)
        PROVE  \A k \in batch' : tx'.analysis[k] = "pending"
    <3>1. PICK d : /\ SendAlert(i, d)
                   /\ d = [Detected(i) EXCEPT !.members = @ \cup {<<i, i>>}, !.last[i] = i,
                                              !.alert[i] = "pending"]
      BY <2>5, Zenon DEF NewEvent
    <3>2. tx' = d /\ d.analysis = [tx.analysis EXCEPT ![i] = "completed"]
      BY <1>rows, <3>1, NewEventRows, SendAlertGives
    <3> QED
      BY <2>2, <2>5, <3>2 DEF NewEvent
  <2>6. CASE ClaimAnalyses
    <3>1. tx = db /\ tx' = tx
      BY <2>6 DEF ClaimAnalyses, MotionTypeOK
    <3>2. \A k \in batch' : db.analysis[k] = "pending"
      BY <2>6 DEF ClaimAnalyses, Oldest
    <3> QED
      BY <3>1, <3>2
  <2>7. ASSUME \/ MotionAlertSent /\ LastRecipient /\ tx' = [tx EXCEPT !.alert[alerting] = "sent"]
               \/ MotionAlertFails,
               motionStep' = "analyse"
        PROVE  \A k \in batch' : tx'.analysis[k] = "pending"
    <3>1. alerting \in Images
      BY <2>7 DEF MotionAlertSent, MotionAlertFails, MotionTypeOK, Events
    <3>2. tx'.analysis = tx.analysis
      BY <1>rows, <2>7, <3>1, AlertRows DEF MotionAlertFails
    <3>3. UNCHANGED <<motionStep, batch>>
      BY <2>7 DEF MotionAlertSent, MotionAlertFails
    <3> QED
      BY <2>7, <3>2, <3>3 DEF MotionPassInv
  <2>8. CASE UNCHANGED <<tx, motionStep, batch>>
    BY <2>8 DEF MotionPassInv
  <2>9. CASE motionStep' # "analyse"
    BY <2>9
  <2> QED
    BY <2>1, <2>3, <2>4, <2>5, <2>6, <2>7, <2>8, <2>9 DEF MotionNext, MotionPassStep, ImageDeleted,
       MotionToggles, MotionRecipientsChange, StartDelivery, DeliverPending, MotionAlertSent,
       MotionCommit, MotionPassFails
<1>2. motionStep' = "deliver" => \A e \in batch' : tx'.alert[e] = "pending" /\ e # alerting'
  <2> SUFFICES ASSUME motionStep' = "deliver", NEW e \in batch'
               PROVE  tx'.alert[e] = "pending" /\ e # alerting'
    OBVIOUS
  <2>e. e \in Images /\ e # 0
    BY MotionTypeStep, ImagesAssumption DEF MotionTypeOK
  <2>1. CASE StartDelivery
    BY <2>1, <2>e DEF StartDelivery, Oldest
  <2>2. ASSUME NEW k \in Images, DeliverPending(k)  PROVE tx'.alert[e] = "pending" /\ e # alerting'
    BY <2>2, <2>e, SendAlertGives DEF DeliverPending, MotionPassInv
  <2>3. CASE MotionAlertSent \/ MotionAlertFails
    <3>1. /\ alerting # 0 /\ motionStep' = motionStep /\ batch' = batch
          /\ alerting' \in {alerting, 0}
      BY <2>3 DEF MotionAlertSent, MotionAlertFails
    <3>2. tx.alert[e] = "pending" /\ e # alerting
      BY <3>1 DEF MotionPassInv
    <3>3. tx' = tx \/ \E result \in {"sent", "failed"} : tx' = [tx EXCEPT !.alert[alerting] = result]
      BY <2>3 DEF MotionAlertSent, MotionAlertFails
    <3>4. alerting \in Images
      BY <3>1 DEF MotionTypeOK, Events
    <3>5. tx'.alert[e] = tx.alert[e]
      BY <1>rows, <2>e, <3>2, <3>3, <3>4, AlertRows DEF Rows
    <3> QED
      BY <2>e, <3>1, <3>2, <3>5
  <2>4. CASE ~(\/ StartDelivery \/ MotionAlertSent \/ MotionAlertFails
               \/ \E k \in Images : DeliverPending(k))
    <3>1. UNCHANGED <<motionStep, batch, alerting>>
      BY <2>4 DEF MotionNext, MotionPassStep, ImageStored, ImageDeleted, MotionToggles,
         MotionRecipientsChange, ClaimAnalyses, Skip, NoMotion, NewEvent, JoinsEvent, Analysing,
         MotionCommit, MotionPassFails
    <3>2. tx.alert[e] = "pending" /\ e # alerting
      BY <3>1 DEF MotionPassInv
    <3>3. tx' = tx \/ \E i \in Images : ImageStored(i)
      BY <2>4, <3>1 DEF MotionNext, MotionPassStep, ImageDeleted, MotionToggles,
         MotionRecipientsChange, ClaimAnalyses, Skip, NoMotion, NewEvent, JoinsEvent, Analysing,
         MotionCommit, MotionPassFails
    <3>4. tx'.alert[e] = tx.alert[e]
      BY <1>rows, <3>3 DEF ImageStored, Rows
    <3> QED
      BY <3>1, <3>2, <3>4
  <2> QED
    BY <2>1, <2>2, <2>3, <2>4
<1>3. alerting' # 0 => /\ tx'.alert[alerting'] = "pending"
                       /\ \A chat \in Chats \ left' : photos'[<<chat, alerting'>>] > 0
  <2>1. CASE /\ \A e \in Images : db'.alert[e] = db.alert[e] /\ tx'.alert[e] = tx.alert[e]
             /\ UNCHANGED <<alerting, left, photos, faults>>
    BY <2>1 DEF MotionPassInv, MotionTypeOK, Events
  <2>2. ASSUME alerting = 0, NEW e \in Images,
               \/ tx.alert[e] = "pending" /\ tx' = tx
               \/ tx.alert[e] = "none" /\ tx'.alert = [tx.alert EXCEPT ![e] = "pending"],
               (alerting' = e /\ left' = Chats) \/ UNCHANGED <<alerting, left>>, alerting' # 0
        PROVE  /\ tx'.alert[alerting'] = "pending"
               /\ \A chat \in Chats \ left' : photos'[<<chat, alerting'>>] > 0
    BY <1>rows, <2>2 DEF Rows
  <2>3. CASE MotionAlertSent
    <3> SUFFICES ASSUME alerting' # 0
                 PROVE  /\ tx'.alert[alerting'] = "pending"
                        /\ \A chat \in Chats \ left' : photos'[<<chat, alerting'>>] > 0
      OBVIOUS
    <3>1. /\ alerting # 0 /\ PhotoAppears /\ alerting' = alerting /\ left' # {}
          /\ left' = left \ {First(left)}
      BY <2>3 DEF MotionAlertSent
    <3>2. tx' = tx
      BY <2>3, <3>1 DEF MotionAlertSent, LastRecipient
    <3>3. ASSUME NEW chat \in Chats \ left'  PROVE photos'[<<chat, alerting'>>] > 0
      <4>1. alerting \in Images /\ photos[<<chat, alerting>>] \in Nat
        BY <3>1, MotionGrows DEF MotionTypeOK, Events
      <4>2. photos'[<<chat, alerting>>] = IF chat = First(left) THEN photos[<<chat, alerting>>] + 1
                                          ELSE photos[<<chat, alerting>>]
        BY <3>1, <4>1, PhotoCounts
      <4>3. chat # First(left) => photos[<<chat, alerting>>] > 0
        BY <3>1, <3>3 DEF MotionPassInv
      <4> QED
        BY <3>1, <4>1, <4>2, <4>3
    <3> QED
      BY <3>1, <3>2, <3>3 DEF MotionPassInv
  <2>4. CASE MotionAlertFails \/ MotionCommit \/ MotionPassFails
    BY <2>4 DEF MotionAlertFails, MotionCommit, MotionPassFails
  <2> QED
    BY <2>1, <2>2, <2>3, <2>4, AlertSteps
<1> QED
  BY <1>1, <1>2, <1>3 DEF MotionPassInv


\* A photo comes again only after a failure.
LEMMA PhotoCountStep ==
  ASSUME MotionTypeOK, MotionPassInv, PhotoCountInv, EventsInv(tx, image),
         [MotionNext]_<<motionVars, alertVars>>
  PROVE  PhotoCountInv'
<1>rows. db \in Rows /\ tx \in Rows
  BY TypeRows
<1> SUFFICES ASSUME NEW chat \in Chats, NEW e \in Images
             PROVE  photos'[<<chat, e>>] <= IF Shown(chat, e)' THEN faults' + 1 ELSE faults'
  BY DEF PhotoCountInv
<1>0. e # 0 /\ 0 \notin Images
  BY ImagesAssumption
<1>a. /\ photos[<<chat, e>>] \in Nat /\ faults \in Nat /\ faults' \in {faults, faults + 1}
      /\ photos[<<chat, e>>] <= faults + 1
      /\ ~Shown(chat, e) => photos[<<chat, e>>] <= faults
  <2>1. photos[<<chat, e>>] \in Nat /\ faults \in Nat /\ faults' \in {faults, faults + 1}
    BY MotionGrows
  <2>2. photos[<<chat, e>>] <= IF Shown(chat, e) THEN faults + 1 ELSE faults
    BY DEF PhotoCountInv
  <2>3. CASE Shown(chat, e)
    BY <2>1, <2>2, <2>3
  <2>4. CASE ~Shown(chat, e)
    BY <2>1, <2>2, <2>4
  <2> QED
    BY <2>1, <2>3, <2>4
<1>keep. ASSUME photos'[<<chat, e>>] = photos[<<chat, e>>], Shown(chat, e) => Shown(chat, e)'
         PROVE  photos'[<<chat, e>>] <= IF Shown(chat, e)' THEN faults' + 1 ELSE faults'
  <2>1. CASE Shown(chat, e)'
    BY <1>a, <1>keep, <2>1
  <2>2. CASE ~Shown(chat, e)'
    BY <1>a, <1>keep, <2>2
  <2> QED
    BY <2>1, <2>2
<1>1. CASE /\ \A k \in Images : db'.alert[k] = db.alert[k] /\ tx'.alert[k] = tx.alert[k]
           /\ UNCHANGED <<alerting, left, photos, faults>>
  BY <1>keep, <1>1 DEF Shown
<1>2. ASSUME alerting = 0, UNCHANGED photos, NEW k \in Images,
             \/ tx.alert[k] = "pending" /\ tx' = tx
             \/ tx.alert[k] = "none" /\ tx'.alert = [tx.alert EXCEPT ![k] = "pending"]
      PROVE  photos'[<<chat, e>>] <= IF Shown(chat, e)' THEN faults' + 1 ELSE faults'
  <2>1. tx.alert[e] \in {"sent", "failed"} => tx'.alert[e] = tx.alert[e]
    BY <1>rows, <1>2 DEF Rows
  <2>2. Shown(chat, e) => Shown(chat, e)'
    BY <1>0, <1>2, <2>1 DEF Shown
  <2> QED
    BY <1>2, <1>keep, <2>2
<1>ends. ASSUME alerting \in Images, NEW result \in {"sent", "failed"},
                tx' = [tx EXCEPT !.alert[alerting] = result]
         PROVE  /\ tx'.alert[alerting] = result
                /\ e # alerting => tx'.alert[e] = tx.alert[e]
  <2>1. tx'.alert = [tx.alert EXCEPT ![alerting] = result]
    BY <1>rows, <1>ends, AlertRows
  <2> QED
    BY <1>rows, <1>ends, <2>1 DEF Rows
<1>3. CASE MotionAlertSent
  <2>1. /\ alerting # 0 /\ alerting \in Images /\ PhotoAppears /\ left' = left \ {First(left)}
        /\ alerting' = IF left' = {} THEN 0 ELSE alerting
        /\ IF LastRecipient THEN tx' = [tx EXCEPT !.alert[alerting] = "sent"] ELSE tx' = tx
    BY <1>3 DEF MotionAlertSent, SendsOne, MotionTypeOK, Events
  <2>2. CASE LastRecipient
    <3>1. e # alerting => tx'.alert[e] = tx.alert[e]
      BY <1>ends, <2>1, <2>2
    <3>2. tx'.alert[alerting] = "sent"
      BY <1>ends, <2>1, <2>2
    <3>3. CASE e = alerting /\ chat = First(left)
      <4>1. Shown(chat, e)'
        BY <3>2, <3>3 DEF Shown
      <4>2. tx.alert[alerting] = "pending" /\ First(left) \in left
        BY <2>1, FirstLeft DEF MotionPassInv, MotionTypeOK
      <4>3. ~Shown(chat, e)
        BY <3>3, <4>2 DEF Shown
      <4>4. photos'[<<chat, e>>] = photos[<<chat, e>>] + 1
        BY <2>1, <3>3, PhotoCounts
      <4> QED
        BY <1>a, <4>1, <4>3, <4>4
    <3>4. CASE ~(e = alerting /\ chat = First(left))
      <4>1. photos'[<<chat, e>>] = photos[<<chat, e>>]
        BY <2>1, <3>4, PhotoCounts
      <4>2. Shown(chat, e) => Shown(chat, e)'
        BY <3>1, <3>2 DEF Shown
      <4> QED
        BY <1>keep, <4>1, <4>2
    <3> QED
      BY <3>3, <3>4
  <2>3. CASE ~LastRecipient
    <3>1. tx' = tx /\ tx.alert[alerting] = "pending" /\ First(left) \in left
      BY <2>1, <2>3, FirstLeft DEF MotionPassInv, MotionTypeOK
    <3>2. left' # {} /\ alerting' = alerting
      BY <2>1, <2>3, <3>1 DEF LastRecipient
    <3>3. CASE e = alerting /\ chat = First(left)
      <4>1. Shown(chat, e)'
        BY <2>1, <3>2, <3>3 DEF Shown
      <4>3. ~Shown(chat, e)
        BY <3>1, <3>3 DEF Shown
      <4>4. photos'[<<chat, e>>] = photos[<<chat, e>>] + 1
        BY <2>1, <3>3, PhotoCounts
      <4> QED
        BY <1>a, <4>1, <4>3, <4>4
    <3>4. CASE ~(e = alerting /\ chat = First(left))
      <4>1. photos'[<<chat, e>>] = photos[<<chat, e>>]
        BY <2>1, <3>4, PhotoCounts
      <4>2. Shown(chat, e) => Shown(chat, e)'
        BY <2>1, <3>1, <3>2 DEF Shown
      <4> QED
        BY <1>keep, <4>1, <4>2
    <3> QED
      BY <3>3, <3>4
  <2> QED
    BY <2>2, <2>3
<1>4. CASE MotionAlertFails
  <2>1. /\ alerting # 0 /\ alerting \in Images
        /\ tx' = [tx EXCEPT !.alert[alerting] = "failed"]
        /\ photos' = photos \/ (PhotoAppears /\ faults' = faults + 1)
    BY <1>4 DEF MotionAlertFails, GivesUp, Fault, MotionTypeOK, Events
  <2>2. tx'.alert[alerting] = "failed" /\ (e # alerting => tx'.alert[e] = tx.alert[e])
    BY <1>ends, <2>1
  <2>3. Shown(chat, e) => Shown(chat, e)'
    BY <2>2 DEF Shown
  <2>4. CASE photos' = photos
    BY <1>keep, <2>3, <2>4
  <2>5. CASE PhotoAppears /\ e = alerting
    <3>1. photos'[<<chat, e>>] <= photos[<<chat, e>>] + 1
      BY <1>a, <2>1, <2>5, PhotoCounts
    <3>2. Shown(chat, e)'
      BY <2>2, <2>5 DEF Shown
    <3>3. CASE photos' = photos
      BY <2>4, <3>3
    <3>4. CASE faults' = faults + 1
      <4>1. photos'[<<chat, e>>] \in Nat
        BY <1>a, <2>1, <2>5, PhotoCounts
      <4> QED
        BY <1>a, <3>1, <3>2, <3>4, <4>1
    <3> QED
      BY <2>1, <3>3, <3>4
  <2>6. CASE PhotoAppears /\ e # alerting
    <3>1. photos'[<<chat, e>>] = photos[<<chat, e>>]
      BY <2>1, <2>6, PhotoCounts
    <3> QED
      BY <1>keep, <2>3, <3>1
  <2> QED
    BY <2>1, <2>4, <2>5, <2>6
<1>5. CASE MotionCommit
  <2>1. UNCHANGED <<tx, alerting, photos, left>>
    BY <1>5 DEF MotionCommit, alertVars
  <2> QED
    BY <1>keep, <2>1 DEF Shown
<1>6. CASE MotionPassFails
  <2>1. photos' = photos /\ faults' = faults + 1
    BY <1>6 DEF MotionPassFails, Fault
  <2>2. CASE Shown(chat, e)'
    BY <1>a, <2>1, <2>2
  <2>3. CASE ~Shown(chat, e)'
    BY <1>a, <2>1, <2>3
  <2> QED
    BY <2>2, <2>3
<1> QED
  BY <1>1, <1>2, <1>3, <1>4, <1>5, <1>6, AlertSteps

\* The motion loop keeps its invariant ...
LEMMA MotionStep ==
  ASSUME MotionInv, [MotionNext]_<<motionVars, alertVars>>  PROVE MotionInv'
  BY MotionTypeStep, MotionPassInvStep, PhotoCountStep, EventsStep, StatusStep DEF MotionInv

\* ... which holds at first.
LEMMA MotionStart == MotionInit => MotionInv
<1> SUFFICES ASSUME MotionInit  PROVE MotionInv
  OBVIOUS
<1>1. /\ db = [analysis |-> [i \in Images |-> "none"], detected |-> {}, members |-> {},
               last |-> [i \in Images |-> 0], alert |-> [i \in Images |-> "none"]]
      /\ tx = db /\ motionStep = "idle" /\ batch = {} /\ alerting = 0 /\ left = {} /\ faults = 0
      /\ photos = [arrival \in Chats \X Images |-> 0]
      /\ AlertTypeOK
  BY FaultsAssumption DEF MotionInit, AlertInit, AlertTypeOK
<1>2. MotionTypeOK
  BY <1>1 DEF MotionInit, MotionTypeOK
<1>3. EventsInv(db, image) /\ StatusInv(db)
  BY <1>1 DEF EventsInv, Events, StatusInv
<1>4. EventsInv(tx, image) /\ StatusInv(tx)
  BY <1>1, <1>3
<1>5. MotionPassInv
  BY <1>1 DEF MotionPassInv
<1>6. PhotoCountInv
  BY <1>1 DEF PhotoCountInv
<1> QED
  BY <1>2, <1>3, <1>4, <1>5, <1>6 DEF MotionInv

\* What the invariant of the health loop shows.
LEMMA HealthShows ==
  ASSUME HealthInv  PROVE AlertsMatchHealth /\ RecordedMeansTold /\ AlertRepeatsNeedFaults
<1>1. AlertsMatchHealth
  BY DEF HealthInv, Match, AlertsMatchHealth
<1>2. Chats \X (sent \cup delivered) \subseteq told
  BY DEF HealthInv, ToldInv
<1>3. message[1] = "recovery" =>
        IF message[2] \in unannounced THEN Chats \X {message[2]} \subseteq told
                                     ELSE Announced(message[2])
  BY <1>2 DEF HealthInv, HealthPassInv, AnnouncedInv
<1>4. ASSUME NEW arrival \in DOMAIN alertCount  PROVE alertCount[arrival] <= 1 + faults
  <2>1. alertCount \in [Chats \X Conditions -> Nat] /\ faults \in Nat
    BY FaultsAssumption DEF HealthInv, HealthTypeOK, AlertTypeOK
  <2>2. PICK chat \in Chats, c \in Conditions : arrival = <<chat, c>>
    BY <1>4, <2>1
  <2>3. alertCount[<<chat, c>>] <= IF Told(chat, c) THEN faults + 1 ELSE faults
    BY DEF HealthInv, AlertCountInv
  <2>4. alertCount[<<chat, c>>] \in Nat
    BY <2>1
  <2>5. alertCount[<<chat, c>>] <= faults + 1
    BY <2>1, <2>3, <2>4
  <2> QED
    BY <2>1, <2>2, <2>5
<1> QED
  BY <1>1, <1>2, <1>3, <1>4 DEF RecordedMeansTold, AlertRepeatsNeedFaults

\* What the invariant of the motion loop shows.
LEMMA MotionShows ==
  ASSUME MotionInv  PROVE EventsPartition /\ AlertStatusIsTrue /\ PhotoRepeatsNeedFaults
<1>1. db \in Rows /\ EventsInv(db, image) /\ StatusInv(db)
  BY TypeRows DEF MotionInv
<1>2. ASSUME NEW i \in db.detected
      PROVE  Cardinality({e \in Images : <<e, i>> \in db.members}) = 1
  <2>1. PICK e \in Images : \A f \in Images : <<f, i>> \in db.members <=> f = e
    BY <1>1, <1>2 DEF EventsInv
  <2>2. {f \in Images : <<f, i>> \in db.members} = {e}
    BY <2>1
  <2> QED
    BY <2>2, FS_Singleton
<1>3. \A m \in db.members : m[2] \in db.detected /\ m[1] \in Events(db)
  BY <1>1 DEF EventsInv
<1>4. ASSUME NEW m \in db.members, NEW f \in Events(db), m[1] < f  PROVE f > m[2] + Cooldown
  <2>1. m[1] \in Events(db) /\ m[2] <= db.last[m[1]] /\ m \in Images \X Images
    BY <1>1 DEF EventsInv, Rows
  <2>2. f > db.last[m[1]] + Cooldown
    BY <1>1, <1>4, <2>1 DEF EventsInv
  <2>3. f \in Nat /\ m[2] \in Nat /\ db.last[m[1]] \in Nat /\ Cooldown \in Nat
    <3>1. f \in Images /\ m[1] \in Images /\ m[2] \in Images
      BY <1>4, <2>1 DEF Events
    <3>2. db.last \in [Images -> Images \cup {0}]
      BY <1>1 DEF Rows
    <3>3. db.last[m[1]] \in Images \cup {0}
      BY <3>1, <3>2
    <3>4. \A k \in Images : k \in Nat
      BY ImagesAssumption
    <3>5. db.last[m[1]] \in Nat
      BY <3>3, <3>4
    <3> QED
      BY <3>1, <3>4, <3>5, MotionAssumption
  <2> QED
    BY <2>1, <2>2, <2>3
<1>5. AlertStatusIsTrue
  BY <1>1 DEF StatusInv, AlertStatusIsTrue, Events
<1>6. ASSUME NEW p \in DOMAIN photos  PROVE photos[p] <= 1 + faults
  <2>1. photos \in [Chats \X Images -> Nat] /\ faults \in Nat
    BY FaultsAssumption DEF MotionInv, MotionTypeOK, AlertTypeOK
  <2>2. PICK chat \in Chats, e \in Images : p = <<chat, e>>
    BY <1>6, <2>1
  <2>3. photos[<<chat, e>>] <= IF Shown(chat, e) THEN faults + 1 ELSE faults
    BY DEF MotionInv, PhotoCountInv
  <2>4. photos[<<chat, e>>] \in Nat
    BY <2>1
  <2>5. photos[<<chat, e>>] <= faults + 1
    BY <2>1, <2>3, <2>4
  <2> QED
    BY <2>1, <2>2, <2>5
<1> QED
  BY <1>2, <1>3, <1>4, <1>5, <1>6 DEF EventsPartition, PhotoRepeatsNeedFaults

-----------------------------------------------------------------------------
(* The loops, each by itself and in the instances that TLC checks.         *)

\* The health loop by itself, with whatever the camera and the recipients do:
\* health and active alerts fit together, what is recorded has been told, and a
\* chat is told twice only after a failure.
THEOREM HealthAlone ==
  HealthSpec => [](AlertsMatchHealth /\ RecordedMeansTold /\ AlertRepeatsNeedFaults)
<1>1. ASSUME HealthInv  PROVE AlertsMatchHealth /\ RecordedMeansTold /\ AlertRepeatsNeedFaults
  BY <1>1, HealthShows
<1>2. HealthInit => HealthInv
  BY HealthStart
<1>3. HealthInv /\ [HealthNext]_<<healthVars, alertVars>> => HealthInv'
  BY HealthStep
<1> QED
  BY <1>1, <1>2, <1>3, PTL DEF HealthSpec

\* The motion loop by itself, with images uploaded in any order and deleted at
\* any time: every detection is in one event, the events are apart, an alert is
\* recorded as what it was, and a photo comes twice only after a failure.
THEOREM MotionAlone ==
  MotionSpec => [](EventsPartition /\ AlertStatusIsTrue /\ PhotoRepeatsNeedFaults)
<1>1. ASSUME MotionInv  PROVE EventsPartition /\ AlertStatusIsTrue /\ PhotoRepeatsNeedFaults
  BY <1>1, MotionShows
<1>2. MotionInit => MotionInv
  BY MotionStart
<1>3. MotionInv /\ [MotionNext]_<<motionVars, alertVars>> => MotionInv'
  BY MotionStep
<1> QED
  BY <1>1, <1>2, <1>3, PTL DEF MotionSpec

\* An instance of one loop or the other.
THEOREM Invariance == Spec => []LoopsInv
<1>1. Init => LoopsInv
  <2> SUFFICES ASSUME Init  PROVE LoopsInv
    OBVIOUS
  <2>1. HealthInv /\ MotionInv /\ loop \in {"health", "motion"} /\ faults \in Nat
    BY HealthStart, MotionStart DEF Init, AlertInit, HealthInit
  <2>2. HealthRests
    BY DEF Init, HealthInit, HealthRests
  <2>3. MotionRests
    BY DEF Init, MotionInit, MotionRests, Events
  <2> QED
    BY <2>1, <2>2, <2>3 DEF LoopsInv
<1>2. LoopsInv /\ [(Health \/ Motion) /\ RecipientsWait /\ OneIsUnsteady']_vars => LoopsInv'
  <2> SUFFICES ASSUME LoopsInv, [Health \/ Motion]_vars  PROVE LoopsInv'
    OBVIOUS
  <2>1. CASE Health
    <3>1. /\ HealthNext /\ loop = "health" /\ loop' = loop /\ UNCHANGED motionVars
          /\ HealthInv /\ MotionRests
      BY <2>1 DEF Health, LoopsInv
    <3>2. HealthInv'
      BY <3>1, HealthStep
    <3>3. MotionRests'
      BY <3>1 DEF MotionRests, motionVars, Events
    <3>4. faults' \in Nat
      BY <3>2, FaultsAssumption DEF HealthInv, HealthTypeOK, AlertTypeOK
    <3> QED
      BY <3>1, <3>2, <3>3, <3>4 DEF LoopsInv
  <2>2. CASE Motion
    <3>1. /\ MotionNext /\ loop = "motion" /\ loop' = loop /\ UNCHANGED healthVars
          /\ MotionInv /\ HealthRests
      BY <2>2 DEF Motion, LoopsInv
    <3>2. MotionInv'
      BY <3>1, MotionStep
    <3>3. HealthRests'
      BY <3>1 DEF HealthRests, healthVars, stateVars, passVars, toldVars
    <3>4. faults' \in Nat
      BY <3>2, FaultsAssumption DEF MotionInv, MotionTypeOK, AlertTypeOK
    <3> QED
      BY <3>1, <3>2, <3>3, <3>4 DEF LoopsInv
  <2>3. CASE UNCHANGED vars
    <3>1. UNCHANGED loop /\ UNCHANGED alertVars /\ UNCHANGED healthVars /\ UNCHANGED motionVars
      BY <2>3 DEF vars
    <3>2. faults' = faults /\ loop' = loop
      BY <3>1 DEF alertVars
    <3>3. CASE loop = "health"
      <4>1. HealthInv'
        BY <3>1, <3>3, HealthStep DEF LoopsInv
      <4>2. MotionRests'
        BY <3>1, <3>3 DEF LoopsInv, MotionRests, motionVars, Events
      <4> QED
        BY <3>2, <3>3, <4>1, <4>2 DEF LoopsInv
    <3>4. CASE loop = "motion"
      <4>1. MotionInv'
        BY <3>1, <3>4, MotionStep DEF LoopsInv
      <4>2. HealthRests'
        BY <3>1, <3>4 DEF LoopsInv, HealthRests, healthVars, stateVars, passVars, toldVars
      <4> QED
        BY <3>2, <3>4, <4>1, <4>2 DEF LoopsInv
    <3> QED
      BY <3>3, <3>4 DEF LoopsInv
  <2> QED
    BY <2>1, <2>2, <2>3
<1> QED
  BY <1>1, <1>2, PTL DEF Spec

\* Each loop keeps its state well-typed.
THEOREM TypeCorrect == Spec => []TypeOK
<1>1. LoopsInv => TypeOK
  BY DEF LoopsInv, TypeOK, HealthInv, MotionInv
<1> QED
  BY <1>1, Invariance, PTL

\* evaluate_camera_health and the alerts of one commit agree: an offline camera
\* has its one alert, a degraded one some other, any other camera none.
THEOREM HealthAndAlertsAgree == Spec => []AlertsMatchHealth
<1>1. LoopsInv => AlertsMatchHealth
  <2> SUFFICES ASSUME LoopsInv  PROVE AlertsMatchHealth
    OBVIOUS
  <2>1. CASE loop = "health"
    BY <2>1, HealthShows DEF LoopsInv
  <2>2. CASE loop = "motion"
    BY <2>2 DEF LoopsInv, HealthRests, AlertsMatchHealth
  <2> QED
    BY <2>1, <2>2 DEF LoopsInv
<1> QED
  BY <1>1, Invariance, PTL

\* What is recorded of an alert is what the recipients have got: last_sent_at and
\* alert_status "sent" mean everyone, a recovery that everyone was told of what it ends, or
\* of an earlier occurrence of it if this one was recorded without an alert.
THEOREM WhatIsRecordedHappened == Spec => []RecordsAreTrue
<1>1. LoopsInv => RecordsAreTrue
  <2> SUFFICES ASSUME LoopsInv  PROVE RecordsAreTrue
    OBVIOUS
  <2>1. CASE loop = "health"
    BY <2>1, HealthShows DEF LoopsInv, MotionRests, AlertStatusIsTrue, RecordsAreTrue
  <2>2. CASE loop = "motion"
    <3>1. RecordedMeansTold
      BY <2>2 DEF LoopsInv, HealthRests, NoMessage, RecordedMeansTold
    <3> QED
      BY <2>2, <3>1, MotionShows DEF LoopsInv, RecordsAreTrue
  <2> QED
    BY <2>1, <2>2 DEF LoopsInv
<1> QED
  BY <1>1, Invariance, PTL

\* No chat gets an alert twice without a failure that explains it.
THEOREM NoNeedlessRepeats == Spec => []RepeatsNeedFaults
<1>1. LoopsInv => RepeatsNeedFaults
  <2> SUFFICES ASSUME LoopsInv  PROVE RepeatsNeedFaults
    OBVIOUS
  <2>1. CASE loop = "health"
    <3>1. photos \in [Chats \X Images -> {0}] /\ faults \in Nat
      BY <2>1 DEF LoopsInv, MotionRests
    <3>2. PhotoRepeatsNeedFaults
      BY <3>1 DEF PhotoRepeatsNeedFaults
    <3> QED
      BY <2>1, <3>2, HealthShows DEF LoopsInv, RepeatsNeedFaults
  <2>2. CASE loop = "motion"
    <3>1. alertCount \in [Chats \X Conditions -> {0}] /\ faults \in Nat
      BY <2>2 DEF LoopsInv, HealthRests
    <3>2. AlertRepeatsNeedFaults
      BY <3>1 DEF AlertRepeatsNeedFaults
    <3> QED
      BY <2>2, <3>2, MotionShows DEF LoopsInv, RepeatsNeedFaults
  <2> QED
    BY <2>1, <2>2 DEF LoopsInv
<1> QED
  BY <1>1, Invariance, PTL

\* Every detection belongs to one event, and an event begins only when the
\* cooldown since all detections of the earlier events is over.
THEOREM EventsAreApart == Spec => []EventsPartition
<1>1. LoopsInv => EventsPartition
  <2> SUFFICES ASSUME LoopsInv  PROVE EventsPartition
    OBVIOUS
  <2>1. CASE loop = "health"
    BY <2>1 DEF LoopsInv, MotionRests, EventsPartition
  <2>2. CASE loop = "motion"
    BY <2>2, MotionShows DEF LoopsInv
  <2> QED
    BY <2>1, <2>2 DEF LoopsInv
<1> QED
  BY <1>1, Invariance, PTL
=============================================================================
