------------------------- MODULE HeartbeatSummaries -------------------------
(***************************************************************************)
(* aggregate_due_heartbeats_once (services/heartbeat_aggregation.py): the  *)
(* heartbeats of a day that is old enough are summarized and deleted, one  *)
(* day after the other in one transaction, while new heartbeats arrive.    *)
(* One camera; each has its own days. Times are in units of which          *)
(* DayLength make a day.                                                   *)
(***************************************************************************)
EXTENDS Integers, FiniteSets, FiniteSetsExt

CONSTANTS
  DayLength,
  OfflineAfter,    \* OFFLINE_AFTER, in the same units
  RetentionDays,   \* DETAILED_HEARTBEAT_RETENTION_DAYS
  SessionOffset,   \* by how much the dates of the database's sessions are ahead of UTC
  MaxLatency,      \* bound: how long the transaction of a heartbeat is open
  LastInstant,     \* bound of the clock
  MaxBeats         \* bound of the heartbeats

ASSUME DayIsPositive == DayLength \in Nat \ {0}
ASSUME SummaryAssumption == OfflineAfter \in Nat /\ RetentionDays \in Nat /\ LastInstant \in Nat
ASSUME SessionIsUTC == SessionOffset = 0
ASSUME LatencyAssumption == MaxLatency \in 0..(RetentionDays * DayLength)

VARIABLES
  instant,     \* the server's clock
  arriving,    \* the values of received_at of heartbeats that are not yet committed
  beats,       \* camera_heartbeats: the values of received_at
  summaries,   \* heartbeat_daily_summaries: [count, offline] of a day
  received,    \* history: every heartbeat that was committed
  passStep,    \* "idle", "summarize", "delete" or "commit"
  dueDays,     \* heartbeat_dates of the pass that are still to be summarized
  written,     \* what the open transaction writes ...
  deleted      \* ... and deletes

passVars == <<passStep, dueDays, written, deleted>>
beatVars == <<instant, arriving, beats, summaries, received, passVars>>

Day(t) == t \div DayLength          \* day_start and day_end are UTC ...
SessionDate(t) == Day(t + SessionOffset)  \* ... and func.date is the session's
DayBeats(b, day) == {t \in b : Day(t) = day}
Days == 0..Day(LastInstant)

SummariesInit ==
  /\ instant = 0 /\ arriving = {} /\ beats = {} /\ received = {} /\ summaries = <<>>
  /\ passStep = "idle" /\ dueDays = {} /\ written = <<>> /\ deleted = {}

ClockGoesOn ==
  /\ instant < LastInstant /\ \A t \in arriving : instant < t + MaxLatency
  /\ instant' = instant + 1
  /\ UNCHANGED <<arriving, beats, summaries, received, passVars>>

\* receive_heartbeat takes the time, waits for the row of the camera ...
BeatArrives ==
  /\ instant \notin received \cup arriving
  /\ Cardinality(received \cup arriving) < MaxBeats
  /\ arriving' = arriving \cup {instant}
  /\ UNCHANGED <<instant, beats, summaries, received, passVars>>

\* ... and commits ...
BeatCommits(t) ==
  /\ t \in arriving /\ arriving' = arriving \ {t}
  /\ beats' = beats \cup {t} /\ received' = received \cup {t}
  /\ UNCHANGED <<instant, summaries, passVars>>

\* ... or rolls back.
BeatFails(t) ==
  /\ t \in arriving /\ arriving' = arriving \ {t}
  /\ UNCHANGED <<instant, beats, summaries, received, passVars>>

\* Mutant: the heartbeats of the current day are summarized as well.
CutoffNow == instant

\* cutoff_at: the beginning of a day.
Cutoff == (Day(instant) - RetentionDays) * DayLength

BeginAggregation ==
  /\ passStep = "idle" /\ \E t \in beats : t < Cutoff
  /\ passStep' = "summarize"
  /\ dueDays' = {SessionDate(t) : t \in {u \in beats : u < Cutoff}}
  /\ UNCHANGED <<instant, arriving, beats, summaries, received, written, deleted>>

DueDay == Min(dueDays)

OfflineBetween(earlier, later) ==
  IF later - earlier > OfflineAfter THEN later - earlier - OfflineAfter ELSE 0

\* The gaps between the heartbeats of a day, each with the one before it.
OfflineSeconds(b) ==
  MapThenSumSet(LAMBDA t : OfflineBetween(Max({u \in b : u < t}), t), b \ {Min(b)})

\* upsert_daily_summary: a summary is written over.
Upsert(new, old) ==
  [d \in DOMAIN new \cup DOMAIN old |-> IF d \in DOMAIN new THEN new[d] ELSE old[d]]

\* summarize_heartbeats
SummarizeDay ==
  /\ passStep = "summarize"
  /\ LET dayBeats == DayBeats(beats, DueDay)
         summary  == [count |-> Cardinality(dayBeats), offline |-> OfflineSeconds(dayBeats)]
     IN  written' = Upsert([d \in {DueDay} |-> summary], written)
  /\ passStep' = "delete"
  /\ UNCHANGED <<instant, arriving, beats, summaries, received, dueDays, deleted>>

\* A statement of its own: it deletes what the day has by now.
DeleteDay ==
  /\ passStep = "delete"
  /\ deleted' = deleted \cup DayBeats(beats, DueDay)
  /\ dueDays' = dueDays \ {DueDay}
  /\ passStep' = IF dueDays' = {} THEN "commit" ELSE "summarize"
  /\ UNCHANGED <<instant, arriving, beats, summaries, received, written>>

PassEnds == passStep' = "idle" /\ dueDays' = {} /\ written' = <<>> /\ deleted' = {}

CommitAggregation ==
  /\ passStep = "commit" /\ PassEnds
  /\ summaries' = Upsert(written, summaries) /\ beats' = beats \ deleted
  /\ UNCHANGED <<instant, arriving, received>>

AggregationFails ==
  /\ passStep # "idle" /\ PassEnds
  /\ UNCHANGED <<instant, arriving, beats, summaries, received>>

SummariesNext ==
  \/ ClockGoesOn \/ BeatArrives \/ \E t \in arriving : BeatCommits(t) \/ BeatFails(t)
  \/ BeginAggregation \/ SummarizeDay \/ DeleteDay \/ CommitAggregation \/ AggregationFails

SummariesSpec == SummariesInit /\ [][SummariesNext]_beatVars

-----------------------------------------------------------------------------
SummariesTypeOK ==
  /\ instant \in 0..LastInstant /\ arriving \subseteq 0..LastInstant
  /\ beats \subseteq received /\ received \subseteq 0..LastInstant
  /\ DOMAIN summaries \subseteq Days /\ DOMAIN written \subseteq Days
  /\ passStep \in {"idle", "summarize", "delete", "commit"}
  /\ dueDays \subseteq Days /\ deleted \subseteq received

\* The instants of a day at which the camera had been silent for OfflineAfter,
\* between the first and the last of its heartbeats.
OfflineInstants(b) ==
  {t \in 0..LastInstant :
     /\ \E u \in b : u <= t
     /\ \E u \in b : u > t
     /\ \A u \in b : u <= t => t - u >= OfflineAfter}

\* "Daily heartbeat summaries and detailed expiry are idempotent": every
\* heartbeat is either kept in detail or counted, once, in the summary of its
\* day, whichever passes failed, ran again or ran while heartbeats arrived; and
\* the summary measures the silence of the day.
EveryBeatCounts ==
  \A d \in Days :
    IF d \in DOMAIN summaries
    THEN /\ DayBeats(beats, d) = {}
         /\ summaries[d].count = Cardinality(DayBeats(received, d))
         /\ summaries[d].offline = Cardinality(OfflineInstants(DayBeats(received, d)))
    ELSE DayBeats(beats, d) = DayBeats(received, d)

=============================================================================
