--------------------------- MODULE MCCalculations ---------------------------
(***************************************************************************)
(* Small instances of ExportParts, CaptureSchedule and HeartbeatSummaries  *)
(* for TLC. They have nothing in common; a behaviour is one of one of them.*)
(***************************************************************************)
EXTENDS ExportParts, CaptureSchedule, HeartbeatSummaries

CONSTANTS MaxClock, MaxImages

\* Images that are small, as large as a part, or too large for it.
SmallExports == UNION {[1..n -> {1, 2, MaximumPartBytes, MaximumPartBytes + 1}] : n \in 0..MaxImages}

VARIABLE subject  \* what is calculated

vars == <<subject, exportVars, scheduleVars, beatVars>>

Init ==
  /\ subject \in {"parts", "captures", "summaries"}
  /\ PackingInit /\ ScheduleInit /\ SummariesInit
  /\ subject # "parts" => sizes = <<>>

Parts == subject = "parts" /\ PackingNext /\ UNCHANGED <<subject, scheduleVars, beatVars>>
Captures ==
  /\ subject = "captures" /\ ScheduleNext /\ clock' <= MaxClock
  /\ UNCHANGED <<subject, exportVars, beatVars>>
Summaries ==
  subject = "summaries" /\ SummariesNext /\ UNCHANGED <<subject, exportVars, scheduleVars>>

Spec == Init /\ [][Parts \/ Captures \/ Summaries]_vars

=============================================================================
