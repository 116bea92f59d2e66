-------------------------- MODULE CaptureSchedule --------------------------
(***************************************************************************)
(* The clock of capture_loop (camera_agent/main.py): captures keep to the  *)
(* grid of the start of the loop, however long they take and however late  *)
(* the event loop wakes up.                                                *)
(***************************************************************************)
EXTENDS Integers

CONSTANT Interval  \* config.capture_interval_seconds

ASSUME IntervalIsPositive == Interval \in Nat \ {0}

VARIABLES
  clock,        \* time.monotonic(), counted from the start of the loop
  nextCapture,
  capturing,
  lastSlot      \* the interval in which the last capture began; -1 for none

scheduleVars == <<clock, nextCapture, capturing, lastSlot>>

\* The interval of the grid an instant belongs to.
Slot(instant) == instant \div Interval

ScheduleInit == clock = 0 /\ nextCapture = 0 /\ capturing = FALSE /\ lastSlot = -1

TimeGoesOn ==
  /\ clock' = clock + 1
  /\ UNCHANGED <<nextCapture, capturing, lastSlot>>

\* The wait has timed out, then or later.
BeginCapture ==
  /\ ~capturing /\ nextCapture <= clock
  /\ capturing' = TRUE /\ lastSlot' = Slot(clock)
  /\ UNCHANGED <<clock, nextCapture>>

\* Mutant: a capture that is due just now is not skipped.
AfterMissing(due, now) ==
  IF due < now THEN due + ((now - due) \div Interval) * Interval ELSE due

\* Captures that were missed are left out; one that is due just now is as well.
Reschedule(due, now) ==
  IF due <= now THEN due + ((now - due) \div Interval + 1) * Interval ELSE due

\* The capture ends or fails.
EndCapture ==
  /\ capturing
  /\ capturing' = FALSE /\ nextCapture' = Reschedule(nextCapture + Interval, clock)
  /\ UNCHANGED <<clock, lastSlot>>

ScheduleNext == TimeGoesOn \/ BeginCapture \/ EndCapture

ScheduleSpec == ScheduleInit /\ [][ScheduleNext]_scheduleVars

-----------------------------------------------------------------------------
ScheduleTypeOK ==
  /\ clock \in Nat /\ nextCapture \in Nat /\ capturing \in BOOLEAN
  /\ lastSlot \in Nat \cup {-1}

\* Captures do not drift and do not pile up: no two of them begin in the same
\* interval, and after each one the loop waits for the first instant of the grid
\* that is still to come.
CapturesKeepTime ==
  [][/\ capturing' /\ ~capturing => lastSlot' > lastSlot
     /\ capturing /\ ~capturing' =>
          /\ nextCapture' % Interval = 0
          /\ clock < nextCapture' /\ nextCapture' <= clock + Interval]_scheduleVars

=============================================================================
