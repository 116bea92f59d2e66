---------------------------- MODULE MCVideoJobs ----------------------------
(* Small instances of VideoJobs for TLC. *)
EXTENDS VideoJobs

TwoJobs == {1, 2}
TwoWorkers == {1, 2}
TwoChats == {1, 2}

\* Two small instances in one run: two jobs in the passes of one worker, or
\* one job for which two workers compete.
OneOrTwo == (step[2] = "idle" /\ overruns = 0) \/ status[2] = "absent"

SmallFairSpec == Init /\ [][Next /\ OneOrTwo']_vars /\ Fairness

=============================================================================
