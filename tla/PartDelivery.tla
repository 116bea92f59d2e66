---------------------------- MODULE PartDelivery ----------------------------
(***************************************************************************)
(* What a user who asked for an export may rely on: the parts of a job     *)
(* arrive one after the other, no part is acknowledged that has not        *)
(* arrived, none is passed over, and a job is over only when all of its    *)
(* parts are acknowledged. A part may arrive more than once.               *)
(***************************************************************************)
EXTENDS Naturals

CONSTANTS
  Jobs,      \* the jobs
  PartCount  \* PartCount[j]: the parts of job j

VARIABLES
  acked,    \* acked[j]: the parts known to have arrived, a prefix of the job
  arrived,  \* arrived[j]: the parts that have arrived at least once
  over      \* the jobs that are finished

vars == <<acked, arrived, over>>

Init ==
  /\ acked = [j \in Jobs |-> 0]
  /\ arrived = [j \in Jobs |-> 0]
  /\ over = {}

\* The first part that is not acknowledged arrives for the first time; that
\* it arrives again changes nothing.
Arrive(j) ==
  /\ acked[j] = arrived[j] /\ acked[j] < PartCount[j]
  /\ arrived' = [arrived EXCEPT ![j] = @ + 1]
  /\ UNCHANGED <<acked, over>>

Acknowledge(j) ==
  /\ acked[j] < arrived[j]
  /\ acked' = [acked EXCEPT ![j] = @ + 1]
  /\ UNCHANGED <<arrived, over>>

Finish(j) ==
  /\ acked[j] = PartCount[j]
  /\ over' = over \cup {j}
  /\ UNCHANGED <<acked, arrived>>

Next == \E j \in Jobs : Arrive(j) \/ Acknowledge(j) \/ Finish(j)

Spec == Init /\ [][Next]_vars

=============================================================================
