-------------------------- MODULE ExportJobsProofs --------------------------
(***************************************************************************)
(* Proofs about the safety of ExportJobs, for any jobs, any number of      *)
(* parts and any number of faults, and that it implements PartDelivery.    *)
(***************************************************************************)
EXTENDS ExportJobs, SetLemmas, FiniteSetTheorems, TLAPS

(***************************************************************************)
(* The inductive invariant.                                                *)
(***************************************************************************)

\* The delivered parts are the first count[j] ones, all deleted but perhaps
\* the last of them; the next one may be under way.
PartsInv(j) ==
  /\ \A p \in PartsOf(j) :
       /\ p <= count[j] => parts[j][p] \in {"sent", "deleted"} /\ received[j][p] > 0
       /\ p < count[j] => parts[j][p] = "deleted"
       /\ p > count[j] => parts[j][p] \in {"none", "created", "uploading"}
       /\ p > count[j] + 1 => parts[j][p] # "uploading"
       /\ parts[j][p] \in {"none", "created"} => received[j][p] = 0
       /\ parts[j][p] \in {"created", "uploading"} => p \in zip[j]
       /\ parts[j][p] = "deleted" => p \notin zip[j]
       /\ status[j] = "completed" => parts[j][p] = "deleted"
  /\ \A p, q \in PartsOf(j) : parts[j][p] = "none" => parts[j][q] = "none"

InHand(j, p) == workerStep = "received" /\ job = j /\ part = p

\* A part that is not delivered has paid for each arrival with a fault, except
\* for the arrival that the pass is about to record.
ArrivalInv ==
  \A j \in Jobs : \A p \in PartsOf(j) :
    p > count[j] => received[j][p] <= IF InHand(j, p) THEN faults + 1 ELSE faults

\* What the pass knows of its job, step by step.
PassInv ==
  /\ workerStep \notin {"idle", "next"} => job \notin batch
  /\ workerStep \in {"build", "built"} =>
       part = 1 /\ \A p \in PartsOf(job) : parts[job][p] = "none"
  /\ workerStep = "built" => zip[job] = PartsOf(job)
  /\ workerStep \in {"parts", "send", "received", "unlink", "unlinked"} =>
       /\ part \in 1..PartCount[job] + 1
       /\ \A p \in PartsOf(job) :
            parts[job][p] # "none" /\ (p < part => parts[job][p] = "deleted")
  /\ workerStep \in {"send", "received", "unlink", "unlinked"} => part \in PartsOf(job)
  /\ workerStep \in {"send", "received"} => parts[job][part] = "uploading"
  /\ workerStep = "received" => received[job][part] > 0
  /\ workerStep \in {"unlink", "unlinked"} => parts[job][part] = "sent"
  /\ workerStep = "unlinked" => part \notin zip[job]

\* A row has one holder, and neither the pass nor a cancellation has a
\* completed job before it.
LockInv ==
  /\ held \cap cancelling = {}
  /\ \A j \in batch \cup cancelling : status[j] # "completed"
  /\ write # "none" => workerStep \notin {"idle", "next"} /\ status[job] # "completed"

\* The variables that are functions of functions are functions.
FunctionInv ==
  /\ parts = [j \in Jobs |-> parts[j]]
  /\ received = [j \in Jobs |-> received[j]]

IInv ==
  /\ TypeOK /\ FunctionInv /\ ArrivalInv /\ PassInv /\ LockInv
  /\ \A j \in Jobs : PartsInv(j)

(***************************************************************************)
(* The proof. The operators that actions share are expanded throughout.    *)
(***************************************************************************)
USE DEF vars, jobVars, passVars, txVars, PartsOf, Statuses, PartStatuses, Fault, Goto, RowFree,
        CommitJob, EndPass, AtPart, Arrives, AllSent

\* Counters are natural numbers.
LEMMA CountersAreNat ==
  ASSUME IInv, NEW j \in Jobs
  PROVE  /\ count[j] \in 0..PartCount[j] /\ PartCount[j] \in Nat \ {0} /\ faults \in Nat
         /\ \A p \in PartsOf(j) : received[j][p] \in Nat
<1>1. count[j] \in 0..PartCount[j] /\ PartCount[j] \in Nat \ {0} /\ faults \in Nat
  BY PartsAssumption DEF IInv, TypeOK
<1>2. received[j] \in [PartsOf(j) -> 0..MaxFaults + 1]
  BY DEF IInv, TypeOK
<1>3. 0..MaxFaults + 1 \subseteq Nat
  BY BoundsAssumption
<1> QED
  BY <1>1, <1>2, <1>3

\* The part that a pass sends is the first that is not delivered.
LEMMA SendingPart ==
  ASSUME IInv, workerStep \in {"send", "received"}
  PROVE  /\ job \in Jobs /\ part \in PartsOf(job) /\ part = count[job] + 1
         /\ parts[job][part] = "uploading" /\ part \in zip[job]
         /\ \A q \in PartsOf(job) : q < part => parts[job][q] = "deleted"
<1>1. job \in Jobs /\ part \in PartsOf(job) /\ parts[job][part] = "uploading"
  BY DEF IInv, TypeOK, PassInv
<1>2. PartsInv(job) /\ count[job] \in Nat
  BY <1>1 DEF IInv, TypeOK
<1>3. part \in Nat /\ ~(part <= count[job]) /\ ~(part > count[job] + 1)
  BY <1>1, <1>2, PartsAssumption DEF PartsInv
<1>4. part \in zip[job]
  BY <1>1, <1>2 DEF PartsInv
<1> QED
  BY <1>1, <1>2, <1>3, <1>4 DEF IInv, PassInv

\* The part that a pass deletes is the last that is delivered.
LEMMA DeletingPart ==
  ASSUME IInv, workerStep \in {"unlink", "unlinked"}
  PROVE  /\ job \in Jobs /\ part \in PartsOf(job) /\ part = count[job]
         /\ parts[job][part] = "sent"
         /\ \A q \in PartsOf(job) : q < part => parts[job][q] = "deleted"
<1>1. job \in Jobs /\ part \in PartsOf(job) /\ parts[job][part] = "sent"
  BY DEF IInv, TypeOK, PassInv
<1>2. PartsInv(job) /\ count[job] \in Nat
  BY <1>1 DEF IInv, TypeOK
<1>3. part \in Nat /\ ~(part < count[job]) /\ ~(part > count[job])
  BY <1>1, <1>2, PartsAssumption DEF PartsInv
<1> QED
  BY <1>1, <1>2, <1>3 DEF IInv, PassInv

\* After the loop all parts are deleted and counted.
LEMMA LoopDone ==
  ASSUME IInv, workerStep = "parts", part > PartCount[job]
  PROVE  /\ job \in Jobs /\ count[job] = PartCount[job]
         /\ \A q \in PartsOf(job) : parts[job][q] = "deleted"
<1>1. job \in Jobs /\ \A q \in PartsOf(job) : q < part => parts[job][q] = "deleted"
  BY DEF IInv, TypeOK, PassInv
<1>2. PartsInv(job) /\ count[job] \in 0..PartCount[job] /\ PartCount[job] \in Nat \ {0}
  BY <1>1, PartsAssumption DEF IInv, TypeOK
<1>3. part \in Nat
  BY DEF IInv, TypeOK
<1>4. \A q \in PartsOf(job) : parts[job][q] = "deleted"
  BY <1>1, <1>2, <1>3
<1>5. ~(PartCount[job] > count[job])
  BY <1>2, <1>4 DEF PartsInv
<1> QED
  BY <1>1, <1>2, <1>4, <1>5

\* What an update of one part does to the rows of all parts.
LEMMA OnePart ==
  ASSUME IInv, job \in Jobs, part \in PartsOf(job), NEW s \in PartStatuses,
         parts' = [parts EXCEPT ![job][part] = s]
  PROVE  /\ parts' = [j \in Jobs |-> parts'[j]]
         /\ \A j \in Jobs : parts'[j] \in [PartsOf(j) -> PartStatuses]
         /\ \A j \in Jobs : \A p \in PartsOf(j) :
              parts'[j][p] = IF j = job /\ p = part THEN s ELSE parts[j][p]
<1>1. /\ parts = [j \in Jobs |-> parts[j]]
      /\ \A j \in Jobs : parts[j] \in [PartsOf(j) -> PartStatuses]
  BY DEF IInv, TypeOK, FunctionInv
<1>2. parts' = [j \in Jobs |-> IF j = job THEN [parts[job] EXCEPT ![part] = s] ELSE parts[j]]
  BY <1>1
<1>3. \A j \in Jobs : parts'[j] = IF j = job THEN [parts[job] EXCEPT ![part] = s] ELSE parts[j]
  BY <1>2
<1>4. parts' = [j \in Jobs |-> parts'[j]]
  BY <1>2, <1>3
<1> QED
  BY <1>1, <1>3, <1>4

\* What one arrival does to the counts of all arrivals.
LEMMA OneArrival ==
  ASSUME IInv, job \in Jobs, part \in PartsOf(job), Arrives
  PROVE  /\ received' = [j \in Jobs |-> received'[j]]
         /\ \A j \in Jobs : DOMAIN received'[j] = PartsOf(j)
         /\ \A j \in Jobs : received'[j] = [p \in PartsOf(j) |-> received'[j][p]]
         /\ \A j \in Jobs : \A p \in PartsOf(j) :
              received'[j][p] = IF j = job /\ p = part THEN received[j][p] + 1
                                ELSE received[j][p]
<1>1. /\ received = [j \in Jobs |-> received[j]]
      /\ \A j \in Jobs : received[j] \in [PartsOf(j) -> 0..MaxFaults + 1]
  BY DEF IInv, TypeOK, FunctionInv
<1>2. received' = [j \in Jobs |-> IF j = job THEN [received[job] EXCEPT ![part] = @ + 1]
                                  ELSE received[j]]
  BY <1>1
<1>3. \A j \in Jobs :
        received'[j] = IF j = job THEN [received[job] EXCEPT ![part] = @ + 1] ELSE received[j]
  BY <1>2
<1>4. received' = [j \in Jobs |-> received'[j]]
  BY <1>2, <1>3
<1>5. \A j \in Jobs : \A p \in PartsOf(j) :
        received'[j][p] = IF j = job /\ p = part THEN received[j][p] + 1 ELSE received[j][p]
  BY <1>1, <1>3
<1>6. \A j \in Jobs : received'[j] = [p \in PartsOf(j) |-> received'[j][p]]
  BY <1>1, <1>3
<1>7. \A j \in Jobs : DOMAIN received'[j] = PartsOf(j)
  BY <1>6
<1> QED
  BY <1>4, <1>5, <1>6, <1>7

\* An arrival keeps the type of the history: what has arrived and is not
\* recorded has been paid for.
LEMMA ArrivalType ==
  ASSUME IInv, workerStep = "send", Arrives
  PROVE  /\ received[job][part] \in 0..faults
         /\ \A j \in Jobs : received'[j] \in [PartsOf(j) -> 0..MaxFaults + 1]
<1>1. job \in Jobs /\ part \in PartsOf(job) /\ part = count[job] + 1 /\ count[job] \in Nat
  BY SendingPart DEF IInv, TypeOK
<1>2. received[job][part] \in 0..MaxFaults + 1 /\ faults \in 0..MaxFaults
  BY <1>1 DEF IInv, TypeOK
<1>3. received[job][part] <= faults
  BY <1>1 DEF IInv, ArrivalInv, InHand
<1>4. ASSUME NEW j \in Jobs, NEW p \in PartsOf(j)
      PROVE  received'[j][p] \in 0..MaxFaults + 1
  <2>1. received[j][p] \in 0..MaxFaults + 1
    BY DEF IInv, TypeOK
  <2> QED
    BY <1>1, <1>2, <1>3, <2>1, OneArrival, BoundsAssumption, SMTT(30)
<1>5. ASSUME NEW j \in Jobs  PROVE  received'[j] \in [PartsOf(j) -> 0..MaxFaults + 1]
  BY <1>1, <1>4, OneArrival
<1> QED
  BY <1>2, <1>3, <1>5, BoundsAssumption

\* The order of parts speaks of few variables.
LEMMA PartsUnchanged ==
  ASSUME NEW j \in Jobs, PartsInv(j), parts'[j] = parts[j], count'[j] = count[j],
         zip'[j] = zip[j], received'[j] = received[j],
         status'[j] = "completed" => status[j] = "completed"
  PROVE  PartsInv(j)'
BY DEF PartsInv

\* The types are kept by every step.
LEMMA TypeStep ==
  ASSUME IInv, [Next]_vars  PROVE  TypeOK' /\ FunctionInv'
<1> USE JobsAssumption, PartsAssumption, BoundsAssumption
<1>1. CASE UNCHANGED vars
  BY <1>1 DEF IInv, TypeOK, FunctionInv
<1>2. ASSUME NEW i \in Jobs, CreateJob(i)  PROVE  TypeOK' /\ FunctionInv'
  BY <1>2 DEF CreateJob, IInv, TypeOK, FunctionInv
<1>3. ASSUME NEW i \in Jobs, CancelPasses(i)  PROVE  TypeOK' /\ FunctionInv'
  BY <1>3 DEF CancelPasses, IInv, TypeOK, FunctionInv
<1>4. ASSUME NEW i \in Jobs, CancelCommits(i)  PROVE  TypeOK' /\ FunctionInv'
  BY <1>4 DEF CancelCommits, IInv, TypeOK, FunctionInv
<1>5. ASSUME NEW i \in Jobs, CancelFails(i)  PROVE  TypeOK' /\ FunctionInv'
  BY <1>5 DEF CancelFails, IInv, TypeOK, FunctionInv
<1>6. CASE ConfigureToken
  BY <1>6 DEF ConfigureToken, IInv, TypeOK, FunctionInv
<1>7. CASE SelectJobs
  BY <1>7 DEF SelectJobs, OpenJobs, DueJobs, IInv, TypeOK, FunctionInv
<1>8. ASSUME NEW i \in Jobs, BeginJob(i)  PROVE  TypeOK' /\ FunctionInv'
  BY <1>8 DEF BeginJob, IInv, TypeOK, FunctionInv
<1>9. CASE PassEnds
  BY <1>9 DEF PassEnds, IInv, TypeOK, FunctionInv
<1>10. CASE WriteZips
  BY <1>10 DEF WriteZips, IInv, TypeOK, FunctionInv
<1>11. CASE BuildFails
  BY <1>11 DEF BuildFails, IInv, TypeOK, FunctionInv
<1>12. CASE StoreParts
  BY <1>12 DEF StoreParts, IInv, TypeOK, FunctionInv
<1>13. CASE NoSender
  BY <1>13 DEF NoSender, IInv, TypeOK, FunctionInv
<1>14. CASE SkipDeleted
  BY <1>14 DEF SkipDeleted, IInv, TypeOK, FunctionInv
<1>15. CASE ResumeSent
  BY <1>15 DEF ResumeSent, IInv, TypeOK, FunctionInv
<1>16. CASE MarkUploading
  BY <1>16 DEF MarkUploading, IInv, TypeOK, FunctionInv
<1>17. CASE SendPart
  <2>1. job \in Jobs /\ part \in PartsOf(job) /\ workerStep = "send" /\ Arrives
    BY <1>17, SendingPart DEF SendPart
  <2>2. /\ received' = [j \in Jobs |-> received'[j]]
        /\ \A j \in Jobs : received'[j] \in [PartsOf(j) -> 0..MaxFaults + 1]
    BY <2>1, OneArrival, ArrivalType
  <2> HIDE DEF Arrives
  <2> QED
    BY <1>17, <2>2 DEF SendPart, IInv, TypeOK, FunctionInv
<1>18. CASE MarkSent
  <2>1. job \in Jobs /\ part \in PartsOf(job) /\ part = count[job] + 1
    BY <1>18, SendingPart DEF MarkSent
  <2>2. /\ parts' = [j \in Jobs |-> parts'[j]]
        /\ \A j \in Jobs : parts'[j] \in [PartsOf(j) -> PartStatuses]
    BY <1>18, <2>1, OnePart DEF MarkSent
  <2>3. count' \in [Jobs -> Nat] /\ \A j \in Jobs : count'[j] \in 0..PartCount[j]
    BY <1>18, <2>1 DEF MarkSent, IInv, TypeOK
  <2>4. status' \in [Jobs -> Statuses]
    BY <1>18 DEF MarkSent, IInv, TypeOK
  <2> QED
    BY <1>18, <2>1, <2>2, <2>3, <2>4 DEF MarkSent, IInv, TypeOK, FunctionInv
<1>19. CASE UnlinkPart
  BY <1>19 DEF UnlinkPart, IInv, TypeOK, FunctionInv
<1>20. CASE MarkDeleted
  <2>1. job \in Jobs /\ part \in PartsOf(job)
    BY <1>20, DeletingPart DEF MarkDeleted
  <2>2. /\ parts' = [j \in Jobs |-> parts'[j]]
        /\ \A j \in Jobs : parts'[j] \in [PartsOf(j) -> PartStatuses]
    BY <1>20, <2>1, OnePart DEF MarkDeleted
  <2>3. status' \in [Jobs -> Statuses] /\ loaded' \in [Jobs -> Statuses]
    BY <1>20 DEF MarkDeleted, IInv, TypeOK
  <2> QED
    BY <1>20, <2>1, <2>2, <2>3, SMTT(30) DEF MarkDeleted, IInv, TypeOK, FunctionInv
<1>21. CASE FinishJob
  <2>1. status' \in [Jobs -> Statuses] /\ loaded' \in [Jobs -> Statuses]
    BY <1>21 DEF FinishJob, IInv, TypeOK
  <2>2. held' \in {held, {}} /\ write' \in {write, "none"}
    BY <1>21 DEF FinishJob
  <2> QED
    BY <1>21, <2>1, <2>2 DEF FinishJob, IInv, TypeOK, FunctionInv
<1>22. CASE PassFails
  <2>1. CASE UNCHANGED received
    BY <1>22, <2>1 DEF PassFails, IInv, TypeOK, FunctionInv
  <2>2. CASE workerStep = "send" /\ Arrives
    <3>1. /\ received' = [j \in Jobs |-> received'[j]]
          /\ \A j \in Jobs : received'[j] \in [PartsOf(j) -> 0..MaxFaults + 1]
      BY <2>2, SendingPart, OneArrival, ArrivalType
    <3> HIDE DEF Arrives
    <3> QED
      BY <1>22, <3>1 DEF PassFails, IInv, TypeOK, FunctionInv
  <2> QED
    BY <1>22, <2>1, <2>2 DEF PassFails
<1>23. QED
  BY <1>1, <1>2, <1>3, <1>4, <1>5, <1>6, <1>7, <1>8, <1>9, <1>10, <1>11, <1>12, <1>13, <1>14,
     <1>15, <1>16, <1>17, <1>18, <1>19, <1>20, <1>21, <1>22 DEF Next, PassStep

\* The order of the parts of a job is kept by every step.
LEMMA PartsStep ==
  ASSUME IInv, [Next]_vars  PROVE  \A j \in Jobs : PartsInv(j)'
<1> USE JobsAssumption, PartsAssumption, BoundsAssumption
<1>1. CASE UNCHANGED vars
  BY <1>1 DEF IInv, PartsInv
<1>2. ASSUME NEW i \in Jobs, CreateJob(i)  PROVE  \A j \in Jobs : PartsInv(j)'
  <2> TAKE j \in Jobs
  <2>1. /\ parts'[j] = parts[j] /\ count'[j] = count[j] /\ zip'[j] = zip[j]
        /\ received'[j] = received[j]
        /\ status'[j] = "completed" => status[j] = "completed"
    BY <1>2 DEF CreateJob, IInv, TypeOK
  <2> QED
    BY <2>1, PartsUnchanged DEF IInv
<1>3. ASSUME NEW i \in Jobs, CancelPasses(i)  PROVE  \A j \in Jobs : PartsInv(j)'
  <2> TAKE j \in Jobs
  <2>1. /\ parts'[j] = parts[j] /\ count'[j] = count[j] /\ zip'[j] = zip[j]
        /\ received'[j] = received[j]
        /\ status'[j] = "completed" => status[j] = "completed"
    BY <1>3 DEF CancelPasses, IInv, TypeOK
  <2> QED
    BY <2>1, PartsUnchanged DEF IInv
<1>4. ASSUME NEW i \in Jobs, CancelCommits(i)  PROVE  \A j \in Jobs : PartsInv(j)'
  <2> TAKE j \in Jobs
  <2>1. /\ parts'[j] = parts[j] /\ count'[j] = count[j] /\ zip'[j] = zip[j]
        /\ received'[j] = received[j]
        /\ status'[j] = "completed" => status[j] = "completed"
    BY <1>4 DEF CancelCommits, IInv, TypeOK
  <2> QED
    BY <2>1, PartsUnchanged DEF IInv
<1>5. ASSUME NEW i \in Jobs, CancelFails(i)  PROVE  \A j \in Jobs : PartsInv(j)'
  <2> TAKE j \in Jobs
  <2>1. /\ parts'[j] = parts[j] /\ count'[j] = count[j] /\ zip'[j] = zip[j]
        /\ received'[j] = received[j]
        /\ status'[j] = "completed" => status[j] = "completed"
    BY <1>5 DEF CancelFails, IInv, TypeOK
  <2> QED
    BY <2>1, PartsUnchanged DEF IInv
<1>6. CASE ConfigureToken
  <2> TAKE j \in Jobs
  <2>1. /\ parts'[j] = parts[j] /\ count'[j] = count[j] /\ zip'[j] = zip[j]
        /\ received'[j] = received[j]
        /\ status'[j] = "completed" => status[j] = "completed"
    BY <1>6 DEF ConfigureToken, IInv, TypeOK
  <2> QED
    BY <2>1, PartsUnchanged DEF IInv
<1>7. CASE SelectJobs
  <2> TAKE j \in Jobs
  <2>1. /\ parts'[j] = parts[j] /\ count'[j] = count[j] /\ zip'[j] = zip[j]
        /\ received'[j] = received[j]
        /\ status'[j] = "completed" => status[j] = "completed"
    BY <1>7 DEF SelectJobs, IInv, TypeOK
  <2> QED
    BY <2>1, PartsUnchanged DEF IInv
<1>8. ASSUME NEW i \in Jobs, BeginJob(i)  PROVE  \A j \in Jobs : PartsInv(j)'
  <2> TAKE j \in Jobs
  <2>1. /\ parts'[j] = parts[j] /\ count'[j] = count[j] /\ zip'[j] = zip[j]
        /\ received'[j] = received[j]
        /\ status'[j] = "completed" => status[j] = "completed"
    BY <1>8 DEF BeginJob, IInv, TypeOK
  <2> QED
    BY <2>1, PartsUnchanged DEF IInv
<1>9. CASE PassEnds
  <2> TAKE j \in Jobs
  <2>1. /\ parts'[j] = parts[j] /\ count'[j] = count[j] /\ zip'[j] = zip[j]
        /\ received'[j] = received[j]
        /\ status'[j] = "completed" => status[j] = "completed"
    BY <1>9 DEF PassEnds, IInv, TypeOK
  <2> QED
    BY <2>1, PartsUnchanged DEF IInv
<1>10. CASE WriteZips
  BY <1>10 DEF WriteZips, IInv, TypeOK, PassInv, PartsInv
<1>11. CASE BuildFails
  <2> TAKE j \in Jobs
  <2>1. /\ parts'[j] = parts[j] /\ count'[j] = count[j] /\ zip'[j] = zip[j]
        /\ received'[j] = received[j]
        /\ status'[j] = "completed" => status[j] = "completed"
    BY <1>11 DEF BuildFails, IInv, TypeOK
  <2> QED
    BY <2>1, PartsUnchanged DEF IInv
<1>12. CASE StoreParts
  <2> TAKE j \in Jobs
  <2>1. /\ job \in Jobs /\ zip[job] = PartsOf(job)
        /\ \A p \in PartsOf(job) : parts[job][p] = "none"
    BY <1>12 DEF StoreParts, IInv, TypeOK, PassInv
  <2>2. PartsInv(j) /\ parts = [k \in Jobs |-> parts[k]]
    BY DEF IInv, FunctionInv
  <2>3. /\ count' = count /\ zip' = zip /\ received' = received
        /\ status'[j] = "completed" => status[j] = "completed"
    BY <1>12 DEF StoreParts, IInv, TypeOK
  <2>4. CASE j # job
    <3>1. parts'[j] = parts[j]
      BY <1>12, <2>2, <2>4 DEF StoreParts
    <3> QED
      BY <2>2, <2>3, <3>1, PartsUnchanged
  <2>5. CASE j = job
    <3>1. \A p \in PartsOf(j) : parts'[j][p] = "created"
      BY <1>12, <2>2, <2>5 DEF StoreParts
    <3> QED
      BY <2>1, <2>2, <2>3, <2>5, <3>1 DEF PartsInv
  <2> QED
    BY <2>4, <2>5
<1>13. CASE NoSender
  <2> TAKE j \in Jobs
  <2>1. /\ parts'[j] = parts[j] /\ count'[j] = count[j] /\ zip'[j] = zip[j]
        /\ received'[j] = received[j]
        /\ status'[j] = "completed" => status[j] = "completed"
    BY <1>13 DEF NoSender, IInv, TypeOK, LockInv
  <2> QED
    BY <2>1, PartsUnchanged DEF IInv
<1>14. CASE SkipDeleted
  <2> TAKE j \in Jobs
  <2>1. /\ parts'[j] = parts[j] /\ count'[j] = count[j] /\ zip'[j] = zip[j]
        /\ received'[j] = received[j]
        /\ status'[j] = "completed" => status[j] = "completed"
    BY <1>14 DEF SkipDeleted, IInv, TypeOK
  <2> QED
    BY <2>1, PartsUnchanged DEF IInv
<1>15. CASE ResumeSent
  <2> TAKE j \in Jobs
  <2>1. /\ parts'[j] = parts[j] /\ count'[j] = count[j] /\ zip'[j] = zip[j]
        /\ received'[j] = received[j]
        /\ status'[j] = "completed" => status[j] = "completed"
    BY <1>15 DEF ResumeSent, IInv, TypeOK
  <2> QED
    BY <2>1, PartsUnchanged DEF IInv
<1>16. CASE MarkUploading
  <2> TAKE j \in Jobs
  <2>1. /\ job \in Jobs /\ part \in PartsOf(job) /\ parts[job][part] \in {"created", "uploading"}
        /\ PartCount[job] \in Nat /\ count[job] \in Nat
        /\ \A q \in PartsOf(job) : parts[job][q] # "none" /\ (q < part => parts[job][q] = "deleted")
    BY <1>16 DEF MarkUploading, IInv, TypeOK, PassInv
  <2>2. PartsInv(job) /\ PartsInv(j)
    BY <2>1 DEF IInv
  <2>3. part = count[job] + 1
    <3>1. part \in Nat /\ ~(part <= count[job])
      BY <2>1, <2>2 DEF PartsInv
    <3>2. ~(part > count[job] + 1)
      <4> SUFFICES ASSUME part > count[job] + 1  PROVE FALSE
        OBVIOUS
      <4>1. count[job] + 1 \in PartsOf(job) /\ parts[job][count[job] + 1] = "deleted"
        BY <2>1
      <4> QED
        BY <2>1, <2>2, <4>1 DEF PartsInv
    <3> QED
      BY <2>1, <3>1, <3>2
  <2>4. \A p \in PartsOf(j) :
          parts'[j][p] = IF j = job /\ p = part THEN "uploading" ELSE parts[j][p]
    BY <1>16, <2>1, OnePart DEF MarkUploading
  <2>5. /\ count' = count /\ zip' = zip /\ received' = received
        /\ status'[j] = "completed" => status[j] = "completed"
    BY <1>16 DEF MarkUploading, IInv, TypeOK
  <2> QED
    BY <2>1, <2>2, <2>3, <2>4, <2>5 DEF PartsInv
<1>17. CASE SendPart
  <2> TAKE j \in Jobs
  <2>1. /\ job \in Jobs /\ part \in PartsOf(job) /\ parts[job][part] = "uploading"
        /\ UNCHANGED <<status, parts, count, zip>>
    BY <1>17, SendingPart DEF SendPart
  <2>2. \A p \in PartsOf(j) : received[j][p] \in Nat
    BY BoundsAssumption DEF IInv, TypeOK
  <2>3. \A p \in PartsOf(j) :
          received'[j][p] = IF j = job /\ p = part THEN received[j][p] + 1 ELSE received[j][p]
    BY <1>17, <2>1, OneArrival DEF SendPart
  <2> QED
    BY <2>1, <2>2, <2>3 DEF IInv, PartsInv
<1>18. CASE MarkSent
  <2> TAKE j \in Jobs
  <2>1. /\ job \in Jobs /\ part \in PartsOf(job) /\ part = count[job] + 1
        /\ parts[job][part] = "uploading" /\ received[job][part] > 0
        /\ \A q \in PartsOf(job) : q < part => parts[job][q] = "deleted"
    BY <1>18, SendingPart DEF MarkSent, IInv, PassInv
  <2>2. PartsInv(j) /\ count[j] \in Nat
    BY DEF IInv, TypeOK
  <2>3. \A p \in PartsOf(j) :
          parts'[j][p] = IF j = job /\ p = part THEN "sent" ELSE parts[j][p]
    BY <1>18, <2>1, OnePart DEF MarkSent
  <2>4. /\ count'[j] = IF j = job THEN count[j] + 1 ELSE count[j]
        /\ zip' = zip /\ received' = received
        /\ status'[j] = "completed" => status[j] = "completed"
    BY <1>18 DEF MarkSent, IInv, TypeOK
  <2>5. CASE j # job
    BY <2>2, <2>3, <2>4, <2>5 DEF PartsInv
  <2>6. CASE j = job
    <3>1. count'[j] = part /\ part \in Nat
      BY <2>1, <2>2, <2>4, <2>6
    <3> QED
      BY <2>1, <2>2, <2>3, <2>4, <2>6, <3>1 DEF PartsInv
  <2> QED
    BY <2>5, <2>6
<1>19. CASE UnlinkPart
  <2> TAKE j \in Jobs
  <2>1. /\ job \in Jobs /\ part \in PartsOf(job) /\ parts[job][part] = "sent"
        /\ UNCHANGED <<status, parts, count, received>>
    BY <1>19, DeletingPart DEF UnlinkPart
  <2>2. zip'[j] = IF j = job THEN zip[j] \ {part} ELSE zip[j]
    BY <1>19 DEF UnlinkPart, IInv, TypeOK
  <2>3. PartsInv(j)
    BY DEF IInv
  <2> QED
    BY <2>1, <2>2, <2>3 DEF PartsInv
<1>20. CASE MarkDeleted
  <2> TAKE j \in Jobs
  <2>1. /\ job \in Jobs /\ part \in PartsOf(job) /\ part = count[job]
        /\ parts[job][part] = "sent" /\ part \notin zip[job]
        /\ PartCount[job] \in Nat /\ count[job] \in 0..PartCount[job]
        /\ \A q \in PartsOf(job) : q < part => parts[job][q] = "deleted"
    BY <1>20, DeletingPart DEF MarkDeleted, IInv, PassInv, TypeOK
  <2>2. PartsInv(j)
    BY DEF IInv
  <2>3. \A p \in PartsOf(j) :
          parts'[j][p] = IF j = job /\ p = part THEN "deleted" ELSE parts[j][p]
    BY <1>20, <2>1, OnePart DEF MarkDeleted
  <2>4. /\ count' = count /\ zip' = zip /\ received' = received
        /\ status'[j] = "completed" =>
             status[j] = "completed" \/ (j = job /\ count[job] = PartCount[job])
    BY <1>20, <2>1 DEF MarkDeleted, IInv, TypeOK
  <2> QED
    BY <2>1, <2>2, <2>3, <2>4 DEF PartsInv
<1>21. CASE FinishJob
  <2> TAKE j \in Jobs
  <2>1. \A q \in PartsOf(job) : parts[job][q] = "deleted"
    BY <1>21, LoopDone DEF FinishJob
  <2>2. /\ parts' = parts /\ count' = count /\ zip' = zip /\ received' = received
        /\ status'[j] = "completed" => status[j] = "completed" \/ j = job
    BY <1>21 DEF FinishJob, IInv, TypeOK
  <2> QED
    BY <2>1, <2>2 DEF IInv, PartsInv
<1>22. CASE PassFails
  <2> TAKE j \in Jobs
  <2>1. CASE UNCHANGED received
    BY <1>22, <2>1, PartsUnchanged DEF PassFails, IInv
  <2>2. CASE workerStep = "send" /\ Arrives
    <3>1. /\ job \in Jobs /\ part \in PartsOf(job) /\ parts[job][part] = "uploading"
          /\ UNCHANGED <<status, parts, count, zip>>
      BY <1>22, <2>2, SendingPart DEF PassFails
    <3>2. \A p \in PartsOf(j) : received[j][p] \in Nat
      BY BoundsAssumption DEF IInv, TypeOK
    <3>3. \A p \in PartsOf(j) :
            received'[j][p] = IF j = job /\ p = part THEN received[j][p] + 1 ELSE received[j][p]
      BY <2>2, <3>1, OneArrival
    <3> QED
      BY <3>1, <3>2, <3>3 DEF IInv, PartsInv
  <2> QED
    BY <1>22, <2>1, <2>2 DEF PassFails
<1>23. QED
  BY <1>1, <1>2, <1>3, <1>4, <1>5, <1>6, <1>7, <1>8, <1>9, <1>10, <1>11, <1>12, <1>13, <1>14,
     <1>15, <1>16, <1>17, <1>18, <1>19, <1>20, <1>21, <1>22 DEF Next, PassStep

\* An arrival is recorded or paid for.
LEMMA ArrivalStep ==
  ASSUME IInv, [Next]_vars  PROVE  ArrivalInv'
<1> USE JobsAssumption, PartsAssumption, BoundsAssumption
<1>1. CASE UNCHANGED vars
  BY <1>1 DEF IInv, ArrivalInv, InHand
<1>2. ASSUME NEW i \in Jobs, CreateJob(i)  PROVE  ArrivalInv'
  BY <1>2 DEF CreateJob, IInv, ArrivalInv, InHand
<1>3. ASSUME NEW i \in Jobs, CancelPasses(i)  PROVE  ArrivalInv'
  BY <1>3 DEF CancelPasses, IInv, ArrivalInv, InHand
<1>4. ASSUME NEW i \in Jobs, CancelCommits(i)  PROVE  ArrivalInv'
  BY <1>4 DEF CancelCommits, IInv, ArrivalInv, InHand
<1>5. ASSUME NEW i \in Jobs, CancelFails(i)  PROVE  ArrivalInv'
  <2>1. UNCHANGED <<workerStep, job, part, count, received>> /\ faults' = faults + 1
    BY <1>5 DEF CancelFails
  <2> SUFFICES ASSUME NEW j \in Jobs, NEW p \in PartsOf(j), p > count[j]
               PROVE  received[j][p] <= IF InHand(j, p) THEN faults + 2 ELSE faults + 1
    <3>1. faults \in Nat
      BY DEF IInv, TypeOK
    <3> QED
      BY <2>1, <3>1 DEF ArrivalInv, InHand
  <2>2. received[j][p] \in Nat /\ faults \in Nat
    BY BoundsAssumption DEF IInv, TypeOK
  <2>3. received[j][p] <= IF InHand(j, p) THEN faults + 1 ELSE faults
    BY DEF IInv, ArrivalInv
  <2> QED
    BY <2>2, <2>3
<1>6. CASE ConfigureToken
  BY <1>6 DEF ConfigureToken, IInv, ArrivalInv, InHand
<1>7. CASE SelectJobs
  BY <1>7 DEF SelectJobs, IInv, ArrivalInv, InHand
<1>8. ASSUME NEW i \in Jobs, BeginJob(i)  PROVE  ArrivalInv'
  BY <1>8 DEF BeginJob, IInv, ArrivalInv, InHand
<1>9. CASE PassEnds
  BY <1>9 DEF PassEnds, IInv, ArrivalInv, InHand
<1>10. CASE WriteZips
  BY <1>10 DEF WriteZips, IInv, ArrivalInv, InHand
<1>11. CASE BuildFails
  BY <1>11 DEF BuildFails, IInv, ArrivalInv, InHand
<1>12. CASE StoreParts
  BY <1>12 DEF StoreParts, IInv, ArrivalInv, InHand
<1>13. CASE NoSender
  BY <1>13 DEF NoSender, IInv, ArrivalInv, InHand
<1>14. CASE SkipDeleted
  BY <1>14 DEF SkipDeleted, IInv, ArrivalInv, InHand
<1>15. CASE ResumeSent
  BY <1>15 DEF ResumeSent, IInv, ArrivalInv, InHand
<1>16. CASE MarkUploading
  BY <1>16 DEF MarkUploading, IInv, ArrivalInv, InHand
<1>17. CASE SendPart
  <2>1. /\ job \in Jobs /\ part \in PartsOf(job) /\ workerStep = "send" /\ Arrives
        /\ workerStep' = "received" /\ UNCHANGED <<job, part, count, faults>>
    BY <1>17, SendingPart DEF SendPart
  <2> SUFFICES ASSUME NEW j \in Jobs, NEW p \in PartsOf(j), p > count[j]
               PROVE  received'[j][p] <= IF InHand(j, p)' THEN faults + 1 ELSE faults
    BY <2>1 DEF ArrivalInv
  <2>2. received[j][p] \in Nat /\ faults \in Nat /\ received[j][p] <= faults
    BY <2>1, BoundsAssumption, SMTT(30) DEF IInv, TypeOK, ArrivalInv, InHand
  <2>3. received'[j][p] = IF j = job /\ p = part THEN received[j][p] + 1 ELSE received[j][p]
    BY <2>1, OneArrival
  <2> QED
    BY <2>1, <2>2, <2>3 DEF InHand
<1>18. CASE MarkSent
  <2>1. /\ job \in Jobs /\ part = count[job] + 1
        /\ workerStep' = "unlink" /\ UNCHANGED <<job, part, received, faults>>
        /\ \A j \in Jobs : count[j] \in Nat /\
             count'[j] = IF j = job THEN count[j] + 1 ELSE count[j]
    BY <1>18, SendingPart DEF MarkSent, IInv, TypeOK
  <2> SUFFICES ASSUME NEW j \in Jobs, NEW p \in PartsOf(j), p > count'[j]
               PROVE  received[j][p] <= faults
    BY <2>1 DEF ArrivalInv, InHand
  <2>2. p > count[j] /\ ~InHand(j, p)
    BY <2>1, PartsAssumption DEF InHand
  <2> QED
    BY <2>2 DEF IInv, ArrivalInv
<1>19. CASE UnlinkPart
  BY <1>19 DEF UnlinkPart, IInv, ArrivalInv, InHand
<1>20. CASE MarkDeleted
  BY <1>20 DEF MarkDeleted, IInv, ArrivalInv, InHand
<1>21. CASE FinishJob
  BY <1>21 DEF FinishJob, IInv, ArrivalInv, InHand
<1>22. CASE PassFails
  <2>1. workerStep' = "idle" /\ count' = count /\ faults' = faults + 1 /\ faults \in Nat
    BY <1>22 DEF PassFails, IInv, TypeOK
  <2> SUFFICES ASSUME NEW j \in Jobs, NEW p \in PartsOf(j), p > count[j]
               PROVE  received'[j][p] <= faults + 1
    BY <2>1 DEF ArrivalInv, InHand
  <2>2. received[j][p] \in Nat
    BY BoundsAssumption DEF IInv, TypeOK
  <2>3. received[j][p] <= IF InHand(j, p) THEN faults + 1 ELSE faults
    BY DEF IInv, ArrivalInv
  <2>4. CASE UNCHANGED received
    BY <2>1, <2>2, <2>3, <2>4
  <2>5. CASE workerStep = "send" /\ Arrives
    <3>1. received'[j][p] \in {received[j][p], received[j][p] + 1}
      BY <2>5, SendingPart, OneArrival
    <3> QED
      BY <2>1, <2>2, <2>3, <2>5, <3>1 DEF InHand
  <2> QED
    BY <1>22, <2>4, <2>5 DEF PassFails
<1>23. QED
  BY <1>1, <1>2, <1>3, <1>4, <1>5, <1>6, <1>7, <1>8, <1>9, <1>10, <1>11, <1>12, <1>13, <1>14,
     <1>15, <1>16, <1>17, <1>18, <1>19, <1>20, <1>21, <1>22 DEF Next, PassStep

\* The pass keeps up with its job.
LEMMA PassInvStep ==
  ASSUME IInv, [Next]_vars  PROVE  PassInv'
<1> USE JobsAssumption, PartsAssumption, BoundsAssumption
<1>1. CASE UNCHANGED vars
  BY <1>1 DEF IInv, PassInv
<1>2. ASSUME NEW i \in Jobs, CreateJob(i)  PROVE  PassInv'
  BY <1>2 DEF CreateJob, IInv, PassInv
<1>3. ASSUME NEW i \in Jobs, CancelPasses(i)  PROVE  PassInv'
  BY <1>3 DEF CancelPasses, IInv, PassInv
<1>4. ASSUME NEW i \in Jobs, CancelCommits(i)  PROVE  PassInv'
  BY <1>4 DEF CancelCommits, IInv, PassInv
<1>5. ASSUME NEW i \in Jobs, CancelFails(i)  PROVE  PassInv'
  BY <1>5 DEF CancelFails, IInv, PassInv
<1>6. CASE ConfigureToken
  BY <1>6 DEF ConfigureToken, IInv, PassInv
<1>7. CASE SelectJobs
  BY <1>7 DEF SelectJobs, IInv, PassInv
<1>8. ASSUME NEW i \in Jobs, BeginJob(i)  PROVE  PassInv'
  BY <1>8 DEF BeginJob, IInv, TypeOK, PassInv, PartsInv, Built
<1>9. CASE PassEnds
  BY <1>9 DEF PassEnds, IInv, PassInv
<1>10. CASE WriteZips
  BY <1>10 DEF WriteZips, IInv, TypeOK, PassInv
<1>11. CASE BuildFails
  BY <1>11 DEF BuildFails, IInv, PassInv
<1>12. CASE StoreParts
  <2>1. /\ job \in Jobs /\ part = 1 /\ workerStep' = "parts" /\ UNCHANGED <<job, part, batch>>
        /\ PartCount[job] \in Nat \ {0} /\ job \notin batch
    BY <1>12 DEF StoreParts, IInv, TypeOK, PassInv
  <2>2. parts' = [k \in Jobs |-> IF k = job THEN [p \in PartsOf(job) |-> "created"] ELSE parts[k]]
    BY <1>12, <2>1 DEF StoreParts, IInv, FunctionInv
  <2>3. \A p \in PartsOf(job) : parts'[job][p] = "created"
    BY <2>1, <2>2
  <2>4. part \in 1..PartCount[job] + 1 /\ \A p \in PartsOf(job) : ~(p < part)
    BY <2>1
  <2> QED
    BY <2>1, <2>3, <2>4 DEF PassInv
<1>13. CASE NoSender
  BY <1>13 DEF NoSender, IInv, PassInv
<1>14. CASE SkipDeleted
  <2>1. /\ job \in Jobs /\ part \in Nat \ {0} /\ part <= PartCount[job]
        /\ PartCount[job] \in Nat /\ parts[job][part] = "deleted"
        /\ workerStep' = "parts" /\ part' = part + 1 /\ UNCHANGED <<job, parts, batch>>
    BY <1>14 DEF SkipDeleted, IInv, TypeOK
  <2>2. \A p \in PartsOf(job) : p < part + 1 => p < part \/ p = part
    BY <2>1
  <2> QED
    BY <1>14, <2>1, <2>2 DEF SkipDeleted, IInv, PassInv
<1>15. CASE ResumeSent
  BY <1>15 DEF ResumeSent, IInv, PassInv
<1>16. CASE MarkUploading
  BY <1>16 DEF MarkUploading, IInv, TypeOK, FunctionInv, PassInv, PartsInv
<1>17. CASE SendPart
  BY <1>17 DEF SendPart, IInv, TypeOK, FunctionInv, PassInv, PartsInv
<1>18. CASE MarkSent
  BY <1>18 DEF MarkSent, IInv, TypeOK, FunctionInv, PassInv, PartsInv
<1>19. CASE UnlinkPart
  BY <1>19 DEF UnlinkPart, IInv, TypeOK, PassInv
<1>20. CASE MarkDeleted
  BY <1>20, SMTT(30) DEF MarkDeleted, IInv, TypeOK, FunctionInv, PassInv, PartsInv
<1>21. CASE FinishJob
  BY <1>21 DEF FinishJob, IInv, PassInv
<1>22. CASE PassFails
  BY <1>22 DEF PassFails, IInv, PassInv
<1>23. QED
  BY <1>1, <1>2, <1>3, <1>4, <1>5, <1>6, <1>7, <1>8, <1>9, <1>10, <1>11, <1>12, <1>13, <1>14,
     <1>15, <1>16, <1>17, <1>18, <1>19, <1>20, <1>21, <1>22 DEF Next, PassStep

\* The locks, and the sessions, keep completed jobs out of reach.
LEMMA LockStep ==
  ASSUME IInv, [Next]_vars  PROVE  LockInv'
<1> USE JobsAssumption, PartsAssumption, BoundsAssumption
<1>1. CASE UNCHANGED vars
  BY <1>1 DEF IInv, LockInv
<1>2. ASSUME NEW i \in Jobs, CreateJob(i)  PROVE  LockInv'
  BY <1>2 DEF CreateJob, IInv, LockInv
<1>3. ASSUME NEW i \in Jobs, CancelPasses(i)  PROVE  LockInv'
  BY <1>3 DEF CancelPasses, IInv, LockInv
<1>4. ASSUME NEW i \in Jobs, CancelCommits(i)  PROVE  LockInv'
  BY <1>4 DEF CancelCommits, IInv, LockInv
<1>5. ASSUME NEW i \in Jobs, CancelFails(i)  PROVE  LockInv'
  BY <1>5 DEF CancelFails, IInv, LockInv
<1>6. CASE ConfigureToken
  BY <1>6 DEF ConfigureToken, IInv, LockInv
<1>7. CASE SelectJobs
  BY <1>7 DEF SelectJobs, OpenJobs, DueJobs, IInv, LockInv
<1>8. ASSUME NEW i \in Jobs, BeginJob(i)  PROVE  LockInv'
  BY <1>8 DEF BeginJob, IInv, LockInv
<1>9. CASE PassEnds
  BY <1>9 DEF PassEnds, IInv, LockInv
<1>10. CASE WriteZips
  BY <1>10 DEF WriteZips, IInv, LockInv
<1>11. CASE BuildFails
  BY <1>11 DEF BuildFails, IInv, LockInv
<1>12. CASE StoreParts
  BY <1>12 DEF StoreParts, IInv, TypeOK, LockInv
<1>13. CASE NoSender
  BY <1>13 DEF NoSender, IInv, TypeOK, LockInv
<1>14. CASE SkipDeleted
  BY <1>14 DEF SkipDeleted, IInv, LockInv
<1>15. CASE ResumeSent
  BY <1>15 DEF ResumeSent, IInv, LockInv
<1>16. CASE MarkUploading
  BY <1>16 DEF MarkUploading, IInv, TypeOK, LockInv
<1>17. CASE SendPart
  BY <1>17 DEF SendPart, IInv, LockInv
<1>18. CASE MarkSent
  BY <1>18 DEF MarkSent, IInv, TypeOK, LockInv
<1>19. CASE UnlinkPart
  BY <1>19 DEF UnlinkPart, IInv, LockInv
<1>20. CASE MarkDeleted
  <2>1. /\ job \in Jobs /\ count[job] \in Nat /\ PartCount[job] \in Nat
        /\ write' = "none" /\ held' = {} /\ UNCHANGED <<batch, cancelling>> /\ job \notin batch
    BY <1>20 DEF MarkDeleted, IInv, TypeOK, PassInv
  <2>2. \A j \in Jobs : status'[j] = "completed" =>
          status[j] = "completed" \/ (j = job /\ job \notin cancelling)
    BY <1>20, <2>1 DEF MarkDeleted, IInv, TypeOK
  <2> QED
    BY <2>1, <2>2 DEF IInv, LockInv, TypeOK
<1>21. CASE FinishJob
  <2>1. AllSent /\ job \in Jobs /\ job \notin batch
    BY <1>21, LoopDone, PartsAssumption DEF FinishJob, IInv, PassInv
  <2>2. write' = "none" /\ held' = {} /\ UNCHANGED <<batch, cancelling>>
    BY <1>21, <2>1 DEF FinishJob
  <2>3. \A j \in Jobs : status'[j] = "completed" =>
          status[j] = "completed" \/ (j = job /\ (job \notin cancelling \/ loaded[job] = "completed"))
    BY <1>21, <2>1 DEF FinishJob, IInv, TypeOK
  <2>4. \A j \in Jobs : loaded[job] = "completed" => status'[j] = status[j]
    BY <1>21, <2>1 DEF FinishJob, IInv, TypeOK
  <2> QED
    BY <2>1, <2>2, <2>3, <2>4 DEF IInv, LockInv, TypeOK
<1>22. CASE PassFails
  BY <1>22 DEF PassFails, IInv, LockInv
<1>23. QED
  BY <1>1, <1>2, <1>3, <1>4, <1>5, <1>6, <1>7, <1>8, <1>9, <1>10, <1>11, <1>12, <1>13, <1>14,
     <1>15, <1>16, <1>17, <1>18, <1>19, <1>20, <1>21, <1>22 DEF Next, PassStep

(***************************************************************************)
(* The theorems.                                                           *)
(***************************************************************************)

\* The inductive invariant.
THEOREM Invariance == Spec => []IInv
<1>1. Init => IInv
  <2> SUFFICES ASSUME Init  PROVE  IInv
    OBVIOUS
  <2> USE JobsAssumption, PartsAssumption, BoundsAssumption
  <2>1. TypeOK /\ FunctionInv
    BY DEF Init, TypeOK, FunctionInv
  <2>2. ArrivalInv /\ PassInv /\ LockInv
    BY <2>1 DEF Init, TypeOK, ArrivalInv, InHand, PassInv, LockInv
  <2>3. \A j \in Jobs : PartsInv(j)
    BY DEF Init, PartsInv
  <2> QED
    BY <2>1, <2>2, <2>3 DEF IInv
<1>2. IInv /\ [Next]_vars => IInv'
  BY TypeStep, PartsStep, ArrivalStep, PassInvStep, LockStep DEF IInv
<1> QED
  BY <1>1, <1>2, PTL DEF Spec

\* Jobs, parts and the pass are always well-typed.
THEOREM TypeCorrect == Spec => []TypeOK
<1>1. IInv => TypeOK
  BY DEF IInv
<1> QED
  BY <1>1, Invariance, PTL

\* The parts up to the nth are n.
LEMMA PrefixCardinality ==
  ASSUME NEW n \in Nat  PROVE  Cardinality(1..n) = n
<1>1. Cardinality(1..n) = IF 1 > n THEN 0 ELSE n - 1 + 1
  BY FS_Interval
<1> QED
  BY <1>1

\* completed_part_count counts the delivered parts.
THEOREM CountsParts == Spec => []CountMatchesParts
<1>1. IInv => CountMatchesParts
  <2> SUFFICES ASSUME IInv, NEW j \in Jobs  PROVE  count[j] = Cardinality(Delivered(j))
    BY DEF CountMatchesParts
  <2>1. PartsInv(j) /\ count[j] \in 0..PartCount[j] /\ PartCount[j] \in Nat
    BY PartsAssumption DEF IInv, TypeOK
  <2>2. Delivered(j) = 1..count[j]
    BY <2>1 DEF Delivered, PartsInv
  <2>3. Cardinality(1..count[j]) = count[j]
    BY <2>1, PrefixCardinality
  <2> QED
    BY <2>2, <2>3
<1> QED
  BY <1>1, Invariance, PTL

\* A completed export has arrived in full and left the disk.
THEOREM CompletedIsDelivered == Spec => []CompletedMeansDelivered
<1>1. IInv => CompletedMeansDelivered
  <2> SUFFICES ASSUME IInv, NEW j \in Jobs, status[j] = "completed"
               PROVE  zip[j] = {} /\ \A p \in PartsOf(j) :
                                       received[j][p] > 0 /\ parts[j][p] = "deleted"
    BY DEF CompletedMeansDelivered
  <2>1. PartsInv(j) /\ zip[j] \subseteq PartsOf(j) /\ count[j] \in Nat /\ PartCount[j] \in Nat
    BY PartsAssumption DEF IInv, TypeOK
  <2> QED
    BY <2>1 DEF PartsInv
<1> QED
  BY <1>1, Invariance, PTL

\* What is to be sent is on the disk.
THEOREM UnsentIsOnDisk == Spec => []UnsentPartHasFile
<1>1. IInv => UnsentPartHasFile
  BY DEF IInv, PartsInv, UnsentPartHasFile
<1> QED
  BY <1>1, Invariance, PTL

\* A delivered part stays delivered.
LEMMA DeliveredStays ==
  ASSUME IInv, [Next]_vars, NEW j \in Jobs, NEW p \in Delivered(j)
  PROVE  p \in Delivered(j)'
<1>1. /\ p \in PartsOf(j) /\ parts[j][p] \in {"sent", "deleted"}
      /\ parts = [k \in Jobs |-> parts[k]]
      /\ parts[j] \in [PartsOf(j) -> PartStatuses]
  BY DEF Delivered, IInv, FunctionInv, TypeOK
<1>2. CASE UNCHANGED parts
  BY <1>1, <1>2 DEF Delivered
<1>3. CASE StoreParts
  <2>1. j # job
    BY <1>1, <1>3 DEF StoreParts, IInv, PassInv
  <2> QED
    BY <1>1, <1>3, <2>1 DEF StoreParts, Delivered, IInv, FunctionInv
<1>4. CASE MarkUploading
  BY <1>1, <1>4 DEF MarkUploading, Delivered, IInv, FunctionInv
<1>5. CASE MarkSent
  BY <1>1, <1>5 DEF MarkSent, Delivered, IInv, FunctionInv
<1>6. CASE MarkDeleted
  BY <1>1, <1>6 DEF MarkDeleted, Delivered, IInv, FunctionInv
<1> QED
  BY <1>2, <1>3, <1>4, <1>5, <1>6 DEF Next, PassStep, CreateJob, CancelPasses, CancelCommits,
     CancelFails, ConfigureToken, SelectJobs, BeginJob, PassEnds, WriteZips, BuildFails, NoSender,
     SkipDeleted, ResumeSent, SendPart, UnlinkPart, FinishJob, PassFails

\* Nothing arrives but the first part that is not deleted.
THEOREM OrderedSends == Spec => SendsInOrder
<1>1. IInv /\ [Next]_vars =>
        \A j \in Jobs : \A p \in PartsOf(j) :
          received'[j][p] # received[j][p] =>
            /\ parts[j][p] = "uploading"
            /\ \A q \in PartsOf(j) : q < p => parts[j][q] = "deleted"
  <2> SUFFICES ASSUME IInv, [Next]_vars, NEW j \in Jobs, NEW p \in PartsOf(j),
                      received'[j][p] # received[j][p]
               PROVE  /\ parts[j][p] = "uploading"
                      /\ \A q \in PartsOf(j) : q < p => parts[j][q] = "deleted"
    OBVIOUS
  <2>1. workerStep = "send" /\ Arrives
    <3> HIDE DEF Arrives
    <3> QED
      BY DEF Next, PassStep, CreateJob, CancelPasses, CancelCommits, CancelFails, ConfigureToken,
             SelectJobs, BeginJob, PassEnds, WriteZips, BuildFails, StoreParts, NoSender,
             SkipDeleted, ResumeSent, MarkUploading, SendPart, MarkSent, UnlinkPart, MarkDeleted,
             FinishJob, PassFails
  <2>2. j = job /\ p = part
    BY <2>1, SendingPart, OneArrival
  <2> QED
    BY <2>1, <2>2, SendingPart
<1> QED
  <2>1. IInv /\ [Next]_vars =>
          \A j \in Jobs : \A p \in PartsOf(j) :
            /\ received'[j][p] # received[j][p] =>
                 /\ parts[j][p] = "uploading"
                 /\ \A q \in PartsOf(j) : q < p => parts[j][q] = "deleted"
            /\ p \in Delivered(j) => p \in Delivered(j)'
    BY <1>1, DeliveredStays
  <2> QED
    BY <2>1, Invariance, PTL DEF Spec, SendsInOrder

\* What a step may do to the status of a job.
LEMMA StatusStep ==
  ASSUME IInv, [Next]_vars, NEW j \in Jobs
  PROVE  /\ status[j] = "completed" => status'[j] = "completed"
         /\ status[j] = "cancelled" /\ ~InPass(j) => status'[j] = "cancelled"
<1>1. status \in [Jobs -> Statuses] /\ (write # "none" => status[job] # "completed")
  BY DEF IInv, TypeOK, LockInv
<1>2. \A i \in cancelling : status[i] # "completed"
  BY DEF IInv, LockInv
<1>3. ASSUME NEW i \in Jobs, CreateJob(i)  PROVE  status[j] = status'[j] \/ status[j] = "absent"
  BY <1>1, <1>3 DEF CreateJob
<1>4. ASSUME NEW i \in Jobs, CancelCommits(i)
      PROVE  /\ status[i] # "completed"
             /\ j # i => status'[j] = status[j]
             /\ j = i => status'[j] = "cancelled"
  BY <1>1, <1>2, <1>4 DEF CancelCommits
<1>5. CASE StoreParts \/ NoSender \/ MarkUploading \/ MarkSent \/ MarkDeleted \/ FinishJob
  <2>1. j # job => status'[j] = status[j]
    BY <1>1, <1>5 DEF StoreParts, NoSender, MarkUploading, MarkSent, MarkDeleted, FinishJob
  <2>2. j = job => InPass(j)
    BY <1>5 DEF StoreParts, NoSender, MarkUploading, MarkSent, MarkDeleted, FinishJob, InPass
  <2>3. status[job] = "completed" /\ j = job => status'[j] = "completed"
    BY <1>1, <1>5 DEF StoreParts, NoSender, MarkUploading, MarkSent, MarkDeleted, FinishJob
  <2> QED
    BY <2>1, <2>2, <2>3
<1>6. CASE UNCHANGED status
  BY <1>6
<1>7. ASSUME NEW i \in Jobs, CancelPasses(i) \/ CancelFails(i) \/ BeginJob(i)
      PROVE  UNCHANGED status
  BY <1>7 DEF CancelPasses, CancelFails, BeginJob
<1>8. ASSUME \/ ConfigureToken \/ SelectJobs \/ PassEnds \/ WriteZips \/ BuildFails
             \/ SkipDeleted \/ ResumeSent \/ SendPart \/ UnlinkPart \/ PassFails
             \/ UNCHANGED vars
      PROVE  UNCHANGED status
  BY <1>8 DEF ConfigureToken, SelectJobs, PassEnds, WriteZips, BuildFails, SkipDeleted,
              ResumeSent, SendPart, UnlinkPart, PassFails
<1> QED
  BY <1>2, <1>3, <1>4, <1>5, <1>6, <1>7, <1>8 DEF Next, PassStep

\* No cancellation, however late it commits, takes a completed job back.
THEOREM CompletionIsFinal == Spec => CompletedIsFinal
<1>1. IInv /\ [Next]_vars =>
        \A j \in Jobs : status[j] = "completed" => status'[j] = "completed"
  BY StatusStep
<1> QED
  BY <1>1, Invariance, PTL DEF Spec, CompletedIsFinal

\* A cancellation that no pass is in the way of holds.
THEOREM QuietCancelHolds == Spec => CancelledStaysOut
<1>1. ASSUME IInv, [Next]_vars, NEW j \in Jobs, ~InPass(j)  PROVE  received'[j] = received[j]
  <2>1. CASE UNCHANGED received
    BY <2>1
  <2>2. CASE workerStep = "send" /\ Arrives
    <3>1. job # j /\ received = [k \in Jobs |-> received[k]]
      BY <1>1, <2>2 DEF InPass, IInv, FunctionInv
    <3> QED
      BY <2>2, <3>1
  <2>3. UNCHANGED received \/ (workerStep = "send" /\ Arrives)
    <3> HIDE DEF Arrives
    <3> QED
      BY <1>1 DEF Next, PassStep, CreateJob, CancelPasses, CancelCommits, CancelFails,
             ConfigureToken, SelectJobs, BeginJob, PassEnds, WriteZips, BuildFails, StoreParts,
             NoSender, SkipDeleted, ResumeSent, MarkUploading, SendPart, MarkSent, UnlinkPart,
             MarkDeleted, FinishJob, PassFails
  <2> QED
    BY <2>1, <2>2, <2>3
<1>2. ASSUME IInv, [Next]_vars, NEW j \in Jobs, ~InPass(j), status[j] = "cancelled"
      PROVE  ~InPass(j)'
  <2>1. CASE SelectJobs
    BY <1>2, <2>1 DEF SelectJobs, InPass, DueJobs, OpenJobs
  <2>2. ASSUME NEW k \in Jobs, BeginJob(k)
        PROVE  ~InPass(j)'
    BY <1>2, <2>2 DEF BeginJob, InPass
  <2>3. CASE workerStep \notin {"idle", "next"} /\ job' = job /\ batch' \in {batch, {}}
    BY <1>2, <2>3 DEF InPass
  <2>4. CASE UNCHANGED <<workerStep, job, batch>>
    BY <1>2, <2>4 DEF InPass
  <2>5. CASE workerStep' = "idle" /\ batch' = {}
    BY <2>5 DEF InPass
  <2> QED
    BY <1>2, <2>1, <2>2, <2>3, <2>4, <2>5 DEF Next, PassStep, CreateJob, CancelPasses,
       CancelCommits, CancelFails, ConfigureToken, PassEnds, WriteZips, BuildFails, StoreParts,
       NoSender, SkipDeleted, ResumeSent, MarkUploading, SendPart, MarkSent, UnlinkPart,
       MarkDeleted, FinishJob, PassFails
<1>3. IInv /\ [Next]_vars =>
        \A j \in Jobs : status[j] = "cancelled" /\ ~InPass(j) =>
          status'[j] = "cancelled" /\ ~InPass(j)' /\ received'[j] = received[j]
  BY <1>1, <1>2, StatusStep
<1> QED
  BY <1>3, Invariance, PTL DEF Spec, CancelledStaysOut

-----------------------------------------------------------------------------
(* The worker implements PartDelivery.                                     *)

Arrived(j) == {p \in PartsOf(j) : received[j][p] > 0}
Over == {j \in Jobs : status[j] = "completed"}

\* The parts that have arrived are the delivered ones and perhaps the next.
LEMMA ArrivedParts ==
  ASSUME IInv, NEW j \in Jobs
  PROVE  /\ count[j] \in Nat /\ PartCount[j] \in Nat /\ count[j] <= PartCount[j]
         /\ count[j] + 1 \in Arrived(j) => Arrived(j) = 1..count[j] + 1
         /\ count[j] + 1 \notin Arrived(j) => Arrived(j) = 1..count[j]
<1>1. /\ PartsInv(j) /\ count[j] \in 0..PartCount[j] /\ PartCount[j] \in Nat \ {0}
      /\ \A p \in PartsOf(j) : received[j][p] \in Nat
  BY CountersAreNat DEF IInv
<1>2. \A p \in PartsOf(j) : p > count[j] + 1 => ~(received[j][p] > 0)
  BY <1>1 DEF PartsInv
<1>3. \A p \in PartsOf(j) : p <= count[j] => received[j][p] > 0
  BY <1>1 DEF PartsInv
<1>4. count[j] + 1 \in Arrived(j) => Arrived(j) = 1..count[j] + 1
  BY <1>1, <1>2, <1>3 DEF Arrived
<1>5. count[j] + 1 \notin Arrived(j) => Arrived(j) = 1..count[j]
  BY <1>1, <1>2, <1>3 DEF Arrived
<1> QED
  BY <1>1, <1>4, <1>5

\* An arrival, whatever becomes of the pass, is one of PartDelivery or, if
\* the part has arrived before, none.
LEMMA ArrivalImplements ==
  ASSUME IInv, workerStep = "send", Arrives, UNCHANGED <<status, count>>
  PROVE  [Delivery!Next]_(Delivery!vars)
<1> DEFINE arrived == [j \in Jobs |-> Cardinality(Arrived(j))]
<1>1. PICK k \in Jobs : k = job
  BY SendingPart
<1>2. PICK n \in PartsOf(k) : n = part
  BY <1>1, SendingPart
<1>3. n = count[k] + 1 /\ \A j \in Jobs : \A p \in PartsOf(j) : received[j][p] \in Nat
  BY <1>1, <1>2, SendingPart, CountersAreNat
<1>4. \A j \in Jobs : \A p \in PartsOf(j) :
        received'[j][p] = IF j = k /\ p = n THEN received[j][p] + 1 ELSE received[j][p]
  BY <1>1, <1>2, OneArrival
<1>5. \A j \in Jobs : Arrived(j)' = IF j = k THEN Arrived(j) \cup {n} ELSE Arrived(j)
  BY <1>3, <1>4 DEF Arrived
<1>6. CASE n \in Arrived(k)
  <2>1. \A j \in Jobs : Arrived(j)' = Arrived(j)
    BY <1>5, <1>6
  <2>2. arrived' = arrived
    BY <2>1
  <2> QED
    BY <2>2 DEF Delivery!vars, Arrived
<1>7. CASE n \notin Arrived(k)
  <2>1. /\ Arrived(k) = 1..count[k] /\ count[k] \in Nat /\ PartCount[k] \in Nat
        /\ count[k] < PartCount[k]
    BY <1>3, <1>7, ArrivedParts
  <2>2. Arrived(k)' = 1..count[k] + 1
    <3>1. Arrived(k)' = (1..count[k]) \cup {count[k] + 1}
      BY <1>3, <1>5, <2>1
    <3>2. \A c \in Nat : (1..c) \cup {c + 1} = 1..c + 1
      OBVIOUS
    <3> QED
      BY <2>1, <3>1, <3>2
  <2>3. Cardinality(Arrived(k)) = count[k] /\ Cardinality(Arrived(k)') = count[k] + 1
    BY <2>1, <2>2, PrefixCardinality
  <2>4. \A j \in Jobs :
          Cardinality(Arrived(j)') =
            IF j = k THEN Cardinality(Arrived(j)) + 1 ELSE Cardinality(Arrived(j))
    BY <1>5, <2>3
  <2>5. arrived' = [arrived EXCEPT ![k] = @ + 1] /\ arrived[k] = count[k]
    BY <2>3, <2>4
  <2>6. Delivery!Arrive(k)
    BY <2>1, <2>5 DEF Delivery!Arrive, Arrived
  <2> QED
    BY <2>6 DEF Delivery!Next
<1> QED
  BY <1>6, <1>7

\* Only the deletion of the last part, or the end of the loop, completes a job.
LEMMA OverStep ==
  ASSUME IInv, [Next]_vars
  PROVE  Over' = Over \/ (/\ MarkDeleted \/ FinishJob
                          /\ job \in Jobs /\ count[job] = PartCount[job]
                          /\ Over' = Over \cup {job})
<1>1. \A j \in Jobs : status[j] = "completed" => status'[j] = "completed"
  BY StatusStep
<1>2. CASE MarkDeleted \/ FinishJob
  <2>1. \A j \in Jobs : status'[j] # status[j] => j = job
    BY <1>2 DEF MarkDeleted, FinishJob, IInv, TypeOK
  <2>2. job \in Jobs
    BY <1>2 DEF MarkDeleted, FinishJob, IInv, TypeOK
  <2>3. status'[job] = "completed" /\ status[job] # "completed" => AllSent
    BY <1>2, <2>2 DEF MarkDeleted, FinishJob, IInv, TypeOK
  <2>4. AllSent => count[job] = PartCount[job]
    BY <2>2, PartsAssumption DEF IInv, TypeOK
  <2> QED
    BY <1>1, <1>2, <2>1, <2>2, <2>3, <2>4 DEF Over
<1>3. CASE ~(MarkDeleted \/ FinishJob)
  <2>1. CASE UNCHANGED status
    BY <2>1 DEF Over
  <2>2. CASE StoreParts \/ NoSender \/ MarkUploading \/ MarkSent
    <3>1. \A j \in Jobs : status'[j] = "completed" => status[j] = "completed"
      BY <2>2 DEF StoreParts, NoSender, MarkUploading, MarkSent, IInv, TypeOK
    <3> QED
      BY <1>1, <3>1 DEF Over
  <2>3. ASSUME NEW i \in Jobs, CreateJob(i) \/ CancelCommits(i)
        PROVE  Over' = Over
    <3>1. \A j \in Jobs : status'[j] = "completed" => status[j] = "completed"
      BY <2>3 DEF CreateJob, CancelCommits, IInv, TypeOK
    <3> QED
      BY <1>1, <3>1 DEF Over
  <2>4. ASSUME NEW i \in Jobs, CancelPasses(i) \/ CancelFails(i) \/ BeginJob(i)
        PROVE  UNCHANGED status
    BY <2>4 DEF CancelPasses, CancelFails, BeginJob
  <2>5. ASSUME \/ ConfigureToken \/ SelectJobs \/ PassEnds \/ WriteZips \/ BuildFails
               \/ SkipDeleted \/ ResumeSent \/ SendPart \/ UnlinkPart \/ PassFails
               \/ UNCHANGED vars
        PROVE  UNCHANGED status
    BY <2>5 DEF ConfigureToken, SelectJobs, PassEnds, WriteZips, BuildFails, SkipDeleted,
                ResumeSent, SendPart, UnlinkPart, PassFails
  <2> QED
    BY <1>3, <2>1, <2>2, <2>3, <2>4, <2>5 DEF Next, PassStep
<1> QED
  BY <1>2, <1>3

\* Every part arrives in its turn and a job is over only when all of them are
\* acknowledged, through every interruption.
THEOREM Implements == Spec => DeliverySpec
<1>1. Init => Delivery!Init
  <2> SUFFICES ASSUME Init  PROVE  Delivery!Init
    OBVIOUS
  <2>1. \A j \in Jobs : Arrived(j) = {}
    BY DEF Init, Arrived
  <2>2. [j \in Jobs |-> Cardinality(Arrived(j))] = [j \in Jobs |-> 0]
    BY <2>1, FS_EmptySet
  <2> QED
    BY <2>2 DEF Init, Delivery!Init, Arrived
<1>2. ASSUME IInv, [Next]_vars  PROVE  [Delivery!Next]_(Delivery!vars)
  <2> DEFINE arrived == [j \in Jobs |-> Cardinality(Arrived(j))]
  <2>1. CASE workerStep = "send" /\ Arrives
    <3>1. UNCHANGED <<status, count>>
      <4>1. received' # received
        <5>1. job \in Jobs /\ part \in PartsOf(job) /\ received[job][part] \in Nat
          BY <1>2, <2>1, SendingPart, CountersAreNat
        <5>2. received'[job][part] = received[job][part] + 1
          BY <1>2, <2>1, <5>1, OneArrival
        <5> QED
          BY <5>1, <5>2
      <4>2. SendPart \/ PassFails
        <5> HIDE DEF Arrives
        <5> QED
          BY <1>2, <4>1 DEF Next, PassStep, CreateJob, CancelPasses, CancelCommits, CancelFails,
                 ConfigureToken, SelectJobs, BeginJob, PassEnds, WriteZips, BuildFails,
                 StoreParts, NoSender, SkipDeleted, ResumeSent, MarkUploading, MarkSent,
                 UnlinkPart, MarkDeleted, FinishJob
      <4> QED
        BY <4>2 DEF SendPart, PassFails
    <3> QED
      BY <1>2, <2>1, <3>1, ArrivalImplements
  <2>2. CASE MarkSent
    <3>1. /\ job \in Jobs /\ part = count[job] + 1 /\ part \in Arrived(job)
          /\ received' = received /\ count' = [count EXCEPT ![job] = @ + 1]
      BY <1>2, <2>2, SendingPart DEF MarkSent, IInv, PassInv, Arrived
    <3>2. Cardinality(Arrived(job)) = count[job] + 1 /\ count[job] \in Nat
      BY <1>2, <3>1, ArrivedParts, PrefixCardinality
    <3>3. arrived' = arrived
      BY <3>1 DEF Arrived
    <3>4. Over' = Over
      BY <1>2, <2>2, OverStep DEF MarkSent, MarkDeleted, FinishJob
    <3>5. Delivery!Acknowledge(job)
      BY <3>1, <3>2, <3>3, <3>4 DEF Delivery!Acknowledge, Arrived, Over
    <3> QED
      BY <3>1, <3>5 DEF Delivery!Next
  <2>3. CASE UNCHANGED <<received, count>>
    <3>1. arrived' = arrived
      BY <2>3 DEF Arrived
    <3>2. CASE Over' = Over
      BY <2>3, <3>1, <3>2 DEF Delivery!vars, Arrived, Over
    <3>3. CASE Over' # Over
      <4>1. PICK k \in Jobs : count[k] = PartCount[k] /\ Over' = Over \cup {k}
        BY <1>2, <3>3, OverStep
      <4>2. Delivery!Finish(k)
        BY <2>3, <3>1, <4>1 DEF Delivery!Finish, Arrived, Over
      <4> QED
        BY <4>2 DEF Delivery!Next
    <3> QED
      BY <3>2, <3>3
  <2>4. (workerStep = "send" /\ Arrives) \/ MarkSent \/ UNCHANGED <<received, count>>
    <3> HIDE DEF Arrives
    <3> QED
      BY <1>2 DEF Next, PassStep, CreateJob, CancelPasses, CancelCommits, CancelFails,
             ConfigureToken, SelectJobs, BeginJob, PassEnds, WriteZips, BuildFails, StoreParts,
             NoSender, SkipDeleted, ResumeSent, MarkUploading, SendPart, UnlinkPart,
             MarkDeleted, FinishJob, PassFails
  <2> QED
    BY <2>1, <2>2, <2>3, <2>4
<1>3. QED
  BY <1>1, <1>2, Invariance, PTL DEF Spec, DeliverySpec, Delivery!Spec

\* Counter, rows, files and chat agree in every state.
THEOREM PartsMatch == Spec => []PartsAccounted
  BY CountsParts, CompletedIsDelivered, UnsentIsOnDisk, PTL DEF PartsAccounted

\* Completed jobs stay completed, and quiet cancellations hold.
THEOREM OutcomesStand == Spec => OutcomesStay
  BY CompletionIsFinal, QuietCancelHolds DEF OutcomesStay

-----------------------------------------------------------------------------
(* Repetitions are paid for.                                               *)

\* The parts that have arrived, are not recorded, and are not about to be: an
\* interruption has been spent on each of them, and sending it again is free.
Owed ==
  {q \in Jobs \X Nat : /\ q[2] \in PartsOf(q[1]) /\ q[2] > count[q[1]]
                       /\ received[q[1]][q[2]] > 0 /\ ~InHand(q[1], q[2])}

RepeatsInv ==
  /\ IsFiniteSet(Repeats) /\ IsFiniteSet(Owed)
  /\ Cardinality(Repeats) + Cardinality(Owed) <= faults

\* The members of Repeats, now and after a step.
LEMMA InRepeats ==
  /\ \A r : r \in Repeats <=>
       \E j \in Jobs : \E p \in PartsOf(j) : \E n \in 2..received[j][p] : r = <<j, p, n>>
  /\ \A r : r \in Repeats' <=>
       \E j \in Jobs : \E p \in PartsOf(j) : \E n \in 2..received'[j][p] : r = <<j, p, n>>
<1>1. ASSUME NEW rcv
      PROVE  \A r : r \in UNION {UNION {{<<j, p, n>> : n \in 2..rcv[j][p]} : p \in PartsOf(j)}
                                : j \in Jobs} <=>
               \E j \in Jobs : \E p \in PartsOf(j) : \E n \in 2..rcv[j][p] : r = <<j, p, n>>
  <2> DEFINE A(j, p) == {<<j, p, n>> : n \in 2..rcv[j][p]}
  <2> DEFINE B(j) == UNION {A(j, p) : p \in PartsOf(j)}
  <2>1. \A j, p, r : r \in A(j, p) <=> \E n \in 2..rcv[j][p] : r = <<j, p, n>>
    OBVIOUS
  <2> HIDE DEF A
  <2>2. \A j, r : r \in B(j) <=> \E p \in PartsOf(j) : r \in A(j, p)
    OBVIOUS
  <2> HIDE DEF B
  <2>3. \A r : r \in UNION {B(j) : j \in Jobs} <=> \E j \in Jobs : r \in B(j)
    OBVIOUS
  <2>4. \A r : r \in UNION {B(j) : j \in Jobs} <=>
          \E j \in Jobs : \E p \in PartsOf(j) : \E n \in 2..rcv[j][p] : r = <<j, p, n>>
    BY <2>1, <2>2, <2>3
  <2> QED
    BY <2>4, Zenon DEF A, B
<1> QED
  BY <1>1 DEF Repeats

\* Unchanged counts of arrivals leave the repetitions as they are.
LEMMA SameRepeats ==
  ASSUME received' = received  PROVE  Repeats' = Repeats
BY DEF Repeats

\* An arrival adds a repetition if the part has arrived before.
LEMMA ArrivalRepeats ==
  ASSUME IInv, workerStep = "send", Arrives
  PROVE  /\ received[job][part] = 0 => Repeats' = Repeats
         /\ Repeats' \subseteq Repeats \cup {<<job, part, received[job][part] + 1>>}
<1>1. job \in Jobs /\ part \in PartsOf(job)
  BY SendingPart
<1>2. \A j \in Jobs : \A p \in PartsOf(j) :
        /\ received[j][p] \in Nat
        /\ received'[j][p] = IF j = job /\ p = part THEN received[j][p] + 1 ELSE received[j][p]
  BY <1>1, OneArrival, CountersAreNat
<1>3. ASSUME NEW j \in Jobs, NEW p \in PartsOf(j), NEW n \in 2..received'[j][p]
      PROVE  \/ n \in 2..received[j][p]
             \/ j = job /\ p = part /\ n = received[j][p] + 1 /\ received[j][p] # 0
  BY <1>2
<1>4. \A j \in Jobs : \A p \in PartsOf(j) : \A n \in 2..received[j][p] : n \in 2..received'[j][p]
  BY <1>2
<1> HIDE DEF Arrives
<1>5. Repeats \subseteq Repeats'
  <2> SUFFICES ASSUME NEW r \in Repeats  PROVE  r \in Repeats'
    OBVIOUS
  <2>1. PICK j \in Jobs : \E p \in PartsOf(j) : \E n \in 2..received[j][p] : r = <<j, p, n>>
    BY InRepeats
  <2>2. \E p \in PartsOf(j) : \E n \in 2..received'[j][p] : r = <<j, p, n>>
    BY <1>4, <2>1
  <2> QED
    BY <2>2, InRepeats
<1>6. Repeats' \subseteq Repeats \cup {<<job, part, received[job][part] + 1>>}
  <2> SUFFICES ASSUME NEW r \in Repeats', r # <<job, part, received[job][part] + 1>>
               PROVE  r \in Repeats
    OBVIOUS
  <2>1. PICK j \in Jobs : \E p \in PartsOf(j) : \E n \in 2..received'[j][p] : r = <<j, p, n>>
    BY InRepeats
  <2>2. \E p \in PartsOf(j) : \E n \in 2..received[j][p] : r = <<j, p, n>>
    BY <1>3, <2>1
  <2> QED
    BY <2>2, InRepeats
<1>7. received[job][part] = 0 => Repeats' \subseteq Repeats
  <2> SUFFICES ASSUME received[job][part] = 0, NEW r \in Repeats'  PROVE  r \in Repeats
    OBVIOUS
  <2>1. PICK j \in Jobs : \E p \in PartsOf(j) : \E n \in 2..received'[j][p] : r = <<j, p, n>>
    BY InRepeats
  <2>2. \E p \in PartsOf(j) : \E n \in 2..received[j][p] : r = <<j, p, n>>
    BY <1>3, <2>1
  <2> QED
    BY <2>2, InRepeats
<1> QED
  BY <1>5, <1>6, <1>7

\* What a step may do to repetitions and debts: settle one debt by a repetition,
\* or add one of the two at the price of a fault.
LEMMA Paid ==
  ASSUME IInv, RepeatsInv, NEW x, NEW y,
         Repeats' \subseteq Repeats \cup {y}, Owed' \subseteq Owed \cup {x},
         \/ Repeats' \subseteq Repeats /\ Owed' \subseteq Owed /\ faults' \in {faults, faults + 1}
         \/ x \in Owed /\ Owed' \subseteq Owed \ {x} /\ faults' = faults
         \/ /\ Repeats' \subseteq Repeats \/ Owed' \subseteq Owed
            /\ faults' = faults + 1
  PROVE  RepeatsInv'
<1>1. faults \in Nat /\ IsFiniteSet(Repeats) /\ IsFiniteSet(Owed)
      /\ Cardinality(Repeats) + Cardinality(Owed) <= faults
  BY DEF IInv, TypeOK, RepeatsInv
<1>2. /\ IsFiniteSet(Repeats') /\ Cardinality(Repeats) \in Nat /\ Cardinality(Repeats') \in Nat
      /\ Cardinality(Repeats') <= Cardinality(Repeats) + 1
      /\ Repeats' \subseteq Repeats => Cardinality(Repeats') <= Cardinality(Repeats)
  BY <1>1, OneMore
<1>3. /\ IsFiniteSet(Owed') /\ Cardinality(Owed) \in Nat /\ Cardinality(Owed') \in Nat
      /\ Cardinality(Owed') <= Cardinality(Owed) + 1
      /\ Owed' \subseteq Owed => Cardinality(Owed') <= Cardinality(Owed)
      /\ x \in Owed /\ Owed' \subseteq Owed \ {x} => Cardinality(Owed') <= Cardinality(Owed) - 1
  BY <1>1, OneMore
<1>4. Cardinality(Repeats') + Cardinality(Owed') <= faults'
  BY <1>1, <1>2, <1>3
<1> QED
  BY <1>2, <1>3, <1>4 DEF RepeatsInv

\* A step that neither sends nor interrupts.
LEMMA QuietStep ==
  ASSUME IInv, RepeatsInv, received' = received, faults' \in {faults, faults + 1},
         \A j \in Jobs : \A p \in PartsOf(j) :
           /\ count[j] \in Nat /\ count'[j] \in Nat /\ count[j] <= count'[j]
           /\ p > count'[j] /\ InHand(j, p) => InHand(j, p)'
  PROVE  RepeatsInv'
<1>1. Repeats' = Repeats
  BY SameRepeats
<1>2. Owed' \subseteq Owed
  BY PartsAssumption DEF Owed
<1> QED
  BY <1>1, <1>2, Paid

\* Repetitions and what is owed are never more than the faults.
LEMMA RepeatsStep ==
  ASSUME IInv, RepeatsInv, [Next]_vars  PROVE  RepeatsInv'
<1> USE PartsAssumption
<1>types. /\ faults \in Nat
          /\ \A j \in Jobs : count[j] \in Nat /\ PartCount[j] \in Nat
  BY CountersAreNat DEF IInv, TypeOK
<1>1. CASE SendPart
  <2>1. /\ workerStep = "send" /\ Arrives /\ workerStep' = "received"
        /\ UNCHANGED <<job, part, count, faults>>
    BY <1>1 DEF SendPart
  <2>2. /\ job \in Jobs /\ part \in PartsOf(job) /\ part \in Nat /\ part = count[job] + 1
        /\ received[job][part] \in Nat
    BY <2>1, SendingPart, CountersAreNat
  <2>3. \A j \in Jobs : \A p \in PartsOf(j) :
          received'[j][p] = IF j = job /\ p = part THEN received[j][p] + 1 ELSE received[j][p]
    BY <2>1, <2>2, OneArrival
  <2>4. Owed' \subseteq Owed \ {<<job, part>>}
    BY <2>1, <2>2, <2>3 DEF Owed, InHand
  <2>5. received[job][part] # 0 => <<job, part>> \in Owed
    <3>1. <<job, part>> \in Jobs \X Nat /\ ~InHand(job, part) /\ part > count[job]
      BY <2>1, <2>2, <1>types DEF InHand
    <3> QED
      BY <2>2, <3>1 DEF Owed
  <2>6. /\ received[job][part] = 0 => Repeats' = Repeats
        /\ Repeats' \subseteq Repeats \cup {<<job, part, received[job][part] + 1>>}
    BY <2>1, ArrivalRepeats
  <2>7. Repeats' \subseteq Repeats \/ <<job, part>> \in Owed
    BY <2>2, <2>5, <2>6
  <2> QED
    BY <2>1, <2>4, <2>6, <2>7, Paid
<1>2. CASE MarkSent
  <2>1. /\ job \in Jobs /\ part = count[job] + 1 /\ received' = received /\ faults' = faults
        /\ \A j \in Jobs : count'[j] = IF j = job THEN count[j] + 1 ELSE count[j]
    BY <1>2, SendingPart DEF MarkSent, IInv, TypeOK
  <2> QED
    BY <1>types, <2>1, QuietStep DEF InHand
<1>3. CASE PassFails
  <2>1. workerStep' = "idle" /\ count' = count /\ faults' = faults + 1
    BY <1>3 DEF PassFails
  <2>2. CASE received' = received
    <3>1. Owed' \subseteq Owed \cup {<<job, part>>}
      BY <2>1, <2>2 DEF Owed, InHand
    <3>2. Repeats' = Repeats
      BY <2>2, SameRepeats
    <3> QED
      BY <2>1, <3>1, <3>2, Paid
  <2>3. CASE workerStep = "send" /\ Arrives
    <3>1. job \in Jobs /\ part \in PartsOf(job) /\ part \in Nat /\ part = count[job] + 1
          /\ received[job][part] \in Nat
      BY <2>3, SendingPart, CountersAreNat
    <3>2. \A j \in Jobs : \A p \in PartsOf(j) :
            received'[j][p] = IF j = job /\ p = part THEN received[j][p] + 1 ELSE received[j][p]
      BY <2>3, <3>1, OneArrival
    <3>3. Owed' \subseteq Owed \cup {<<job, part>>}
      BY <2>1, <2>3, <3>2 DEF Owed, InHand
    <3>4. received[job][part] # 0 => <<job, part>> \in Owed
      <4>1. <<job, part>> \in Jobs \X Nat /\ ~InHand(job, part) /\ part > count[job]
        BY <2>3, <3>1, <1>types DEF InHand
      <4> QED
        BY <3>1, <4>1 DEF Owed
    <3>5. /\ received[job][part] = 0 => Repeats' = Repeats
          /\ Repeats' \subseteq Repeats \cup {<<job, part, received[job][part] + 1>>}
      BY <2>3, ArrivalRepeats
    <3>6. Repeats' \subseteq Repeats \/ <<job, part>> \in Owed
      BY <3>1, <3>4, <3>5
    <3>7. <<job, part>> \in Owed => Owed' \subseteq Owed
      BY <3>3
    <3> QED
      BY <2>1, <3>3, <3>5, <3>6, <3>7, Paid
  <2> QED
    BY <1>3, <2>2, <2>3 DEF PassFails
<1>4. CASE ~(SendPart \/ MarkSent \/ PassFails)
  <2>1. /\ received' = received /\ count' = count /\ faults' \in {faults, faults + 1}
        /\ workerStep = "received" => UNCHANGED <<workerStep, job, part>>
    BY <1>4 DEF Next, PassStep, CreateJob, CancelPasses, CancelCommits, CancelFails,
         ConfigureToken, SelectJobs, BeginJob, PassEnds, WriteZips, BuildFails, StoreParts,
         NoSender, SkipDeleted, ResumeSent, MarkUploading, UnlinkPart, MarkDeleted, FinishJob
  <2> QED
    BY <1>types, <2>1, QuietStep DEF InHand
<1> QED
  BY <1>1, <1>2, <1>3, <1>4

\* Over all jobs and parts an interruption costs one repetition at most.
THEOREM InterruptionsArePaid == Spec => []ResendsNeedFaults
<1>1. Init => RepeatsInv
  <2> SUFFICES ASSUME Init  PROVE  RepeatsInv
    OBVIOUS
  <2>1. \A j \in Jobs : \A p \in PartsOf(j) : received[j][p] = 0
    BY DEF Init
  <2>2. Repeats = {}
    <3>1. 2..0 = {}
      OBVIOUS
    <3> QED
      BY <2>1, <3>1, SMTT(30) DEF Repeats
  <2>3. Owed = {} /\ faults = 0
    BY <2>1 DEF Owed, Init
  <2> QED
    BY <2>2, <2>3, FS_EmptySet DEF RepeatsInv
<1>2. IInv /\ RepeatsInv /\ [Next]_vars => RepeatsInv'
  BY RepeatsStep
<1>3. RepeatsInv /\ IInv => ResendsNeedFaults
  <2> SUFFICES ASSUME RepeatsInv, IInv  PROVE  ResendsNeedFaults
    OBVIOUS
  <2>1. Cardinality(Repeats) \in Nat /\ Cardinality(Owed) \in Nat /\ faults \in Nat
    BY FS_CardinalityType DEF RepeatsInv, IInv, TypeOK
  <2> QED
    BY <2>1 DEF RepeatsInv, ResendsNeedFaults
<1> QED
  BY <1>1, <1>2, <1>3, Invariance, PTL DEF Spec

=============================================================================
