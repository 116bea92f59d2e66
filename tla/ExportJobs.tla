----------------------------- MODULE ExportJobs -----------------------------
(***************************************************************************)
(* The exports of the server: the worker that builds the ZIP parts of a    *)
(* job, sends them to Telegram and deletes them (process_due_export_jobs_  *)
(* once), and the administrator who cancels a job meanwhile.               *)
(*                                                                         *)
(* One pass of the worker uses one session: it locks its jobs and keeps    *)
(* its copies of them, but every commit releases the locks. A step is a    *)
(* transaction, a file operation or a request to Telegram. status, parts   *)
(* and count are what the database has committed.                          *)
(***************************************************************************)
EXTENDS Integers, FiniteSets

CONSTANTS
  Jobs,         \* export jobs, numbered in the order of created_at
  PartCount,    \* PartCount[j]: the parts that the snapshot of j fills
  Unbuildable,  \* the jobs whose first image exceeds a part, or with one that is gone
  BatchSize,    \* batch_size of one pass
  MaxFaults     \* bound: passes and cancellations that fail midway

ASSUME JobsAssumption == Jobs \subseteq Nat /\ Unbuildable \subseteq Jobs
ASSUME PartsAssumption == PartCount \in [Jobs -> Nat \ {0}]
ASSUME BoundsAssumption == BatchSize \in Nat \ {0} /\ MaxFaults \in Nat

VARIABLES
  status,      \* export_jobs.status, "absent" before the request
  parts,       \* export_parts.status, "none" before the row exists
  count,       \* export_jobs.completed_part_count
  zip,         \* the parts whose ZIP file is on the disk
  sender,      \* whether a bot token is configured
  workerStep,  \* where the pass is
  batch,       \* the jobs of the pass still to be processed
  job,         \* the job being processed
  part,        \* the position in existing_parts
  loaded,      \* the statuses of the jobs of the pass in its session
  write,       \* the status that the open transaction has written for job
  held,        \* the rows of export_jobs that the open transaction has locked
  cancelling,  \* the jobs whose cancellation is checked and not committed
  received,    \* history: how often each part has arrived in the chat
  faults       \* faults so far

jobVars    == <<status, parts, count>>
passVars   == <<batch, job, part, loaded>>
txVars     == <<write, held>>
vars == <<jobVars, zip, sender, workerStep, passVars, txVars, cancelling, received, faults>>

PartsOf(j) == 1..PartCount[j]
Statuses == {"absent", "pending", "processing", "completed", "cancelled"}
PartStatuses == {"none", "created", "uploading", "sent", "deleted"}

TypeOK ==
  /\ status \in [Jobs -> Statuses]
  /\ count \in [Jobs -> Nat] /\ zip \in [Jobs -> SUBSET Nat]
  /\ \A j \in Jobs :
       /\ parts[j] \in [PartsOf(j) -> PartStatuses]
       /\ count[j] \in 0..PartCount[j] /\ zip[j] \subseteq PartsOf(j)
       /\ received[j] \in [PartsOf(j) -> 0..MaxFaults + 1]
  /\ sender \in BOOLEAN
  /\ workerStep \in {"idle", "next", "build", "built", "parts", "send", "received",
                     "unlink", "unlinked"}
  /\ batch \subseteq Jobs /\ held \subseteq Jobs /\ cancelling \subseteq Jobs
  /\ workerStep \notin {"idle", "next"} => job \in Jobs
  /\ part \in Nat \ {0}
  /\ loaded \in [Jobs -> Statuses]
  /\ write \in {"none", "processing"}
  /\ faults \in 0..MaxFaults

Init ==
  /\ status = [j \in Jobs |-> "absent"]
  /\ parts = [j \in Jobs |-> [p \in PartsOf(j) |-> "none"]]
  /\ count = [j \in Jobs |-> 0]
  /\ zip = [j \in Jobs |-> {}]
  /\ sender \in BOOLEAN
  /\ workerStep = "idle" /\ batch = {} /\ job = 0 /\ part = 1
  /\ loaded = [j \in Jobs |-> "absent"]
  /\ write = "none" /\ held = {}
  /\ cancelling = {}
  /\ received = [j \in Jobs |-> [p \in PartsOf(j) |-> 0]]
  /\ faults = 0

Fault == faults < MaxFaults /\ faults' = faults + 1
Goto(step) == workerStep' = step

-----------------------------------------------------------------------------
(* Requests.                                                               *)

\* create_export_request; ImageStore has its snapshot of the images.
CreateJob(j) ==
  /\ status[j] = "absent" /\ \A k \in Jobs : k < j => status[k] # "absent"
  /\ status' = [status EXCEPT ![j] = "pending"]
  /\ UNCHANGED <<parts, count, zip, sender, workerStep, passVars, txVars, cancelling,
                 received, faults>>

\* The server gets its bot token, and its processes are restarted with it.
ConfigureToken ==
  /\ ~sender /\ workerStep = "idle"
  /\ sender' = TRUE
  /\ UNCHANGED <<jobVars, zip, workerStep, passVars, txVars, cancelling, received, faults>>

UploadStarted(j) ==
  \/ \E p \in PartsOf(j) : parts[j][p] \in {"uploading", "sent", "deleted"}
  \/ count[j] > 0

\* cancel_export_job has locked the row of the job and finds that no upload has
\* begun. (A refusal changes nothing.)
CancelPasses(j) ==
  /\ status[j] # "absent" /\ j \notin cancelling \cup held
  /\ ~UploadStarted(j) /\ status[j] # "completed"
  /\ cancelling' = cancelling \cup {j}
  /\ UNCHANGED <<jobVars, zip, sender, workerStep, passVars, txVars, received, faults>>

CancelCommits(j) ==
  /\ j \in cancelling
  /\ status' = [status EXCEPT ![j] = "cancelled"]
  /\ cancelling' = cancelling \ {j}
  /\ UNCHANGED <<parts, count, zip, sender, workerStep, passVars, txVars, received, faults>>

CancelFails(j) ==
  /\ j \in cancelling
  /\ Fault
  /\ cancelling' = cancelling \ {j}
  /\ UNCHANGED <<jobVars, zip, sender, workerStep, passVars, txVars, received>>

-----------------------------------------------------------------------------
(* The pass of the worker.                                                 *)

OpenJobs == {j \in Jobs : status[j] \in {"pending", "processing"}}

\* ORDER BY created_at LIMIT batch_size FOR UPDATE SKIP LOCKED
DueJobs ==
  LET free == OpenJobs \ cancelling
  IN  {j \in free : Cardinality({k \in free : k < j}) < BatchSize}

SelectJobs ==
  /\ workerStep = "idle" /\ DueJobs # {}
  /\ batch' = DueJobs /\ held' = DueJobs /\ loaded' = status
  /\ Goto("next")
  /\ UNCHANGED <<jobVars, zip, sender, job, part, write, cancelling, received, faults>>

\* Mutant: the lock of another transaction is not respected.
RowFreeAlways(j) == TRUE

\* An UPDATE of the row of j need not wait.
RowFree(j) == j \notin cancelling

Built(j) == \A p \in PartsOf(j) : parts[j][p] # "none"

\* Mutant: existing_parts is not looked for and the parts are always built.
BeginJobAnew(j) ==
  /\ workerStep = "next" /\ j \in batch /\ \A k \in batch : j <= k
  /\ RowFree(j)
  /\ job' = j /\ batch' = batch \ {j} /\ part' = 1
  /\ held' = held \cup {j}
  /\ write' = IF loaded[j] = "processing" THEN "none" ELSE "processing"
  /\ loaded' = [loaded EXCEPT ![j] = "processing"]
  /\ Goto("build")
  /\ UNCHANGED <<jobVars, zip, sender, cancelling, received, faults>>

\* process_export_job up to the query for existing_parts, which flushes
\* claimed_at, and the status if it differs from the one in the session: not
\* from the one in the row, which may have been cancelled since the first
\* commit of the pass.
BeginJob(j) ==
  /\ workerStep = "next" /\ j \in batch /\ \A k \in batch : j <= k
  /\ RowFree(j)
  /\ job' = j /\ batch' = batch \ {j} /\ part' = 1
  /\ held' = held \cup {j}
  /\ write' = IF loaded[j] = "processing" THEN "none" ELSE "processing"
  /\ loaded' = [loaded EXCEPT ![j] = "processing"]
  /\ Goto(IF Built(j) THEN "parts" ELSE "build")
  /\ UNCHANGED <<jobVars, zip, sender, cancelling, received, faults>>

\* A commit writes what has been flushed and releases all rows.
CommitJob ==
  /\ status' = IF write = "none" THEN status ELSE [status EXCEPT ![job] = write]
  /\ write' = "none" /\ held' = {}

EndPass ==
  /\ Goto("idle")
  /\ batch' = {} /\ write' = "none" /\ held' = {} /\ loaded' = [j \in Jobs |-> "absent"]
  /\ UNCHANGED <<jobVars, sender, job, part, cancelling>>

PassEnds ==
  /\ workerStep = "next" /\ batch = {}
  /\ EndPass
  /\ UNCHANGED <<zip, received, faults>>

\* build_export_zip_parts, over whatever an interrupted build has left ...
WriteZips ==
  /\ workerStep = "build" /\ job \notin Unbuildable
  /\ zip' = [zip EXCEPT ![job] = PartsOf(job)]
  /\ Goto("built")
  /\ UNCHANGED <<jobVars, sender, passVars, txVars, cancelling, received, faults>>

\* ... raises for an image that does not fit into a part or has no file: the
\* whole pass rolls back. (What it leaves on the disk no row names.)
BuildFails ==
  /\ workerStep = "build" /\ job \in Unbuildable
  /\ EndPass
  /\ UNCHANGED <<zip, received, faults>>

\* The rows of the parts, in the transaction that flushed the job.
StoreParts ==
  /\ workerStep = "built"
  /\ parts' = [parts EXCEPT ![job] = [p \in PartsOf(job) |-> "created"]]
  /\ CommitJob
  /\ Goto("parts")
  /\ UNCHANGED <<count, zip, sender, passVars, cancelling, received, faults>>

NoSender ==
  /\ workerStep = "parts" /\ ~sender
  /\ CommitJob
  /\ Goto("next")
  /\ UNCHANGED <<parts, count, zip, sender, passVars, cancelling, received, faults>>

AtPart(states) ==
  workerStep = "parts" /\ sender /\ part <= PartCount[job] /\ parts[job][part] \in states

SkipDeleted ==
  /\ AtPart({"deleted"})
  /\ part' = part + 1
  /\ UNCHANGED <<jobVars, zip, sender, workerStep, batch, job, loaded, txVars, cancelling,
                 received, faults>>

\* Mutant: a part whose upload was interrupted is taken for sent.
ResumeUploading ==
  /\ AtPart({"uploading", "sent"})
  /\ Goto("unlink")
  /\ UNCHANGED <<jobVars, zip, sender, passVars, txVars, cancelling, received, faults>>

ResumeSent ==
  /\ AtPart({"sent"})
  /\ Goto("unlink")
  /\ UNCHANGED <<jobVars, zip, sender, passVars, txVars, cancelling, received, faults>>

\* Mutant: a part whose upload was interrupted is not taken up again.
MarkUploadingCreated ==
  /\ AtPart({"created"})
  /\ parts' = [parts EXCEPT ![job][part] = "uploading"]
  /\ CommitJob
  /\ Goto("send")
  /\ UNCHANGED <<count, zip, sender, passVars, cancelling, received, faults>>

\* A part that is created, or uploading since an interrupted pass.
MarkUploading ==
  /\ AtPart({"created", "uploading"})
  /\ parts' = [parts EXCEPT ![job][part] = "uploading"]
  /\ CommitJob
  /\ Goto("send")
  /\ UNCHANGED <<count, zip, sender, passVars, cancelling, received, faults>>

Arrives == received' = [received EXCEPT ![job][part] = @ + 1]

\* Telegram accepts the document; without its file there is nothing to send.
SendPart ==
  /\ workerStep = "send" /\ part \in zip[job]
  /\ Arrives
  /\ Goto("received")
  /\ UNCHANGED <<jobVars, zip, sender, passVars, txVars, cancelling, faults>>

\* The part and completed_part_count, in one transaction.
MarkSent ==
  /\ workerStep = "received" /\ RowFree(job)
  /\ parts' = [parts EXCEPT ![job][part] = "sent"]
  /\ count' = [count EXCEPT ![job] = @ + 1]
  /\ CommitJob
  /\ Goto("unlink")
  /\ UNCHANGED <<zip, sender, passVars, cancelling, received, faults>>

\* _delete_sent_part: the file, with missing_ok ...
UnlinkPart ==
  /\ workerStep = "unlink"
  /\ zip' = [zip EXCEPT ![job] = @ \ {part}]
  /\ Goto("unlinked")
  /\ UNCHANGED <<jobVars, sender, passVars, txVars, cancelling, received, faults>>

\* Mutant: off by one, the job is completed with its last part to go.
AllSentEarly == count[job] + 1 >= PartCount[job]

AllSent == count[job] >= PartCount[job]

\* ... and the row; the last part completes the job, whatever its row says.
MarkDeleted ==
  /\ workerStep = "unlinked" /\ (AllSent => RowFree(job))
  /\ parts' = [parts EXCEPT ![job][part] = "deleted"]
  /\ status' = [status EXCEPT ![job] =
                  IF AllSent /\ loaded[job] # "completed" THEN "completed"
                  ELSE IF write # "none" THEN write ELSE @]
  /\ loaded' = [loaded EXCEPT ![job] = IF AllSent THEN "completed" ELSE @]
  /\ write' = "none" /\ held' = {}
  /\ part' = part + 1
  /\ Goto("parts")
  /\ UNCHANGED <<count, zip, sender, batch, job, cancelling, received, faults>>

\* After the loop: the last _delete_sent_part has completed the job already.
FinishJob ==
  /\ workerStep = "parts" /\ sender /\ part > PartCount[job]
  /\ IF AllSent
     THEN /\ loaded[job] # "completed" => RowFree(job)
          /\ status' = [status EXCEPT ![job] =
                          IF loaded[job] = "completed" THEN @ ELSE "completed"]
          /\ loaded' = [loaded EXCEPT ![job] = "completed"]
          /\ write' = "none" /\ held' = {}
     ELSE UNCHANGED <<status, loaded, txVars>>
  /\ Goto("next")
  /\ UNCHANGED <<parts, count, zip, sender, batch, job, part, cancelling, received, faults>>

\* A kill, or an exception out of the database, the disk or Telegram: the
\* session rolls back, and a request under way may have arrived or not.
PassFails ==
  /\ workerStep # "idle"
  /\ Fault
  /\ EndPass
  /\ UNCHANGED zip
  /\ \/ UNCHANGED received
     \/ workerStep = "send" /\ part \in zip[job] /\ Arrives

-----------------------------------------------------------------------------
PassStep ==
  \/ SelectJobs \/ PassEnds \/ WriteZips \/ BuildFails \/ StoreParts \/ NoSender
  \/ SkipDeleted \/ ResumeSent \/ MarkUploading \/ SendPart \/ MarkSent \/ UnlinkPart
  \/ MarkDeleted \/ FinishJob
  \/ \E j \in Jobs : BeginJob(j)

Next ==
  \/ \E j \in Jobs : CreateJob(j) \/ CancelPasses(j) \/ CancelCommits(j) \/ CancelFails(j)
  \/ ConfigureToken \/ PassStep \/ PassFails

Spec == Init /\ [][Next]_vars

\* The loop of the worker runs for as long as the service lives, a
\* cancellation is one request of the API, and PostgreSQL serves those who
\* wait for a row in turn. Faults are finitely many: Telegram accepts a
\* document in the end.
FairSpec ==
  /\ Spec
  /\ WF_vars(PassStep) /\ SF_vars(MarkSent) /\ SF_vars(MarkDeleted)
  /\ \A j \in Jobs : SF_vars(BeginJob(j)) /\ WF_vars(CancelCommits(j))

-----------------------------------------------------------------------------
(* Properties.                                                             *)

Delivered(j) == {p \in PartsOf(j) : parts[j][p] \in {"sent", "deleted"}}

\* completed_part_count, on which the completion of a job hangs, counts the
\* parts that were sent, through every interruption and resumption.
CountMatchesParts == \A j \in Jobs : count[j] = Cardinality(Delivered(j))

\* "Job completion after all parts are deleted" (docs/IMPLEMENTED.md): when a
\* job is completed all of its parts have arrived in the chat, and none is
\* left on the disk.
CompletedMeansDelivered ==
  \A j \in Jobs : status[j] = "completed" =>
    zip[j] = {} /\ \A p \in PartsOf(j) : received[j][p] > 0 /\ parts[j][p] = "deleted"

\* A part that still has to be sent has its file, wherever a pass was
\* interrupted, a rebuild included.
UnsentPartHasFile ==
  \A j \in Jobs : \A p \in PartsOf(j) :
    parts[j][p] \in {"created", "uploading"} => p \in zip[j]

\* Counter, part rows, ZIP files and chat agree, wherever a pass was interrupted
\* and resumed, and for completed jobs in particular.
PartsAccounted == CountMatchesParts /\ CompletedMeansDelivered /\ UnsentPartHasFile

\* "A part marked sent is not resent" (docs/operator/incident-recovery.md) and
\* sequential parts: what arrives is the first part not yet deleted, its row
\* says uploading, and the row of a delivered part never says so again.
SendsInOrder ==
  [][\A j \in Jobs : \A p \in PartsOf(j) :
       /\ received'[j][p] # received[j][p] =>
            /\ parts[j][p] = "uploading"
            /\ \A q \in PartsOf(j) : q < p => parts[j][q] = "deleted"
       /\ p \in Delivered(j) => p \in Delivered(j)']_vars

Repeats ==
  UNION {UNION {{<<j, p, n>> : n \in 2..received[j][p]} : p \in PartsOf(j)} : j \in Jobs}

\* The price of an interruption is bounded: over all jobs and parts, each one
\* makes at most the one part that was under way arrive once more.
ResendsNeedFaults == Cardinality(Repeats) <= faults

\* A completed job stays completed, although a cancellation that found no
\* upload may commit long after it looked.
CompletedIsFinal ==
  [][\A j \in Jobs : status[j] = "completed" => status'[j] = "completed"]_vars

InPass(j) == j \in batch \/ (workerStep \notin {"idle", "next"} /\ job = j)

\* A job that is cancelled while no pass has it in hand stays cancelled, no
\* pass takes it up, and nothing of it is sent any more.
CancelledStaysOut ==
  [][\A j \in Jobs : status[j] = "cancelled" /\ ~InPass(j) =>
       status'[j] = "cancelled" /\ ~InPass(j)' /\ received'[j] = received[j]]_vars

\* How a job has ended stands, although a cancellation and the pass that has
\* the job in hand both write its status from what they read before.
OutcomesStay == CompletedIsFinal /\ CancelledStaysOut

Delivery == INSTANCE PartDelivery WITH
  acked <- count,
  arrived <- [j \in Jobs |-> Cardinality({p \in PartsOf(j) : received[j][p] > 0})],
  over <- {j \in Jobs : status[j] = "completed"}

\* The worker delivers as PartDelivery promises.
DeliverySpec == Delivery!Spec

\* With a bot token every export ends, however its pass is interrupted, unless
\* it or one before it cannot be built.
JobsEnd ==
  \A j \in {k \in Jobs : \A u \in Unbuildable : k < u} :
    status[j] \in {"pending", "processing"} /\ sender ~>
      status[j] \in {"completed", "cancelled"}

\* docs/IMPLEMENTED.md: "Admin-only cancellation before Telegram upload
\* begins". An accepted cancellation holds: nothing is sent after it.
CancelIsFinal ==
  [][\A j \in Jobs : status[j] = "cancelled" =>
       status'[j] = "cancelled" /\ received'[j] = received[j]]_vars

=============================================================================
