----------------------------- MODULE ImageStore -----------------------------
(***************************************************************************)
(* The image archive of the server: the rows of table images, the JPEG     *)
(* files they point to, and the transactions that work on both: uploads    *)
(* (stage_image_row, finalize_image_storage), retention with its emergency *)
(* cleanup, reconciliation, and the snapshot an export takes.              *)
(*                                                                         *)
(* A variable of the database holds the committed state. A step is one     *)
(* statement of a transaction or one file operation; file operations are   *)
(* seen at once and survive a rollback. Transactions run READ COMMITTED: a *)
(* plain SELECT reads committed rows, an UPDATE or FOR UPDATE waits for    *)
(* the holder of the row, SKIP LOCKED passes over it.                      *)
(***************************************************************************)
EXTENDS Integers, FiniteSets

CONSTANTS
  Images,      \* the captures of one camera, in the order of captured_at_utc
  Uploads,     \* bound: the upload requests of a behaviour, retries included
  ImageOf,     \* ImageOf[u]: the capture that request u carries
  MaxExports,  \* bound: the exports of a behaviour, none or one
  ScanLimit,   \* batch_size * 5: the rows that one retention query may lock
  MaxFaults    \* bound: aborted transactions, failing unlinks, damaged files

ASSUME ImagesAssumption == Images \subseteq Nat
ASSUME UploadsAssumption == ImageOf \in [Uploads -> Images]
ASSUME BoundsAssumption ==
  /\ ScanLimit \in Nat \ {0}
  /\ MaxExports \in {0, 1} /\ MaxFaults \in Nat

VARIABLES
  row,            \* images.storage_state; "tombstone" has deleted_at set as well
  file,           \* what storage_path holds
  aside,          \* the images with a copy in the quarantine directories
  analysis,       \* motion_analyses.status; "active" is pending or processing
  old,            \* the images taken before the retention cutoff
  stale,          \* the rows received longer ago than stale_staging_age
  request,        \* request[u]: where upload request u is
  exportStep,     \* create_export_request and the life of its job; "expired":
                  \* still active, expires_at has passed
  exportImages,   \* export_job_images
  retentionStep,  \* run_retention_once, one transaction
  retentionLocks, \* the rows it has selected FOR UPDATE
  retentionBatch, \* the rows of its query, then the candidates still to be deleted
  tombs,          \* the rows it has deleted, to be committed
  recStep,        \* process_reconciliation_once, one transaction
  recBatch,       \* the rows or files still to be looked at
  recMarks,       \* the rows set to MISSING and not yet flushed
  recFlushed,     \* the rows set to MISSING and flushed
  recKnown,       \* known_paths
  camera,         \* the holder of the camera row: a flushed audit event key-shares it
  unlinked,       \* history: the images whose file retention has deleted
  damaged,        \* history: the images whose file the disk has lost or spoilt
  faults          \* faults so far

clockVars     == <<old, stale>>
exportVars    == <<exportStep, exportImages>>
retentionVars == <<retentionStep, retentionLocks, retentionBatch, tombs>>
recVars       == <<recStep, recBatch, recMarks, recFlushed, recKnown, camera>>
vars == <<row, file, aside, analysis, clockVars, request, exportVars, retentionVars,
          recVars, unlinked, damaged, faults>>

Locking == {"locked", "replacing", "installed"}  \* inside finalize_image_storage
Answered == {"stored", "conflict", "failed"}

TypeOK ==
  /\ row \in [Images -> {"absent", "staging", "stored", "missing", "tombstone"}]
  /\ file \in [Images -> {"none", "valid", "invalid"}]
  /\ analysis \in [Images -> {"none", "active", "done"}]
  /\ request \in [Uploads -> {"unsent", "received", "staged"} \cup Locking \cup Answered]
  /\ exportStep \in {"idle", "snapshot", "active", "expired", "ended"}
  /\ retentionStep \in {"idle", "locked", "deleting", "emergencyLocked", "emergency",
                        "progress"}
  /\ recStep \in {"idle", "missing", "missingFlush", "staleFlush", "list", "move"}
  /\ camera \in {"free", "reconciliation"}
  /\ aside \subseteq Images /\ old \subseteq Images /\ stale \subseteq Images
  /\ exportImages \subseteq Images
  /\ retentionLocks \subseteq Images /\ retentionBatch \subseteq Images
  /\ tombs \subseteq Images
  /\ recBatch \subseteq Images /\ recMarks \subseteq Images
  /\ recFlushed \subseteq Images /\ recKnown \subseteq Images
  /\ unlinked \subseteq Images /\ damaged \subseteq Images
  /\ faults \in 0..MaxFaults

Init ==
  /\ row = [i \in Images |-> "absent"]
  /\ file = [i \in Images |-> "none"]
  /\ analysis = [i \in Images |-> "none"]
  /\ request = [u \in Uploads |-> "unsent"]
  /\ exportStep = "idle" /\ exportImages = {}
  /\ retentionStep = "idle" /\ retentionLocks = {} /\ retentionBatch = {} /\ tombs = {}
  /\ recStep = "idle" /\ recBatch = {} /\ recMarks = {} /\ recFlushed = {}
  /\ recKnown = {} /\ camera = "free"
  /\ aside = {} /\ old = {} /\ stale = {} /\ unlinked = {} /\ damaged = {}
  /\ faults = 0

Fault == faults < MaxFaults /\ faults' = faults + 1

Rows(states) == {i \in Images : row[i] \in states}
Files(contents) == {i \in Images : file[i] \in contents}

-----------------------------------------------------------------------------
(* Locks. acquire_capture_lock is an advisory lock on the capture, taken by *)
(* the two transactions of an upload; the others know only the row.        *)

CaptureLocked(i) == \E u \in Uploads : ImageOf[u] = i /\ request[u] \in Locking

ExportLocks == IF exportStep = "snapshot" THEN exportImages ELSE {}

RowLocked(i) ==
  CaptureLocked(i) \/ i \in retentionLocks \/ i \in recFlushed \/ i \in ExportLocks

-----------------------------------------------------------------------------
(* Uploads: store_image_upload.                                            *)

Goto(u, step) == request' = [request EXCEPT ![u] = step]

\* upload_image has received and validated the file.
ReceiveUpload(u) ==
  /\ request[u] = "unsent"
  /\ Goto(u, "received")
  /\ UNCHANGED <<row, file, aside, analysis, clockVars, exportVars, retentionVars, recVars,
                 unlinked, damaged, faults>>

\* The first transaction. Its lock lasts for one step; the row it reads is
\* the committed one, whoever holds that row.
StageRow(u) ==
  LET i == ImageOf[u] IN
  /\ request[u] = "received" /\ ~CaptureLocked(i)
  /\ Goto(u, IF row[i] \in {"absent", "staging", "stored"} THEN "staged" ELSE "conflict")
  /\ row' = [row EXCEPT ![i] = IF @ = "absent" THEN "staging" ELSE @]
  /\ UNCHANGED <<file, aside, analysis, clockVars, exportVars, retentionVars, recVars,
                 unlinked, damaged, faults>>

\* The second transaction: the capture lock, then the row FOR UPDATE, then a
\* second look at it. A row that is missing or tombstoned by now is a conflict.
LockImage(u) ==
  LET i == ImageOf[u] IN
  /\ request[u] = "staged" /\ ~CaptureLocked(i) /\ ~RowLocked(i)
  /\ Goto(u, IF row[i] \in {"staging", "stored"} THEN "locked" ELSE "conflict")
  /\ UNCHANGED <<row, file, aside, analysis, clockVars, exportVars, retentionVars, recVars,
                 unlinked, damaged, faults>>

\* install_validated_file: a valid copy is reused, a missing one installed.
InstallFile(u) ==
  /\ request[u] = "locked" /\ file[ImageOf[u]] # "invalid"
  /\ file' = [file EXCEPT ![ImageOf[u]] = "valid"]
  /\ Goto(u, "installed")
  /\ UNCHANGED <<row, aside, analysis, clockVars, exportVars, retentionVars, recVars,
                 unlinked, damaged, faults>>

\* A copy that differs goes to quarantine/upload-conflicts ...
SetConflictAside(u) ==
  /\ request[u] = "locked" /\ file[ImageOf[u]] = "invalid"
  /\ file' = [file EXCEPT ![ImageOf[u]] = "none"]
  /\ aside' = aside \cup {ImageOf[u]}
  /\ Goto(u, "replacing")
  /\ UNCHANGED <<row, analysis, clockVars, exportVars, retentionVars, recVars, unlinked,
                 damaged, faults>>

\* ... and the upload takes its place.
ReplaceFile(u) ==
  /\ request[u] = "replacing"
  /\ file' = [file EXCEPT ![ImageOf[u]] = "valid"]
  /\ Goto(u, "installed")
  /\ UNCHANGED <<row, aside, analysis, clockVars, exportVars, retentionVars, recVars,
                 unlinked, damaged, faults>>

\* The rest of finalize_image_storage: the analysis row if there is none, the
\* camera FOR UPDATE, which waits for an audit event of reconciliation, and
\* the commit. The answer is "stored" or "already_stored".
CommitStored(u) ==
  LET i == ImageOf[u] IN
  /\ request[u] = "installed" /\ camera = "free"
  /\ row' = [row EXCEPT ![i] = "stored"]
  /\ analysis' = [analysis EXCEPT ![i] = IF @ = "none" THEN "active" ELSE @]
  /\ Goto(u, "stored")
  /\ UNCHANGED <<file, aside, clockVars, exportVars, retentionVars, recVars, unlinked,
                 damaged, faults>>

\* The request ends with an error or with the API process: its transaction
\* rolls back, its file operations stay.
UploadFails(u) ==
  /\ request[u] \notin {"unsent"} \cup Answered
  /\ Fault
  /\ Goto(u, "failed")
  /\ UNCHANGED <<row, file, aside, analysis, clockVars, exportVars, retentionVars, recVars,
                 unlinked, damaged>>

-----------------------------------------------------------------------------
(* Exports, analyses, time, and a disk that loses or spoils files.         *)

\* create_export_request: STORED rows in its range, FOR UPDATE SKIP LOCKED.
ExportSnapshot ==
  /\ exportStep = "idle" /\ MaxExports = 1
  /\ exportImages' \in SUBSET {i \in Rows({"stored"}) : ~RowLocked(i)}
  /\ exportStep' = "snapshot"
  /\ UNCHANGED <<row, file, aside, analysis, clockVars, request, retentionVars, recVars,
                 unlinked, damaged, faults>>

\* The commit, the expiry, and the end of a job that is completed or cancelled.
ExportMoves(from, to) ==
  /\ exportStep \in from /\ exportStep' = to
  /\ UNCHANGED <<row, file, aside, analysis, clockVars, request, exportImages,
                 retentionVars, recVars, unlinked, damaged, faults>>

ExportCommit  == ExportMoves({"snapshot"}, "active")
ExportExpires == ExportMoves({"active"}, "expired")
ExportEnds    == ExportMoves({"active", "expired"}, "ended")

\* The motion worker has completed, skipped or failed an analysis.
AnalysisEnds(i) ==
  /\ analysis[i] = "active"
  /\ analysis' = [analysis EXCEPT ![i] = "done"]
  /\ UNCHANGED <<row, file, aside, clockVars, request, exportVars, retentionVars, recVars,
                 unlinked, damaged, faults>>

\* captured_at_utc falls behind the retention cutoff, the oldest first.
GrowsOld(i) ==
  /\ i \notin old /\ \A j \in Images : j < i => j \in old
  /\ old' = old \cup {i}
  /\ UNCHANGED <<row, file, aside, analysis, stale, request, exportVars, retentionVars,
                 recVars, unlinked, damaged, faults>>

\* A retry does not refresh received_at_utc.
GrowsStale(i) ==
  /\ row[i] = "staging" /\ i \notin stale
  /\ stale' = stale \cup {i}
  /\ UNCHANGED <<row, file, aside, analysis, old, request, exportVars, retentionVars,
                 recVars, unlinked, damaged, faults>>

DiskDamages(i) ==
  /\ file[i] = "valid"
  /\ Fault
  /\ \E content \in {"none", "invalid"} : file' = [file EXCEPT ![i] = content]
  /\ damaged' = damaged \cup {i}
  /\ UNCHANGED <<row, aside, analysis, clockVars, request, exportVars, retentionVars,
                 recVars, unlinked>>

-----------------------------------------------------------------------------
(* Retention and emergency cleanup: run_retention_once, one transaction.   *)

HeldByExport(i) == exportStep \in {"active", "expired"} /\ i \in exportImages
InAnalysis(i)   == analysis[i] = "active"

\* The oldest ScanLimit STORED rows that no other transaction has locked.
Lockable ==
  LET open == {i \in Rows({"stored"}) : i \notin tombs /\ (RowLocked(i) => i \in retentionLocks)}
  IN  {i \in open : Cardinality({j \in open : j < i}) < ScanLimit}

RetentionGoto(step) ==
  /\ retentionStep' = step
  /\ UNCHANGED <<row, aside, analysis, clockVars, request, exportVars, recVars, damaged>>

\* _load_retention_candidates, the query FOR UPDATE SKIP LOCKED ...
RetentionLocks ==
  /\ retentionStep = "idle"
  /\ retentionLocks' = Lockable /\ retentionBatch' = Lockable
  /\ RetentionGoto("locked")
  /\ UNCHANGED <<file, tombs, unlinked, faults>>

\* Mutant: retention protects the images of exports and forgets the analyses.
RetentionProtectsExports(i) == HeldByExport(i) /\ exportStep # "expired"

\* _load_protected_image_ids, with the expiry of the export.
RetentionProtects(i) == InAnalysis(i) \/ (HeldByExport(i) /\ exportStep # "expired")

\* ... and the protected images, read after the rows have been locked.
RetentionSelects ==
  /\ retentionStep = "locked"
  /\ retentionBatch' = {i \in retentionBatch : i \in old /\ ~RetentionProtects(i)}
  /\ RetentionGoto("deleting")
  /\ UNCHANGED <<file, retentionLocks, tombs, unlinked, faults>>

\* process_emergency_cleanup_once: the pressure is not normal. It goes on for
\* as long as a pass deletes something.
EmergencyLocks ==
  /\ retentionStep \in {"deleting", "progress"} /\ retentionBatch = {}
  /\ retentionLocks' = retentionLocks \cup Lockable /\ retentionBatch' = Lockable
  /\ RetentionGoto("emergencyLocked")
  /\ UNCHANGED <<file, tombs, unlinked, faults>>

\* The emergency deletes what is not protected, old or not; an export
\* protects its images beyond its expiry.
EmergencySelects ==
  /\ retentionStep = "emergencyLocked"
  /\ retentionBatch' = {i \in retentionBatch : ~InAnalysis(i) /\ ~HeldByExport(i)}
  /\ RetentionGoto("emergency")
  /\ UNCHANGED <<file, retentionLocks, tombs, unlinked, faults>>

NextVictim(i) ==
  /\ retentionStep \in {"deleting", "emergency", "progress"}
  /\ i \in retentionBatch /\ \A j \in retentionBatch : i <= j

\* _delete_image_file_and_tombstone. A file that is gone is as good as deleted.
DeleteImage(i) ==
  /\ NextVictim(i)
  /\ file' = [file EXCEPT ![i] = "none"]
  /\ unlinked' = unlinked \cup ({i} \ Files({"none"}))
  /\ tombs' = tombs \cup {i}
  /\ retentionBatch' = retentionBatch \ {i}
  /\ RetentionGoto(IF retentionStep = "deleting" THEN "deleting" ELSE "progress")
  /\ UNCHANGED <<retentionLocks, faults>>

\* The unlink fails: the row is STORED again.
DeleteImageFails(i) ==
  /\ NextVictim(i) /\ file[i] # "none"
  /\ Fault
  /\ retentionBatch' = retentionBatch \ {i}
  /\ RetentionGoto(retentionStep)
  /\ UNCHANGED <<file, retentionLocks, tombs, unlinked>>

\* The end of session_scope, after the batch or when the pressure is normal.
RetentionCommit ==
  /\ \/ retentionStep \in {"deleting", "emergency"} /\ retentionBatch = {}
     \/ retentionStep = "progress"
  /\ row' = [i \in Images |-> IF i \in tombs THEN "tombstone" ELSE row[i]]
  /\ retentionStep' = "idle"
  /\ retentionLocks' = {} /\ retentionBatch' = {} /\ tombs' = {}
  /\ UNCHANGED <<file, aside, analysis, clockVars, request, exportVars, recVars, unlinked,
                 damaged, faults>>

\* The worker ends or the transaction fails; the files are gone all the same.
RetentionAborts ==
  /\ retentionStep # "idle"
  /\ Fault
  /\ retentionLocks' = {} /\ retentionBatch' = {} /\ tombs' = {}
  /\ RetentionGoto("idle")
  /\ UNCHANGED <<file, unlinked>>

-----------------------------------------------------------------------------
(* Reconciliation: process_reconciliation_once, one transaction.           *)

RecUnchanged == UNCHANGED <<row, analysis, clockVars, request, exportVars, retentionVars,
                            unlinked, damaged>>

RecStays == UNCHANGED <<recFlushed, recKnown, camera>>

\* _mark_missing_database_files: the rows that are STORED ...
ReadStored ==
  /\ recStep = "idle"
  /\ recStep' = "missing" /\ recBatch' = Rows({"stored"})
  /\ RecUnchanged /\ RecStays /\ UNCHANGED <<file, aside, recMarks, faults>>

\* ... and one after the other whether their file exists.
CheckFile(i) ==
  /\ recStep = "missing" /\ i \in recBatch
  /\ recBatch' = recBatch \ {i}
  /\ recMarks' = recMarks \cup ({i} \cap Files({"none"}))
  /\ RecUnchanged /\ RecStays /\ UNCHANGED <<file, aside, recStep, faults>>

\* A flush of marked rows inserts their audit events before the first update or
\* after the last one: no relationship orders the two tables.
InsertsFirst(marks) ==
  camera' \in IF marks = {} THEN {camera} ELSE {camera, "reconciliation"}

\* The next query flushes the marked rows first.
FlushMissing ==
  /\ recStep = "missing" /\ recBatch = {}
  /\ recStep' = "missingFlush" /\ InsertsFirst(recMarks)
  /\ RecUnchanged
  /\ UNCHANGED <<file, aside, recBatch, recMarks, recFlushed, recKnown, faults>>

\* UPDATE images SET storage_state = 'missing' WHERE id = ...: it waits for
\* the holder of the row and asks for nothing else.
FlushMark(i) ==
  /\ recStep \in {"missingFlush", "staleFlush"} /\ i \in recMarks
  /\ ~CaptureLocked(i) /\ i \notin retentionLocks \cup ExportLocks
  /\ recMarks' = recMarks \ {i}
  /\ recFlushed' = recFlushed \cup {i}
  /\ RecUnchanged /\ UNCHANGED <<file, aside, recStep, recBatch, recKnown, camera, faults>>

\* Mutant: the comparison with the age is the wrong way round.
FreshRows == Rows({"staging"}) \ stale

\* The staging rows received longer ago than stale_staging_age.
StaleRows == Rows({"staging"}) \cap stale

\* STORED or DELETING rows, as this transaction sees them.
KnownRows == Rows({"stored"}) \ recFlushed

\* _audit_mismatched_database_files: the files that differ from their rows.
Mismatched == KnownRows \cap Files({"invalid"})

\* _mark_stale_staging_rows. By now the audit events of what is missing and of
\* what differs have been inserted; the flush of the marks follows.
ReadStale ==
  /\ recStep = "missingFlush" /\ recMarks = {}
  /\ recStep' = "staleFlush" /\ recMarks' = StaleRows
  /\ IF recFlushed \cup Mismatched # {} THEN camera' = "reconciliation"
                                        ELSE InsertsFirst(StaleRows)
  /\ RecUnchanged /\ UNCHANGED <<file, aside, recBatch, recFlushed, recKnown, faults>>

\* _quarantine_orphaned_image_files: known_paths ...
ReadKnownPaths ==
  /\ recStep = "staleFlush" /\ recMarks = {}
  /\ recStep' = "list" /\ recKnown' = KnownRows
  /\ camera' = IF recFlushed = {} THEN camera ELSE "reconciliation"
  /\ RecUnchanged /\ UNCHANGED <<file, aside, recBatch, recMarks, recFlushed, faults>>

\* ... then the files under images/ ...
ListFiles ==
  /\ recStep = "list"
  /\ recStep' = "move" /\ recBatch' = Files({"valid", "invalid"}) \ recKnown
  /\ RecUnchanged /\ RecStays /\ UNCHANGED <<file, aside, recMarks, faults>>

\* Mutant: orphans are deleted.
DeleteOrphan(i) ==
  /\ recStep = "move" /\ i \in recBatch /\ file[i] # "none"
  /\ file' = [file EXCEPT ![i] = "none"]
  /\ recBatch' = recBatch \ {i}
  /\ RecUnchanged /\ RecStays /\ UNCHANGED <<aside, recStep, recMarks, faults>>

\* ... of which each unknown one goes to quarantine/orphans.
MoveOrphan(i) ==
  /\ recStep = "move" /\ i \in recBatch /\ file[i] # "none"
  /\ file' = [file EXCEPT ![i] = "none"]
  /\ aside' = aside \cup {i}
  /\ recBatch' = recBatch \ {i}
  /\ RecUnchanged /\ RecStays /\ UNCHANGED <<recStep, recMarks, faults>>

RecEnds ==
  /\ recStep' = "idle" /\ recBatch' = {} /\ recMarks' = {} /\ recFlushed' = {}
  /\ recKnown' = {} /\ camera' = "free"

\* Mutant: the update clears deleted_at together with the state.
MarkedMissingWhole(state) == "missing"

\* The update sets storage_state alone: a tombstone keeps its deleted_at.
MarkedMissing(state) == IF state = "tombstone" THEN "tombstone" ELSE "missing"

\* The rest of the pass looks after files of other directories.
RecCommit ==
  /\ recStep = "move" /\ recBatch = {}
  /\ row' = [i \in Images |-> IF i \in recFlushed THEN MarkedMissing(row[i]) ELSE row[i]]
  /\ RecEnds
  /\ UNCHANGED <<file, aside, analysis, clockVars, request, exportVars, retentionVars,
                 unlinked, damaged, faults>>

\* An orphan that has gone meanwhile fails the whole pass.
OrphanGone ==
  /\ recStep = "move" /\ \E i \in recBatch : file[i] = "none"
  /\ RecEnds /\ RecUnchanged /\ UNCHANGED <<file, aside, faults>>

RecAborts ==
  /\ recStep # "idle"
  /\ Fault
  /\ RecEnds /\ RecUnchanged /\ UNCHANGED <<file, aside>>

\* Reconciliation waits for the row of an upload that waits for the camera
\* row of reconciliation: PostgreSQL fails one of the two.
InDeadlock(u) ==
  /\ recStep \in {"missingFlush", "staleFlush"} /\ camera = "reconciliation"
  /\ request[u] = "installed" /\ ImageOf[u] \in recMarks

DeadlockFailsUpload(u) ==
  /\ InDeadlock(u)
  /\ Goto(u, "failed")
  /\ UNCHANGED <<row, file, aside, analysis, clockVars, exportVars, retentionVars, recVars,
                 unlinked, damaged, faults>>

DeadlockFailsRec(u) ==
  /\ InDeadlock(u)
  /\ RecEnds /\ RecUnchanged /\ UNCHANGED <<file, aside, faults>>

-----------------------------------------------------------------------------
UploadStep(u) ==
  \/ StageRow(u) \/ LockImage(u) \/ InstallFile(u) \/ SetConflictAside(u) \/ ReplaceFile(u)
  \/ CommitStored(u) \/ DeadlockFailsUpload(u)

RetentionStep ==
  \/ RetentionLocks \/ RetentionSelects \/ EmergencySelects \/ RetentionCommit
  \/ \E i \in Images : DeleteImage(i)

RecStep ==
  \/ ReadStored \/ FlushMissing \/ ReadStale \/ ReadKnownPaths \/ ListFiles \/ RecCommit
  \/ OrphanGone
  \/ \E i \in Images : CheckFile(i) \/ FlushMark(i) \/ MoveOrphan(i)

Next ==
  \/ \E u \in Uploads : ReceiveUpload(u) \/ UploadStep(u) \/ UploadFails(u)
                        \/ DeadlockFailsRec(u)
  \/ ExportSnapshot \/ ExportCommit \/ ExportExpires \/ ExportEnds
  \/ RetentionStep \/ EmergencyLocks \/ RetentionAborts
  \/ RecStep \/ RecAborts
  \/ \E i \in Images : AnalysisEnds(i) \/ GrowsOld(i) \/ GrowsStale(i)
                       \/ DeleteImageFails(i) \/ DiskDamages(i)

Spec == Init /\ [][Next]_vars

\* The worker loops run for as long as the service lives (systemd restarts
\* it), a request that was received goes on, and time passes. PostgreSQL
\* serves those who wait for a row in turn: an upload that waits for the row of
\* the camera gets it although one transaction after the other takes it. No
\* request has to be sent and no export taken. The steps of uploads and exports
\* and those of time happen once for each request or image, so that fairness to
\* their disjunction is fairness to each of them.
Fairness ==
  /\ WF_vars(\E u \in Uploads : UploadStep(u))
  /\ SF_vars(\E u \in Uploads : CommitStored(u))
  /\ WF_vars(ExportCommit \/ ExportEnds)
  /\ WF_vars(RetentionStep) /\ WF_vars(RecStep)
  /\ WF_vars(\E i \in Images : AnalysisEnds(i) \/ GrowsOld(i) \/ GrowsStale(i))

-----------------------------------------------------------------------------
(* Safety.                                                                 *)

Confirmed == {ImageOf[u] : u \in {v \in Uploads : request[v] = "stored"}}

\* No interleaving of uploads, retention, reconciliation and crashes destroys
\* an image the camera has been told is stored: it is in place or in
\* quarantine, unless retention deleted it or the disk lost it.
NothingDestroyed ==
  Confirmed \subseteq Files({"valid"}) \cup aside \cup unlinked \cup damaged

\* A late upload never brings the file of a deleted image back: a tombstone
\* has no file, neither when it is committed nor later.
TombstoneHasNoFile == \A i \in Images : row[i] = "tombstone" => file[i] = "none"

\* "Retention/export race: export snapshot and retention use row locking so
\* active or locked images are protected": neither retention nor the emergency
\* deletes an image that an analysis is waiting for or that an export, before
\* its expiry, has selected, however the two transactions interleave.
HeldImagesAreSpared ==
  [][\A i \in tombs' \ tombs :
       /\ ~InAnalysis(i)
       /\ exportStep \in {"snapshot", "active"} => i \notin exportImages]_vars

\* A row moves forward only, whatever stale copy of it a transaction writes:
\* nothing is stored again once it is missing, and a tombstone is final.
Successors ==
  [absent |-> {"staging"}, staging |-> {"stored", "missing"},
   stored |-> {"missing", "tombstone"}, missing |-> {}, tombstone |-> {}]

RowsMoveForward ==
  [][\A i \in Images : row'[i] = row[i] \/ row'[i] \in Successors[row[i]]]_vars

\* What has been given up or deleted does not come back, neither as a row nor
\* as a file, although an upload and reconciliation work on what they read
\* before the deletion.
DeletionIsFinal == []TombstoneHasNoFile /\ RowsMoveForward

\* docs/ARCHITECTURE.md of state "stored": metadata and filesystem copy are
\* valid. Retention at work, or interrupted, and the disk are excused.
StoredHasFile ==
  \A i \in Rows({"stored"}) : file[i] = "valid" \/ i \in unlinked \cup tombs \cup damaged

-----------------------------------------------------------------------------
(* Liveness.                                                               *)

\* No row is in staging or stored, and no file of a row that was given up is
\* left in the image directory.
AtRest ==
  \A i \in Images : /\ row[i] \notin {"staging", "stored"}
                    /\ row[i] = "missing" => file[i] = "none"

\* When no more images are sent, the archive comes to rest: unfinished uploads,
\* orphaned files and old images all go, although each retention pass looks at
\* the oldest ScanLimit rows only, skips what is locked and spares what is in
\* use, whatever was interrupted, and however often PostgreSQL ended a deadlock
\* between an upload and reconciliation.
ArchiveSettles == <>[]AtRest

=============================================================================
