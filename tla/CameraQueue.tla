---------------------------- MODULE CameraQueue ----------------------------
(***************************************************************************)
(* The upload queue of the camera agent: the SQLite table, the image files *)
(* it points to, and the tasks that share them (capture_loop, upload_loop, *)
(* cleanup_loop, heartbeat_loop of camera_agent), with crashes, restarts   *)
(* and failing unlinks at every step between two commits.                  *)
(*                                                                         *)
(* A capture is a natural number, the instant in captured_at_utc. Every    *)
(* _transaction of queue.py is one step; a file operation outside of one   *)
(* is a step of its own, and so is the unlink inside _drop_scheduled, which *)
(* a crash can separate from the commit that follows it.                   *)
(***************************************************************************)
EXTENDS Integers, FiniteSets, FiniteSetsExt

CONSTANTS
  Captures,    \* the captures, each named by its instant
  Size,        \* Size[c]: file_size_bytes of capture c
  MaxBytes,    \* queue_max_bytes
  MaxFaults,   \* bound: crashes, exceptions and failing unlinks in a behaviour
  None         \* no capture

ASSUME CapturesAssumption == Captures \subseteq Nat /\ None \notin Captures
ASSUME LimitsAssumption ==
  /\ Size \in [Captures -> Nat \ {0}]
  /\ MaxBytes \in Nat
  /\ MaxFaults \in Nat

VARIABLES
  row,          \* upload_queue.state; "absent": no row yet, "deleted": removed
  due,          \* the captures whose next_attempt_at_utc has come
  files,        \* the image files on the phone
  dropped,      \* agent_state.dropped_image_count
  agent,        \* the process: "down", "booting" (run_agent's recovery), "running"
  captureStep,  \* capture_loop: "idle", "enqueue", or "dead" (the task ended)
  captureItem,  \* the prepared image that capture_loop is about to enqueue
  uploadStep,   \* upload_loop and upload_one
  uploadItem,   \* the item that upload_one works on
  cleanStep,    \* enforce_limits and finalize_uploaded_files
  cleanBatch,   \* the rows that were read and are still to be handled
  cleanItem,    \* the row that is being handled
  beatStep,     \* send_heartbeat: "idle" or "sending"
  beatCount,    \* dropped_image_count as read for the heartbeat under way
  sent,         \* captures whose upload request may reach the server
  stored,       \* captures the server has stored
  cutoff,       \* images taken before it are older than queue_max_age_hours
  stranded,     \* history: rows an unexpected exception left "uploading"
  discarded,    \* history: captures counted as dropped
  acknowledged, \* history: how many of them a heartbeat has reported
  faults        \* crashes, exceptions and failing unlinks so far

queueVars   == <<row, due, dropped>>
captureVars == <<captureStep, captureItem>>
uploadVars  == <<uploadStep, uploadItem>>
cleanVars   == <<cleanStep, cleanBatch, cleanItem>>
beatVars    == <<beatStep, beatCount>>
serverVars  == <<sent, stored>>
historyVars == <<stranded, discarded, acknowledged>>
vars == <<queueVars, files, agent, captureVars, uploadVars, cleanVars, beatVars,
          serverVars, cutoff, historyVars, faults>>

Queued == {"pending", "uploading", "uploaded", "failed"}

TypeOK ==
  /\ row \in [Captures -> Queued \cup {"absent", "deleted"}]
  /\ due \subseteq Captures
  /\ files \subseteq Captures
  /\ dropped \in Nat
  /\ agent \in {"down", "booting", "running"}
  /\ captureStep \in {"idle", "enqueue", "dead"}
  /\ captureItem \in Captures \cup {None}
  /\ uploadStep \in {"idle", "claimed", "sending", "confirmed", "unlink", "delete"}
  /\ uploadItem \in Captures \cup {None}
  /\ cleanStep \in {"idle", "finalize", "finalizeDelete", "expire", "expireCommit",
                    "overflow", "overflowDrop", "overflowCommit"}
  /\ cleanBatch \subseteq Captures
  /\ cleanItem \in Captures \cup {None}
  /\ beatStep \in {"idle", "sending"}
  /\ beatCount \in Nat
  /\ sent \subseteq Captures
  /\ stored \subseteq Captures
  /\ cutoff \in Nat
  /\ stranded \subseteq Captures
  /\ discarded \subseteq Captures
  /\ acknowledged \in Nat
  /\ faults \in 0..MaxFaults

Init ==
  /\ row = [c \in Captures |-> "absent"]
  /\ due = {}
  /\ files = {}
  /\ dropped = 0
  /\ agent = "down"
  /\ captureStep = "idle" /\ captureItem = None
  /\ uploadStep = "idle" /\ uploadItem = None
  /\ cleanStep = "idle" /\ cleanBatch = {} /\ cleanItem = None
  /\ beatStep = "idle" /\ beatCount = 0
  /\ sent = {} /\ stored = {}
  /\ cutoff = 0
  /\ stranded = {} /\ discarded = {} /\ acknowledged = 0
  /\ faults = 0

Rows(states) == {c \in Captures : row[c] \in states}

IsOldest(c, S) == c \in S /\ \A d \in S : c <= d

\* BEGIN IMMEDIATE admits one writer; _drop_scheduled holds the write lock
\* from before its unlink until its commit.
WriteLockFree == cleanStep \notin {"expireCommit", "overflowCommit"}

Fault == faults < MaxFaults /\ faults' = faults + 1

-----------------------------------------------------------------------------
(* run_agent: start, recovery and sudden end.                              *)

\* Mutant: start-up does not recover interrupted uploads.
RecoverNothing == UNCHANGED <<row, due>>

\* Mutant: start-up requeues confirmed uploads as well.
RecoverUploadedToo ==
  /\ row' = [c \in Captures |->
               IF row[c] \in {"uploading", "uploaded"} THEN "pending" ELSE row[c]]
  /\ due' = due \cup Rows({"uploading", "uploaded"})

\* The statement of recover_interrupted_uploads.
RecoverInterruptedUploads ==
  /\ row' = [c \in Captures |-> IF row[c] = "uploading" THEN "pending" ELSE row[c]]
  /\ due' = due \cup Rows({"uploading"})

\* run_agent takes the lock, requeues interrupted uploads and reads the rows
\* whose local deletion is outstanding; the loops do not run yet.
StartAgent ==
  /\ agent = "down"
  /\ agent' = "booting"
  /\ RecoverInterruptedUploads
  /\ stranded' = {}
  /\ cleanStep' = "finalize"
  /\ cleanBatch' = Rows({"uploaded"})
  /\ UNCHANGED <<files, dropped, captureVars, uploadVars, cleanItem, beatVars,
                 serverVars, cutoff, discarded, acknowledged, faults>>

\* The loops start once finalize_uploaded_files has returned.
LoopsStart ==
  /\ agent = "booting"
  /\ cleanStep = "finalize" /\ cleanBatch = {}
  /\ agent' = "running"
  /\ cleanStep' = "idle"
  /\ UNCHANGED <<queueVars, files, captureVars, uploadVars, cleanBatch, cleanItem,
                 beatVars, serverVars, cutoff, historyVars, faults>>

\* The process ends between any two commits: Android kills it, the power
\* fails, or run_agent is stopped. An open transaction rolls back; an unlink
\* does not.
AgentStops ==
  /\ agent # "down"
  /\ Fault
  /\ agent' = "down"
  /\ captureStep' = "idle" /\ captureItem' = None
  /\ uploadStep' = "idle" /\ uploadItem' = None
  /\ cleanStep' = "idle" /\ cleanBatch' = {} /\ cleanItem' = None
  /\ beatStep' = "idle" /\ beatCount' = 0
  /\ UNCHANGED <<queueVars, files, serverVars, cutoff, historyVars>>

-----------------------------------------------------------------------------
(* capture_loop.                                                           *)

\* capture_and_prepare has moved the validated JPEG into place.
CaptureImage(c) ==
  /\ agent = "running" /\ captureStep = "idle"
  /\ row[c] = "absent" /\ c \notin files
  /\ c >= cutoff
  /\ files' = files \cup {c}
  /\ captureStep' = "enqueue" /\ captureItem' = c
  /\ UNCHANGED <<queueVars, agent, uploadVars, cleanVars, beatVars, serverVars,
                 cutoff, historyVars, faults>>

Enqueue ==
  /\ captureStep = "enqueue" /\ WriteLockFree
  /\ row' = [row EXCEPT ![captureItem] = "pending"]
  /\ due' = due \cup {captureItem}
  /\ captureStep' = "idle" /\ captureItem' = None
  /\ UNCHANGED <<files, dropped, agent, uploadVars, cleanVars, beatVars, serverVars,
                 cutoff, historyVars, faults>>

\* enqueue raises (a full disk, a locked database). The handler records the
\* failure and the loop goes on, or recording it raises as well and the task
\* ends, which run_agent does not notice. The file stays behind.
EnqueueFails ==
  /\ captureStep = "enqueue"
  /\ Fault
  /\ captureStep' \in {"idle", "dead"} /\ captureItem' = None
  /\ UNCHANGED <<queueVars, files, agent, uploadVars, cleanVars, beatVars, serverVars,
                 cutoff, historyVars>>

-----------------------------------------------------------------------------
(* upload_loop and upload_one.                                             *)

Due == {c \in Rows({"pending"}) : c \in due}

ClaimDue ==
  /\ agent = "running" /\ uploadStep = "idle" /\ WriteLockFree
  /\ \E c \in Captures :
       /\ IsOldest(c, Due)
       /\ row' = [row EXCEPT ![c] = "uploading"]
       /\ uploadItem' = c
  /\ uploadStep' = "claimed"
  /\ UNCHANGED <<due, files, dropped, agent, captureVars, cleanVars, beatVars,
                 serverVars, cutoff, historyVars, faults>>

\* The common end of reschedule and mark_failed: an update that finds the row
\* "uploading", after which upload_one returns.
LeaveUploading(to, dueAfter) ==
  /\ WriteLockFree
  /\ row' = [row EXCEPT ![uploadItem] = IF @ = "uploading" THEN to ELSE @]
  /\ due' = dueAfter
  /\ uploadStep' = "idle" /\ uploadItem' = None
  /\ UNCHANGED <<files, dropped, agent, captureVars, cleanVars, beatVars, serverVars,
                 cutoff, historyVars>>

\* reschedule: the next attempt waits for the backoff.
Reschedule == LeaveUploading("pending", due \ {uploadItem})

MarkFailed == LeaveUploading("failed", due)

\* The file of a claimed row is not there.
LocalFileMissing ==
  /\ uploadStep = "claimed" /\ uploadItem \notin files
  /\ MarkFailed /\ UNCHANGED faults

\* The file cannot be opened.
LocalFileError ==
  /\ uploadStep = "claimed" /\ uploadItem \in files
  /\ Reschedule /\ Fault

SendUpload ==
  /\ uploadStep = "claimed" /\ uploadItem \in files
  /\ uploadStep' = "sending"
  /\ sent' = sent \cup {uploadItem}
  /\ UNCHANGED <<queueVars, files, agent, captureVars, uploadItem, cleanVars, beatVars,
                 stored, cutoff, historyVars, faults>>

\* The request fails or times out, which says nothing of what the server did,
\* or the answer is a retryable status or no valid confirmation.
UploadPutOff == uploadStep = "sending" /\ Reschedule /\ UNCHANGED faults

\* A status of _PERMANENT_REJECTION_STATUSES. The server rejects a capture it
\* has stored as well: a credential may have been rotated, a row tombstoned.
UploadRejected == uploadStep = "sending" /\ MarkFailed /\ UNCHANGED faults

\* Mutant: any 2xx answer counts as a confirmation.
ConfirmationAnyBody == uploadItem \in sent

\* _is_confirmed_response: the server says that it has stored the capture.
ConfirmationReceived == uploadItem \in stored

\* A 200 or 201 whose body confirms the capture; record_upload_success.
UploadConfirmed ==
  /\ uploadStep = "sending" /\ WriteLockFree
  /\ ConfirmationReceived
  /\ uploadStep' = "confirmed"
  /\ UNCHANGED <<queueVars, files, agent, captureVars, uploadItem, cleanVars, beatVars,
                 serverVars, cutoff, historyVars, faults>>

\* confirm_uploaded, first transaction.
MarkUploaded ==
  /\ uploadStep = "confirmed" /\ WriteLockFree
  /\ IF row[uploadItem] = "uploading"
       THEN /\ row' = [row EXCEPT ![uploadItem] = "uploaded"]
            /\ uploadStep' = "unlink"
            /\ UNCHANGED uploadItem
       ELSE /\ uploadStep' = "idle" /\ uploadItem' = None
            /\ UNCHANGED row
  /\ UNCHANGED <<due, files, dropped, agent, captureVars, cleanVars, beatVars,
                 serverVars, cutoff, historyVars, faults>>

\* confirm_uploaded, the local deletion.
UnlinkUploaded ==
  /\ uploadStep = "unlink"
  /\ files' = files \ {uploadItem}
  /\ uploadStep' = "delete"
  /\ UNCHANGED <<queueVars, agent, captureVars, uploadItem, cleanVars, beatVars,
                 serverVars, cutoff, historyVars, faults>>

\* The unlink fails: the row stays "uploaded" for finalize_uploaded_files.
UnlinkDeferred ==
  /\ uploadStep = "unlink"
  /\ Fault
  /\ uploadStep' = "idle" /\ uploadItem' = None
  /\ UNCHANGED <<queueVars, files, agent, captureVars, cleanVars, beatVars, serverVars,
                 cutoff, historyVars>>

\* DELETE ... WHERE state = 'uploaded', of confirm_uploaded and of
\* finalize_uploaded_files.
DeleteUploadedRow(c) ==
  row' = [row EXCEPT ![c] = IF @ = "uploaded" THEN "deleted" ELSE @]

\* confirm_uploaded, second transaction. Cleanup may have been faster.
DeleteUploaded ==
  /\ uploadStep = "delete" /\ WriteLockFree
  /\ DeleteUploadedRow(uploadItem)
  /\ uploadStep' = "idle" /\ uploadItem' = None
  /\ UNCHANGED <<due, files, dropped, agent, captureVars, cleanVars, beatVars,
                 serverVars, cutoff, historyVars, faults>>

\* An exception that upload_one does not handle (a locked database, a body
\* that is no JSON object) ends in upload_loop's handler, which leaves the row
\* as it is.
UploadRaises ==
  /\ uploadStep # "idle"
  /\ Fault
  /\ uploadStep' = "idle" /\ uploadItem' = None
  /\ stranded' = stranded \cup ({uploadItem} \cap Rows({"uploading"}))
  /\ UNCHANGED <<queueVars, files, agent, captureVars, cleanVars, beatVars, serverVars,
                 cutoff, discarded, acknowledged>>

-----------------------------------------------------------------------------
(* cleanup_loop: enforce_limits.                                           *)

\* enforce_limits begins with finalize_uploaded_files.
BeginCleanup ==
  /\ agent = "running" /\ cleanStep = "idle"
  /\ cleanStep' = "finalize"
  /\ cleanBatch' = Rows({"uploaded"})
  /\ UNCHANGED <<queueVars, files, agent, captureVars, uploadVars, cleanItem, beatVars,
                 serverVars, cutoff, historyVars, faults>>

FinalizeUnlink(c) ==
  /\ cleanStep = "finalize" /\ c \in cleanBatch
  /\ files' = files \ {c}
  /\ cleanStep' = "finalizeDelete" /\ cleanItem' = c
  /\ cleanBatch' = cleanBatch \ {c}
  /\ UNCHANGED <<queueVars, agent, captureVars, uploadVars, beatVars, serverVars, cutoff,
                 historyVars, faults>>

\* The unlink of finalize_uploaded_files fails: the next row.
FinalizeSkips(c) ==
  /\ cleanStep = "finalize" /\ c \in cleanBatch
  /\ Fault
  /\ cleanBatch' = cleanBatch \ {c}
  /\ UNCHANGED <<queueVars, files, agent, captureVars, uploadVars, cleanStep, cleanItem,
                 beatVars, serverVars, cutoff, historyVars>>

FinalizeDelete ==
  /\ cleanStep = "finalizeDelete" \* the write lock is free: cleanup is its only holder
  /\ DeleteUploadedRow(cleanItem)
  /\ cleanStep' = "finalize" /\ cleanItem' = None
  /\ UNCHANGED <<due, files, dropped, agent, captureVars, uploadVars, cleanBatch,
                 beatVars, serverVars, cutoff, historyVars, faults>>

\* Mutants: the limits may remove an image that is being uploaded; rejected
\* images are not cleaned up.
DroppableUploading == {"pending", "uploading", "failed"}
DroppablePending == {"pending"}

\* What the limits may remove; _drop_scheduled asks again.
Droppable == {"pending", "failed"}

\* enforce_limits reads the rows that are too old.
ReadExpired ==
  /\ agent = "running"
  /\ cleanStep = "finalize" /\ cleanBatch = {}
  /\ cleanStep' = "expire"
  /\ cleanBatch' = {c \in Rows(Droppable) : c < cutoff}
  /\ UNCHANGED <<queueVars, files, agent, captureVars, uploadVars, cleanItem, beatVars,
                 serverVars, cutoff, historyVars, faults>>

ExpiredDone ==
  /\ cleanStep = "expire" /\ cleanBatch = {}
  /\ cleanStep' = "overflow"
  /\ UNCHANGED <<queueVars, files, agent, captureVars, uploadVars, cleanBatch, cleanItem,
                 beatVars, serverVars, cutoff, historyVars, faults>>

PendingBytes == MapThenSumSet(LAMBDA c : Size[c], Rows({"pending", "uploading", "failed"}))

\* The loop over the size limit picks the oldest row that may go.
PickOverflow ==
  /\ cleanStep = "overflow"
  /\ PendingBytes > MaxBytes
  /\ \E c \in Captures :
       /\ IsOldest(c, Rows(Droppable))
       /\ cleanBatch' = {c}
  /\ cleanStep' = "overflowDrop"
  /\ UNCHANGED <<queueVars, files, agent, captureVars, uploadVars, cleanItem, beatVars,
                 serverVars, cutoff, historyVars, faults>>

\* The queue fits, or nothing may go.
OverflowDone ==
  /\ cleanStep = "overflow"
  /\ PendingBytes <= MaxBytes \/ Rows(Droppable) = {}
  /\ cleanStep' = "idle"
  /\ UNCHANGED <<queueVars, files, agent, captureVars, uploadVars, cleanBatch, cleanItem,
                 beatVars, serverVars, cutoff, historyVars, faults>>

\* The row that _drop_scheduled is called with.
DropTarget(c) ==
  /\ cleanStep \in {"expire", "overflowDrop"}
  /\ IsOldest(c, cleanBatch)

\* The second look that _drop_scheduled takes under the write lock.
StillDroppable(c) == row[c] \in Droppable

\* _drop_scheduled up to its unlink, the transaction open.
DropUnlink(c) ==
  /\ DropTarget(c) /\ StillDroppable(c)
  /\ files' = files \ {c}
  /\ cleanStep' = IF cleanStep = "expire" THEN "expireCommit" ELSE "overflowCommit"
  /\ cleanItem' = c
  /\ cleanBatch' = cleanBatch \ {c}
  /\ UNCHANGED <<queueVars, agent, captureVars, uploadVars, beatVars, serverVars, cutoff,
                 historyVars, faults>>

\* Mutant: the dropped image is not counted.
DropUncounted ==
  /\ cleanStep \in {"expireCommit", "overflowCommit"}
  /\ row' = [row EXCEPT ![cleanItem] = "deleted"]
  /\ discarded' = discarded \cup {cleanItem}
  /\ cleanStep' = IF cleanStep = "expireCommit" THEN "expire" ELSE "overflow"
  /\ cleanItem' = None
  /\ UNCHANGED <<due, dropped, files, agent, captureVars, uploadVars, cleanBatch, beatVars,
                 serverVars, cutoff, stranded, acknowledged, faults>>

\* _drop_scheduled deletes the row, counts the image and commits.
DropCommit ==
  /\ cleanStep \in {"expireCommit", "overflowCommit"}
  /\ row' = [row EXCEPT ![cleanItem] = "deleted"]
  /\ dropped' = dropped + 1
  /\ discarded' = discarded \cup {cleanItem}
  /\ cleanStep' = IF cleanStep = "expireCommit" THEN "expire" ELSE "overflow"
  /\ cleanItem' = None
  /\ UNCHANGED <<due, files, agent, captureVars, uploadVars, cleanBatch, beatVars,
                 serverVars, cutoff, stranded, acknowledged, faults>>

\* _drop_scheduled returns False: the age limit goes on with the next row,
\* the size limit gives up until the next cleanup.
DropReturnsFalse(c) ==
  /\ DropTarget(c)
  /\ cleanStep' = IF cleanStep = "expire" THEN "expire" ELSE "idle"
  /\ cleanBatch' = cleanBatch \ {c}
  /\ UNCHANGED <<queueVars, files, agent, captureVars, uploadVars, cleanItem, beatVars,
                 serverVars, cutoff, historyVars>>

DropRefused(c) == ~StillDroppable(c) /\ DropReturnsFalse(c) /\ UNCHANGED faults

DropUnlinkFails(c) == StillDroppable(c) /\ DropReturnsFalse(c) /\ Fault

\* An exception in enforce_limits ends in cleanup_loop's handler; an open
\* transaction rolls back.
CleanupRaises ==
  /\ agent = "running" /\ cleanStep # "idle"
  /\ Fault
  /\ cleanStep' = "idle" /\ cleanBatch' = {} /\ cleanItem' = None
  /\ UNCHANGED <<queueVars, files, agent, captureVars, uploadVars, beatVars, serverVars,
                 cutoff, historyVars>>

-----------------------------------------------------------------------------
(* heartbeat_loop.                                                         *)

\* send_heartbeat reads the count it is going to report.
ReadRuntimeState ==
  /\ agent = "running" /\ beatStep = "idle"
  /\ beatStep' = "sending" /\ beatCount' = dropped
  /\ UNCHANGED <<queueVars, files, agent, captureVars, uploadVars, cleanVars, serverVars,
                 cutoff, historyVars, faults>>

\* Mutant: the acknowledgement resets the counter.
RemainingNone(reported) == 0
\* acknowledge_dropped_images.
Remaining(reported) == IF dropped > reported THEN dropped - reported ELSE 0

HeartbeatAccepted ==
  /\ beatStep = "sending" /\ WriteLockFree
  /\ dropped' = Remaining(beatCount)
  /\ acknowledged' = acknowledged + beatCount
  /\ beatStep' = "idle" /\ beatCount' = 0
  /\ UNCHANGED <<row, due, files, agent, captureVars, uploadVars, cleanVars, serverVars,
                 cutoff, stranded, discarded, faults>>

\* No answer, or not the expected one: the count is reported again.
HeartbeatFails ==
  /\ beatStep = "sending"
  /\ beatStep' = "idle" /\ beatCount' = 0
  /\ UNCHANGED <<queueVars, files, agent, captureVars, uploadVars, cleanVars, serverVars,
                 cutoff, historyVars, faults>>

-----------------------------------------------------------------------------
(* The server and the clock.                                               *)

\* store_image_upload commits; the request may be one the agent has given up.
ServerStores(c) ==
  /\ c \in sent
  /\ stored' = stored \cup {c}
  /\ UNCHANGED <<queueVars, files, agent, captureVars, uploadVars, cleanVars, beatVars,
                 sent, cutoff, historyVars, faults>>

\* The next attempt of a rescheduled row comes due.
BackoffElapses(c) ==
  /\ row[c] = "pending" /\ c \notin due
  /\ due' = due \cup {c}
  /\ UNCHANGED <<row, dropped, files, agent, captureVars, uploadVars, cleanVars, beatVars,
                 serverVars, cutoff, historyVars, faults>>

\* queue_max_age_hours have passed since the instant cutoff. Bounded by the
\* last capture.
TimePasses ==
  /\ \E c \in Captures : cutoff <= c
  /\ cutoff' = cutoff + 1
  /\ UNCHANGED <<queueVars, files, agent, captureVars, uploadVars, cleanVars, beatVars,
                 serverVars, historyVars, faults>>

-----------------------------------------------------------------------------
UploadStep ==
  \/ ClaimDue \/ LocalFileMissing \/ LocalFileError \/ SendUpload \/ UploadPutOff
  \/ UploadRejected \/ UploadConfirmed \/ MarkUploaded \/ UnlinkUploaded \/ UnlinkDeferred
  \/ DeleteUploaded \/ UploadRaises

CleanStep ==
  \/ BeginCleanup \/ FinalizeDelete \/ ReadExpired \/ ExpiredDone \/ PickOverflow
  \/ OverflowDone \/ DropCommit \/ CleanupRaises
  \/ \E c \in Captures :
       \/ FinalizeUnlink(c) \/ FinalizeSkips(c)
       \/ DropUnlink(c) \/ DropRefused(c) \/ DropUnlinkFails(c)

Next ==
  \/ StartAgent \/ LoopsStart \/ AgentStops
  \/ (\E c \in Captures : CaptureImage(c)) \/ Enqueue \/ EnqueueFails
  \/ UploadStep
  \/ CleanStep
  \/ ReadRuntimeState \/ HeartbeatAccepted \/ HeartbeatFails
  \/ (\E c \in Captures : ServerStores(c) \/ BackoffElapses(c)) \/ TimePasses

Spec == Init /\ [][Next]_vars

\* The loops go on for as long as the process lives (a supervisor starts it
\* again), every request ends with an answer or a timeout, and time passes.
\* Nothing is assumed of the server, nor that a fault happens.
LoopsAreFair ==
  /\ WF_vars(StartAgent) /\ WF_vars(LoopsStart)
  /\ WF_vars(Enqueue)
  /\ WF_vars(ClaimDue) /\ WF_vars(LocalFileMissing \/ SendUpload)
  /\ WF_vars(UploadPutOff \/ UploadRejected \/ UploadConfirmed)
  /\ WF_vars(MarkUploaded) /\ WF_vars(UnlinkUploaded) /\ WF_vars(DeleteUploaded)
  /\ WF_vars(CleanStep)
  /\ WF_vars(HeartbeatAccepted \/ HeartbeatFails)
  /\ WF_vars(TimePasses)
  /\ \A c \in Captures : WF_vars(BackoffElapses(c))

\* Besides, the server stores what it is sent again and again and confirms it:
\* an attempt that is repeated for ever succeeds in the end.
ServerIsFair ==
  \A c \in Captures :
    /\ WF_vars(ServerStores(c))
    /\ SF_vars(UploadConfirmed /\ uploadItem = c)

LiveSpec == Spec /\ LoopsAreFair /\ ServerIsFair

-----------------------------------------------------------------------------
(* Safety.                                                                 *)

\* A queued image whose row is gone is on the server or was counted as
\* dropped: confirm_uploaded, finalize_uploaded_files and _drop_scheduled
\* never lose one between them, whatever they interleave with and wherever
\* the process is killed.
NoSilentLoss ==
  \A c \in Captures : row[c] = "deleted" => c \in stored \cup discarded

\* A row is "uploaded", and its file about to be deleted, only if the server
\* has stored the image.
UploadedMeansStored == Rows({"uploaded"}) \subseteq stored

\* While upload_one works on an item its row stays "uploading" and, from the
\* file check on, the file stays there: cleanup, which runs in another thread,
\* never takes an image away under an upload.
InFlightImageIsHeld ==
  /\ uploadStep \in {"claimed", "sending", "confirmed"} => row[uploadItem] = "uploading"
  /\ uploadStep \in {"sending", "confirmed"} => uploadItem \in files

\* A deleted row leaves no file behind, whichever of the two deleters of an
\* uploaded image came first and whichever unlink failed.
DeletedRowLeavesNoFile == \A c \in files : row[c] # "deleted"

\* What the rows say of an image agrees with where it is - on the phone, on the
\* server, or counted as dropped - at every point where the process may die.
RowsTellTheTruth == NoSilentLoss /\ UploadedMeansStored /\ DeletedRowLeavesNoFile

\* Every image dropped is reported exactly once: the counter and what the
\* heartbeats have acknowledged add up to the images dropped, although drops
\* go on between the reading of the counter and its acknowledgement; and the
\* acknowledgement never runs into its clamp at zero.
DropAccounting ==
  /\ dropped + acknowledged = Cardinality(discarded)
  /\ beatCount <= dropped

\* In a running agent every row that is "uploading" is the item of upload_one,
\* unless an unexpected exception has left it behind since the start: start-up
\* recovery overlooks none.
UploadingHasOwner ==
  agent = "running" =>
    Rows({"uploading"}) \subseteq stranded \cup (IF uploadStep = "idle" THEN {} ELSE {uploadItem})

\* An image leaves the phone only when the server has it, or when it is
\* dropped from a row that is neither being uploaded nor uploaded.
ImagesLeaveSafely ==
  [][\A c \in files \ files' : c \in stored \/ row[c] \in {"pending", "failed"}]_vars

\* A confirmed image whose local deletion failed is not queued for upload
\* again, over any number of restarts.
UploadedIsNotSentAgain ==
  [][\A c \in Rows({"uploaded"}) : row'[c] \in {"uploaded", "deleted"}]_vars

\* Images leave the phone for a good reason and once: the two deleters and the
\* recovery at start-up undo nothing that a confirmation has settled.
LeavesOnce == ImagesLeaveSafely /\ UploadedIsNotSentAgain

-----------------------------------------------------------------------------
(* Liveness.                                                               *)

\* A confirmed upload's file and row go away, and a permanently rejected image
\* is dropped and counted once it is too old, without the server's help.
SettledRowsLeave ==
  \A c \in Captures : row[c] \in {"uploaded", "failed"} ~> row[c] = "deleted"

\* Every queued image leaves the queue, delivered or dropped, unless an
\* unexpected exception of upload_one has stranded its row until the restart.
QueuedRowsLeave ==
  \A c \in Captures : row[c] = "pending" ~> (row[c] = "deleted" \/ c \in stranded)

\* No row stays in the queue for ever: the oldest due image, which is always
\* claimed first, starves no other, and the limits take what was rejected.
RowsLeave == SettledRowsLeave /\ QueuedRowsLeave

-----------------------------------------------------------------------------
(* Refinement.                                                             *)

Custody == INSTANCE CaptureCustody WITH
  held <- Rows(Queued),
  archive <- stored,
  unreported <- dropped

\* The queue keeps the promise of CaptureCustody.
KeepsCustody == Custody!Spec

=============================================================================
