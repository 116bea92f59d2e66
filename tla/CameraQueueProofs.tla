------------------------- MODULE CameraQueueProofs -------------------------
(***************************************************************************)
(* Proofs about CameraQueue, for any set of captures, any sizes and limits *)
(* and any number of faults.                                               *)
(***************************************************************************)
EXTENDS CameraQueue, FiniteSetTheorems, TLAPS

(***************************************************************************)
(* The inductive invariant.                                                *)
(***************************************************************************)

\* The loops rest while the process is down or recovering.
LoopsInv ==
  /\ agent # "running" => captureStep = "idle" /\ uploadStep = "idle" /\ beatStep = "idle"
  /\ agent = "down" => cleanStep = "idle"
  /\ agent = "booting" => cleanStep \in {"finalize", "finalizeDelete"}

\* A capture that has no row yet is unknown to the server and to the history;
\* capture_loop enqueues such a one.
FreshInv ==
  /\ captureStep = "enqueue" => captureItem \in Rows({"absent"})
  /\ stored \subseteq sent
  /\ \A c \in sent \cup discarded : row[c] # "absent"

\* The row of upload_one's item follows its step.
UploadInv ==
  /\ uploadStep # "idle" => uploadItem \in sent \cup Rows({"uploading"})
  /\ uploadStep \in {"claimed", "sending", "confirmed"} => row[uploadItem] = "uploading"
  /\ uploadStep \in {"sending", "confirmed"} => uploadItem \in files \cap sent
  /\ uploadStep \in {"confirmed", "unlink", "delete"} => uploadItem \in stored
  /\ uploadStep \in {"unlink", "delete"} => row[uploadItem] \in {"uploaded", "deleted"}
  /\ uploadStep = "delete" => uploadItem \notin files

\* finalize_uploaded_files works on rows that were "uploaded" when it read
\* them; a transaction of _drop_scheduled holds its row droppable.
CleanInv ==
  /\ cleanStep \in {"finalize", "finalizeDelete"} =>
       \A c \in cleanBatch : row[c] \in {"uploaded", "deleted"}
  /\ cleanStep = "finalizeDelete" =>
       cleanItem \in Rows({"uploaded", "deleted"}) \ files
  /\ cleanStep \in {"expireCommit", "overflowCommit"} =>
       cleanItem \in Rows(Droppable) \ files

\* What the deletion of a row and of a file presupposes.
RowsInv ==
  /\ UploadedMeansStored
  /\ NoSilentLoss
  /\ DeletedRowLeavesNoFile
  /\ \A c \in discarded : row[c] = "deleted"

CountInv ==
  /\ IsFiniteSet(discarded)
  /\ DropAccounting
  /\ beatStep = "idle" => beatCount = 0

OwnerInv ==
  /\ UploadingHasOwner
  /\ agent = "booting" => Rows({"uploading"}) = {}

IInv ==
  /\ TypeOK /\ LoopsInv /\ FreshInv /\ UploadInv /\ CleanInv /\ RowsInv /\ CountInv
  /\ OwnerInv

(***************************************************************************)
(* The proof. One step per action; the auxiliary operators that actions    *)
(* share are expanded throughout.                                          *)
(***************************************************************************)
USE DEF vars, queueVars, captureVars, uploadVars, cleanVars, beatVars, serverVars,
        historyVars, Queued, Rows, Due, Droppable, IsOldest, WriteLockFree, Fault

\* A phone without rows and files satisfies the invariant.
LEMMA InitInv == Init => IInv
<1> SUFFICES ASSUME Init PROVE IInv
  OBVIOUS
<1>1. TypeOK /\ LoopsInv /\ FreshInv /\ UploadInv /\ CleanInv /\ OwnerInv
  BY CapturesAssumption, LimitsAssumption
     DEF Init, TypeOK, LoopsInv, FreshInv, UploadInv, CleanInv, OwnerInv, UploadingHasOwner
<1>2. RowsInv
  BY DEF Init, RowsInv, UploadedMeansStored, NoSilentLoss, DeletedRowLeavesNoFile
<1>3. CountInv
  BY FS_EmptySet DEF Init, CountInv, DropAccounting
<1> QED
  BY <1>1, <1>2, <1>3 DEF IInv

\* A step that leaves the history of drops alone need not reason about
\* cardinalities.
LEMMA SameDiscarded ==
  ASSUME CountInv, dropped' = dropped, acknowledged' = acknowledged,
         discarded' = discarded,
         \/ beatStep' = beatStep /\ beatCount' = beatCount
         \/ beatStep' = "idle" /\ beatCount' = 0,
         dropped \in Nat
  PROVE  CountInv'
BY DEF CountInv, DropAccounting

\* Start, recovery and end of the process.
LEMMA AgentStepsInv ==
  ASSUME IInv, StartAgent \/ LoopsStart \/ AgentStops
  PROVE  IInv'
<1> USE LimitsAssumption DEF IInv
<1>1. CASE StartAgent
  <2> USE <1>1 DEF StartAgent, RecoverInterruptedUploads
  <2>1. \A c \in Captures : row'[c] = IF row[c] = "uploading" THEN "pending" ELSE row[c]
    BY DEF TypeOK
  <2>2. TypeOK'
    BY DEF TypeOK
  <2>3. LoopsInv' /\ FreshInv'
    BY <2>1 DEF TypeOK, LoopsInv, FreshInv
  <2>4. UploadInv' /\ CleanInv'
    BY <2>1 DEF TypeOK, LoopsInv, UploadInv, CleanInv
  <2>5. RowsInv'
    BY <2>1 DEF TypeOK, RowsInv, UploadedMeansStored, NoSilentLoss, DeletedRowLeavesNoFile
  <2>6. CountInv'
    BY SameDiscarded DEF TypeOK
  <2>7. OwnerInv'
    BY <2>1 DEF TypeOK, OwnerInv, UploadingHasOwner
  <2> QED
    BY <2>2, <2>3, <2>4, <2>5, <2>6, <2>7
<1>2. CASE LoopsStart
  BY <1>2 DEF LoopsStart, TypeOK, LoopsInv, FreshInv, UploadInv, CleanInv, RowsInv,
              UploadedMeansStored, NoSilentLoss, DeletedRowLeavesNoFile, CountInv,
              DropAccounting, OwnerInv, UploadingHasOwner
<1>3. CASE AgentStops
  BY <1>3 DEF AgentStops, TypeOK, LoopsInv, FreshInv, UploadInv, CleanInv, RowsInv,
              UploadedMeansStored, NoSilentLoss, DeletedRowLeavesNoFile, CountInv,
              DropAccounting, OwnerInv, UploadingHasOwner
<1> QED
  BY <1>1, <1>2, <1>3

\* A capture and its enqueue.
LEMMA CaptureStepsInv ==
  ASSUME IInv, (\E c \in Captures : CaptureImage(c)) \/ Enqueue \/ EnqueueFails
  PROVE  IInv'
<1> USE LimitsAssumption
    DEF IInv, TypeOK, LoopsInv, FreshInv, UploadInv, CleanInv, RowsInv, UploadedMeansStored,
        NoSilentLoss, DeletedRowLeavesNoFile, CountInv, DropAccounting, OwnerInv,
        UploadingHasOwner
<1>1. ASSUME NEW c \in Captures, CaptureImage(c) PROVE IInv'
  BY <1>1 DEF CaptureImage
<1>2. CASE Enqueue
  BY <1>2, SMTT(30) DEF Enqueue
<1>3. CASE EnqueueFails
  BY <1>3 DEF EnqueueFails
<1> QED
  BY <1>1, <1>2, <1>3

\* The steps of the upload thread.
LEMMA UploadStepsInv ==
  ASSUME IInv, UploadStep
  PROVE  IInv'
<1> USE LimitsAssumption
    DEF IInv, TypeOK, LoopsInv, FreshInv, UploadInv, CleanInv, RowsInv, UploadedMeansStored,
        NoSilentLoss, DeletedRowLeavesNoFile, CountInv, DropAccounting, OwnerInv,
        UploadingHasOwner, LeaveUploading, Reschedule, MarkFailed, DeleteUploadedRow
<1>1. CASE ClaimDue
  BY <1>1, SMTT(30) DEF ClaimDue
<1>2. CASE LocalFileMissing
  BY <1>2, SMTT(30) DEF LocalFileMissing
<1>3. CASE LocalFileError
  BY <1>3, SMTT(30) DEF LocalFileError
<1>4. CASE SendUpload
  BY <1>4, SMTT(30) DEF SendUpload
<1>5. CASE UploadPutOff
  BY <1>5, SMTT(30) DEF UploadPutOff
<1>6. CASE UploadRejected
  BY <1>6, SMTT(30) DEF UploadRejected
<1>7. CASE UploadConfirmed
  BY <1>7, SMTT(30) DEF UploadConfirmed, ConfirmationReceived
<1>8. CASE MarkUploaded
  <2> USE <1>8
  <2>1. /\ uploadStep = "confirmed"
        /\ row' = [row EXCEPT ![uploadItem] = "uploaded"]
        /\ uploadStep' = "unlink"
        /\ uploadItem \in Captures /\ uploadItem \in stored /\ row[uploadItem] = "uploading"
        /\ UNCHANGED <<uploadItem, due, files, dropped, agent, captureVars, cleanVars,
                       beatVars, serverVars, cutoff, historyVars, faults>>
    BY DEF MarkUploaded
  <2>2. TypeOK'
    <3>1. row' \in [Captures -> Queued \cup {"absent", "deleted"}]
      BY <2>1
    <3> QED
      BY <2>1, <3>1
  <2>3. LoopsInv' /\ CountInv'
    BY <2>1
  <2>4. FreshInv' /\ UploadInv' /\ CleanInv'
    BY <2>1
  <2>5. RowsInv' /\ OwnerInv'
    BY <2>1
  <2> QED
    BY <2>2, <2>3, <2>4, <2>5
<1>9. CASE UnlinkUploaded
  BY <1>9, SMTT(30) DEF UnlinkUploaded
<1>10. CASE UnlinkDeferred
  BY <1>10, SMTT(30) DEF UnlinkDeferred
<1>11. CASE DeleteUploaded
  BY <1>11, SMTT(30) DEF DeleteUploaded
<1>12. CASE UploadRaises
  <2> USE <1>12 DEF UploadRaises
  <2>1. uploadItem \in Captures
    OBVIOUS
  <2>2. TypeOK'
    <3>1. stranded' \subseteq Captures
      OBVIOUS
    <3> QED
      BY <3>1
  <2>5. LoopsInv' /\ CountInv'
    OBVIOUS
  <2>3. FreshInv' /\ UploadInv' /\ CleanInv' /\ RowsInv'
    BY <2>1
  <2>4. OwnerInv'
    BY <2>1
  <2> QED
    BY <2>2, <2>3, <2>4, <2>5
<1> QED
  BY <1>1, <1>2, <1>3, <1>4, <1>5, <1>6, <1>7, <1>8, <1>9, <1>10, <1>11, <1>12
     DEF UploadStep

\* The steps of the cleanup thread.
LEMMA CleanStepsInv ==
  ASSUME IInv, CleanStep
  PROVE  IInv'
<1> USE LimitsAssumption
    DEF IInv, TypeOK, LoopsInv, FreshInv, UploadInv, CleanInv, RowsInv, UploadedMeansStored,
        NoSilentLoss, DeletedRowLeavesNoFile, OwnerInv, UploadingHasOwner,
        DeleteUploadedRow, DropTarget, StillDroppable, DropReturnsFalse
<1>1. CASE BeginCleanup
  BY <1>1, SameDiscarded DEF BeginCleanup
<1>2. CASE FinalizeDelete
  BY <1>2, SameDiscarded, SMTT(30) DEF FinalizeDelete
<1>3. CASE ReadExpired
  BY <1>3, SameDiscarded DEF ReadExpired
<1>4. CASE ExpiredDone
  BY <1>4, SameDiscarded DEF ExpiredDone
<1>5. CASE PickOverflow
  BY <1>5, SameDiscarded DEF PickOverflow
<1>6. CASE OverflowDone
  BY <1>6, SameDiscarded DEF OverflowDone
<1>7. CASE DropCommit
  <2> USE <1>7 DEF DropCommit
  <2>1. cleanItem \in Captures /\ row[cleanItem] \in {"pending", "failed"} /\ cleanItem \notin files
    OBVIOUS
  <2>2. TypeOK' /\ LoopsInv' /\ FreshInv'
    BY <2>1
  <2>3. UploadInv' /\ CleanInv'
    BY <2>1
  <2>4. RowsInv' /\ OwnerInv'
    BY <2>1
  <2>5. CountInv'
    <3>1. cleanItem \notin discarded
      BY <2>1
    <3>2. /\ IsFiniteSet(discarded \cup {cleanItem})
          /\ Cardinality(discarded \cup {cleanItem}) = Cardinality(discarded) + 1
      BY <3>1, FS_AddElement DEF CountInv
    <3> QED
      BY <3>2, FS_CardinalityType DEF CountInv, DropAccounting
  <2> QED
    BY <2>2, <2>3, <2>4, <2>5
<1>8. CASE CleanupRaises
  BY <1>8, SameDiscarded DEF CleanupRaises
<1>9. ASSUME NEW c \in Captures, FinalizeUnlink(c) PROVE IInv'
  BY <1>9, SameDiscarded, SMTT(30) DEF FinalizeUnlink
<1>10. ASSUME NEW c \in Captures, FinalizeSkips(c) PROVE IInv'
  BY <1>10, SameDiscarded DEF FinalizeSkips
<1>11. ASSUME NEW c \in Captures, DropUnlink(c) PROVE IInv'
  BY <1>11, SameDiscarded, SMTT(30) DEF DropUnlink
<1>12. ASSUME NEW c \in Captures, DropRefused(c) PROVE IInv'
  BY <1>12, SameDiscarded, SMTT(30) DEF DropRefused
<1>13. ASSUME NEW c \in Captures, DropUnlinkFails(c) PROVE IInv'
  BY <1>13, SameDiscarded, SMTT(30) DEF DropUnlinkFails
<1> QED
  BY <1>1, <1>2, <1>3, <1>4, <1>5, <1>6, <1>7, <1>8, <1>9, <1>10, <1>11, <1>12, <1>13
     DEF CleanStep

\* The heartbeat, the server, and time.
LEMMA OtherStepsInv ==
  ASSUME IInv,
         \/ ReadRuntimeState \/ HeartbeatAccepted \/ HeartbeatFails
         \/ (\E c \in Captures : ServerStores(c) \/ BackoffElapses(c)) \/ TimePasses
         \/ UNCHANGED vars
  PROVE  IInv'
<1> USE CapturesAssumption, LimitsAssumption
    DEF IInv, TypeOK, LoopsInv, FreshInv, UploadInv, CleanInv, RowsInv, UploadedMeansStored,
        NoSilentLoss, DeletedRowLeavesNoFile, CountInv, DropAccounting, OwnerInv,
        UploadingHasOwner
<1>1. CASE ReadRuntimeState
  BY <1>1 DEF ReadRuntimeState
<1>2. CASE HeartbeatAccepted
  BY <1>2, FS_CardinalityType DEF HeartbeatAccepted, Remaining
<1>3. CASE HeartbeatFails
  BY <1>3 DEF HeartbeatFails
<1>4. ASSUME NEW c \in Captures, ServerStores(c) PROVE IInv'
  BY <1>4 DEF ServerStores
<1>5. ASSUME NEW c \in Captures, BackoffElapses(c) PROVE IInv'
  BY <1>5 DEF BackoffElapses
<1>6. CASE TimePasses
  BY <1>6 DEF TimePasses
<1>7. CASE UNCHANGED vars
  BY <1>7
<1> QED
  BY <1>1, <1>2, <1>3, <1>4, <1>5, <1>6, <1>7

\* Every step keeps the invariant.
LEMMA NextInv == IInv /\ [Next]_vars => IInv'
BY AgentStepsInv, CaptureStepsInv, UploadStepsInv, CleanStepsInv, OtherStepsInv DEF Next

\* IInv is an invariant of the queue.
THEOREM Invariance == Spec => []IInv
BY InitInv, NextInv, PTL DEF Spec

(***************************************************************************)
(* The properties.                                                         *)
(***************************************************************************)

\* The state of the queue, of the loops and of the server stays well formed.
THEOREM TypeCorrect == Spec => []TypeOK
<1>1. IInv => TypeOK
  BY DEF IInv
<1> QED
  BY Invariance, <1>1, PTL

\* confirm_uploaded, finalize_uploaded_files and _drop_scheduled never lose an
\* image between them: for any number of images, kills and failing unlinks, a
\* queued image whose row is gone is stored or counted as dropped.
THEOREM NothingLostSilently == Spec => []NoSilentLoss
<1>1. IInv => NoSilentLoss
  BY DEF IInv, RowsInv
<1> QED
  BY Invariance, <1>1, PTL

\* Cleanup never takes an image away under an upload.
THEOREM UploadsHoldTheirImage == Spec => []InFlightImageIsHeld
<1>1. IInv => InFlightImageIsHeld
  BY DEF IInv, UploadInv, InFlightImageIsHeld
<1> QED
  BY Invariance, <1>1, PTL

\* A deleted row leaves no file behind.
THEOREM NoFileLeftBehind == Spec => []DeletedRowLeavesNoFile
<1>1. IInv => DeletedRowLeavesNoFile
  BY DEF IInv, RowsInv
<1> QED
  BY Invariance, <1>1, PTL

\* Counter and acknowledgements add up to the images dropped.
THEOREM DropsReportedOnce == Spec => []DropAccounting
<1>1. IInv => DropAccounting
  BY DEF IInv, CountInv
<1> QED
  BY Invariance, <1>1, PTL

\* Start-up recovery overlooks no interrupted upload.
THEOREM NoForgottenUpload == Spec => []UploadingHasOwner
<1>1. IInv => UploadingHasOwner
  BY DEF IInv, OwnerInv
<1> QED
  BY Invariance, <1>1, PTL

\* An image leaves the phone only when the server has it or when it is dropped
\* from a pending or failed row.
THEOREM DeletionIsSafe == Spec => ImagesLeaveSafely
<1>1. IInv /\ [Next]_vars => [\A c \in files \ files' : c \in stored \/ row[c] \in {"pending", "failed"}]_vars
  <2> SUFFICES ASSUME IInv, Next, NEW c \in files \ files'
               PROVE  c \in stored \/ row[c] \in {"pending", "failed"}
    OBVIOUS
  <2> USE DEF IInv, TypeOK
  <2>1. CASE UnlinkUploaded
    BY <2>1 DEF UnlinkUploaded, UploadInv
  <2>2. ASSUME NEW d \in Captures, FinalizeUnlink(d)
        PROVE  c \in stored \/ row[c] \in {"pending", "failed"}
    <3>1. c = d /\ row[d] \in {"uploaded", "deleted"}
      BY <2>2 DEF FinalizeUnlink, CleanInv
    <3>2. row[c] # "deleted"
      BY DEF RowsInv, DeletedRowLeavesNoFile
    <3> QED
      BY <3>1, <3>2 DEF RowsInv, UploadedMeansStored
  <2>3. ASSUME NEW d \in Captures, DropUnlink(d)
        PROVE  c \in stored \/ row[c] \in {"pending", "failed"}
    BY <2>3 DEF DropUnlink, StillDroppable
  <2>4. CASE UNCHANGED files
    BY <2>4
  <2>5. ASSUME NEW d \in Captures, CaptureImage(d)
        PROVE  c \in stored \/ row[c] \in {"pending", "failed"}
    BY <2>5 DEF CaptureImage
  <2> QED
    BY <2>1, <2>2, <2>3, <2>4, <2>5 DEF Next, UploadStep, CleanStep,
       StartAgent, LoopsStart, AgentStops, Enqueue, EnqueueFails, ClaimDue, LocalFileMissing,
       LocalFileError, SendUpload, UploadPutOff, UploadRejected, UploadConfirmed, MarkUploaded,
       UnlinkDeferred, DeleteUploaded, UploadRaises, LeaveUploading, Reschedule, MarkFailed,
       BeginCleanup, FinalizeDelete, ReadExpired, ExpiredDone, PickOverflow, OverflowDone,
       DropCommit, CleanupRaises, FinalizeSkips, DropRefused, DropUnlinkFails,
       DropReturnsFalse, ReadRuntimeState, HeartbeatAccepted, HeartbeatFails, ServerStores,
       BackoffElapses, TimePasses
<1> QED
  BY Invariance, <1>1, PTL DEF Spec, ImagesLeaveSafely

\* An image is marked uploaded only when the server has it.
THEOREM UploadedIsStored == Spec => []UploadedMeansStored
<1>1. IInv => UploadedMeansStored
  BY DEF IInv, RowsInv
<1> QED
  BY Invariance, <1>1, PTL

\* A confirmed image is never queued for upload again.
THEOREM NeverSentAgain == Spec => UploadedIsNotSentAgain
<1> DEFINE Stays == \A c \in Rows({"uploaded"}) : row'[c] \in {"uploaded", "deleted"}
<1>1. IInv /\ [Next]_vars => [Stays]_vars
  <2> SUFFICES ASSUME IInv, Next PROVE Stays
    OBVIOUS
  <2> USE DEF IInv, TypeOK
  <2>1. CASE StartAgent
    BY <2>1 DEF StartAgent, RecoverInterruptedUploads
  <2>2. CASE Enqueue
    BY <2>2 DEF Enqueue, FreshInv
  <2>3. CASE UploadStep
    BY <2>3 DEF UploadStep, ClaimDue, LocalFileMissing, LocalFileError, SendUpload,
       UploadPutOff, UploadRejected, UploadConfirmed, MarkUploaded, UnlinkUploaded,
       UnlinkDeferred, DeleteUploaded, DeleteUploadedRow, UploadRaises, LeaveUploading,
       Reschedule, MarkFailed
  <2>4. CASE FinalizeDelete \/ DropCommit
    BY <2>4 DEF FinalizeDelete, DeleteUploadedRow, DropCommit
  <2>5. CASE UNCHANGED row
    BY <2>5
  <2> QED
    BY <2>1, <2>2, <2>3, <2>4, <2>5 DEF Next, CleanStep, LoopsStart, AgentStops, CaptureImage,
       EnqueueFails, BeginCleanup, ReadExpired, ExpiredDone, PickOverflow, OverflowDone,
       CleanupRaises, FinalizeUnlink, FinalizeSkips, DropUnlink, DropRefused, DropUnlinkFails,
       DropReturnsFalse, ReadRuntimeState, HeartbeatAccepted, HeartbeatFails, ServerStores,
       BackoffElapses, TimePasses
<1> QED
  BY Invariance, <1>1, PTL DEF Spec, UploadedIsNotSentAgain

(***************************************************************************)
(* Refinement: every step of the queue is a step of CaptureCustody or      *)
(* leaves custody as it is. What matters of a step is its effect on the    *)
(* rows, on the server's images and on the drop count.                     *)
(***************************************************************************)
CustodyUnchanged ==
  /\ Rows(Queued)' = Rows(Queued)
  /\ UNCHANGED <<stored, discarded, dropped>>

\* Nothing is held at the start.
LEMMA CustodyInit == Init => Custody!Init
BY DEF Init, Custody!Init

\* Actions that leave rows, server and drop count alone.
LEMMA CustodyIdle ==
  ASSUME UNCHANGED <<row, stored, discarded, dropped>>
  PROVE  CustodyUnchanged
BY DEF CustodyUnchanged

\* Every step of the queue is a step of CaptureCustody, or changes nothing it sees.
LEMMA CustodyNext == IInv /\ [Next]_vars => [Custody!Next]_(Custody!vars)
<1> SUFFICES ASSUME IInv, [Next]_vars
             PROVE  Custody!Next \/ CustodyUnchanged
  BY DEF Custody!vars, CustodyUnchanged
<1> USE DEF IInv, TypeOK
<1>1. CASE Enqueue
  <2>1. PICK c \in Captures : c = captureItem /\ row[c] = "absent"
    BY <1>1 DEF Enqueue, FreshInv
  <2>2. /\ Rows(Queued)' = Rows(Queued) \cup {c}
        /\ UNCHANGED <<stored, discarded, dropped>>
    BY <1>1, <2>1 DEF Enqueue
  <2>3. c \notin Rows(Queued) \cup stored \cup discarded
    BY <2>1 DEF FreshInv
  <2>4. Custody!Hold(c)
    BY <2>2, <2>3 DEF Custody!Hold
  <2> QED
    BY <2>4 DEF Custody!Next
<1>2. ASSUME NEW c \in Captures, ServerStores(c) PROVE Custody!Next \/ CustodyUnchanged
  <2>1. CASE c \in stored
    BY <1>2, <2>1 DEF ServerStores, CustodyUnchanged
  <2>2. CASE c \notin stored
    <3>1. c \in Rows(Queued) \cup discarded
      BY <1>2, <2>2 DEF ServerStores, FreshInv, RowsInv, NoSilentLoss
    <3>2. Custody!Archive(c)
      BY <1>2, <3>1 DEF ServerStores, Custody!Archive
    <3> QED
      BY <3>2 DEF Custody!Next
  <2> QED
    BY <2>1, <2>2
<1>3. CASE DropCommit
  <2>1. PICK c \in Captures : c = cleanItem /\ row[c] \in Droppable
    BY <1>3 DEF DropCommit, CleanInv
  <2>2. c \in Rows(Queued) /\ Rows(Queued)' = Rows(Queued) \ {c}
    BY <1>3, <2>1 DEF DropCommit
  <2>3. Custody!Discard(c)
    BY <1>3, <2>1, <2>2 DEF DropCommit, Custody!Discard
  <2> QED
    BY <2>3 DEF Custody!Next
<1>4. ASSUME NEW c \in Captures, DeleteUploadedRow(c), UNCHANGED <<stored, discarded, dropped>>
      PROVE  Custody!Next \/ CustodyUnchanged
  <2>1. CASE row[c] = "uploaded"
    <3>1. c \in Rows(Queued) /\ c \in stored /\ Rows(Queued)' = Rows(Queued) \ {c}
      BY <1>4, <2>1 DEF DeleteUploadedRow, RowsInv, UploadedMeansStored
    <3>2. Custody!Release(c)
      BY <1>4, <3>1 DEF Custody!Release
    <3> QED
      BY <3>2 DEF Custody!Next
  <2>2. CASE row[c] # "uploaded"
    BY <1>4, <2>2 DEF DeleteUploadedRow, CustodyUnchanged
  <2> QED
    BY <2>1, <2>2
<1>5. CASE DeleteUploaded
  BY <1>4, <1>5 DEF DeleteUploaded, UploadInv
<1>6. CASE FinalizeDelete
  BY <1>4, <1>6 DEF FinalizeDelete, CleanInv
<1>7. CASE HeartbeatAccepted
  <2>1. CASE beatCount = 0
    BY <1>7, <2>1 DEF HeartbeatAccepted, Remaining, CustodyUnchanged
  <2>2. CASE beatCount # 0
    <3>1. beatCount \in 1..dropped /\ dropped' = dropped - beatCount
      BY <1>7, <2>2 DEF HeartbeatAccepted, Remaining, CountInv, DropAccounting
    <3>2. Custody!Report(beatCount)
      BY <1>7, <3>1 DEF HeartbeatAccepted, Custody!Report
    <3> QED
      BY <3>1, <3>2 DEF Custody!Next
  <2> QED
    BY <2>1, <2>2
<1>8. CASE StartAgent
  BY <1>8 DEF StartAgent, RecoverInterruptedUploads, CustodyUnchanged
<1>9. CASE ClaimDue
  BY <1>9 DEF ClaimDue, CustodyUnchanged
<1>10. CASE LocalFileMissing \/ LocalFileError \/ UploadPutOff \/ UploadRejected
  <2>1. PICK to \in {"pending", "failed"} :
          /\ row' = [row EXCEPT ![uploadItem] = IF @ = "uploading" THEN to ELSE @]
          /\ UNCHANGED <<stored, discarded, dropped>>
    BY <1>10 DEF LocalFileMissing, LocalFileError, UploadPutOff, UploadRejected, Reschedule,
                 MarkFailed, LeaveUploading
  <2> QED
    BY <2>1 DEF CustodyUnchanged
<1>11. CASE MarkUploaded
  BY <1>11 DEF MarkUploaded, CustodyUnchanged
<1>12. CASE UNCHANGED <<row, stored, discarded, dropped>>
  BY <1>12, CustodyIdle
<1> QED
  BY <1>1, <1>2, <1>3, <1>5, <1>6, <1>7, <1>8, <1>9, <1>10, <1>11, <1>12
     DEF Next, UploadStep, CleanStep, LoopsStart, AgentStops, CaptureImage, EnqueueFails,
         SendUpload, UploadConfirmed, UnlinkUploaded, UnlinkDeferred, UploadRaises,
         BeginCleanup, ReadExpired, ExpiredDone, PickOverflow, OverflowDone, CleanupRaises,
         FinalizeUnlink, FinalizeSkips, DropUnlink, DropRefused, DropUnlinkFails,
         DropReturnsFalse, ReadRuntimeState, HeartbeatFails, BackoffElapses, TimePasses

\* The queue keeps the promise of CaptureCustody: an image is held until the
\* server has it or until it is discarded and counted.
THEOREM Refinement == Spec => KeepsCustody
<1>1. Init => Custody!Init
  BY CustodyInit
<1> QED
  BY <1>1, Invariance, CustodyNext, PTL DEF Spec, KeepsCustody, Custody!Spec

(***************************************************************************)
(* The properties of the runs.                                             *)
(***************************************************************************)

\* Rows, files, the server and the count of drops agree in every state.
THEOREM RowsMatch == Spec => []RowsTellTheTruth
  BY NothingLostSilently, UploadedIsStored, NoFileLeftBehind, PTL DEF RowsTellTheTruth

\* Images leave for a good reason, and a confirmed one is not sent again.
THEOREM ImagesLeaveOnce == Spec => LeavesOnce
  BY DeletionIsSafe, NeverSentAgain DEF LeavesOnce

=============================================================================
