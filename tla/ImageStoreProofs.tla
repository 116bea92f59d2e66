-------------------------- MODULE ImageStoreProofs --------------------------
(***************************************************************************)
(* Proofs about the safety of ImageStore, for any images, any requests and *)
(* any number of faults.                                                   *)
(***************************************************************************)
EXTENDS ImageStore, TLAPS

(***************************************************************************)
(* The inductive invariant.                                                *)
(***************************************************************************)

\* A row has one holder: an upload, retention, reconciliation or the export.
LockInv ==
  /\ \A u, v \in Uploads :
       request[u] \in Locking /\ request[v] \in Locking /\ ImageOf[u] = ImageOf[v] => u = v
  /\ \A u \in Uploads :
       request[u] \in Locking =>
         ImageOf[u] \notin retentionLocks \cup recFlushed \cup ExportLocks
  /\ retentionLocks \cap recFlushed = {}
  /\ retentionLocks \cap ExportLocks = {}
  /\ recFlushed \cap ExportLocks = {}

\* The row of an upload stays as the upload found it under its lock.
UploadInv ==
  \A u \in Uploads : request[u] \in Locking => row[ImageOf[u]] \in {"staging", "stored"}

\* Retention holds stored rows; what it is about to delete is in no analysis
\* and in no fresh export; what it has deleted has no file.
RetentionInv ==
  /\ retentionStep = "idle" => retentionLocks = {}
  /\ retentionBatch \subseteq retentionLocks
  /\ tombs \subseteq retentionLocks \ Files({"valid", "invalid"})
  /\ \A i \in retentionLocks : row[i] = "stored"
  /\ retentionStep \in {"deleting", "emergency", "progress"} =>
       \A i \in retentionBatch :
         ~InAnalysis(i) /\ (HeldByExport(i) => exportStep = "expired")

\* Reconciliation marks rows that exist.
RecInv ==
  /\ recStep = "missing" => recBatch \subseteq Images \ Rows({"absent"})
  /\ recMarks \cup recFlushed \subseteq Images \ Rows({"absent"})

\* The images of which a copy exists, or of which it is known why not.
Kept == Files({"valid"}) \cup aside \cup unlinked \cup damaged

\* An upload has put its image in place before it is confirmed.
KeptInv ==
  /\ \A u \in Uploads : request[u] \in {"installed", "stored"} => ImageOf[u] \in Kept
  /\ TombstoneHasNoFile

IInv == TypeOK /\ LockInv /\ UploadInv /\ RetentionInv /\ RecInv /\ KeptInv

(***************************************************************************)
(* The proof. The operators that actions share are expanded throughout.    *)
(***************************************************************************)
USE DEF vars, clockVars, exportVars, retentionVars, recVars, Locking, Answered, Fault, Goto,
        Rows, Files, CaptureLocked, ExportLocks, RowLocked, ExportMoves, HeldByExport, InAnalysis,
       
        RetentionGoto, RecUnchanged, RecStays, RecEnds, Kept, TombstoneHasNoFile

\* An empty archive satisfies the invariant.
LEMMA InitInv == Init => IInv
BY UploadsAssumption, BoundsAssumption
   DEF Init, IInv, TypeOK, LockInv, UploadInv, RetentionInv, RecInv, KeptInv

\* The steps of an upload, and the lock cycle it may be in.
LEMMA UploadStepsInv ==
  ASSUME IInv, NEW u \in Uploads,
                  ReceiveUpload(u) \/ StageRow(u) \/ LockImage(u) \/ InstallFile(u) \/
             SetConflictAside(u) \/ ReplaceFile(u) \/ CommitStored(u) \/ UploadFails(u) \/
             DeadlockFailsUpload(u) \/ DeadlockFailsRec(u)
  PROVE  IInv'
<1> USE UploadsAssumption, BoundsAssumption DEF IInv
<1>1. CASE ReceiveUpload(u)
  <2>1. TypeOK' BY <1>1, SMTT(30) DEF ReceiveUpload, TypeOK
  <2>2. LockInv' BY <1>1, SMTT(30) DEF ReceiveUpload, TypeOK, LockInv
    <2>3. UploadInv' BY <1>1, SMTT(30) DEF ReceiveUpload, TypeOK, LockInv, UploadInv,
      RetentionInv
    <2>4. RetentionInv' BY <1>1, SMTT(30) DEF ReceiveUpload, TypeOK, LockInv, UploadInv,
      RetentionInv
  <2>5. RecInv' BY <1>1, SMTT(30) DEF ReceiveUpload, TypeOK, RecInv, LockInv
    <2>6. KeptInv' BY <1>1, SMTT(30) DEF ReceiveUpload, TypeOK, LockInv, UploadInv,
      RetentionInv, KeptInv
  <2> QED BY <2>1, <2>2, <2>3, <2>4, <2>5, <2>6
<1>2. CASE StageRow(u)
  <2>1. TypeOK' BY <1>2, SMTT(30) DEF StageRow, TypeOK
  <2>2. LockInv' BY <1>2, SMTT(30) DEF StageRow, TypeOK, LockInv
  <2>3. UploadInv' BY <1>2, SMTT(30) DEF StageRow, TypeOK, LockInv, UploadInv, RetentionInv
    <2>4. RetentionInv' BY <1>2, SMTT(30) DEF StageRow, TypeOK, LockInv, UploadInv,
      RetentionInv
  <2>5. RecInv' BY <1>2, SMTT(30) DEF StageRow, TypeOK, RecInv, LockInv
    <2>6. KeptInv' BY <1>2, SMTT(30) DEF StageRow, TypeOK, LockInv, UploadInv, RetentionInv,
      KeptInv
  <2> QED BY <2>1, <2>2, <2>3, <2>4, <2>5, <2>6
<1>3. CASE LockImage(u)
  <2>1. TypeOK' BY <1>3, SMTT(30) DEF LockImage, TypeOK
  <2>2. LockInv' BY <1>3, SMTT(30) DEF LockImage, TypeOK, LockInv
  <2>3. UploadInv' BY <1>3, SMTT(30) DEF LockImage, TypeOK, LockInv, UploadInv, RetentionInv
    <2>4. RetentionInv' BY <1>3, SMTT(30) DEF LockImage, TypeOK, LockInv, UploadInv,
      RetentionInv
  <2>5. RecInv' BY <1>3, SMTT(30) DEF LockImage, TypeOK, RecInv, LockInv
    <2>6. KeptInv' BY <1>3, SMTT(30) DEF LockImage, TypeOK, LockInv, UploadInv,
      RetentionInv, KeptInv
  <2> QED BY <2>1, <2>2, <2>3, <2>4, <2>5, <2>6
<1>4. CASE InstallFile(u)
  <2>1. TypeOK' BY <1>4, SMTT(30) DEF InstallFile, TypeOK
  <2>2. LockInv' BY <1>4, SMTT(30) DEF InstallFile, TypeOK, LockInv
    <2>3. UploadInv' BY <1>4, SMTT(30) DEF InstallFile, TypeOK, LockInv, UploadInv,
      RetentionInv
    <2>4. RetentionInv' BY <1>4, SMTT(30) DEF InstallFile, TypeOK, LockInv, UploadInv,
      RetentionInv
  <2>5. RecInv' BY <1>4, SMTT(30) DEF InstallFile, TypeOK, RecInv, LockInv
    <2>6. KeptInv' BY <1>4, SMTT(30) DEF InstallFile, TypeOK, LockInv, UploadInv,
      RetentionInv, KeptInv
  <2> QED BY <2>1, <2>2, <2>3, <2>4, <2>5, <2>6
<1>5. CASE SetConflictAside(u)
  <2>1. TypeOK' BY <1>5, SMTT(30) DEF SetConflictAside, TypeOK
  <2>2. LockInv' BY <1>5, SMTT(30) DEF SetConflictAside, TypeOK, LockInv
    <2>3. UploadInv' BY <1>5, SMTT(30) DEF SetConflictAside, TypeOK, LockInv, UploadInv,
      RetentionInv
    <2>4. RetentionInv' BY <1>5, SMTT(30) DEF SetConflictAside, TypeOK, LockInv, UploadInv,
      RetentionInv
  <2>5. RecInv' BY <1>5, SMTT(30) DEF SetConflictAside, TypeOK, RecInv, LockInv
    <2>6. KeptInv' BY <1>5, SMTT(30) DEF SetConflictAside, TypeOK, LockInv, UploadInv,
      RetentionInv, KeptInv
  <2> QED BY <2>1, <2>2, <2>3, <2>4, <2>5, <2>6
<1>6. CASE ReplaceFile(u)
  <2>1. TypeOK' BY <1>6, SMTT(30) DEF ReplaceFile, TypeOK
  <2>2. LockInv' BY <1>6, SMTT(30) DEF ReplaceFile, TypeOK, LockInv
    <2>3. UploadInv' BY <1>6, SMTT(30) DEF ReplaceFile, TypeOK, LockInv, UploadInv,
      RetentionInv
    <2>4. RetentionInv' BY <1>6, SMTT(30) DEF ReplaceFile, TypeOK, LockInv, UploadInv,
      RetentionInv
  <2>5. RecInv' BY <1>6, SMTT(30) DEF ReplaceFile, TypeOK, RecInv, LockInv
    <2>6. KeptInv' BY <1>6, SMTT(30) DEF ReplaceFile, TypeOK, LockInv, UploadInv,
      RetentionInv, KeptInv
  <2> QED BY <2>1, <2>2, <2>3, <2>4, <2>5, <2>6
<1>7. CASE CommitStored(u)
  <2>1. TypeOK' BY <1>7, SMTT(30) DEF CommitStored, TypeOK
  <2>2. LockInv' BY <1>7, SMTT(30) DEF CommitStored, TypeOK, LockInv
    <2>3. UploadInv' BY <1>7, SMTT(30) DEF CommitStored, TypeOK, LockInv, UploadInv,
      RetentionInv
    <2>4. RetentionInv' BY <1>7, SMTT(30) DEF CommitStored, TypeOK, LockInv, UploadInv,
      RetentionInv
  <2>5. RecInv' BY <1>7, SMTT(30) DEF CommitStored, TypeOK, RecInv, LockInv
    <2>6. KeptInv' BY <1>7, SMTT(30) DEF CommitStored, TypeOK, LockInv, UploadInv,
      RetentionInv, KeptInv
  <2> QED BY <2>1, <2>2, <2>3, <2>4, <2>5, <2>6
<1>8. CASE UploadFails(u)
  <2>1. TypeOK' BY <1>8, SMTT(30) DEF UploadFails, TypeOK
  <2>2. LockInv' BY <1>8, SMTT(30) DEF UploadFails, TypeOK, LockInv
    <2>3. UploadInv' BY <1>8, SMTT(30) DEF UploadFails, TypeOK, LockInv, UploadInv,
      RetentionInv
    <2>4. RetentionInv' BY <1>8, SMTT(30) DEF UploadFails, TypeOK, LockInv, UploadInv,
      RetentionInv
  <2>5. RecInv' BY <1>8, SMTT(30) DEF UploadFails, TypeOK, RecInv, LockInv
    <2>6. KeptInv' BY <1>8, SMTT(30) DEF UploadFails, TypeOK, LockInv, UploadInv,
      RetentionInv, KeptInv
  <2> QED BY <2>1, <2>2, <2>3, <2>4, <2>5, <2>6
<1>9. CASE DeadlockFailsUpload(u)
  <2>1. TypeOK' BY <1>9, SMTT(30) DEF DeadlockFailsUpload, InDeadlock, TypeOK
  <2>2. LockInv' BY <1>9, SMTT(30) DEF DeadlockFailsUpload, InDeadlock, TypeOK, LockInv
    <2>3. UploadInv' BY <1>9, SMTT(30) DEF DeadlockFailsUpload, InDeadlock, TypeOK, LockInv,
      UploadInv, RetentionInv
    <2>4. RetentionInv' BY <1>9, SMTT(30) DEF DeadlockFailsUpload, InDeadlock, TypeOK,
      LockInv, UploadInv, RetentionInv
    <2>5. RecInv' BY <1>9, SMTT(30) DEF DeadlockFailsUpload, InDeadlock, TypeOK, RecInv,
      LockInv
    <2>6. KeptInv' BY <1>9, SMTT(30) DEF DeadlockFailsUpload, InDeadlock, TypeOK, LockInv,
      UploadInv, RetentionInv, KeptInv
  <2> QED BY <2>1, <2>2, <2>3, <2>4, <2>5, <2>6
<1>10. CASE DeadlockFailsRec(u)
  <2>1. TypeOK' BY <1>10, SMTT(30) DEF DeadlockFailsRec, InDeadlock, TypeOK
  <2>2. LockInv' BY <1>10, SMTT(30) DEF DeadlockFailsRec, InDeadlock, TypeOK, LockInv
    <2>3. UploadInv' BY <1>10, SMTT(30) DEF DeadlockFailsRec, InDeadlock, TypeOK, LockInv,
      UploadInv, RetentionInv
    <2>4. RetentionInv' BY <1>10, SMTT(30) DEF DeadlockFailsRec, InDeadlock, TypeOK,
      LockInv, UploadInv, RetentionInv
  <2>5. RecInv' BY <1>10, SMTT(30) DEF DeadlockFailsRec, InDeadlock, TypeOK, RecInv, LockInv
    <2>6. KeptInv' BY <1>10, SMTT(30) DEF DeadlockFailsRec, InDeadlock, TypeOK, LockInv,
      UploadInv, RetentionInv, KeptInv
  <2> QED BY <2>1, <2>2, <2>3, <2>4, <2>5, <2>6
<1> QED BY <1>1, <1>2, <1>3, <1>4, <1>5, <1>6, <1>7, <1>8, <1>9, <1>10

\* Exports.
LEMMA ExportStepsInv ==
  ASSUME IInv,
         ExportSnapshot \/ ExportCommit \/ ExportExpires \/ ExportEnds
  PROVE  IInv'
<1> USE UploadsAssumption, BoundsAssumption DEF IInv
<1>1. CASE ExportSnapshot
  <2>1. TypeOK' BY <1>1, SMTT(30) DEF ExportSnapshot, TypeOK
  <2>2. LockInv' BY <1>1, SMTT(30) DEF ExportSnapshot, TypeOK, LockInv
    <2>3. UploadInv' BY <1>1, SMTT(30) DEF ExportSnapshot, TypeOK, LockInv, UploadInv,
      RetentionInv
    <2>4. RetentionInv' BY <1>1, SMTT(30) DEF ExportSnapshot, TypeOK, LockInv, UploadInv,
      RetentionInv
  <2>5. RecInv' BY <1>1, SMTT(30) DEF ExportSnapshot, TypeOK, RecInv, LockInv
    <2>6. KeptInv' BY <1>1, SMTT(30) DEF ExportSnapshot, TypeOK, LockInv, UploadInv,
      RetentionInv, KeptInv
  <2> QED BY <2>1, <2>2, <2>3, <2>4, <2>5, <2>6
<1>2. CASE ExportCommit
  <2>1. TypeOK' BY <1>2, SMTT(30) DEF ExportCommit, TypeOK
  <2>2. LockInv' BY <1>2, SMTT(30) DEF ExportCommit, TypeOK, LockInv
    <2>3. UploadInv' BY <1>2, SMTT(30) DEF ExportCommit, TypeOK, LockInv, UploadInv,
      RetentionInv
    <2>4. RetentionInv' BY <1>2, SMTT(30) DEF ExportCommit, TypeOK, LockInv, UploadInv,
      RetentionInv
  <2>5. RecInv' BY <1>2, SMTT(30) DEF ExportCommit, TypeOK, RecInv, LockInv
    <2>6. KeptInv' BY <1>2, SMTT(30) DEF ExportCommit, TypeOK, LockInv, UploadInv,
      RetentionInv, KeptInv
  <2> QED BY <2>1, <2>2, <2>3, <2>4, <2>5, <2>6
<1>3. CASE ExportExpires
  <2>1. TypeOK' BY <1>3, SMTT(30) DEF ExportExpires, TypeOK
  <2>2. LockInv' BY <1>3, SMTT(30) DEF ExportExpires, TypeOK, LockInv
    <2>3. UploadInv' BY <1>3, SMTT(30) DEF ExportExpires, TypeOK, LockInv, UploadInv,
      RetentionInv
    <2>4. RetentionInv' BY <1>3, SMTT(30) DEF ExportExpires, TypeOK, LockInv, UploadInv,
      RetentionInv
  <2>5. RecInv' BY <1>3, SMTT(30) DEF ExportExpires, TypeOK, RecInv, LockInv
    <2>6. KeptInv' BY <1>3, SMTT(30) DEF ExportExpires, TypeOK, LockInv, UploadInv,
      RetentionInv, KeptInv
  <2> QED BY <2>1, <2>2, <2>3, <2>4, <2>5, <2>6
<1>4. CASE ExportEnds
  <2>1. TypeOK' BY <1>4, SMTT(30) DEF ExportEnds, TypeOK
  <2>2. LockInv' BY <1>4, SMTT(30) DEF ExportEnds, TypeOK, LockInv
    <2>3. UploadInv' BY <1>4, SMTT(30) DEF ExportEnds, TypeOK, LockInv, UploadInv,
      RetentionInv
    <2>4. RetentionInv' BY <1>4, SMTT(30) DEF ExportEnds, TypeOK, LockInv, UploadInv,
      RetentionInv
  <2>5. RecInv' BY <1>4, SMTT(30) DEF ExportEnds, TypeOK, RecInv, LockInv
    <2>6. KeptInv' BY <1>4, SMTT(30) DEF ExportEnds, TypeOK, LockInv, UploadInv,
      RetentionInv, KeptInv
  <2> QED BY <2>1, <2>2, <2>3, <2>4, <2>5, <2>6
<1> QED BY <1>1, <1>2, <1>3, <1>4

\* Analyses, time and the disk.
LEMMA OutsideStepsInv ==
  ASSUME IInv, NEW i \in Images,
         AnalysisEnds(i) \/ GrowsOld(i) \/ GrowsStale(i) \/ DiskDamages(i)
  PROVE  IInv'
<1> USE UploadsAssumption, BoundsAssumption DEF IInv
<1>1. CASE AnalysisEnds(i)
  <2>1. TypeOK' BY <1>1, SMTT(30) DEF AnalysisEnds, TypeOK
  <2>2. LockInv' BY <1>1, SMTT(30) DEF AnalysisEnds, TypeOK, LockInv
    <2>3. UploadInv' BY <1>1, SMTT(30) DEF AnalysisEnds, TypeOK, LockInv, UploadInv,
      RetentionInv
    <2>4. RetentionInv' BY <1>1, SMTT(30) DEF AnalysisEnds, TypeOK, LockInv, UploadInv,
      RetentionInv
  <2>5. RecInv' BY <1>1, SMTT(30) DEF AnalysisEnds, TypeOK, RecInv, LockInv
    <2>6. KeptInv' BY <1>1, SMTT(30) DEF AnalysisEnds, TypeOK, LockInv, UploadInv,
      RetentionInv, KeptInv
  <2> QED BY <2>1, <2>2, <2>3, <2>4, <2>5, <2>6
<1>2. CASE GrowsOld(i)
  <2>1. TypeOK' BY <1>2, SMTT(30) DEF GrowsOld, TypeOK
  <2>2. LockInv' BY <1>2, SMTT(30) DEF GrowsOld, TypeOK, LockInv
  <2>3. UploadInv' BY <1>2, SMTT(30) DEF GrowsOld, TypeOK, LockInv, UploadInv, RetentionInv
    <2>4. RetentionInv' BY <1>2, SMTT(30) DEF GrowsOld, TypeOK, LockInv, UploadInv,
      RetentionInv
  <2>5. RecInv' BY <1>2, SMTT(30) DEF GrowsOld, TypeOK, RecInv, LockInv
    <2>6. KeptInv' BY <1>2, SMTT(30) DEF GrowsOld, TypeOK, LockInv, UploadInv, RetentionInv,
      KeptInv
  <2> QED BY <2>1, <2>2, <2>3, <2>4, <2>5, <2>6
<1>3. CASE GrowsStale(i)
  <2>1. TypeOK' BY <1>3, SMTT(30) DEF GrowsStale, TypeOK
  <2>2. LockInv' BY <1>3, SMTT(30) DEF GrowsStale, TypeOK, LockInv
    <2>3. UploadInv' BY <1>3, SMTT(30) DEF GrowsStale, TypeOK, LockInv, UploadInv,
      RetentionInv
    <2>4. RetentionInv' BY <1>3, SMTT(30) DEF GrowsStale, TypeOK, LockInv, UploadInv,
      RetentionInv
  <2>5. RecInv' BY <1>3, SMTT(30) DEF GrowsStale, TypeOK, RecInv, LockInv
    <2>6. KeptInv' BY <1>3, SMTT(30) DEF GrowsStale, TypeOK, LockInv, UploadInv,
      RetentionInv, KeptInv
  <2> QED BY <2>1, <2>2, <2>3, <2>4, <2>5, <2>6
<1>4. CASE DiskDamages(i)
  <2>1. TypeOK' BY <1>4, SMTT(30) DEF DiskDamages, TypeOK
  <2>2. LockInv' BY <1>4, SMTT(30) DEF DiskDamages, TypeOK, LockInv
    <2>3. UploadInv' BY <1>4, SMTT(30) DEF DiskDamages, TypeOK, LockInv, UploadInv,
      RetentionInv
    <2>4. RetentionInv' BY <1>4, SMTT(30) DEF DiskDamages, TypeOK, LockInv, UploadInv,
      RetentionInv
  <2>5. RecInv' BY <1>4, SMTT(30) DEF DiskDamages, TypeOK, RecInv, LockInv
    <2>6. KeptInv' BY <1>4, SMTT(30) DEF DiskDamages, TypeOK, LockInv, UploadInv,
      RetentionInv, KeptInv
  <2> QED BY <2>1, <2>2, <2>3, <2>4, <2>5, <2>6
<1> QED BY <1>1, <1>2, <1>3, <1>4

\* Retention: its queries and its end ...
LEMMA RetentionStepsInv ==
  ASSUME IInv,
                  RetentionLocks \/ RetentionSelects \/ EmergencyLocks \/ EmergencySelects
             \/ RetentionCommit \/ RetentionAborts
  PROVE  IInv'
<1> USE UploadsAssumption, BoundsAssumption DEF IInv
<1>1. CASE RetentionLocks
  <2>1. TypeOK' BY <1>1, SMTT(30) DEF RetentionLocks, Lockable, TypeOK
  <2>2. LockInv' BY <1>1, SMTT(30) DEF RetentionLocks, Lockable, TypeOK, LockInv
    <2>3. UploadInv' BY <1>1, SMTT(30) DEF RetentionLocks, Lockable, TypeOK, LockInv,
      UploadInv, RetentionInv
    <2>4. RetentionInv' BY <1>1, SMTT(30) DEF RetentionLocks, Lockable, TypeOK, LockInv,
      UploadInv, RetentionInv
  <2>5. RecInv' BY <1>1, SMTT(30) DEF RetentionLocks, Lockable, TypeOK, RecInv, LockInv
    <2>6. KeptInv' BY <1>1, SMTT(30) DEF RetentionLocks, Lockable, TypeOK, LockInv,
      UploadInv, RetentionInv, KeptInv
  <2> QED BY <2>1, <2>2, <2>3, <2>4, <2>5, <2>6
<1>2. CASE RetentionSelects
  <2>1. TypeOK' BY <1>2, SMTT(30) DEF RetentionSelects, RetentionProtects, TypeOK
  <2>2. LockInv' BY <1>2, SMTT(30) DEF RetentionSelects, RetentionProtects, TypeOK, LockInv
    <2>3. UploadInv' BY <1>2, SMTT(30) DEF RetentionSelects, RetentionProtects, TypeOK,
      LockInv, UploadInv, RetentionInv
    <2>4. RetentionInv' BY <1>2, SMTT(30) DEF RetentionSelects, RetentionProtects, TypeOK,
      LockInv, UploadInv, RetentionInv
    <2>5. RecInv' BY <1>2, SMTT(30) DEF RetentionSelects, RetentionProtects, TypeOK, RecInv,
      LockInv
    <2>6. KeptInv' BY <1>2, SMTT(30) DEF RetentionSelects, RetentionProtects, TypeOK,
      LockInv, UploadInv, RetentionInv, KeptInv
  <2> QED BY <2>1, <2>2, <2>3, <2>4, <2>5, <2>6
<1>3. CASE EmergencyLocks
  <2>1. TypeOK' BY <1>3, SMTT(30) DEF EmergencyLocks, Lockable, TypeOK
  <2>2. LockInv' BY <1>3, SMTT(30) DEF EmergencyLocks, Lockable, TypeOK, LockInv
    <2>3. UploadInv' BY <1>3, SMTT(30) DEF EmergencyLocks, Lockable, TypeOK, LockInv,
      UploadInv, RetentionInv
    <2>4. RetentionInv' BY <1>3, SMTT(30) DEF EmergencyLocks, Lockable, TypeOK, LockInv,
      UploadInv, RetentionInv
  <2>5. RecInv' BY <1>3, SMTT(30) DEF EmergencyLocks, Lockable, TypeOK, RecInv, LockInv
    <2>6. KeptInv' BY <1>3, SMTT(30) DEF EmergencyLocks, Lockable, TypeOK, LockInv,
      UploadInv, RetentionInv, KeptInv
  <2> QED BY <2>1, <2>2, <2>3, <2>4, <2>5, <2>6
<1>4. CASE EmergencySelects
  <2>1. TypeOK' BY <1>4, SMTT(30) DEF EmergencySelects, TypeOK
  <2>2. LockInv' BY <1>4, SMTT(30) DEF EmergencySelects, TypeOK, LockInv
    <2>3. UploadInv' BY <1>4, SMTT(30) DEF EmergencySelects, TypeOK, LockInv, UploadInv,
      RetentionInv
    <2>4. RetentionInv' BY <1>4, SMTT(30) DEF EmergencySelects, TypeOK, LockInv, UploadInv,
      RetentionInv
  <2>5. RecInv' BY <1>4, SMTT(30) DEF EmergencySelects, TypeOK, RecInv, LockInv
    <2>6. KeptInv' BY <1>4, SMTT(30) DEF EmergencySelects, TypeOK, LockInv, UploadInv,
      RetentionInv, KeptInv
  <2> QED BY <2>1, <2>2, <2>3, <2>4, <2>5, <2>6
<1>5. CASE RetentionCommit
  <2>1. TypeOK' BY <1>5, SMTT(30) DEF RetentionCommit, TypeOK
  <2>2. LockInv' BY <1>5, SMTT(30) DEF RetentionCommit, TypeOK, LockInv
    <2>3. UploadInv' BY <1>5, SMTT(30) DEF RetentionCommit, TypeOK, LockInv, UploadInv,
      RetentionInv
    <2>4. RetentionInv' BY <1>5, SMTT(30) DEF RetentionCommit, TypeOK, LockInv, UploadInv,
      RetentionInv
  <2>5. RecInv' BY <1>5, SMTT(30) DEF RetentionCommit, TypeOK, RecInv, LockInv
    <2>6. KeptInv' BY <1>5, SMTT(30) DEF RetentionCommit, TypeOK, LockInv, UploadInv,
      RetentionInv, KeptInv
  <2> QED BY <2>1, <2>2, <2>3, <2>4, <2>5, <2>6
<1>6. CASE RetentionAborts
  <2>1. TypeOK' BY <1>6, SMTT(30) DEF RetentionAborts, TypeOK
  <2>2. LockInv' BY <1>6, SMTT(30) DEF RetentionAborts, TypeOK, LockInv
    <2>3. UploadInv' BY <1>6, SMTT(30) DEF RetentionAborts, TypeOK, LockInv, UploadInv,
      RetentionInv
    <2>4. RetentionInv' BY <1>6, SMTT(30) DEF RetentionAborts, TypeOK, LockInv, UploadInv,
      RetentionInv
  <2>5. RecInv' BY <1>6, SMTT(30) DEF RetentionAborts, TypeOK, RecInv, LockInv
    <2>6. KeptInv' BY <1>6, SMTT(30) DEF RetentionAborts, TypeOK, LockInv, UploadInv,
      RetentionInv, KeptInv
  <2> QED BY <2>1, <2>2, <2>3, <2>4, <2>5, <2>6
<1> QED BY <1>1, <1>2, <1>3, <1>4, <1>5, <1>6

\* ... and the deletion of an image.
LEMMA DeletionsInv ==
  ASSUME IInv, NEW i \in Images,
         DeleteImage(i) \/ DeleteImageFails(i)
  PROVE  IInv'
<1> USE UploadsAssumption, BoundsAssumption DEF IInv
<1>1. CASE DeleteImage(i)
  <2>1. TypeOK' BY <1>1, SMTT(30) DEF DeleteImage, NextVictim, TypeOK
  <2>2. LockInv' BY <1>1, SMTT(30) DEF DeleteImage, NextVictim, TypeOK, LockInv
    <2>3. UploadInv' BY <1>1, SMTT(30) DEF DeleteImage, NextVictim, TypeOK, LockInv,
      UploadInv, RetentionInv
    <2>4. RetentionInv' BY <1>1, SMTT(30) DEF DeleteImage, NextVictim, TypeOK, LockInv,
      UploadInv, RetentionInv
  <2>5. RecInv' BY <1>1, SMTT(30) DEF DeleteImage, NextVictim, TypeOK, RecInv, LockInv
    <2>6. KeptInv' BY <1>1, SMTT(30) DEF DeleteImage, NextVictim, TypeOK, LockInv,
      UploadInv, RetentionInv, KeptInv
  <2> QED BY <2>1, <2>2, <2>3, <2>4, <2>5, <2>6
<1>2. CASE DeleteImageFails(i)
  <2>1. TypeOK' BY <1>2, SMTT(30) DEF DeleteImageFails, NextVictim, TypeOK
  <2>2. LockInv' BY <1>2, SMTT(30) DEF DeleteImageFails, NextVictim, TypeOK, LockInv
    <2>3. UploadInv' BY <1>2, SMTT(30) DEF DeleteImageFails, NextVictim, TypeOK, LockInv,
      UploadInv, RetentionInv
    <2>4. RetentionInv' BY <1>2, SMTT(30) DEF DeleteImageFails, NextVictim, TypeOK, LockInv,
      UploadInv, RetentionInv
  <2>5. RecInv' BY <1>2, SMTT(30) DEF DeleteImageFails, NextVictim, TypeOK, RecInv, LockInv
    <2>6. KeptInv' BY <1>2, SMTT(30) DEF DeleteImageFails, NextVictim, TypeOK, LockInv,
      UploadInv, RetentionInv, KeptInv
  <2> QED BY <2>1, <2>2, <2>3, <2>4, <2>5, <2>6
<1> QED BY <1>1, <1>2

\* Reconciliation: its queries and its end ...
LEMMA RecStepsInv ==
  ASSUME IInv,
                  ReadStored \/ FlushMissing \/ ReadStale \/ ReadKnownPaths \/ ListFiles \/
             RecCommit \/ OrphanGone \/ RecAborts
  PROVE  IInv'
<1> USE UploadsAssumption, BoundsAssumption DEF IInv
<1>1. CASE ReadStored
  <2>1. TypeOK' BY <1>1, SMTT(30) DEF ReadStored, TypeOK
  <2>2. LockInv' BY <1>1, SMTT(30) DEF ReadStored, TypeOK, LockInv
    <2>3. UploadInv' BY <1>1, SMTT(30) DEF ReadStored, TypeOK, LockInv, UploadInv,
      RetentionInv
    <2>4. RetentionInv' BY <1>1, SMTT(30) DEF ReadStored, TypeOK, LockInv, UploadInv,
      RetentionInv
  <2>5. RecInv' BY <1>1, SMTT(30) DEF ReadStored, TypeOK, RecInv, LockInv
    <2>6. KeptInv' BY <1>1, SMTT(30) DEF ReadStored, TypeOK, LockInv, UploadInv,
      RetentionInv, KeptInv
  <2> QED BY <2>1, <2>2, <2>3, <2>4, <2>5, <2>6
<1>2. CASE FlushMissing
  <2>1. TypeOK' BY <1>2, SMTT(30) DEF FlushMissing, InsertsFirst, TypeOK
  <2>2. LockInv' BY <1>2, SMTT(30) DEF FlushMissing, TypeOK, LockInv
    <2>3. UploadInv' BY <1>2, SMTT(30) DEF FlushMissing, TypeOK, LockInv, UploadInv,
      RetentionInv
    <2>4. RetentionInv' BY <1>2, SMTT(30) DEF FlushMissing, TypeOK, LockInv, UploadInv,
      RetentionInv
  <2>5. RecInv' BY <1>2, SMTT(30) DEF FlushMissing, TypeOK, RecInv, LockInv
    <2>6. KeptInv' BY <1>2, SMTT(30) DEF FlushMissing, TypeOK, LockInv, UploadInv,
      RetentionInv, KeptInv
  <2> QED BY <2>1, <2>2, <2>3, <2>4, <2>5, <2>6
<1>3. CASE ReadStale
  <2>1. TypeOK' BY <1>3, SMTT(30) DEF ReadStale, InsertsFirst, StaleRows, TypeOK
  <2>2. LockInv' BY <1>3, SMTT(30) DEF ReadStale, StaleRows, TypeOK, LockInv
    <2>3. UploadInv' BY <1>3, SMTT(30) DEF ReadStale, StaleRows, TypeOK, LockInv, UploadInv,
      RetentionInv
    <2>4. RetentionInv' BY <1>3, SMTT(30) DEF ReadStale, StaleRows, TypeOK, LockInv,
      UploadInv, RetentionInv
  <2>5. RecInv' BY <1>3, SMTT(30) DEF ReadStale, StaleRows, TypeOK, RecInv, LockInv
    <2>6. KeptInv' BY <1>3, SMTT(30) DEF ReadStale, StaleRows, TypeOK, LockInv, UploadInv,
      RetentionInv, KeptInv
  <2> QED BY <2>1, <2>2, <2>3, <2>4, <2>5, <2>6
<1>4. CASE ReadKnownPaths
  <2>1. TypeOK' BY <1>4, SMTT(30) DEF ReadKnownPaths, KnownRows, TypeOK
  <2>2. LockInv' BY <1>4, SMTT(30) DEF ReadKnownPaths, KnownRows, TypeOK, LockInv
    <2>3. UploadInv' BY <1>4, SMTT(30) DEF ReadKnownPaths, KnownRows, TypeOK, LockInv,
      UploadInv, RetentionInv
    <2>4. RetentionInv' BY <1>4, SMTT(30) DEF ReadKnownPaths, KnownRows, TypeOK, LockInv,
      UploadInv, RetentionInv
  <2>5. RecInv' BY <1>4, SMTT(30) DEF ReadKnownPaths, KnownRows, TypeOK, RecInv, LockInv
    <2>6. KeptInv' BY <1>4, SMTT(30) DEF ReadKnownPaths, KnownRows, TypeOK, LockInv,
      UploadInv, RetentionInv, KeptInv
  <2> QED BY <2>1, <2>2, <2>3, <2>4, <2>5, <2>6
<1>5. CASE ListFiles
  <2>1. TypeOK' BY <1>5, SMTT(30) DEF ListFiles, TypeOK
  <2>2. LockInv' BY <1>5, SMTT(30) DEF ListFiles, TypeOK, LockInv
  <2>3. UploadInv' BY <1>5, SMTT(30) DEF ListFiles, TypeOK, LockInv, UploadInv, RetentionInv
    <2>4. RetentionInv' BY <1>5, SMTT(30) DEF ListFiles, TypeOK, LockInv, UploadInv,
      RetentionInv
  <2>5. RecInv' BY <1>5, SMTT(30) DEF ListFiles, TypeOK, RecInv, LockInv
    <2>6. KeptInv' BY <1>5, SMTT(30) DEF ListFiles, TypeOK, LockInv, UploadInv,
      RetentionInv, KeptInv
  <2> QED BY <2>1, <2>2, <2>3, <2>4, <2>5, <2>6
<1>6. CASE RecCommit
  <2>1. TypeOK' BY <1>6, SMTT(30) DEF RecCommit, MarkedMissing, TypeOK
  <2>2. LockInv' BY <1>6, SMTT(30) DEF RecCommit, MarkedMissing, TypeOK, LockInv
    <2>3. UploadInv' BY <1>6, SMTT(30) DEF RecCommit, MarkedMissing, TypeOK, LockInv,
      UploadInv, RetentionInv
    <2>4. RetentionInv' BY <1>6, SMTT(30) DEF RecCommit, MarkedMissing, TypeOK, LockInv,
      UploadInv, RetentionInv
  <2>5. RecInv' BY <1>6, SMTT(30) DEF RecCommit, MarkedMissing, TypeOK, RecInv, LockInv
    <2>6. KeptInv' BY <1>6, SMTT(30) DEF RecCommit, MarkedMissing, TypeOK, LockInv,
      UploadInv, RetentionInv, KeptInv
  <2> QED BY <2>1, <2>2, <2>3, <2>4, <2>5, <2>6
<1>7. CASE OrphanGone
  <2>1. TypeOK' BY <1>7, SMTT(30) DEF OrphanGone, TypeOK
  <2>2. LockInv' BY <1>7, SMTT(30) DEF OrphanGone, TypeOK, LockInv
    <2>3. UploadInv' BY <1>7, SMTT(30) DEF OrphanGone, TypeOK, LockInv, UploadInv,
      RetentionInv
    <2>4. RetentionInv' BY <1>7, SMTT(30) DEF OrphanGone, TypeOK, LockInv, UploadInv,
      RetentionInv
  <2>5. RecInv' BY <1>7, SMTT(30) DEF OrphanGone, TypeOK, RecInv, LockInv
    <2>6. KeptInv' BY <1>7, SMTT(30) DEF OrphanGone, TypeOK, LockInv, UploadInv,
      RetentionInv, KeptInv
  <2> QED BY <2>1, <2>2, <2>3, <2>4, <2>5, <2>6
<1>8. CASE RecAborts
  <2>1. TypeOK' BY <1>8, SMTT(30) DEF RecAborts, TypeOK
  <2>2. LockInv' BY <1>8, SMTT(30) DEF RecAborts, TypeOK, LockInv
  <2>3. UploadInv' BY <1>8, SMTT(30) DEF RecAborts, TypeOK, LockInv, UploadInv, RetentionInv
    <2>4. RetentionInv' BY <1>8, SMTT(30) DEF RecAborts, TypeOK, LockInv, UploadInv,
      RetentionInv
  <2>5. RecInv' BY <1>8, SMTT(30) DEF RecAborts, TypeOK, RecInv, LockInv
    <2>6. KeptInv' BY <1>8, SMTT(30) DEF RecAborts, TypeOK, LockInv, UploadInv,
      RetentionInv, KeptInv
  <2> QED BY <2>1, <2>2, <2>3, <2>4, <2>5, <2>6
<1> QED BY <1>1, <1>2, <1>3, <1>4, <1>5, <1>6, <1>7, <1>8

\* ... and one row or file.
LEMMA RepairsInv ==
  ASSUME IInv, NEW i \in Images,
         CheckFile(i) \/ FlushMark(i) \/ MoveOrphan(i)
  PROVE  IInv'
<1> USE UploadsAssumption, BoundsAssumption DEF IInv
<1>1. CASE CheckFile(i)
  <2>1. TypeOK' BY <1>1, SMTT(30) DEF CheckFile, TypeOK
  <2>2. LockInv' BY <1>1, SMTT(30) DEF CheckFile, TypeOK, LockInv
  <2>3. UploadInv' BY <1>1, SMTT(30) DEF CheckFile, TypeOK, LockInv, UploadInv, RetentionInv
    <2>4. RetentionInv' BY <1>1, SMTT(30) DEF CheckFile, TypeOK, LockInv, UploadInv,
      RetentionInv
  <2>5. RecInv' BY <1>1, SMTT(30) DEF CheckFile, TypeOK, RecInv, LockInv
    <2>6. KeptInv' BY <1>1, SMTT(30) DEF CheckFile, TypeOK, LockInv, UploadInv,
      RetentionInv, KeptInv
  <2> QED BY <2>1, <2>2, <2>3, <2>4, <2>5, <2>6
<1>2. CASE FlushMark(i)
  <2>1. TypeOK' BY <1>2, SMTT(30) DEF FlushMark, TypeOK
  <2>2. LockInv' BY <1>2, SMTT(30) DEF FlushMark, TypeOK, LockInv
  <2>3. UploadInv' BY <1>2, SMTT(30) DEF FlushMark, TypeOK, LockInv, UploadInv, RetentionInv
    <2>4. RetentionInv' BY <1>2, SMTT(30) DEF FlushMark, TypeOK, LockInv, UploadInv,
      RetentionInv
  <2>5. RecInv' BY <1>2, SMTT(30) DEF FlushMark, TypeOK, RecInv, LockInv
    <2>6. KeptInv' BY <1>2, SMTT(30) DEF FlushMark, TypeOK, LockInv, UploadInv,
      RetentionInv, KeptInv
  <2> QED BY <2>1, <2>2, <2>3, <2>4, <2>5, <2>6
<1>3. CASE MoveOrphan(i)
  <2>1. TypeOK' BY <1>3, SMTT(30) DEF MoveOrphan, TypeOK
  <2>2. LockInv' BY <1>3, SMTT(30) DEF MoveOrphan, TypeOK, LockInv
    <2>3. UploadInv' BY <1>3, SMTT(30) DEF MoveOrphan, TypeOK, LockInv, UploadInv,
      RetentionInv
    <2>4. RetentionInv' BY <1>3, SMTT(30) DEF MoveOrphan, TypeOK, LockInv, UploadInv,
      RetentionInv
  <2>5. RecInv' BY <1>3, SMTT(30) DEF MoveOrphan, TypeOK, RecInv, LockInv
    <2>6. KeptInv' BY <1>3, SMTT(30) DEF MoveOrphan, TypeOK, LockInv, UploadInv,
      RetentionInv, KeptInv
  <2> QED BY <2>1, <2>2, <2>3, <2>4, <2>5, <2>6
<1> QED BY <1>1, <1>2, <1>3

\* Every step keeps the invariant.
LEMMA NextInv == IInv /\ [Next]_vars => IInv'
<1> SUFFICES ASSUME IInv, [Next]_vars PROVE IInv'
  OBVIOUS
<1>1. CASE \E u \in Uploads : ReceiveUpload(u) \/ UploadStep(u) \/ UploadFails(u)
                              \/ DeadlockFailsRec(u)
  BY <1>1, UploadStepsInv DEF UploadStep
<1>2. CASE ExportSnapshot \/ ExportCommit \/ ExportExpires \/ ExportEnds
  BY <1>2, ExportStepsInv
<1>3. CASE RetentionStep \/ EmergencyLocks \/ RetentionAborts
  BY <1>3, RetentionStepsInv, DeletionsInv DEF RetentionStep
<1>4. CASE RecStep \/ RecAborts
  BY <1>4, RecStepsInv, RepairsInv DEF RecStep
<1>5. CASE \E i \in Images : AnalysisEnds(i) \/ GrowsOld(i) \/ GrowsStale(i)
                             \/ DeleteImageFails(i) \/ DiskDamages(i)
  BY <1>5, OutsideStepsInv, DeletionsInv
<1>6. CASE UNCHANGED vars
  BY <1>6 DEF IInv, TypeOK, LockInv, UploadInv, RetentionInv, RecInv, KeptInv
<1> QED BY <1>1, <1>2, <1>3, <1>4, <1>5, <1>6 DEF Next

(***************************************************************************)
(* The theorems.                                                           *)
(***************************************************************************)

\* The strengthening of the safety properties is an invariant.
THEOREM Invariance == Spec => []IInv
BY InitInv, NextInv, PTL DEF Spec

\* The type invariant.
THEOREM TypeCorrect == Spec => []TypeOK
<1>1. IInv => TypeOK
  BY DEF IInv
<1> QED BY <1>1, Invariance, PTL

\* Whatever uploads, retention, reconciliation and crashes do to each other,
\* a confirmed image is in place or in quarantine, unless retention deleted
\* it or the disk lost it.
THEOREM NoImageDestroyed == Spec => []NothingDestroyed
<1>1. IInv => NothingDestroyed
  BY DEF IInv, KeptInv, NothingDestroyed, Confirmed
<1> QED BY <1>1, Invariance, PTL

\* No upload brings the file of a deleted image back.
THEOREM DeletedStaysDeleted == Spec => []TombstoneHasNoFile
<1>1. IInv => TombstoneHasNoFile
  BY DEF IInv, KeptInv
<1> QED BY <1>1, Invariance, PTL

\* "Retention/export race": neither retention nor the emergency deletes an
\* image that an analysis waits for or that a fresh export has selected.
THEOREM HeldImagesSpared == Spec => HeldImagesAreSpared
<1> DEFINE Spared == \A i \in tombs' \ tombs :
       /\ ~InAnalysis(i)
       /\ exportStep \in {"snapshot", "active"} => i \notin exportImages
<1>1. ASSUME IInv, NEW i \in Images, DeleteImage(i) PROVE Spared
  <2>1. tombs' = tombs \cup {i} /\ i \in retentionBatch /\ i \in retentionLocks
    BY <1>1 DEF DeleteImage, NextVictim, IInv, RetentionInv
  <2>2. ~InAnalysis(i) /\ (exportStep = "active" => i \notin exportImages)
    BY <1>1, <2>1 DEF DeleteImage, NextVictim, IInv, RetentionInv
  <2>3. exportStep = "snapshot" => i \notin exportImages
    BY <1>1, <2>1 DEF IInv, LockInv
  <2> QED BY <2>1, <2>2, <2>3
<1>2. ASSUME IInv, [Next]_vars, \A i \in Images : ~DeleteImage(i) PROVE tombs' \subseteq tombs
  <2>1. CASE \E u \in Uploads : ReceiveUpload(u) \/ UploadStep(u) \/ UploadFails(u)
                                \/ DeadlockFailsRec(u)
    BY <2>1 DEF ReceiveUpload, UploadStep, StageRow, LockImage, InstallFile,
       SetConflictAside, ReplaceFile, CommitStored, DeadlockFailsUpload, UploadFails,
       DeadlockFailsRec
  <2>2. CASE ExportSnapshot \/ ExportCommit \/ ExportExpires \/ ExportEnds
    BY <2>2 DEF ExportSnapshot, ExportCommit, ExportExpires, ExportEnds
  <2>3. CASE RetentionStep \/ EmergencyLocks \/ RetentionAborts
    BY <1>2, <2>3 DEF RetentionStep, RetentionLocks, RetentionSelects, EmergencyLocks,
       EmergencySelects, RetentionCommit, RetentionAborts
  <2>4. CASE RecStep \/ RecAborts
    BY <2>4 DEF RecStep, RecAborts, ReadStored, CheckFile, FlushMissing, FlushMark,
       ReadStale, ReadKnownPaths, ListFiles, MoveOrphan, RecCommit, OrphanGone
  <2>5. CASE \E i \in Images : AnalysisEnds(i) \/ GrowsOld(i) \/ GrowsStale(i)
                               \/ DeleteImageFails(i) \/ DiskDamages(i)
    BY <2>5 DEF AnalysisEnds, GrowsOld, GrowsStale, DeleteImageFails, DiskDamages
  <2>6. CASE UNCHANGED vars
    BY <2>6
  <2> QED BY <1>2, <2>1, <2>2, <2>3, <2>4, <2>5, <2>6 DEF Next
<1>3. IInv /\ [Next]_vars => [Spared]_vars
  BY <1>1, <1>2
<1> QED BY <1>3, Invariance, PTL DEF Spec, HeldImagesAreSpared

\* A row moves forward only, whatever stale copy of it a transaction writes.
THEOREM ForwardOnly == Spec => RowsMoveForward
<1> DEFINE Forward == \A i \in Images : row'[i] = row[i] \/ row'[i] \in Successors[row[i]]
<1> USE UploadsAssumption
<1>1. ASSUME IInv, NEW u \in Uploads, StageRow(u) PROVE Forward
  BY <1>1, SMTT(30) DEF StageRow, IInv, TypeOK, Successors
<1>2. ASSUME IInv, NEW u \in Uploads, CommitStored(u) PROVE Forward
  BY <1>2, SMTT(30) DEF CommitStored, IInv, TypeOK, UploadInv, Successors
<1>3. ASSUME IInv, RetentionCommit PROVE Forward
  BY <1>3, SMTT(30) DEF RetentionCommit, IInv, TypeOK, RetentionInv, Successors
<1>4. ASSUME IInv, RecCommit PROVE Forward
  BY <1>4, SMTT(30) DEF RecCommit, MarkedMissing, IInv, TypeOK, RecInv, Successors
<1>5. ASSUME IInv, [Next]_vars, ~RetentionCommit, ~RecCommit,
             \A u \in Uploads : ~StageRow(u) /\ ~CommitStored(u)
      PROVE  UNCHANGED row
  <2>1. CASE \E u \in Uploads : ReceiveUpload(u) \/ UploadStep(u) \/ UploadFails(u)
                                \/ DeadlockFailsRec(u)
    BY <1>5, <2>1 DEF ReceiveUpload, UploadStep, LockImage, InstallFile, SetConflictAside,
       ReplaceFile, DeadlockFailsUpload, UploadFails, DeadlockFailsRec
  <2>2. CASE ExportSnapshot \/ ExportCommit \/ ExportExpires \/ ExportEnds
    BY <2>2 DEF ExportSnapshot, ExportCommit, ExportExpires, ExportEnds
  <2>3. CASE RetentionStep \/ EmergencyLocks \/ RetentionAborts
    BY <1>5, <2>3 DEF RetentionStep, RetentionLocks, RetentionSelects, EmergencyLocks,
       EmergencySelects, DeleteImage, RetentionAborts
  <2>4. CASE RecStep \/ RecAborts
    BY <1>5, <2>4 DEF RecStep, RecAborts, ReadStored, CheckFile, FlushMissing, FlushMark,
       ReadStale, ReadKnownPaths, ListFiles, MoveOrphan, OrphanGone
  <2>5. CASE \E i \in Images : AnalysisEnds(i) \/ GrowsOld(i) \/ GrowsStale(i)
                               \/ DeleteImageFails(i) \/ DiskDamages(i)
    BY <2>5 DEF AnalysisEnds, GrowsOld, GrowsStale, DeleteImageFails, DiskDamages
  <2>6. CASE UNCHANGED vars
    BY <2>6
  <2> QED BY <1>5, <2>1, <2>2, <2>3, <2>4, <2>5, <2>6 DEF Next
<1>6. IInv /\ [Next]_vars => [Forward]_vars
  BY <1>1, <1>2, <1>3, <1>4, <1>5
<1> QED BY <1>6, Invariance, PTL DEF Spec, RowsMoveForward

\* What was deleted or given up stays so, row and file.
THEOREM DeletionStands == Spec => DeletionIsFinal
  BY DeletedStaysDeleted, ForwardOnly DEF DeletionIsFinal

=============================================================================
