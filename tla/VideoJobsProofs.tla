-------------------------- MODULE VideoJobsProofs --------------------------
(***************************************************************************)
(* Proofs about the safety of VideoJobs, for any days, workers and         *)
(* recipients and any number of faults and of leases that end early, and   *)
(* that it implements PartDelivery.                                        *)
(***************************************************************************)
EXTENDS VideoJobs, SetLemmas, FiniteSetTheorems, TLAPS

(***************************************************************************)
(* The inductive invariant.                                                *)
(***************************************************************************)

Sending == {"sending", "inflight", "delivered"}
Over == {"completed", "deleting"}
Got(j) == {c \in Chats : received[j][c] > 0}

\* What a worker knows of the job in work, step by step. Its list of
\* deliveries may be too long, but never too short.
Knows(w) ==
  /\ step[w] \notin {"idle", "next", "deleting"} => Current(w) \notin done[w]
  /\ step[w] \in {"inflight", "delivered"} => todo[w] # {}
  /\ step[w] \in Sending => Chats \subseteq todo[w] \cup sentTo[Current(w)]
  /\ step[w] = "delivered" => First(todo[w]) \in Got(Current(w))
  /\ step[w] \notin Sending => todo[w] = {}
  /\ step[w] \in Over /\ Current(w) \notin done[w] => sentTo[Current(w)] = Chats

PassInv == \A w \in Workers : Knows(w)

\* Who is marked sent has got the video, and everyone before a recipient who
\* has got it is marked.
OrderInv ==
  \A j \in Jobs :
    /\ sentTo[j] \subseteq Got(j)
    /\ \A c \in Got(j), d \in Chats : d < c => d \in sentTo[j]

\* Nobody works on a job before its insert, and until then it has no lease.
AbsentInv ==
  /\ \A w \in Workers : \A j \in batch[w] : status[j] # "absent"
  /\ \A j \in Jobs : status[j] = "absent" => lease[j] # "fresh"

\* The lease of a job that somebody works on is fresh until its outcome is
\* committed, and there is one such worker: as long as no lease ends early.
LeaseInv ==
  /\ \A v, w \in Workers : \A j \in Jobs : HasInHand(v, j) /\ HasInHand(w, j) => v = w
  /\ \A w \in Workers : \A j \in Jobs :
       HasInHand(w, j) =>
         \/ status[j] = "processing" /\ lease[j] = "fresh"
         \/ /\ status[j] = "uploading" /\ lease[j] = "fresh"
            /\ j = Current(w) /\ step[w] \in Sending \cup {"load"}
         \/ status[j] = "completed" /\ j = Current(w) /\ step[w] \in Over
  /\ \A w \in Workers : \A j \in batch[w] \cap done[w] : status[j] = "completed"
  /\ \A w \in Workers :
       /\ step[w] \in Sending \cup {"load"} => status[Current(w)] = "uploading"
       /\ step[w] \in Over => status[Current(w)] = "completed"

\* Paths and files, with the copies of the paths that the workers keep.
FileInv ==
  /\ \A j \in Jobs :
       /\ status[j] \in {"absent", "failed"} => ~file[j]
       /\ status[j] = "completed" /\ ~path[j] => ~file[j]
       /\ status[j] = "uploading" => path[j] /\ file[j]
  /\ \A w \in Workers :
       /\ \A j \in paths[w] : HasInHand(w, j) /\ status[j] # "completed" => path[j]
       /\ step[w] \in {"building", "failing", "deleting"} => ~file[Current(w)]
       /\ step[w] = "built" => file[Current(w)]

\* The arrival of the video of j in chat c is about to be committed.
Recording(w, j, c) ==
  HasInHand(w, j) /\ j = Current(w) /\ step[w] = "delivered" /\ c = First(todo[w])

\* The recipients who have got the video twice, or will when it is sent again.
Owed(j) ==
  {c \in Chats : \/ received[j][c] > 1
                 \/ /\ received[j][c] > 0 /\ c \notin sentTo[j]
                    /\ \A w \in Workers : ~Recording(w, j, c)}

\* Each of them has cost an interruption.
OwedInv ==
  /\ \A w \in Workers : step[w] \in Sending => todo[w] \cap sentTo[Current(w)] = {}
  /\ \A j \in Jobs : Cardinality(Owed(j)) <= faults

\* While no lease has ended early.
CalmInv == overruns = 0 => LeaseInv /\ FileInv /\ OwedInv

\* The workers that may still send the video of j to c ...
MaySend(j, c) ==
  {w \in Workers : /\ HasInHand(w, j)
                   /\ IF j = Current(w) /\ step[w] \in Sending \cup Over
                      THEN c \in todo[w] /\ ~Recording(w, j, c)
                      ELSE c \notin sentTo[j]}

\* ... and whether one more may take the job up for that.
Vacant(j) ==
  lease[j] # "fresh" \/ status[j] = "pending" \/ \A w \in Workers : ~HasInHand(w, j)
Chance(j, c) == c \notin sentTo[j] /\ Vacant(j)

\* What has arrived and what may still arrive is paid for.
Paid(j, c) ==
  /\ IsFiniteSet(MaySend(j, c))
  /\ received[j][c] + Cardinality(MaySend(j, c)) + (IF Chance(j, c) THEN 1 ELSE 0)
       <= 1 + faults + overruns

ChanceInv == \A j \in Jobs : \A c \in Chats : Paid(j, c)

IInv == TypeOK /\ PassInv /\ OrderInv /\ AbsentInv /\ CalmInv /\ ChanceInv

(***************************************************************************)
(* The proof. The helpers of the actions are expanded throughout; Current  *)
(* is used through the lemmas on the first element of a set.               *)
(***************************************************************************)
USE DEF vars, envVars, jobVars, passVars, histVars, At, Goto, HasInHand, Sending, Over, Open

\* A set of numbers that is not empty has a first element.
LEMMA FirstIn ==
  ASSUME NEW S, S \subseteq Nat, S # {}
  PROVE  First(S) \in S /\ \A y \in S : First(S) <= y
  BY Least, Zenon DEF First

\* A pass that is not over has a job.
LEMMA CurrentIn ==
  ASSUME TypeOK, NEW w \in Workers, step[w] # "idle"
  PROVE  Current(w) \in batch[w] /\ Current(w) \in Jobs
<1>1. batch[w] # {} /\ batch[w] \subseteq Jobs /\ Jobs \subseteq Nat
  BY JobsAssumption DEF TypeOK
<1> QED
  BY <1>1, FirstIn, Zenon DEF Current

\* The first recipient on a list.
LEMMA FirstTodo ==
  ASSUME TypeOK, NEW w \in Workers, todo[w] # {}
  PROVE  First(todo[w]) \in todo[w] /\ First(todo[w]) \in Chats
           /\ \A c \in todo[w] : First(todo[w]) <= c
<1>1. todo[w] \subseteq Chats /\ Chats \subseteq Nat
  BY ChatsAssumption DEF TypeOK
<1> QED
  BY <1>1, FirstIn, Zenon

\* The insert of the job of the day touches no other job.
LEMMA InsertedJob ==
  ASSUME TypeOK, NEW s \in NewStatuses
  PROVE  /\ s \in [Jobs -> Open \cup {"absent", "completed", "failed"}]
         /\ \A j \in Jobs :
              s[j] = status[j] \/ (status[j] = "absent" /\ s[j] \in {"pending", "failed"})
BY ZenonT(60) DEF NewStatuses, TypeOK

\* What a pass selects, and what of it it claims.
LEMMA SelectedJobs ==
  ASSUME NEW s
  PROVE  /\ Selected(s) \subseteq Jobs
         /\ \A j \in Selected(s) :
              \/ s[j] = "completed" /\ path[j] /\ j \notin Claims(s)
              \/ /\ s[j] = "pending" \/ (s[j] \in {"processing", "uploading"} /\ lease[j] # "fresh")
                 /\ j \in Claims(s)
         /\ Claims(s) \subseteq Selected(s)
BY DEF Selected, Eligible, Claims, Cleanup, LeaseAvailable

\* Types are preserved; that a list of deliveries is not empty is PassInv.
LEMMA TypeStep ==
  ASSUME TypeOK, PassInv, [Next]_vars  PROVE  TypeOK'
<1>1. CASE UNCHANGED vars
  BY <1>1 DEF TypeOK
<1>2. CASE DayPasses \/ TokenChanges \/ PressureChanges
  <2>1. CASE DayPasses
    <3>1. First({e \in Jobs : e > day}) \in Jobs
      <4>1. {e \in Jobs : e > day} # {} /\ {e \in Jobs : e > day} \subseteq Nat
        BY <2>1, JobsAssumption DEF DayPasses
      <4> QED
        BY <4>1, FirstIn
    <3> QED
      BY <2>1, <3>1 DEF DayPasses, TypeOK
  <2>2. CASE TokenChanges \/ PressureChanges
    BY <2>2, ZenonT(60) DEF TokenChanges, PressureChanges, TypeOK
  <2> QED
    BY <1>2, <2>1, <2>2
<1>3. ASSUME NEW j \in Jobs, LeaseExpires(j) \/ Overrun(j) \/ SweepFile(j)  PROVE  TypeOK'
  <2>1. CASE Overrun(j)
    <3>1. overruns' \in 0..MaxOverruns /\ lease' \in [Jobs -> {"none", "fresh", "stale"}]
      BY <2>1, BoundsAssumption DEF Overrun, Expire, TypeOK
    <3> QED
      BY <2>1, <3>1 DEF Overrun, Expire, TypeOK
  <2>2. CASE LeaseExpires(j) \/ SweepFile(j)
    BY <2>2, ZenonT(60) DEF LeaseExpires, Expire, SweepFile, TypeOK
  <2> QED
    BY <1>3, <2>1, <2>2
<1>4. ASSUME NEW w \in Workers, StartPass(w)  PROVE  TypeOK'
  <2>1. PICK s \in NewStatuses :
          /\ batch' = [batch EXCEPT ![w] = Selected(s)]
          /\ done' = [done EXCEPT ![w] = Selected(s) \ Claims(s)]
          /\ paths' = [paths EXCEPT ![w] = {j \in Selected(s) : path[j]}]
          /\ deferring' = [deferring EXCEPT ![w] = pressure /\ Selected(s) # {}]
          /\ step' = [step EXCEPT ![w] = IF Selected(s) = {} THEN "idle" ELSE "next"]
          /\ status' = [j \in Jobs |-> IF j \in Claims(s) THEN "processing" ELSE s[j]]
          /\ lease' = [j \in Jobs |-> IF j \in Claims(s) THEN "fresh" ELSE lease[j]]
    BY <1>4 DEF StartPass
  <2>2. UNCHANGED <<envVars, path, sentTo, file, todo, histVars, overruns, faults>>
    BY <1>4 DEF StartPass
  <2>3. s \in [Jobs -> Open \cup {"absent", "completed", "failed"}] /\ Selected(s) \subseteq Jobs
    BY InsertedJob, SelectedJobs
  <2>4. batch' \in [Workers -> SUBSET Jobs] /\ done' \in [Workers -> SUBSET Jobs]
        /\ paths' \in [Workers -> SUBSET Jobs] /\ deferring' \in [Workers -> BOOLEAN]
    BY <2>1, <2>3 DEF TypeOK
  <2>5. status' \in [Jobs -> Open \cup {"absent", "completed", "failed"}]
        /\ lease' \in [Jobs -> {"none", "fresh", "stale"}]
    BY <2>1, <2>3 DEF TypeOK
  <2>6. /\ step' \in [Workers -> {"idle", "next", "building", "built", "failing", "deferring",
                           "load", "sending", "inflight", "delivered", "completed",
                           "deleting"}]
        /\ \A v \in Workers : step'[v] = "idle" <=> batch'[v] = {}
    BY <2>1 DEF TypeOK
  <2> QED
    BY <2>2, <2>4, <2>5, <2>6 DEF TypeOK
<1>5. ASSUME NEW w \in Workers, PassStep(w)  PROVE  TypeOK'
  <2>1. step[w] # "idle"
    BY <1>5 DEF PassStep, Defer, CommitDeferred, ReuseVideo, Takes, StartBuild, FinishBuild,
         BuildFails, CommitFailed, CommitUploading, LoadDeliveries, SendVideo, Arrives, MarkSent,
         SendFails, Complete, DeleteVideo, CommitDeleted
  <2>2. Current(w) \in batch[w] /\ Current(w) \in Jobs
    BY <2>1, CurrentIn
  <2>3. ASSUME NextJob(w)
        PROVE  /\ batch' \in [Workers -> SUBSET Jobs] /\ done' \in [Workers -> SUBSET Jobs]
               /\ paths' \in [Workers -> SUBSET Jobs] /\ deferring' \in [Workers -> BOOLEAN]
               /\ todo' \in [Workers -> SUBSET Chats]
               /\ step' \in [Workers -> {"idle", "next", "building", "built", "failing",
                           "deferring", "load", "sending", "inflight", "delivered", "completed",
                           "deleting"}]
               /\ \A v \in Workers : step'[v] = "idle" <=> batch'[v] = {}
    BY <2>3 DEF NextJob, TypeOK
  <2>4. CASE CommitDeferred(w) \/ CommitFailed(w) \/ CommitDeleted(w)
    <3>1. NextJob(w) /\ path' \in [Jobs -> BOOLEAN]
      BY <2>2, <2>4 DEF CommitDeferred, CommitFailed, CommitDeleted, ClearPath, TypeOK
    <3>2. /\ status' \in [Jobs -> Open \cup {"absent", "completed", "failed"}]
          /\ lease' \in [Jobs -> {"none", "fresh", "stale"}]
      BY <2>2, <2>4 DEF CommitDeferred, CommitFailed, CommitDeleted, TypeOK
    <3>3. UNCHANGED <<envVars, sentTo, file, histVars, overruns, faults>>
      BY <2>4 DEF CommitDeferred, CommitFailed, CommitDeleted
    <3> QED
      BY <2>3, <3>1, <3>2, <3>3 DEF TypeOK
  <2>5. CASE SendFails(w)
    BY <2>2, <2>3, <2>5, BoundsAssumption DEF SendFails, GiveUp, Fault, TypeOK
  <2>6. CASE Defer(w) \/ ReuseVideo(w) \/ StartBuild(w) \/ FinishBuild(w) \/ BuildFails(w)
               \/ SendVideo(w) \/ DeleteVideo(w)
    <3>1. file' \in [Jobs -> BOOLEAN] /\ \E to : Working(w, to) /\ to \in
            {"deferring", "built", "building", "failing", "inflight", "deleting"}
      BY <2>6 DEF Defer, ReuseVideo, StartBuild, FinishBuild, BuildFails, SendVideo, DeleteVideo,
           Unlink, TypeOK
    <3> QED
      BY <2>1, <3>1 DEF Working, TypeOK
  <2>7. CASE CommitUploading(w) \/ LoadDeliveries(w)
    <3>1. CASE CommitUploading(w)
      BY <2>1, <2>2, <3>1 DEF CommitUploading, TypeOK
    <3>2. CASE LoadDeliveries(w)
      BY <2>1, <2>2, <3>2 DEF LoadDeliveries, TypeOK
    <3> QED
      BY <2>7, <3>1, <3>2
  <2>8. CASE Arrives(w)
    <3>1. received' \in [Jobs -> [Chats -> Nat]]
      <4> DEFINE j == Current(w)
      <4> DEFINE c == First(todo[w])
      <4>1. received' = [received EXCEPT ![j] = [received[j] EXCEPT ![c] = received[j][c] + 1]]
        BY <2>8 DEF Arrives
      <4>2. received \in [Jobs -> [Chats -> Nat]] /\ j \in Jobs
        BY <2>2 DEF TypeOK
      <4>3. c \in Chats
        BY <2>8, FirstTodo DEF Arrives, PassInv, Knows
      <4> HIDE DEF j, c
      <4>4. [received[j] EXCEPT ![c] = received[j][c] + 1] \in [Chats -> Nat]
        BY <4>2, <4>3
      <4> QED
        BY <4>1, <4>2, <4>4
    <3> QED
      BY <2>1, <2>8, <3>1 DEF Arrives, TypeOK
  <2>9. CASE MarkSent(w)
    <3>1. todo' \in [Workers -> SUBSET Chats] /\ sentTo' \in [Jobs -> SUBSET Chats]
      <4>1. todo[w] # {}
        BY <2>9 DEF MarkSent, PassInv, Knows
      <4>2. First(todo[w]) \in Chats
        BY <4>1, FirstTodo
      <4> QED
        BY <2>2, <2>9, <4>2 DEF MarkSent, TypeOK
    <3> QED
      BY <2>1, <2>9, <3>1 DEF MarkSent, TypeOK
  <2>10. CASE Complete(w)
    BY <2>1, <2>2, <2>10 DEF Complete, TypeOK
  <2> QED
    BY <1>5, <2>4, <2>5, <2>6, <2>7, <2>8, <2>9, <2>10 DEF PassStep
<1>6. ASSUME NEW w \in Workers, PassFails(w)  PROVE  TypeOK'
  BY <1>6, BoundsAssumption DEF PassFails, Fault, TypeOK
<1> QED
  BY <1>1, <1>2, <1>3, <1>4, <1>5, <1>6 DEF Next

\* One more arrival.
LEMMA ArrivalCounts ==
  ASSUME TypeOK, NEW w \in Workers, Arrives(w)
  PROVE  \A j \in Jobs : \A c \in Chats :
           /\ received[j][c] \in Nat
           /\ received'[j][c] = IF j = Current(w) /\ c = First(todo[w])
                                THEN received[j][c] + 1 ELSE received[j][c]
<1> DEFINE k == Current(w)
<1> DEFINE d == First(todo[w])
<1>1. received' = [received EXCEPT ![k] = [received[k] EXCEPT ![d] = received[k][d] + 1]]
  BY DEF Arrives
<1>2. received \in [Jobs -> [Chats -> Nat]]
  BY DEF TypeOK
<1> HIDE DEF k, d
<1>3. \A j \in Jobs : \A c \in Chats :
        /\ received[j][c] \in Nat
        /\ received'[j][c] = IF j = k /\ c = d THEN received[j][c] + 1 ELSE received[j][c]
  BY <1>1, <1>2
<1> QED
  BY <1>3 DEF k, d

-----------------------------------------------------------------------------
(* What a step of one worker touches.                                      *)

\* A step of worker w is about its current job and nothing else: it keeps its
\* list of jobs or goes on to the next one.
LEMMA OwnJob ==
  ASSUME TypeOK, NEW w \in Workers, PassStep(w)
  PROVE  /\ step[w] # "idle" /\ Current(w) \in batch[w] /\ Current(w) \in Jobs
         /\ \A v \in Workers : v # w =>
              /\ step'[v] = step[v] /\ batch'[v] = batch[v] /\ done'[v] = done[v]
              /\ paths'[v] = paths[v] /\ todo'[v] = todo[v]
         /\ \A j \in Jobs : j # Current(w) =>
              /\ status'[j] = status[j] /\ path'[j] = path[j] /\ lease'[j] = lease[j]
              /\ sentTo'[j] = sentTo[j] /\ file'[j] = file[j] /\ received'[j] = received[j]
         /\ UNCHANGED overruns /\ faults' \in {faults, faults + 1}
         /\ (batch' = batch /\ done' = done) \/ NextJob(w)
<1>1. step[w] # "idle"
  BY DEF PassStep, Defer, CommitDeferred, ReuseVideo, Takes, StartBuild, FinishBuild,
     BuildFails, CommitFailed, CommitUploading, LoadDeliveries, SendVideo, Arrives, MarkSent,
     SendFails, Complete, DeleteVideo, CommitDeleted
<1>2. Current(w) \in batch[w] /\ Current(w) \in Jobs
  BY <1>1, CurrentIn
<1>3. \A v \in Workers : v # w =>
        /\ step'[v] = step[v] /\ batch'[v] = batch[v] /\ done'[v] = done[v]
        /\ paths'[v] = paths[v] /\ todo'[v] = todo[v]
  BY DEF PassStep, Defer, CommitDeferred, ReuseVideo, StartBuild, FinishBuild, BuildFails,
     CommitFailed, CommitUploading, LoadDeliveries, SendVideo, Arrives, MarkSent, SendFails,
     Complete, DeleteVideo, CommitDeleted, Working, NextJob, TypeOK
<1>4. \A j \in Jobs : j # Current(w) =>
        /\ status'[j] = status[j] /\ path'[j] = path[j] /\ lease'[j] = lease[j]
        /\ sentTo'[j] = sentTo[j] /\ file'[j] = file[j]
  BY DEF PassStep, Defer, CommitDeferred, ReuseVideo, StartBuild, FinishBuild, BuildFails,
     CommitFailed, CommitUploading, LoadDeliveries, SendVideo, Arrives, MarkSent, SendFails,
     Complete, DeleteVideo, CommitDeleted, Working, ClearPath, GiveUp, Unlink, TypeOK
<1>5. \A j \in Jobs : j # Current(w) => received'[j] = received[j]
  BY DEF PassStep, Defer, CommitDeferred, ReuseVideo, StartBuild, FinishBuild, BuildFails,
     CommitFailed, CommitUploading, LoadDeliveries, SendVideo, Arrives, MarkSent, SendFails,
     Complete, DeleteVideo, CommitDeleted, Working, TypeOK
<1>6. UNCHANGED overruns /\ faults' \in {faults, faults + 1}
  BY DEF PassStep, Defer, CommitDeferred, ReuseVideo, StartBuild, FinishBuild, BuildFails,
     CommitFailed, CommitUploading, LoadDeliveries, SendVideo, Arrives, MarkSent, SendFails,
     Complete, DeleteVideo, CommitDeleted, Working, Fault
<1>7. (batch' = batch /\ done' = done) \/ NextJob(w)
  BY DEF PassStep, Defer, CommitDeferred, ReuseVideo, StartBuild, FinishBuild, BuildFails,
     CommitFailed, CommitUploading, LoadDeliveries, SendVideo, Arrives, MarkSent, SendFails,
     Complete, DeleteVideo, CommitDeleted, Working
<1> QED
  BY <1>1, <1>2, <1>3, <1>4, <1>5, <1>6, <1>7

\* Going on to the next job.
LEMMA Onward ==
  ASSUME TypeOK, NEW w \in Workers, NextJob(w)
  PROVE  /\ step'[w] \in {"idle", "next"} /\ todo'[w] = {} /\ paths'[w] \subseteq paths[w]
         /\ \A j \in Jobs : HasInHand(w, j)' <=> HasInHand(w, j) /\ j # Current(w)
         /\ batch'[w] \subseteq batch[w] /\ done'[w] \subseteq done[w]
BY DEF NextJob, TypeOK

\* Whose hands the jobs are in after a step of w, and what they are at.
LEMMA Hands ==
  ASSUME TypeOK, NEW w \in Workers, PassStep(w)
  PROVE  /\ \A v \in Workers : v # w =>
              Current(v)' = Current(v) /\ \A j \in Jobs : HasInHand(v, j)' <=> HasInHand(v, j)
         /\ \/ /\ Current(w)' = Current(w)
               /\ \A j \in Jobs : HasInHand(w, j)' <=> HasInHand(w, j)
            \/ /\ step'[w] \in {"idle", "next"}
               /\ \A j \in Jobs : HasInHand(w, j)' <=> HasInHand(w, j) /\ j # Current(w)
         /\ \A v \in Workers : \A j \in Jobs : HasInHand(v, j)' => HasInHand(v, j)
<1>1. \A v \in Workers : v # w => batch'[v] = batch[v] /\ done'[v] = done[v]
  BY OwnJob
<1>2. \A v \in Workers : v # w => Current(v)' = Current(v)
  BY <1>1 DEF Current
<1>3. CASE batch' = batch /\ done' = done
  BY <1>1, <1>2, <1>3 DEF Current
<1>4. CASE NextJob(w)
  BY <1>1, <1>2, <1>4, Onward
<1> QED
  BY <1>3, <1>4, OwnJob

\* What has been delivered stays delivered.
LEMMA Grows ==
  ASSUME TypeOK, [Next]_vars
  PROVE  /\ \A j \in Jobs : sentTo[j] \subseteq sentTo'[j] /\ Got(j) \subseteq Got(j)'
         /\ faults <= faults' /\ overruns <= overruns'
<1>1. ASSUME NEW w \in Workers, PassStep(w)
      PROVE  \A j \in Jobs : sentTo[j] \subseteq sentTo'[j] /\ Got(j) \subseteq Got(j)'
  <2>1. \A j \in Jobs : sentTo[j] \subseteq sentTo'[j]
    BY <1>1, SMTT(30) DEF PassStep, Defer, CommitDeferred, ReuseVideo, StartBuild, FinishBuild, BuildFails,
     CommitFailed, CommitUploading, LoadDeliveries, SendVideo, Arrives, MarkSent, SendFails,
     Complete, DeleteVideo, CommitDeleted, Working, TypeOK
  <2>2. CASE Arrives(w)
    BY <2>1, <2>2, ArrivalCounts DEF Got
  <2>3. CASE received' = received
    BY <2>1, <2>3 DEF Got
  <2> QED
    BY <1>1, <2>2, <2>3 DEF PassStep, Defer, CommitDeferred, ReuseVideo, StartBuild, FinishBuild,
     BuildFails, CommitFailed, CommitUploading, LoadDeliveries, SendVideo, MarkSent, SendFails,
     Complete, DeleteVideo, CommitDeleted, Working
<1>2. ASSUME ~\E w \in Workers : PassStep(w)
      PROVE  sentTo' = sentTo /\ received' = received /\ faults <= faults' /\ overruns <= overruns'
  BY <1>2 DEF Next, DayPasses, TokenChanges, PressureChanges, LeaseExpires, Overrun, Expire,
     SweepFile, StartPass, PassFails, Fault, TypeOK
<1>3. ASSUME NEW w \in Workers, PassStep(w)  PROVE  faults <= faults' /\ overruns <= overruns'
  BY <1>3, OwnJob DEF TypeOK
<1> QED
  BY <1>1, <1>2, <1>3 DEF Got

-----------------------------------------------------------------------------
(* Recipients and deliveries, whoever works on the job.                    *)

\* The step of a worker, and its own knowledge.
LEMMA KnowsStep ==
  ASSUME TypeOK, NEW w \in Workers, Knows(w), PassStep(w)  PROVE  Knows(w)'
<1>1. step[w] # "idle" /\ Current(w) \in batch[w] /\ Current(w) \in Jobs /\ sentTo[Current(w)] \subseteq Chats
  BY OwnJob DEF TypeOK
<1>2. CASE NextJob(w)
  BY <1>2, Onward DEF Knows
<1>3. ASSUME batch' = batch  PROVE  Current(w)' = Current(w)
  BY <1>3 DEF Current
<1>4. CASE Defer(w) \/ ReuseVideo(w) \/ StartBuild(w) \/ FinishBuild(w) \/ BuildFails(w)
           \/ CommitUploading(w)
  <2>1. /\ UNCHANGED <<batch, done, todo>> /\ Current(w) \notin done[w]
        /\ step[w] \notin Sending
        /\ step'[w] \in {"deferring", "built", "building", "failing", "load"}
    BY <1>4 DEF Knows, Defer, ReuseVideo, Takes, StartBuild, FinishBuild, BuildFails,
         CommitUploading, Working, TypeOK
  <2> QED
    BY <1>3, <2>1 DEF Knows
<1>5. CASE LoadDeliveries(w)
  <2>1. /\ UNCHANGED <<batch, done, sentTo>> /\ Current(w) \notin done[w]
        /\ todo'[w] = Chats \ sentTo[Current(w)] /\ step'[w] = "sending"
    BY <1>5 DEF LoadDeliveries, Knows, TypeOK
  <2> QED
    BY <1>1, <1>3, <2>1 DEF Knows
<1>6. CASE SendVideo(w)
  <2>1. /\ UNCHANGED <<batch, done, todo, sentTo>> /\ Current(w) \notin done[w]
        /\ todo[w] # {} /\ step[w] = "sending" /\ step'[w] = "inflight"
    BY <1>6 DEF SendVideo, Working, Knows, TypeOK
  <2> QED
    BY <1>3, <2>1 DEF Knows
<1>7. CASE Arrives(w)
  <2>1. /\ UNCHANGED <<batch, done, todo, sentTo>> /\ Current(w) \notin done[w]
        /\ todo[w] # {} /\ step[w] = "inflight" /\ step'[w] = "delivered"
    BY <1>7 DEF Arrives, Knows, TypeOK
  <2>2. First(todo[w]) \in Got(Current(w))'
    BY <1>1, <1>3, <1>7, <2>1, FirstTodo, ArrivalCounts DEF Got
  <2>3. First(todo[w])' = First(todo[w])
    BY <2>1
  <2> QED
    BY <1>3, <2>1, <2>2, <2>3 DEF Knows, Got
<1>8. CASE MarkSent(w)
  <2>1. /\ UNCHANGED <<batch, done>> /\ Current(w) \notin done[w]
        /\ todo'[w] = todo[w] \ {First(todo[w])} /\ step[w] = "delivered" /\ step'[w] = "sending"
        /\ sentTo'[Current(w)] = sentTo[Current(w)] \cup {First(todo[w])}
    BY <1>1, <1>8 DEF MarkSent, Knows, TypeOK
  <2> QED
    BY <1>3, <2>1 DEF Knows
<1>9. CASE Complete(w)
  <2>1. /\ UNCHANGED <<batch, done, sentTo, todo>> /\ Current(w) \notin done[w]
        /\ todo[w] = {} /\ step[w] = "sending" /\ step'[w] = "completed"
    BY <1>1, <1>9 DEF Complete, Knows, TypeOK
  <2> QED
    BY <1>1, <1>3, <2>1 DEF Knows
<1>10. CASE DeleteVideo(w)
  <2>1. /\ UNCHANGED <<batch, done, sentTo, todo>> /\ step'[w] = "deleting"
        /\ todo[w] = {}
        /\ Current(w) \in done[w] \/ step[w] = "completed"
    BY <1>1, <1>10 DEF DeleteVideo, Working, Knows, TypeOK
  <2> QED
    BY <1>1, <1>3, <2>1 DEF Knows
<1> QED
  BY <1>2, <1>4, <1>5, <1>6, <1>7, <1>8, <1>9, <1>10 DEF PassStep, CommitDeferred, CommitFailed,
     SendFails, CommitDeleted

\* What workers know stays true.
LEMMA PassInvStep ==
  ASSUME TypeOK, PassInv, [Next]_vars  PROVE  PassInv'
<1>1. \A w \in Workers : Knows(w)
  BY DEF PassInv
<1> SUFFICES ASSUME NEW v \in Workers  PROVE  Knows(v)'
  BY DEF PassInv
<1>2. ASSUME step'[v] = step[v], batch'[v] = batch[v], done'[v] = done[v], todo'[v] = todo[v]
      PROVE  Knows(v)'
  <2>1. Current(v)' = Current(v) /\ First(todo[v])' = First(todo[v])
    BY <1>2 DEF Current
  <2>2. step[v] # "idle" => Current(v) \in Jobs
    BY CurrentIn
  <2>3. \A j \in Jobs : /\ sentTo[j] \subseteq sentTo'[j] /\ Got(j) \subseteq Got(j)'
                        /\ sentTo'[j] \subseteq Chats
    BY Grows, TypeStep DEF TypeOK
  <2>4. step[v] # "idle" => Got(Current(v)) \subseteq Got(Current(v))'
    BY <2>1, <2>2, <2>3 DEF Got
  <2>5. CASE step[v] = "idle"
    BY <1>1, <1>2, <2>5 DEF Knows
  <2>6. CASE step[v] # "idle"
    <3>1. sentTo[Current(v)] \subseteq sentTo'[Current(v)'] /\ sentTo'[Current(v)'] \subseteq Chats
      BY <2>1, <2>2, <2>3, <2>6
    <3>2. step'[v] = "delivered" => First(todo'[v]) \in Got(Current(v))'
      BY <1>1, <1>2, <2>4, <2>6 DEF Knows
    <3> QED
      BY <1>1, <1>2, <2>1, <3>1, <3>2 DEF Knows
  <2> QED
    BY <2>5, <2>6
<1>3. CASE \E w \in Workers : PassStep(w)
  <2>1. PICK w \in Workers : PassStep(w)
    BY <1>3
  <2> QED
    BY <1>1, <1>2, <2>1, OwnJob, KnowsStep
<1>4. CASE \E w \in Workers : StartPass(w) \/ PassFails(w)
  <2>1. PICK w \in Workers : StartPass(w) \/ PassFails(w)
    BY <1>4
  <2>2. CASE v # w
    BY <1>2, <2>1, <2>2 DEF StartPass, PassFails, TypeOK
  <2>3. CASE v = w
    <3>1. step'[v] \in {"idle", "next"} /\ (step[v] \notin Sending => todo[v] = {} )
      BY <1>1, <2>1, <2>3 DEF StartPass, PassFails, Knows, TypeOK
    <3>2. todo'[v] = {}
      BY <2>1, <2>3, <3>1 DEF StartPass, PassFails, TypeOK
    <3> QED
      BY <3>1, <3>2 DEF Knows
  <2> QED
    BY <2>2, <2>3
<1>5. CASE ~\E w \in Workers : StartPass(w) \/ PassStep(w) \/ PassFails(w)
  <2>1. UNCHANGED passVars
    BY <1>5 DEF Next, DayPasses, TokenChanges, PressureChanges, LeaseExpires, Overrun, Expire,
         SweepFile
  <2> QED
    BY <1>2, <2>1
<1> QED
  BY <1>3, <1>4, <1>5

\* Recipients are served in their order.
LEMMA OrderStep ==
  ASSUME TypeOK, PassInv, OrderInv, [Next]_vars  PROVE  OrderInv'
<1>1. CASE UNCHANGED <<sentTo, received>>
  BY <1>1 DEF OrderInv, Got
<1>2. ASSUME NEW w \in Workers, Arrives(w)  PROVE  OrderInv'
  <2> DEFINE k == Current(w)
  <2> DEFINE f == First(todo[w])
  <2>1. /\ todo[w] # {} /\ Chats \subseteq todo[w] \cup sentTo[k] /\ sentTo' = sentTo
    BY <1>2 DEF Arrives, PassInv, Knows
  <2>2. f \in Chats /\ \A d \in todo[w] : f <= d
    BY <2>1, FirstTodo
  <2>3. \A d \in Chats : d < f => d \in sentTo[k]
    <3> HIDE DEF k, f
    <3> QED
      BY <2>1, <2>2, ChatsAssumption
  <2>4. \A j \in Jobs : \A c \in Got(j)' : c \in Got(j) \/ (j = k /\ c = f)
    BY <1>2, ArrivalCounts DEF Got
  <2>5. \A j \in Jobs : Got(j) \subseteq Got(j)'
    BY Grows
  <2> HIDE DEF k, f
  <2> QED
    BY <2>1, <2>3, <2>4, <2>5 DEF OrderInv
<1>3. ASSUME NEW w \in Workers, MarkSent(w)  PROVE  OrderInv'
  <2>1. Current(w) \in Jobs /\ First(todo[w]) \in Got(Current(w)) /\ received' = received
    BY <1>3, CurrentIn DEF MarkSent, PassInv, Knows
  <2>2. \A j \in Jobs : sentTo[j] \subseteq sentTo'[j] /\ Got(j)' = Got(j)
                          /\ sentTo'[j] \subseteq Got(j)
    BY <1>3, <2>1 DEF MarkSent, OrderInv, Got, TypeOK
  <2> QED
    BY <2>2 DEF OrderInv
<1>4. UNCHANGED <<sentTo, received>> \/ \E w \in Workers : Arrives(w) \/ MarkSent(w)
  BY DEF Next, PassStep, DayPasses, TokenChanges, PressureChanges, LeaseExpires, Overrun, Expire,
     SweepFile, StartPass, PassFails, Defer, CommitDeferred, ReuseVideo, StartBuild, FinishBuild,
     BuildFails, CommitFailed, CommitUploading, LoadDeliveries, SendVideo, SendFails, Complete,
     DeleteVideo, CommitDeleted, Working
<1> QED
  BY <1>1, <1>2, <1>3, <1>4

-----------------------------------------------------------------------------
(* Claims and leases.                                                      *)

\* What a pass claims was pending, or in work with a lease that had ended.
LEMMA StartOfPass ==
  ASSUME TypeOK, NEW w \in Workers, StartPass(w)
  PROVE  \E s \in NewStatuses :
           /\ batch[w] = {} /\ step'[w] \in {"idle", "next"} /\ batch'[w] = Selected(s)
           /\ done'[w] = Selected(s) \ Claims(s)
           /\ paths'[w] = {j \in Selected(s) : path[j]}
           /\ \A v \in Workers : v # w =>
                /\ step'[v] = step[v] /\ batch'[v] = batch[v] /\ done'[v] = done[v]
                /\ paths'[v] = paths[v] /\ Current(v)' = Current(v)
           /\ \A j \in Jobs :
                /\ HasInHand(w, j)' <=> j \in Claims(s)
                /\ status'[j] = IF j \in Claims(s) THEN "processing" ELSE s[j]
                /\ lease'[j] = IF j \in Claims(s) THEN "fresh" ELSE lease[j]
                /\ s[j] = status[j] \/ (status[j] = "absent" /\ s[j] \in {"pending", "failed"})
                /\ j \in Claims(s) =>
                     \/ status[j] \in {"pending", "absent"}
                     \/ status[j] \in {"processing", "uploading"} /\ lease[j] # "fresh"
                /\ j \in Selected(s) /\ j \notin Claims(s) => s[j] = "completed"
           /\ Selected(s) \subseteq Jobs
<1>1. PICK s \in NewStatuses :
        /\ batch' = [batch EXCEPT ![w] = Selected(s)]
        /\ done' = [done EXCEPT ![w] = Selected(s) \ Claims(s)]
        /\ paths' = [paths EXCEPT ![w] = {j \in Selected(s) : path[j]}]
        /\ step' = [step EXCEPT ![w] = IF Selected(s) = {} THEN "idle" ELSE "next"]
        /\ status' = [j \in Jobs |-> IF j \in Claims(s) THEN "processing" ELSE s[j]]
        /\ lease' = [j \in Jobs |-> IF j \in Claims(s) THEN "fresh" ELSE lease[j]]
  BY DEF StartPass
<1>2. /\ Selected(s) \subseteq Jobs /\ Claims(s) \subseteq Selected(s)
      /\ \A j \in Selected(s) :
           \/ s[j] = "completed" /\ j \notin Claims(s)
           \/ s[j] = "pending" \/ (s[j] \in {"processing", "uploading"} /\ lease[j] # "fresh")
      /\ \A j \in Selected(s) : j \notin Claims(s) => s[j] = "completed"
  BY SelectedJobs
<1>3. \A j \in Jobs :
        s[j] = status[j] \/ (status[j] = "absent" /\ s[j] \in {"pending", "failed"})
  BY InsertedJob
<1>4. batch[w] = {} /\ step'[w] \in {"idle", "next"} /\ batch'[w] = Selected(s)
      /\ done'[w] = Selected(s) \ Claims(s) /\ paths'[w] = {j \in Selected(s) : path[j]}
  BY <1>1 DEF StartPass, TypeOK
<1>5. \A v \in Workers : v # w =>
        /\ step'[v] = step[v] /\ batch'[v] = batch[v] /\ done'[v] = done[v] /\ paths'[v] = paths[v]
  BY <1>1 DEF TypeOK
<1>6. \A v \in Workers : v # w => Current(v)' = Current(v)
  BY <1>5 DEF Current
<1>7. \A j \in Jobs : /\ HasInHand(w, j)' <=> j \in Claims(s)
                      /\ j \in Claims(s) =>
                           \/ status[j] \in {"pending", "absent"}
                           \/ status[j] \in {"processing", "uploading"} /\ lease[j] # "fresh"
  BY <1>2, <1>3, <1>4
<1>8. \A j \in Jobs : /\ status'[j] = IF j \in Claims(s) THEN "processing" ELSE s[j]
                      /\ lease'[j] = IF j \in Claims(s) THEN "fresh" ELSE lease[j]
  BY <1>1
<1> HIDE DEF HasInHand
<1> QED
  BY <1>2, <1>3, <1>4, <1>5, <1>6, <1>7, <1>8

\* A pass that is interrupted.
LEMMA EndOfPass ==
  ASSUME TypeOK, NEW w \in Workers, PassFails(w)
  PROVE  /\ step[w] # "idle" /\ step'[w] = "idle" /\ batch'[w] = {} /\ paths'[w] = {}
         /\ \A v \in Workers : v # w =>
              /\ step'[v] = step[v] /\ batch'[v] = batch[v] /\ done'[v] = done[v]
              /\ paths'[v] = paths[v] /\ todo'[v] = todo[v] /\ Current(v)' = Current(v)
         /\ UNCHANGED <<status, lease, path, sentTo, file, received, overruns>>
         /\ faults' = faults + 1
<1>1. \A v \in Workers : v # w =>
        /\ step'[v] = step[v] /\ batch'[v] = batch[v] /\ done'[v] = done[v]
        /\ paths'[v] = paths[v] /\ todo'[v] = todo[v]
  BY DEF PassFails, TypeOK
<1>2. \A v \in Workers : v # w => Current(v)' = Current(v)
  BY <1>1 DEF Current
<1> QED
  BY <1>1, <1>2 DEF PassFails, Fault, TypeOK

\* What the other steps leave alone.
LEMMA Elsewhere ==
  ASSUME TypeOK, [Next]_vars, ~\E w \in Workers : StartPass(w) \/ PassStep(w) \/ PassFails(w)
  PROVE  /\ UNCHANGED <<passVars, status, path, sentTo, received, served, faults>>
         /\ \A w \in Workers : Current(w)' = Current(w)
         /\ overruns' \in {overruns, overruns + 1}
         /\ \A j \in Jobs :
              \/ lease'[j] = lease[j]
              \/ /\ lease[j] = "fresh" /\ lease'[j] = "stale"
                 /\ (\A w \in Workers : ~HasInHand(w, j)) \/ overruns' = overruns + 1
         /\ \A j \in Jobs :
              \/ file'[j] = file[j]
              \/ /\ ~file'[j] /\ ~(path[j] /\ status[j] \in Open)
                 /\ \A w \in Workers : j \notin batch[w]
<1>1. UNCHANGED <<passVars, status, path, sentTo, received, served, faults>>
  BY DEF Next, DayPasses, TokenChanges, PressureChanges, LeaseExpires, Overrun, Expire, SweepFile
<1>2. CASE \E j \in Jobs : LeaseExpires(j) \/ Overrun(j)
  <2>1. PICK j \in Jobs : LeaseExpires(j) \/ Overrun(j)
    BY <1>2
  <2>2. /\ lease[j] = "fresh" /\ lease' = [lease EXCEPT ![j] = "stale"] /\ file' = file
        /\ \/ (\A w \in Workers : ~HasInHand(w, j)) /\ overruns' = overruns
           \/ overruns' = overruns + 1
    BY <2>1 DEF LeaseExpires, Overrun, Expire
  <2> QED
    BY <1>1, <2>2 DEF TypeOK, Current
<1>3. CASE ~\E j \in Jobs : LeaseExpires(j) \/ Overrun(j)
  BY <1>1, <1>3 DEF Next, DayPasses, TokenChanges, PressureChanges, SweepFile, TypeOK, Current
<1> QED
  BY <1>2, <1>3

\* What a step of worker w writes into the row of its job.
LEMMA OwnStatus ==
  ASSUME TypeOK, PassInv, NEW w \in Workers, PassStep(w)
  PROVE  LET k == Current(w) IN
         /\ k \in done[w] => status'[k] = status[k] /\ lease'[k] = lease[k]
         /\ k \notin done[w] =>
              \/ NextJob(w) /\ step[w] \in Over /\ status'[k] = status[k] /\ lease'[k] = lease[k]
              \/ /\ NextJob(w) /\ step[w] \notin Over
                 /\ status'[k] \in {"pending", "failed", status[k]} /\ lease'[k] = "none"
              \/ /\ UNCHANGED <<batch, done>> /\ step'[w] \notin {"idle", "next"}
                 /\ step[w] \notin Over /\ status'[k] = status[k]
                 /\ lease'[k] = lease[k] \/ (step[w] = "delivered" /\ lease'[k] = "fresh")
                 /\ step'[w] \in Sending => step[w] \in Sending \cup {"load"}
                 /\ step[w] \in Sending \cup {"load"} => step'[w] \in Sending
                 /\ step'[w] \notin Over \cup {"load"}
              \/ /\ UNCHANGED <<batch, done>> /\ step[w] = "built" /\ step'[w] = "load"
                 /\ status'[k] = "uploading" /\ lease'[k] = lease[k]
              \/ /\ UNCHANGED <<batch, done>> /\ step[w] = "sending" /\ step'[w] = "completed"
                 /\ status'[k] = "completed" /\ lease'[k] = "none"
              \/ /\ UNCHANGED <<batch, done, status, lease>>
                 /\ step[w] = "completed" /\ step'[w] = "deleting"
<1>1. Current(w) \in Jobs /\ Knows(w)
  BY OwnJob DEF PassInv
<1>2. CASE CommitDeferred(w) \/ CommitFailed(w) \/ CommitDeleted(w)
  BY <1>1, <1>2 DEF CommitDeferred, CommitFailed, CommitDeleted, Knows, TypeOK
<1>3. CASE SendFails(w)
  BY <1>1, <1>3 DEF SendFails, GiveUp, Knows, TypeOK
<1>4. CASE Defer(w) \/ ReuseVideo(w) \/ StartBuild(w) \/ FinishBuild(w) \/ BuildFails(w)
  BY <1>1, <1>4 DEF Defer, ReuseVideo, Takes, StartBuild, FinishBuild, BuildFails, Working,
     Knows, TypeOK
<1>5. CASE LoadDeliveries(w) \/ SendVideo(w) \/ Arrives(w) \/ MarkSent(w)
  BY <1>1, <1>5 DEF LoadDeliveries, SendVideo, Arrives, MarkSent, Working, Knows, TypeOK
<1>6. CASE CommitUploading(w) \/ Complete(w)
  BY <1>1, <1>6 DEF CommitUploading, Complete, Knows, TypeOK
<1>7. CASE DeleteVideo(w)
  BY <1>1, <1>7 DEF DeleteVideo, Working, Knows, TypeOK
<1> QED
  BY <1>2, <1>3, <1>4, <1>5, <1>6, <1>7 DEF PassStep

\* A job is worked on only after its insert.
LEMMA AbsentStep ==
  ASSUME TypeOK, PassInv, AbsentInv, [Next]_vars  PROVE  AbsentInv'
<1>1. ASSUME NEW w \in Workers, PassStep(w)  PROVE  AbsentInv'
  <2> DEFINE k == Current(w)
  <2>1. k \in batch[w] /\ k \in Jobs /\ status[k] # "absent"
    BY <1>1, OwnJob DEF AbsentInv
  <2>2. status'[k] # "absent"
    BY <1>1, <2>1, OwnStatus
  <2>3. \A j \in Jobs : j # k => status'[j] = status[j] /\ lease'[j] = lease[j]
    BY <1>1, OwnJob
  <2>4. \A v \in Workers : batch'[v] \subseteq batch[v] /\ batch[v] \subseteq Jobs
    BY <1>1, OwnJob, Onward, SMTT(30) DEF TypeOK
  <2> HIDE DEF k
  <2> QED
    BY <2>2, <2>3, <2>4 DEF AbsentInv
<1>2. ASSUME NEW w \in Workers, StartPass(w)  PROVE  AbsentInv'
  <2>1. PICK s \in NewStatuses :
           /\ batch'[w] = Selected(s) /\ Selected(s) \subseteq Jobs
           /\ \A v \in Workers : v # w => batch'[v] = batch[v]
           /\ \A j \in Jobs :
                /\ status'[j] = IF j \in Claims(s) THEN "processing" ELSE s[j]
                /\ lease'[j] = IF j \in Claims(s) THEN "fresh" ELSE lease[j]
                /\ s[j] = status[j] \/ (status[j] = "absent" /\ s[j] \in {"pending", "failed"})
                /\ j \in Selected(s) /\ j \notin Claims(s) => s[j] = "completed"
    BY <1>2, StartOfPass
  <2>2. \A v \in Workers : batch[v] \subseteq Jobs
    BY DEF TypeOK
  <2> QED
    BY <2>1, <2>2 DEF AbsentInv
<1>3. ASSUME NEW w \in Workers, PassFails(w)  PROVE  AbsentInv'
  BY <1>3, EndOfPass DEF AbsentInv
<1>4. CASE ~\E w \in Workers : StartPass(w) \/ PassStep(w) \/ PassFails(w)
  BY <1>4, Elsewhere DEF AbsentInv
<1> QED
  BY <1>1, <1>2, <1>3, <1>4

\* While no lease ends early, each job is in one pair of hands.
LEMMA LeaseStep ==
  ASSUME TypeOK, PassInv, LeaseInv, [Next]_vars, overruns' = 0  PROVE  LeaseInv'
<1>known. \A w \in Workers : Knows(w)
  BY DEF PassInv
<1>current. \A w \in Workers : step[w] # "idle" => Current(w) \in batch[w] /\ Current(w) \in Jobs
  BY CurrentIn
<1>1. ASSUME NEW w \in Workers, PassStep(w)  PROVE  LeaseInv'
  <2> DEFINE k == Current(w)
  <2>hands. /\ \A v \in Workers : v # w =>
                 /\ Current(v)' = Current(v) /\ step'[v] = step[v] /\ batch'[v] = batch[v]
                 /\ done'[v] = done[v] /\ \A j \in Jobs : HasInHand(v, j)' <=> HasInHand(v, j)
            /\ \A v \in Workers : \A j \in Jobs : HasInHand(v, j)' => HasInHand(v, j)
            /\ batch'[w] \subseteq batch[w] /\ done'[w] \subseteq done[w]
    BY <1>1, Hands, OwnJob, Onward
  <2>rows. /\ k \in batch[w] /\ k \in Jobs
           /\ \A j \in Jobs : j # k => status'[j] = status[j] /\ lease'[j] = lease[j]
    BY <1>1, OwnJob
  <2>1. \A j \in Jobs : status[j] = "completed" => status'[j] = "completed"
    <3> SUFFICES ASSUME status[k] = "completed"  PROVE  status'[k] = "completed"
      BY <2>rows
    <3> QED
      BY <1>1, <1>known, <2>rows, OwnStatus DEF LeaseInv
  <2>2. ASSUME NEW v \in Workers, NEW j \in Jobs, HasInHand(v, j)'
        PROVE  \/ status'[j] = "processing" /\ lease'[j] = "fresh"
               \/ /\ status'[j] = "uploading" /\ lease'[j] = "fresh"
                  /\ j = Current(v)' /\ step'[v] \in Sending \cup {"load"}
               \/ status'[j] = "completed" /\ j = Current(v)' /\ step'[v] \in Over
    <3>1. HasInHand(v, j)
      BY <2>2, <2>hands
    <3>2. CASE v = w /\ j = k
      <4>1. k \notin done[w] /\ ~NextJob(w) /\ Current(w)' = k
        BY <1>1, <2>2, <3>1, <3>2, Hands, Onward
      <4> HIDE DEF k
      <4>2. \/ status[k] = "processing" /\ lease[k] = "fresh"
            \/ /\ status[k] = "uploading" /\ lease[k] = "fresh"
               /\ step[w] \in Sending \cup {"load"}
            \/ status[k] = "completed" /\ step[w] \in Over
        BY <3>1, <3>2 DEF LeaseInv, k
      <4> QED
        BY <1>1, <3>2, <4>1, <4>2, OwnStatus DEF k
    <3>3. CASE v # w /\ j = k
      <4>1. k \in done[w]
        BY <2>rows, <3>1, <3>3 DEF LeaseInv
      <4>2. status'[k] = status[k] /\ lease'[k] = lease[k]
        BY <1>1, <4>1, OwnStatus
      <4> QED
        BY <2>hands, <3>1, <3>3, <4>2 DEF LeaseInv
    <3>4. CASE j # k
      <4>1. status'[j] = status[j] /\ lease'[j] = lease[j]
        BY <2>rows, <3>4
      <4>2. CASE v # w
        BY <2>hands, <3>1, <4>1, <4>2 DEF LeaseInv
      <4>3. CASE v = w
        BY <3>1, <3>4, <4>1, <4>3 DEF LeaseInv
      <4> QED
        BY <4>2, <4>3
    <3> QED
      BY <3>2, <3>3, <3>4
  <2>3. ASSUME NEW v \in Workers, step'[v] \in Sending \cup {"load"}
        PROVE  status'[Current(v)'] = "uploading"
    <3>1. CASE v = w
      <4>1. ~NextJob(w) /\ Current(w)' = k
        BY <1>1, <2>3, <3>1, Hands, Onward
      <4>2. k \notin done[w]
        <5>1. Knows(w)' /\ done' = done
          BY <1>1, <4>1, OwnJob, PassInvStep DEF PassInv
        <5> QED
          BY <2>3, <3>1, <4>1, <5>1 DEF Knows
      <4>3. step[w] \in Sending \cup {"load"} => status[k] = "uploading"
        BY DEF LeaseInv
      <4> HIDE DEF k
      <4> QED
        BY <1>1, <2>3, <3>1, <4>1, <4>2, <4>3, OwnStatus DEF k
    <3>2. CASE v # w
      <4>1. step[v] \in Sending \cup {"load"} /\ status[Current(v)] = "uploading"
            /\ Current(v)' = Current(v) /\ Current(v) \in batch[v] /\ Current(v) \in Jobs
            /\ Current(v) \notin done[v]
        BY <1>known, <1>current, <2>hands, <2>3, <3>2 DEF LeaseInv, Knows
      <4>2. Current(v) # k
        BY <2>rows, <3>2, <4>1 DEF LeaseInv
      <4> QED
        BY <2>rows, <4>1, <4>2
    <3> QED
      BY <3>1, <3>2
  <2>over. ASSUME NEW v \in Workers, step'[v] \in Over
        PROVE  status'[Current(v)'] = "completed"
    <3>1. CASE v = w
      <4>1. ~NextJob(w) /\ Current(w)' = k /\ batch' = batch /\ done' = done
        BY <1>1, <2>over, <3>1, Hands, OwnJob, Onward
      <4>2. k \in done[w] => status[k] = "completed"
        BY <2>rows DEF LeaseInv
      <4>3. step[w] \in Over => status[k] = "completed"
        BY DEF LeaseInv
      <4> HIDE DEF k
      <4> QED
        BY <1>1, <2>1, <2>rows, <2>over, <3>1, <4>1, <4>2, <4>3, OwnStatus DEF k
    <3>2. CASE v # w
      BY <1>current, <2>1, <2>hands, <2>over, <3>2 DEF LeaseInv
    <3> QED
      BY <3>1, <3>2
  <2>4. \A v \in Workers : \A j \in batch'[v] \cap done'[v] : status'[j] = "completed"
    <3>1. \A v \in Workers : batch'[v] \subseteq batch[v] /\ done'[v] \subseteq done[v]
                              /\ batch[v] \subseteq Jobs
      BY <2>hands DEF TypeOK
    <3> QED
      BY <2>1, <3>1 DEF LeaseInv
  <2>5. \A u, v \in Workers : \A j \in Jobs : HasInHand(u, j)' /\ HasInHand(v, j)' => u = v
    BY <2>hands DEF LeaseInv
  <2> HIDE DEF k
  <2> QED
    BY <2>2, <2>3, <2>over, <2>4, <2>5 DEF LeaseInv
<1>2. ASSUME NEW w \in Workers, StartPass(w)  PROVE  LeaseInv'
  <2>1. PICK s \in NewStatuses :
           /\ step'[w] \in {"idle", "next"} /\ batch'[w] = Selected(s) /\ batch[w] = {}
           /\ done'[w] = Selected(s) \ Claims(s)
           /\ \A v \in Workers : v # w =>
                /\ step'[v] = step[v] /\ batch'[v] = batch[v] /\ done'[v] = done[v]
                /\ Current(v)' = Current(v)
           /\ \A j \in Jobs :
                /\ HasInHand(w, j)' <=> j \in Claims(s)
                /\ status'[j] = IF j \in Claims(s) THEN "processing" ELSE s[j]
                /\ lease'[j] = IF j \in Claims(s) THEN "fresh" ELSE lease[j]
                /\ s[j] = status[j] \/ (status[j] = "absent" /\ s[j] \in {"pending", "failed"})
                /\ j \in Claims(s) =>
                     \/ status[j] \in {"pending", "absent"}
                     \/ status[j] \in {"processing", "uploading"} /\ lease[j] # "fresh"
                /\ j \in Selected(s) /\ j \notin Claims(s) => s[j] = "completed"
           /\ Selected(s) \subseteq Jobs
    BY <1>2, StartOfPass
  <2>2. ASSUME NEW v \in Workers, v # w, NEW j \in Jobs, HasInHand(v, j)
        PROVE  j \notin Claims(s) /\ status'[j] = status[j] /\ lease'[j] = lease[j]
    BY <2>1, <2>2 DEF LeaseInv
  <2>3. \A v \in Workers : v # w => \A j \in Jobs : HasInHand(v, j)' <=> HasInHand(v, j)
    BY <2>1
  <2>4. \A u, v \in Workers : \A j \in Jobs : HasInHand(u, j)' /\ HasInHand(v, j)' => u = v
    BY <2>1, <2>2, <2>3 DEF LeaseInv
  <2>5. \A v \in Workers : \A j \in Jobs :
          HasInHand(v, j)' =>
            \/ status'[j] = "processing" /\ lease'[j] = "fresh"
            \/ /\ status'[j] = "uploading" /\ lease'[j] = "fresh"
               /\ j = Current(v)' /\ step'[v] \in Sending \cup {"load"}
            \/ status'[j] = "completed" /\ j = Current(v)' /\ step'[v] \in Over
    BY <2>1, <2>2, <2>3 DEF LeaseInv
  <2>6. \A v \in Workers : \A j \in batch'[v] \cap done'[v] : status'[j] = "completed"
    <3>1. \A v \in Workers : batch[v] \subseteq Jobs
      BY DEF TypeOK
    <3> QED
      BY <2>1, <3>1 DEF LeaseInv
  <2>7. ASSUME NEW v \in Workers, step'[v] \in Sending \cup {"load"}
        PROVE  status'[Current(v)'] = "uploading"
    <3>1. /\ v # w /\ step[v] \in Sending \cup {"load"} /\ status[Current(v)] = "uploading"
          /\ Current(v)' = Current(v) /\ Current(v) \in batch[v] /\ Current(v) \in Jobs
          /\ Current(v) \notin done[v]
      BY <1>known, <1>current, <2>1, <2>7 DEF LeaseInv, Knows
    <3> QED
      BY <2>2, <3>1
  <2>8. ASSUME NEW v \in Workers, step'[v] \in Over
        PROVE  status'[Current(v)'] = "completed"
    <3>1. /\ step[v] \in Over /\ status[Current(v)] = "completed"
          /\ Current(v)' = Current(v) /\ Current(v) \in Jobs
      BY <1>current, <2>1, <2>8 DEF LeaseInv
    <3> QED
      BY <2>1, <3>1
  <2> QED
    BY <2>4, <2>5, <2>6, <2>7, <2>8 DEF LeaseInv
<1>3. ASSUME NEW w \in Workers, PassFails(w)  PROVE  LeaseInv'
  <2>1. \A v \in Workers : \A j \in Jobs : HasInHand(v, j)' => v # w /\ HasInHand(v, j)
    BY <1>3, EndOfPass
  <2> QED
    BY <1>3, <2>1, EndOfPass DEF LeaseInv
<1>4. CASE ~\E w \in Workers : StartPass(w) \/ PassStep(w) \/ PassFails(w)
  <2>1. /\ UNCHANGED <<passVars, status>> /\ \A w \in Workers : Current(w)' = Current(w)
        /\ \A j \in Jobs : lease'[j] = lease[j] \/ \A w \in Workers : ~HasInHand(w, j)
    BY <1>4, Elsewhere DEF TypeOK
  <2>2. \A v \in Workers : \A j \in Jobs : HasInHand(v, j)' <=> HasInHand(v, j)
    BY <2>1
  <2> QED
    BY <2>1, <2>2 DEF LeaseInv
<1> QED
  BY <1>1, <1>2, <1>3, <1>4

\* Files and paths go together while no lease ends early.
LEMMA FileStep ==
  ASSUME TypeOK, PassInv, LeaseInv, FileInv, [Next]_vars, overruns' = 0, overruns = 0
  PROVE  FileInv'
<1>known. \A w \in Workers :
            step[w] \notin {"idle", "next", "deleting"} => Current(w) \notin done[w]
  BY DEF PassInv, Knows
<1>current. \A w \in Workers : step[w] # "idle" => Current(w) \in batch[w] /\ Current(w) \in Jobs
  BY CurrentIn
<1>1. ASSUME NEW w \in Workers, PassStep(w)  PROVE  FileInv'
  <2> DEFINE k == Current(w)
  <2>hands. /\ \A v \in Workers : v # w =>
                 /\ Current(v)' = Current(v) /\ step'[v] = step[v] /\ paths'[v] = paths[v]
            /\ \A v \in Workers : \A j \in Jobs : HasInHand(v, j)' => HasInHand(v, j)
            /\ \/ Current(w)' = Current(w)
               \/ step'[w] \in {"idle", "next"} /\ \A j \in Jobs : HasInHand(w, j)' => j # k
    BY <1>1, Hands, OwnJob
  <2>rows. /\ k \in batch[w] /\ k \in Jobs
           /\ \A j \in Jobs : j # k =>
                status'[j] = status[j] /\ path'[j] = path[j] /\ file'[j] = file[j]
    BY <1>1, OwnJob
  <2>mine. /\ k \in done[w] => status[k] = "completed"
           /\ step[w] \in Over => status[k] = "completed"
           /\ step[w] \in Sending \cup {"load"} => status[k] = "uploading"
           /\ k \notin done[w] =>
                \/ status[k] = "processing"
                \/ status[k] = "uploading" /\ step[w] \in Sending \cup {"load"}
                \/ status[k] = "completed" /\ step[w] \in Over
    BY <2>rows DEF LeaseInv
  <2>1. /\ status'[k] \in {"absent", "failed"} => ~file'[k]
        /\ status'[k] = "completed" /\ ~path'[k] => ~file'[k]
        /\ status'[k] = "uploading" => path'[k] /\ file'[k]
        /\ k \in paths'[w] /\ k \in batch'[w] \ done'[w] /\ status'[k] # "completed" => path'[k]
        /\ step'[w] \in {"building", "failing", "deleting"} => ~file'[k]
        /\ step'[w] = "built" => file'[k]
        /\ status[k] = "completed" /\ ~file[k] => ~file'[k]
        /\ paths'[w] \subseteq paths[w] \cup {k}
    <3>types. /\ status[k] \in Open \cup {"absent", "completed", "failed"}
              /\ path[k] \in BOOLEAN /\ file[k] \in BOOLEAN
      BY <2>rows DEF TypeOK
    <3>files. /\ status[k] = "completed" /\ ~path[k] => ~file[k]
              /\ status[k] = "uploading" => path[k] /\ file[k]
              /\ k \in paths[w] /\ k \notin done[w] /\ status[k] # "completed" => path[k]
              /\ step[w] \in {"building", "failing", "deleting"} => ~file[k]
              /\ step[w] = "built" => file[k]
      BY <2>rows DEF FileInv
    <3> HIDE DEF k
    <3>next. NextJob(w) =>
               /\ k \notin batch'[w] /\ step'[w] \in {"idle", "next"} /\ paths'[w] \subseteq paths[w]
      BY DEF NextJob, k, TypeOK
    <3>1. CASE CommitDeferred(w)
      <4>1. /\ status'[k] = "pending" /\ file' = file /\ NextJob(w) /\ k \notin done[w]
            /\ step[w] = "deferring"
        BY <1>known, <2>rows, <3>1 DEF CommitDeferred, k, TypeOK
      <4> QED
        BY <2>mine, <3>next, <4>1
    <3>2. CASE CommitFailed(w)
      <4>1. /\ status'[k] = "failed" /\ file' = file /\ NextJob(w) /\ step[w] = "failing"
        BY <2>rows, <3>2 DEF CommitFailed, k, TypeOK
      <4> QED
        BY <3>files, <3>next, <4>1
    <3>3. CASE CommitDeleted(w)
      <4>1. UNCHANGED <<status, file>> /\ NextJob(w) /\ step[w] = "deleting"
        BY <3>3 DEF CommitDeleted
      <4>2. status[k] = "completed"
        BY <2>mine, <4>1
      <4> QED
        BY <3>files, <3>next, <4>1, <4>2
    <3>4. CASE SendFails(w)
      <4>1. UNCHANGED <<status, path, file>> /\ NextJob(w) /\ step[w] \in Sending
            /\ k \notin done[w]
        BY <1>known, <3>4 DEF SendFails, GiveUp, k
      <4> QED
        BY <2>mine, <3>files, <3>next, <4>1
    <3>5. CASE Defer(w) \/ ReuseVideo(w) \/ StartBuild(w) \/ FinishBuild(w) \/ BuildFails(w)
      <4>1. /\ UNCHANGED <<status, path, paths, batch, done>> /\ k \notin done[w]
            /\ step[w] \in {"next", "building"}
            /\ step'[w] = "built" => file'[k]
            /\ step'[w] \in {"building", "failing"} => ~file'[k]
            /\ step'[w] # "deleting"
        BY <1>known, <2>rows, <3>files, <3>5 DEF Defer, ReuseVideo, HasVideo, Takes, StartBuild,
           FinishBuild, BuildFails, Unlink, Working, k, TypeOK
      <4>2. status[k] = "processing"
        BY <2>mine, <4>1
      <4> QED
        BY <3>files, <4>1, <4>2
    <3>6. CASE CommitUploading(w)
      <4>1. /\ step[w] = "built" /\ file' = file /\ step'[w] = "load"
            /\ paths'[w] = paths[w] \cup {k}
        BY <3>6 DEF CommitUploading, k, TypeOK
      <4>2. status'[k] = "uploading"
        BY <2>rows, <3>6 DEF CommitUploading, k, TypeOK
      <4>3. path[k] \/ k \notin paths[w] => path'[k]
        BY <2>rows, <3>6, ZenonT(60) DEF CommitUploading, k, TypeOK
      <4>4. k \notin done[w] /\ status[k] = "processing"
        BY <1>known, <2>mine, <4>1 DEF k
      <4> QED
        BY <3>files, <4>1, <4>2, <4>3, <4>4
    <3>7. CASE LoadDeliveries(w) \/ SendVideo(w) \/ Arrives(w) \/ MarkSent(w)
      <4>1. /\ UNCHANGED <<status, path, file, paths, batch, done>> /\ k \notin done[w]
            /\ step[w] \in Sending \cup {"load"} /\ step'[w] \in Sending
        BY <1>known, <3>7 DEF LoadDeliveries, SendVideo, Arrives, MarkSent, Working, k,
           TypeOK
      <4> QED
        BY <2>mine, <3>files, <4>1
    <3>8. CASE Complete(w)
      <4>1. /\ UNCHANGED <<path, file, paths>> /\ step[w] = "sending" /\ step'[w] = "completed"
        BY <3>8 DEF Complete, TypeOK
      <4>2. status'[k] = "completed"
        BY <2>rows, <3>8 DEF Complete, k, TypeOK
      <4>3. k \notin done[w]
        BY <1>known, <4>1 DEF k
      <4> QED
        BY <2>mine, <3>files, <4>1, <4>2, <4>3
    <3>9. CASE DeleteVideo(w)
      <4>1. /\ UNCHANGED <<status, path, paths>> /\ ~file'[k] /\ step'[w] = "deleting"
            /\ k \in done[w] \/ step[w] = "completed"
        BY <2>rows, <3>9 DEF DeleteVideo, Unlink, Working, k, TypeOK
      <4>2. status[k] = "completed"
        BY <2>mine, <4>1
      <4> QED
        BY <4>1, <4>2
    <3> QED
      BY <1>1, <3>1, <3>2, <3>3, <3>4, <3>5, <3>6, <3>7, <3>8, <3>9 DEF PassStep
  <2>2. ASSUME NEW v \in Workers, v # w, HasInHand(v, k)
        PROVE  status[k] = "completed" /\ status'[k] = "completed" /\ step[v] \in Over
    <3>1. k \in done[w] /\ status[k] = "completed"
      BY <2>rows, <2>2 DEF LeaseInv
    <3>2. status'[k] = status[k]
      BY <1>1, <3>1, OwnStatus
    <3> QED
      BY <2>rows, <2>2, <3>1, <3>2 DEF LeaseInv
  <2>3. ASSUME NEW v \in Workers, v # w, step[v] \in {"building", "failing", "built", "deleting"},
               Current(v) = k
        PROVE  step[v] = "deleting" /\ ~file'[k]
    <3>1. step[v] = "deleting"
      BY <1>known, <1>current, <2>2, <2>3
    <3>2. ~file[k] /\ status[k] = "completed"
      BY <1>current, <2>2, <2>3, <3>1 DEF FileInv, LeaseInv
    <3> QED
      BY <2>1, <3>1, <3>2
  <2>4. \A j \in Jobs :
       /\ status'[j] \in {"absent", "failed"} => ~file'[j]
       /\ status'[j] = "completed" /\ ~path'[j] => ~file'[j]
       /\ status'[j] = "uploading" => path'[j] /\ file'[j]
    BY <2>rows, <2>1 DEF FileInv
  <2>5. ASSUME NEW v \in Workers, NEW j \in paths'[v], HasInHand(v, j)', status'[j] # "completed"
        PROVE  path'[j]
    <3>1. j \in Jobs /\ HasInHand(v, j)
      BY <2>5, <2>hands, TypeStep DEF TypeOK
    <3>2. CASE j = k
      BY <2>1, <2>2, <2>5, <3>1, <3>2
    <3>3. CASE j # k
      BY <2>rows, <2>1, <2>hands, <2>5, <3>1, <3>3 DEF FileInv
    <3> QED
      BY <3>2, <3>3
  <2>6. ASSUME NEW v \in Workers, step'[v] \in {"building", "failing", "deleting", "built"}
        PROVE  /\ step'[v] # "built" => ~file'[Current(v)']
               /\ step'[v] = "built" => file'[Current(v)']
    <3>1. CASE v = w
      BY <2>1, <2>hands, <2>6, <3>1
    <3>2. CASE v # w
      <4>1. Current(v)' = Current(v) /\ step'[v] = step[v] /\ Current(v) \in Jobs
        BY <1>current, <2>hands, <2>6, <3>2
      <4> QED
        BY <2>rows, <2>3, <2>6, <3>2, <4>1 DEF FileInv
    <3> QED
      BY <3>1, <3>2
  <2> HIDE DEF k
  <2> QED
    BY <2>4, <2>5, <2>6 DEF FileInv
<1>2. ASSUME NEW w \in Workers, StartPass(w)  PROVE  FileInv'
  <2>1. PICK s \in NewStatuses :
           /\ step'[w] \in {"idle", "next"} /\ paths'[w] = {j \in Selected(s) : path[j]}
           /\ \A v \in Workers : v # w =>
                /\ step'[v] = step[v] /\ batch'[v] = batch[v] /\ done'[v] = done[v]
                /\ paths'[v] = paths[v] /\ Current(v)' = Current(v)
           /\ \A j \in Jobs :
                /\ status'[j] = IF j \in Claims(s) THEN "processing" ELSE s[j]
                /\ s[j] = status[j] \/ (status[j] = "absent" /\ s[j] \in {"pending", "failed"})
                /\ j \in Claims(s) =>
                     \/ status[j] \in {"pending", "absent"}
                     \/ status[j] \in {"processing", "uploading"} /\ lease[j] # "fresh"
           /\ Selected(s) \subseteq Jobs
    BY <1>2, StartOfPass
  <2>2. UNCHANGED <<path, file>>
    BY <1>2 DEF StartPass
  <2>3. \A j \in Jobs : status[j] = "completed" => status'[j] = "completed"
    BY <2>1
  <2>4. \A v \in Workers : paths[v] \subseteq Jobs
    BY DEF TypeOK
  <2> QED
    BY <1>current, <2>1, <2>2, <2>3, <2>4 DEF FileInv
<1>3. ASSUME NEW w \in Workers, PassFails(w)  PROVE  FileInv'
  <2>1. \A v \in Workers : \A j \in Jobs : HasInHand(v, j)' => v # w /\ HasInHand(v, j)
    BY <1>3, EndOfPass
  <2>2. \A v \in Workers : paths[v] \subseteq Jobs
    BY DEF TypeOK
  <2> QED
    BY <1>3, <2>1, <2>2, EndOfPass DEF FileInv
<1>4. CASE ~\E w \in Workers : StartPass(w) \/ PassStep(w) \/ PassFails(w)
  <2>1. /\ UNCHANGED <<passVars, status, path>> /\ \A w \in Workers : Current(w)' = Current(w)
        /\ \A j \in Jobs :
              \/ file'[j] = file[j]
              \/ /\ ~file'[j] /\ ~(path[j] /\ status[j] \in Open)
                 /\ \A w \in Workers : j \notin batch[w]
    BY <1>4, Elsewhere
  <2>2. \A v \in Workers : paths[v] \subseteq Jobs
    BY DEF TypeOK
  <2>3. \A v \in Workers : \A j \in Jobs : HasInHand(v, j)' <=> HasInHand(v, j)
    BY <2>1
  <2> QED
    BY <1>current, <2>1, <2>2, <2>3 DEF FileInv
<1> QED
  BY <1>1, <1>2, <1>3, <1>4

-----------------------------------------------------------------------------
(* Repetitions.                                                            *)

\* A recipient comes to be owed something only by an arrival, or when the
\* worker that was to record it gives up.
LEMMA OwedShrinks ==
  ASSUME NEW j, sentTo[j] \subseteq sentTo'[j], received'[j] = received[j],
         \A w \in Workers : \A c \in Chats :
           Recording(w, j, c) => Recording(w, j, c)' \/ c \in sentTo'[j]
  PROVE  Owed(j)' \subseteq Owed(j)
<1> HIDE DEF HasInHand
<1> QED
  BY DEF Owed

\* One interruption makes one recipient be owed something.
LEMMA OwedStep ==
  ASSUME TypeOK, PassInv, LeaseInv, OwedInv, [Next]_vars, overruns' = 0, overruns = 0
  PROVE  OwedInv'
<1>known. \A w \in Workers : Knows(w)
  BY DEF PassInv
<1>current. \A w \in Workers : step[w] # "idle" => Current(w) \in batch[w] /\ Current(w) \in Jobs
  BY CurrentIn
<1>finite. /\ faults \in Nat /\ faults' \in Nat /\ faults <= faults'
           /\ \A j \in Jobs : /\ IsFiniteSet(Owed(j)) /\ Owed(j) \subseteq Chats
                              /\ Cardinality(Owed(j)) \in Nat /\ Cardinality(Owed(j)) <= faults
  <2>1. \A j \in Jobs : Owed(j) \subseteq Chats
    BY DEF Owed
  <2>2. \A j \in Jobs : IsFiniteSet(Owed(j))
    BY <2>1, ChatsAssumption, FS_Subset
  <2> QED
    BY <2>1, <2>2, Grows, TypeStep, FS_CardinalityType DEF OwedInv, TypeOK
<1>quiet. ASSUME NEW j \in Jobs, Owed(j)' \subseteq Owed(j)  PROVE  Cardinality(Owed(j)') <= faults'
  <2>1. Cardinality(Owed(j)') <= Cardinality(Owed(j)) /\ Cardinality(Owed(j)') \in Nat
    BY <1>finite, <1>quiet, OneMore
  <2> QED
    BY <1>finite, <2>1
<1>fault. ASSUME NEW j \in Jobs, NEW x, Owed(j)' \subseteq Owed(j) \cup {x}, faults' = faults + 1
          PROVE  Cardinality(Owed(j)') <= faults'
  <2>1. Cardinality(Owed(j)') <= Cardinality(Owed(j)) + 1 /\ Cardinality(Owed(j)') \in Nat
    BY <1>finite, <1>fault, OneMore
  <2> QED
    BY <1>finite, <1>fault, <2>1
<1>1. ASSUME NEW w \in Workers, PassStep(w)  PROVE  OwedInv'
  <2>k. PICK k : k = Current(w)
    OBVIOUS
  <2>f. PICK f : f = First(todo[w])
    OBVIOUS
  <2>others. /\ \A v \in Workers : v # w =>
                  /\ Current(v)' = Current(v) /\ step'[v] = step[v] /\ batch'[v] = batch[v]
                  /\ done'[v] = done[v] /\ todo'[v] = todo[v]
             /\ k \in batch[w] /\ k \in Jobs
             /\ \A j \in Jobs : j # k => sentTo'[j] = sentTo[j] /\ received'[j] = received[j]
    BY <1>1, <2>k, Hands, OwnJob
  <2>mine. (batch' = batch /\ done' = done /\ Current(w)' = k) \/ step'[w] \in {"idle", "next"}
    BY <1>1, <2>k, OwnJob, Onward DEF Current
  <2>1. ASSUME UNCHANGED <<sentTo, received>>, step[w] # "delivered",
               step'[w] \in Sending =>
                 (step[w] \in Sending /\ todo' = todo) \/ todo'[w] = Chats \ sentTo[k]
        PROVE  OwedInv'
    <3>1. ASSUME NEW j \in Jobs  PROVE  Cardinality(Owed(j)') <= faults'
      <4>1. \A v \in Workers : \A c \in Chats : Recording(v, j, c) => Recording(v, j, c)'
        BY <2>1, <2>others DEF Recording
      <4>2. Owed(j)' \subseteq Owed(j)
        BY <2>1, <4>1, OwedShrinks
      <4> QED
        BY <1>quiet, <4>2
    <3>2. \A v \in Workers : step'[v] \in Sending => todo'[v] \cap sentTo'[Current(v)'] = {}
      BY <2>1, <2>k, <2>others, <2>mine DEF OwedInv
    <3> QED
      BY <3>1, <3>2 DEF OwedInv
  <2>2. CASE Arrives(w)
    <3>1. /\ UNCHANGED <<batch, done, sentTo, todo>> /\ step[w] = "inflight"
          /\ step'[w] = "delivered" /\ todo[w] # {} /\ k \notin done[w]
      BY <1>known, <2>k, <2>2, ZenonT(30) DEF Arrives, Knows, TypeOK
    <3>2. f \in Chats /\ f \notin sentTo[k]
      BY <2>k, <2>f, <3>1, FirstTodo DEF OwedInv
    <3>3. \A j \in Jobs : \A c \in Chats :
            /\ received[j][c] \in Nat
            /\ received'[j][c] = IF j = k /\ c = f THEN received[j][c] + 1 ELSE received[j][c]
      BY <2>k, <2>f, <2>2, ArrivalCounts
    <3>4. Current(w)' = k /\ First(todo[w])' = f
      BY <2>k, <2>f, <3>1 DEF Current
    <3>5. \A v \in Workers : \A c \in Chats : ~Recording(v, k, c)
      <4>1. \A v \in Workers : HasInHand(v, k) => v = w
        BY <2>others, <3>1, <2>k DEF LeaseInv
      <4> QED
        BY <3>1, <4>1 DEF Recording
    <3>6. Recording(w, k, f)'
      BY <2>others, <2>k, <3>1, <3>4 DEF Recording
    <3>7. \A j \in Jobs : j # k =>
            \A v \in Workers : \A c \in Chats : Recording(v, j, c) => Recording(v, j, c)'
      BY <2>others, <3>1 DEF Recording
    <3>8. ASSUME NEW j \in Jobs  PROVE  Owed(j)' \subseteq Owed(j)
      <4> HIDE DEF HasInHand
      <4>1. CASE j # k
        BY <2>others, <3>7, <4>1, OwedShrinks
      <4>2. CASE j = k
        <5> SUFFICES ASSUME NEW c \in Chats, c \in Owed(k)'  PROVE  c \in Owed(k)
          BY <4>2 DEF Owed
        <5>1. CASE c = f
          <6>1. received[k][f] > 0
            BY <2>others, <3>2, <3>3, <3>6, <5>1 DEF Owed
          <6> QED
            BY <3>2, <3>5, <5>1, <6>1 DEF Owed
        <5>2. CASE c # f
          BY <2>others, <3>1, <3>3, <3>5, <5>2 DEF Owed
        <5> QED
          BY <5>1, <5>2
      <4> QED
        BY <4>1, <4>2
    <3>9. \A v \in Workers : step'[v] \in Sending => todo'[v] \cap sentTo'[Current(v)'] = {}
      BY <2>others, <2>k, <3>1, <3>4 DEF OwedInv
    <3> QED
      BY <1>quiet, <3>8, <3>9 DEF OwedInv
  <2>3. CASE MarkSent(w)
    <3>1. /\ UNCHANGED <<batch, done, received>> /\ step[w] = "delivered" /\ step'[w] = "sending"
          /\ sentTo'[k] = sentTo[k] \cup {f} /\ todo'[w] = todo[w] \ {f} /\ k \notin done[w]
      <4>1. Current(w) \notin done[w]
        BY <1>known, <2>3 DEF MarkSent, Knows
      <4> QED
        BY <2>others, <2>k, <2>f, <2>3, <4>1 DEF MarkSent, TypeOK
    <3>2. Current(w)' = k /\ todo[w] \cap sentTo[k] = {}
      BY <2>k, <3>1 DEF Current, OwedInv
    <3>3. ASSUME NEW j \in Jobs  PROVE  Owed(j)' \subseteq Owed(j)
      <4>1. \A v \in Workers : \A c \in Chats :
              Recording(v, j, c) => Recording(v, j, c)' \/ c \in sentTo'[j]
        <5>1. \A c \in Chats : Recording(w, j, c) => c \in sentTo'[j]
          BY <2>k, <2>f, <3>1 DEF Recording
        <5> QED
          BY <2>others, <5>1 DEF Recording
      <4>2. sentTo[j] \subseteq sentTo'[j] /\ received'[j] = received[j]
        BY <2>others, <3>1
      <4> QED
        BY <4>1, <4>2, OwedShrinks
    <3>4. ASSUME NEW v \in Workers, step'[v] \in Sending
          PROVE  todo'[v] \cap sentTo'[Current(v)'] = {}
      <4>1. CASE v = w
        BY <3>1, <3>2, <4>1
      <4>2. CASE v # w
        <5>1. /\ step[v] \in Sending /\ Current(v)' = Current(v) /\ Current(v) \in batch[v]
              /\ Current(v) \in Jobs /\ Current(v) \notin done[v]
          BY <1>current, <1>known, <2>others, <3>4, <4>2 DEF Knows
        <5>2. Current(v) # k
          BY <2>others, <2>k, <3>1, <4>2, <5>1 DEF LeaseInv
        <5> QED
          BY <2>others, <4>2, <5>1, <5>2 DEF OwedInv
      <4> QED
        BY <4>1, <4>2
    <3> QED
      BY <1>quiet, <3>3, <3>4 DEF OwedInv
  <2>4. CASE SendFails(w) /\ step[w] = "delivered"
    <3>1. /\ UNCHANGED <<sentTo, received>> /\ faults' = faults + 1
          /\ step'[w] \in {"idle", "next"}
      BY <2>4, Onward DEF SendFails, Fault
    <3>2. ASSUME NEW j \in Jobs  PROVE  Owed(j)' \subseteq Owed(j) \cup {f}
      <4>1. \A v \in Workers : \A c \in Chats :
              Recording(v, j, c) => Recording(v, j, c)' \/ c = f
        BY <2>others, <2>f DEF Recording
      <4> HIDE DEF HasInHand
      <4> QED
        BY <3>1, <4>1 DEF Owed
    <3>3. \A v \in Workers : step'[v] \in Sending => todo'[v] \cap sentTo'[Current(v)'] = {}
      BY <2>others, <3>1 DEF OwedInv
    <3> QED
      BY <1>fault, <3>1, <3>2, <3>3 DEF OwedInv
  <2>5. Arrives(w) \/ MarkSent(w) \/ (SendFails(w) /\ step[w] = "delivered")
        \/ /\ UNCHANGED <<sentTo, received>> /\ step[w] # "delivered"
           /\ step'[w] \in Sending =>
                 (step[w] \in Sending /\ todo' = todo) \/ todo'[w] = Chats \ sentTo[k]
    <3>1. ASSUME NextJob(w)  PROVE  step'[w] \notin Sending
      BY <3>1, Onward
    <3> QED
      BY <1>1, <2>k, <3>1 DEF PassStep, Defer, CommitDeferred, ReuseVideo, Takes, StartBuild,
         FinishBuild, BuildFails, CommitFailed, CommitUploading, LoadDeliveries, SendVideo, SendFails,
         Complete, DeleteVideo, CommitDeleted, Working, TypeOK
  <2> QED
    BY <2>1, <2>2, <2>3, <2>4, <2>5
<1>2. ASSUME NEW w \in Workers, StartPass(w)  PROVE  OwedInv'
  <2>1. step[w] = "idle" /\ step'[w] \in {"idle", "next"} /\ UNCHANGED <<sentTo, received, todo>>
    BY <1>2, StartOfPass DEF StartPass
  <2>2. \A v \in Workers : v # w =>
          /\ step'[v] = step[v] /\ batch'[v] = batch[v] /\ done'[v] = done[v]
          /\ Current(v)' = Current(v)
    BY <1>2, StartOfPass
  <2>3. ASSUME NEW j \in Jobs  PROVE  Owed(j)' \subseteq Owed(j)
    <3>1. \A v \in Workers : \A c \in Chats : Recording(v, j, c) => Recording(v, j, c)'
      BY <2>1, <2>2 DEF Recording
    <3> QED
      BY <2>1, <3>1, OwedShrinks
  <2>4. \A v \in Workers : step'[v] \in Sending => todo'[v] \cap sentTo'[Current(v)'] = {}
    BY <2>1, <2>2 DEF OwedInv
  <2> QED
    BY <1>quiet, <2>3, <2>4 DEF OwedInv
<1>3. ASSUME NEW w \in Workers, PassFails(w)  PROVE  OwedInv'
  <2>1. /\ UNCHANGED <<sentTo, received>> /\ step'[w] = "idle" /\ faults' = faults + 1
        /\ \A v \in Workers : v # w =>
             /\ step'[v] = step[v] /\ batch'[v] = batch[v] /\ done'[v] = done[v]
             /\ Current(v)' = Current(v) /\ todo'[v] = todo[v]
    BY <1>3, EndOfPass
  <2>2. ASSUME NEW j \in Jobs  PROVE  Owed(j)' \subseteq Owed(j) \cup {First(todo[w])}
    <3>1. \A v \in Workers : \A c \in Chats :
            Recording(v, j, c) => Recording(v, j, c)' \/ c = First(todo[w])
      BY <2>1 DEF Recording
    <3> HIDE DEF HasInHand
    <3> QED
      BY <2>1, <3>1 DEF Owed
  <2>3. \A v \in Workers : step'[v] \in Sending => todo'[v] \cap sentTo'[Current(v)'] = {}
    BY <2>1 DEF OwedInv
  <2> QED
    BY <1>fault, <2>1, <2>2, <2>3 DEF OwedInv
<1>4. CASE ~\E w \in Workers : StartPass(w) \/ PassStep(w) \/ PassFails(w)
  <2>1. /\ UNCHANGED <<passVars, sentTo, received>>
        /\ \A w \in Workers : Current(w)' = Current(w)
    BY <1>4, Elsewhere
  <2>2. ASSUME NEW j \in Jobs  PROVE  Owed(j)' \subseteq Owed(j)
    <3>1. \A v \in Workers : \A c \in Chats : Recording(v, j, c) => Recording(v, j, c)'
      BY <2>1 DEF Recording
    <3> QED
      BY <2>1, <3>1, OwedShrinks
  <2> QED
    BY <1>quiet, <2>1, <2>2 DEF OwedInv
<1> QED
  BY <1>1, <1>2, <1>3, <1>4

\* The ways a step may balance arrivals, senders and chances.
LEMMA Balance ==
  ASSUME TypeOK, TypeOK', NEW j \in Jobs, NEW c \in Chats, Paid(j, c), NEW w,
         faults <= faults', overruns <= overruns',
         MaySend(j, c)' \subseteq MaySend(j, c) \cup {w},
         \/ /\ received'[j][c] = received[j][c] /\ MaySend(j, c)' \subseteq MaySend(j, c)
            /\ \/ Chance(j, c)' => Chance(j, c)
               \/ faults' = faults + 1 \/ overruns' = overruns + 1
         \/ /\ w \in MaySend(j, c) /\ MaySend(j, c)' \subseteq MaySend(j, c) \ {w}
            /\ \/ received'[j][c] = received[j][c]
               \/ received'[j][c] = received[j][c] + 1 /\ (Chance(j, c)' => Chance(j, c))
         \/ received'[j][c] = received[j][c] /\ Chance(j, c) /\ ~Chance(j, c)'
  PROVE  Paid(j, c)'
<1>1. /\ IsFiniteSet(MaySend(j, c)') /\ Cardinality(MaySend(j, c)) \in Nat
      /\ Cardinality(MaySend(j, c)') \in Nat
      /\ Cardinality(MaySend(j, c)') <= Cardinality(MaySend(j, c)) + 1
      /\ MaySend(j, c)' \subseteq MaySend(j, c) =>
           Cardinality(MaySend(j, c)') <= Cardinality(MaySend(j, c))
      /\ w \in MaySend(j, c) /\ MaySend(j, c)' \subseteq MaySend(j, c) \ {w} =>
           Cardinality(MaySend(j, c)') <= Cardinality(MaySend(j, c)) - 1
  BY OneMore DEF Paid
<1>2. /\ received[j][c] \in Nat /\ received'[j][c] \in Nat /\ faults \in Nat /\ faults' \in Nat
      /\ overruns \in Nat /\ overruns' \in Nat
  BY DEF TypeOK
<1>3. received[j][c] + Cardinality(MaySend(j, c)) + (IF Chance(j, c) THEN 1 ELSE 0)
        <= 1 + faults + overruns
  BY DEF Paid
<1>4. received'[j][c] + Cardinality(MaySend(j, c)') + (IF Chance(j, c)' THEN 1 ELSE 0)
        <= 1 + faults' + overruns'
  BY <1>1, <1>2, <1>3
<1> QED
  BY <1>1, <1>4 DEF Paid

\* What happens to the workers other than w.
LEMMA OtherSenders ==
  ASSUME NEW w,
         \A v \in Workers : v # w =>
            /\ step'[v] = step[v] /\ batch'[v] = batch[v] /\ done'[v] = done[v]
            /\ todo'[v] = todo[v] /\ Current(v)' = Current(v),
         NEW j, sentTo[j] \subseteq sentTo'[j]
  PROVE  \A c : /\ MaySend(j, c)' \subseteq MaySend(j, c) \cup {w}
                /\ (w \in MaySend(j, c)' => w \in MaySend(j, c)) =>
                     MaySend(j, c)' \subseteq MaySend(j, c)
                /\ w \notin MaySend(j, c)' => MaySend(j, c)' \subseteq MaySend(j, c) \ {w}
<1> SUFFICES ASSUME NEW c, NEW v \in MaySend(j, c)', v # w  PROVE  v \in MaySend(j, c)
  OBVIOUS
<1>1. v \in Workers
  BY DEF MaySend
<1>2. /\ step'[v] = step[v] /\ batch'[v] = batch[v] /\ done'[v] = done[v]
      /\ todo'[v] = todo[v] /\ Current(v)' = Current(v)
  BY <1>1
<1>3. Recording(v, j, c)' <=> Recording(v, j, c)
  BY <1>2 DEF Recording
<1> QED
  BY <1>1, <1>2, <1>3 DEF MaySend

\* Over all workers and leases, a video arrives once and once more for each
\* fault and each lease that ends early.
LEMMA ChanceStep ==
  ASSUME TypeOK, PassInv, AbsentInv, ChanceInv, [Next]_vars  PROVE  ChanceInv'
<1>known. \A w \in Workers : Knows(w)
  BY DEF PassInv
<1>types. TypeOK' /\ faults <= faults' /\ overruns <= overruns' /\ \A j \in Jobs : sentTo[j] \subseteq sentTo'[j]
  BY TypeStep, Grows
<1> SUFFICES ASSUME NEW j \in Jobs, NEW c \in Chats  PROVE  Paid(j, c)'
  BY DEF ChanceInv
<1>paid. Paid(j, c)
  BY DEF ChanceInv
<1>1. ASSUME NEW w \in Workers, PassStep(w)  PROVE  Paid(j, c)'
  <2>1. /\ \A v \in Workers : v # w =>
             /\ Current(v)' = Current(v) /\ step'[v] = step[v] /\ batch'[v] = batch[v]
             /\ done'[v] = done[v] /\ todo'[v] = todo[v] /\ HasInHand(v, j)' = HasInHand(v, j)
        /\ Current(w) \in batch[w] /\ Current(w) \in Jobs
        /\ HasInHand(w, j)' => HasInHand(w, j)
        /\ (batch' = batch /\ done' = done /\ Current(w)' = Current(w)) \/ NextJob(w)
    BY <1>1, Hands, OwnJob DEF Current
  <2>2. /\ MaySend(j, c)' \subseteq MaySend(j, c) \cup {w}
        /\ (w \in MaySend(j, c)' => w \in MaySend(j, c)) => MaySend(j, c)' \subseteq MaySend(j, c)
        /\ w \notin MaySend(j, c)' => MaySend(j, c)' \subseteq MaySend(j, c) \ {w}
    BY <1>types, <2>1, OtherSenders
  <2>3. ASSUME HasInHand(w, j)' <=> HasInHand(w, j), c \in sentTo[j] => c \in sentTo'[j],
               \/ status'[j] = status[j] /\ lease'[j] = lease[j]
               \/ lease'[j] = "fresh" /\ status'[j] = status[j]
               \/ lease'[j] = lease[j] /\ status'[j] = "uploading"
        PROVE  Chance(j, c)' => Chance(j, c)
    <3>1. \A v \in Workers : HasInHand(v, j)' <=> HasInHand(v, j)
      BY <2>1, <2>3
    <3> HIDE DEF HasInHand
    <3> QED
      BY <2>3, <3>1 DEF Chance, Vacant
  <2>4. CASE j # Current(w)
    <3>1. /\ status'[j] = status[j] /\ lease'[j] = lease[j] /\ sentTo'[j] = sentTo[j]
          /\ received'[j] = received[j]
      BY <1>1, <2>4, OwnJob
    <3>2. HasInHand(w, j)' <=> HasInHand(w, j)
      BY <1>1, <2>4, Hands
    <3>3. w \in MaySend(j, c)' => w \in MaySend(j, c)
      BY <2>1, <2>4, <3>1, <3>2, Onward DEF MaySend
    <3> QED
      BY <1>types, <1>paid, <2>2, <2>3, <3>1, <3>2, <3>3, Balance
  <2>5. CASE j = Current(w) /\ j \in done[w]
    <3>1. status'[j] = status[j] /\ lease'[j] = lease[j]
      BY <1>1, <2>5, OwnStatus
    <3>2. UNCHANGED <<sentTo, received>>
      BY <1>1, <1>known, <2>5 DEF PassStep, Defer, CommitDeferred, ReuseVideo, StartBuild,
         FinishBuild, BuildFails, CommitFailed, CommitUploading, LoadDeliveries, SendVideo, Arrives, MarkSent,
         SendFails, Complete, DeleteVideo, CommitDeleted, Working, Knows
    <3>3. ~HasInHand(w, j) /\ ~HasInHand(w, j)'
      BY <2>1, <2>5
    <3>4. w \notin MaySend(j, c)'
      BY <3>3 DEF MaySend
    <3> QED
      BY <1>types, <1>paid, <2>2, <2>3, <3>1, <3>2, <3>3, <3>4, Balance
  <2>6. CASE j = Current(w) /\ j \notin done[w]
    <3>sender. c \notin sentTo[j] /\ ~Recording(w, j, c) => w \in MaySend(j, c)
      BY <1>known, <2>1, <2>6 DEF MaySend, Knows
    <3>1. CASE NextJob(w)
      <4>1. UNCHANGED <<sentTo, received>>
        <5>1. step' # [step EXCEPT ![w] = "sending"] /\ step' # [step EXCEPT ![w] = "delivered"]
          BY <3>1, Zenon DEF NextJob, TypeOK
        <5>2. ~Arrives(w) /\ ~MarkSent(w)
          BY <5>1 DEF Arrives, MarkSent
        <5> QED
          BY <1>1, <5>2 DEF PassStep, Defer, CommitDeferred, ReuseVideo, StartBuild, FinishBuild,
             BuildFails, CommitFailed, CommitUploading, LoadDeliveries, SendVideo, SendFails,
             Complete, DeleteVideo, CommitDeleted, Working
      <4>2. ~HasInHand(w, j)'
        BY <2>6, <3>1, Onward
      <4>3. w \notin MaySend(j, c)'
        BY <4>2 DEF MaySend
      <4>4. CASE c \in sentTo[j]
        BY <1>types, <1>paid, <2>2, <4>1, <4>3, <4>4, Balance DEF Chance
      <4>5. CASE c \notin sentTo[j] /\ ~Recording(w, j, c)
        BY <1>types, <1>paid, <2>2, <3>sender, <4>1, <4>3, <4>5, Balance
      <4>6. CASE Recording(w, j, c)
        <5>1. step[w] = "delivered"
          BY <4>6 DEF Recording
        <5>2. faults' = faults + 1
          BY <1>1, <3>1, <5>1 DEF PassStep, Defer, CommitDeferred, ReuseVideo, Takes, StartBuild,
             FinishBuild, BuildFails, CommitFailed, CommitUploading, LoadDeliveries, SendVideo,
             Arrives, MarkSent, SendFails, Fault, Complete, DeleteVideo, CommitDeleted, Working,
             NextJob, TypeOK
        <5> QED
          BY <1>types, <1>paid, <2>2, <4>1, <4>3, <5>2, Balance
      <4> QED
        BY <4>4, <4>5, <4>6
    <3>2. CASE Arrives(w)
      <4>1. /\ UNCHANGED <<batch, done, todo, sentTo, status, lease>> /\ step[w] = "inflight"
            /\ step'[w] = "delivered" /\ todo[w] # {} /\ Current(w)' = Current(w)
        BY <1>known, <3>2 DEF Arrives, Knows, Current, TypeOK
      <4>2. First(todo[w]) \in todo[w] /\ First(todo'[w]) = First(todo[w])
        BY <4>1, FirstTodo
      <4>3. received'[j][c] = IF c = First(todo[w]) THEN received[j][c] + 1 ELSE received[j][c]
        BY <2>6, <3>2, ArrivalCounts
      <4>4. Chance(j, c)' => Chance(j, c)
        BY <2>3, <4>1
      <4>5. CASE c = First(todo[w])
        <5>1. w \in MaySend(j, c)
          BY <2>1, <2>6, <4>1, <4>2, <4>5 DEF MaySend, Recording
        <5>2. w \notin MaySend(j, c)'
          BY <2>1, <2>6, <4>1, <4>2, <4>5 DEF MaySend, Recording
        <5> QED
          BY <1>types, <1>paid, <2>2, <4>3, <4>4, <4>5, <5>1, <5>2, Balance
      <4>6. CASE c # First(todo[w])
        <5>1. w \in MaySend(j, c)' => w \in MaySend(j, c)
          BY <2>1, <2>6, <4>1, <4>6 DEF MaySend, Recording
        <5> QED
          BY <1>types, <1>paid, <2>2, <4>3, <4>4, <4>6, <5>1, Balance
      <4> QED
        BY <4>5, <4>6
    <3>3. CASE MarkSent(w)
      <4>1. /\ UNCHANGED <<batch, done, received, status>> /\ step[w] = "delivered"
            /\ step'[w] = "sending" /\ todo'[w] = todo[w] \ {First(todo[w])}
            /\ Current(w)' = Current(w)
        BY <3>3 DEF MarkSent, Current, TypeOK
      <4>2. lease'[j] = "fresh"
        BY <2>6, <3>3 DEF MarkSent, TypeOK
      <4>3. w \in MaySend(j, c)' => w \in MaySend(j, c)
        BY <2>1, <2>6, <4>1 DEF MaySend, Recording
      <4>4. Chance(j, c)' => Chance(j, c)
        BY <1>types, <2>3, <4>1, <4>2
      <4> QED
        BY <1>types, <1>paid, <2>2, <4>1, <4>3, <4>4, Balance
    <3>4. CASE LoadDeliveries(w)
      <4>1. /\ UNCHANGED <<batch, done, received, sentTo, status, lease>> /\ step[w] = "load"
            /\ step'[w] = "sending" /\ todo'[w] = Chats \ sentTo[j] /\ Current(w)' = Current(w)
        BY <2>6, <3>4 DEF LoadDeliveries, Current, TypeOK
      <4>2. w \in MaySend(j, c)' => w \in MaySend(j, c)
        BY <2>1, <2>6, <4>1 DEF MaySend, Recording
      <4> QED
        BY <1>types, <1>paid, <2>2, <2>3, <4>1, <4>2, Balance
    <3>5. CASE CommitUploading(w)
      <4>1. /\ UNCHANGED <<batch, done, received, sentTo, lease, todo>> /\ step[w] = "built"
            /\ step'[w] = "load" /\ Current(w)' = Current(w)
        BY <3>5 DEF CommitUploading, Current, TypeOK
      <4>2. status'[j] = "uploading"
        BY <2>6, <3>5 DEF CommitUploading, TypeOK
      <4>3. w \in MaySend(j, c)' => w \in MaySend(j, c)
        BY <2>1, <2>6, <4>1 DEF MaySend, Recording
      <4> QED
        BY <1>types, <1>paid, <2>2, <2>3, <4>1, <4>2, <4>3, Balance
    <3>6. CASE Complete(w)
      <4>1. /\ UNCHANGED <<batch, done, received, sentTo, todo>> /\ step[w] = "sending"
            /\ step'[w] = "completed" /\ todo[w] = {} /\ Current(w)' = Current(w)
        BY <3>6 DEF Complete, Current, TypeOK
      <4>2. c \in sentTo[j]
        BY <1>known, <2>6, <4>1 DEF Knows
      <4>3. w \notin MaySend(j, c)'
        BY <2>6, <4>1 DEF MaySend
      <4> QED
        BY <1>types, <1>paid, <2>2, <4>1, <4>2, <4>3, Balance DEF Chance
    <3>7. CASE \/ Defer(w) \/ ReuseVideo(w) \/ StartBuild(w) \/ FinishBuild(w) \/ BuildFails(w)
               \/ SendVideo(w) \/ DeleteVideo(w)
      <4>1. /\ UNCHANGED <<batch, done, received, sentTo, status, lease, todo>>
            /\ Current(w)' = Current(w) /\ step[w] # "delivered" /\ step'[w] # "delivered"
            /\ step[w] \in Sending \cup Over <=> step'[w] \in Sending \cup Over
        BY <2>6, <3>7 DEF Defer, ReuseVideo, Takes, StartBuild, FinishBuild, BuildFails, SendVideo,
           DeleteVideo, Working, Current, TypeOK
      <4>2. w \in MaySend(j, c)' => w \in MaySend(j, c)
        BY <2>1, <2>6, <4>1 DEF MaySend, Recording
      <4> QED
        BY <1>types, <1>paid, <2>2, <2>3, <4>1, <4>2, Balance
    <3> QED
      BY <1>1, <3>1, <3>2, <3>3, <3>4, <3>5, <3>6, <3>7 DEF PassStep, CommitDeferred, CommitFailed,
         SendFails, CommitDeleted
  <2> QED
    BY <2>4, <2>5, <2>6
<1>2. ASSUME NEW w \in Workers, StartPass(w)  PROVE  Paid(j, c)'
  <2>1. PICK s \in NewStatuses :
           /\ batch[w] = {} /\ step'[w] \in {"idle", "next"}
           /\ \A v \in Workers : v # w =>
                /\ step'[v] = step[v] /\ batch'[v] = batch[v] /\ done'[v] = done[v]
                /\ Current(v)' = Current(v)
           /\ HasInHand(w, j)' <=> j \in Claims(s)
           /\ status'[j] = IF j \in Claims(s) THEN "processing" ELSE s[j]
           /\ lease'[j] = IF j \in Claims(s) THEN "fresh" ELSE lease[j]
           /\ s[j] = status[j] \/ (status[j] = "absent" /\ s[j] \in {"pending", "failed"})
           /\ j \in Claims(s) =>
                \/ status[j] \in {"pending", "absent"}
                \/ status[j] \in {"processing", "uploading"} /\ lease[j] # "fresh"
    BY <1>2, StartOfPass
  <2>2. UNCHANGED <<sentTo, received, todo>>
    BY <1>2 DEF StartPass
  <2>3. /\ MaySend(j, c)' \subseteq MaySend(j, c) \cup {w}
        /\ w \notin MaySend(j, c)' => MaySend(j, c)' \subseteq MaySend(j, c)
    BY <1>types, <2>1, <2>2, OtherSenders
  <2>4. w \in MaySend(j, c)' => j \in Claims(s) /\ c \notin sentTo[j]
    BY <2>1, <2>2 DEF MaySend
  <2>5. CASE j \in Claims(s) /\ c \notin sentTo[j]
    <3>1. Chance(j, c)
      BY <2>1, <2>5 DEF Chance, Vacant, AbsentInv
    <3>2. ~Chance(j, c)'
      BY <2>1, <2>5 DEF Chance, Vacant
    <3> QED
      BY <1>types, <1>paid, <2>2, <2>3, <3>1, <3>2, Balance
  <2>6. CASE ~(j \in Claims(s) /\ c \notin sentTo[j])
    <3>1. MaySend(j, c)' \subseteq MaySend(j, c)
      BY <2>3, <2>4, <2>6
    <3>2. \A v \in Workers : HasInHand(v, j) => HasInHand(v, j)'
      BY <2>1
    <3>3. Chance(j, c)' => Chance(j, c)
      <4> HIDE DEF HasInHand
      <4> QED
        BY <2>1, <2>2, <2>6, <3>2 DEF Chance, Vacant, AbsentInv
    <3> QED
      BY <1>types, <1>paid, <2>2, <2>3, <3>1, <3>3, Balance
  <2> QED
    BY <2>5, <2>6
<1>3. ASSUME NEW w \in Workers, PassFails(w)  PROVE  Paid(j, c)'
  <2>1. /\ batch'[w] = {} /\ UNCHANGED <<sentTo, received, overruns>> /\ faults' = faults + 1
        /\ \A v \in Workers : v # w =>
             /\ step'[v] = step[v] /\ batch'[v] = batch[v] /\ done'[v] = done[v]
             /\ Current(v)' = Current(v) /\ todo'[v] = todo[v]
    BY <1>3, EndOfPass
  <2>2. w \notin MaySend(j, c)'
    BY <2>1 DEF MaySend
  <2>3. MaySend(j, c)' \subseteq MaySend(j, c)
    BY <1>types, <2>1, <2>2, OtherSenders
  <2> QED
    BY <1>types, <1>paid, <2>1, <2>3, Balance
<1>4. CASE ~\E w \in Workers : StartPass(w) \/ PassStep(w) \/ PassFails(w)
  <2>1. /\ UNCHANGED <<passVars, sentTo, received, status>>
        /\ \A w \in Workers : Current(w)' = Current(w)
        /\ \/ lease'[j] = lease[j]
           \/ (\A w \in Workers : ~HasInHand(w, j)) \/ overruns' = overruns + 1
    BY <1>4, Elsewhere
  <2>2. \A v \in Workers : HasInHand(v, j)' <=> HasInHand(v, j)
    BY <2>1
  <2>3. MaySend(j, c)' \subseteq MaySend(j, c)
    BY <2>1 DEF MaySend, Recording
  <2>4. (Chance(j, c)' => Chance(j, c)) \/ overruns' = overruns + 1
    <3> HIDE DEF HasInHand
    <3> QED
      BY <2>1, <2>2 DEF Chance, Vacant
  <2> QED
    BY <1>types, <1>paid, <2>1, <2>3, <2>4, Balance
<1> QED
  BY <1>1, <1>2, <1>3, <1>4

-----------------------------------------------------------------------------
(* The theorems.                                                           *)

\* The invariant holds at first ...
LEMMA InitIInv == Init => IInv
<1> SUFFICES ASSUME Init  PROVE  IInv
  OBVIOUS
<1> USE JobsAssumption, ChatsAssumption, BoundsAssumption
<1>1. TypeOK
  <2>1. /\ day \in Jobs \cup {0} /\ sender \in BOOLEAN /\ pressure \in BOOLEAN
        /\ served \subseteq Jobs
    BY DEF Init
  <2>4. overruns \in 0..MaxOverruns /\ faults \in 0..MaxFaults
    BY DEF Init
  <2>2. /\ status \in [Jobs -> Open \cup {"absent", "completed", "failed"}]
        /\ lease \in [Jobs -> {"none", "fresh", "stale"}]
        /\ sentTo \in [Jobs -> SUBSET Chats]
        /\ path \in [Jobs -> BOOLEAN] /\ file \in [Jobs -> BOOLEAN]
        /\ received \in [Jobs -> [Chats -> Nat]]
    BY DEF Init
  <2>3. /\ \A w \in Workers : step[w] = "idle" /\ batch[w] = {}
        /\ batch \in [Workers -> SUBSET Jobs] /\ done \in [Workers -> SUBSET Jobs]
        /\ paths \in [Workers -> SUBSET Jobs] /\ deferring \in [Workers -> BOOLEAN]
        /\ todo \in [Workers -> SUBSET Chats]
    BY DEF Init
  <2> QED
    BY <2>1, <2>2, <2>3, <2>4 DEF Init, TypeOK
<1>2. \A j \in Jobs : Got(j) = {} /\ sentTo[j] = {}
  BY DEF Init, Got
<1>3. \A w \in Workers : \A j \in Jobs : ~HasInHand(w, j)
  BY DEF Init, HasInHand
<1>4. PassInv
  BY DEF Init, PassInv, Knows, Sending, Over
<1>5. OrderInv /\ AbsentInv
  BY <1>2 DEF Init, OrderInv, AbsentInv
<1>6. LeaseInv /\ FileInv
  BY <1>3 DEF Init, LeaseInv, FileInv, Sending, Over
<1>7. OwedInv
  <2>1. \A j \in Jobs : Owed(j) = {}
    BY DEF Init, Owed
  <2> QED
    <3>1. \A j \in Jobs : Cardinality(Owed(j)) = 0
      BY <2>1, FS_EmptySet
    <3>2. \A w \in Workers : step[w] \notin Sending
      BY DEF Init, Sending
    <3> QED
      BY <3>1, <3>2 DEF Init, OwedInv
<1>8. ChanceInv
  <2>1. \A j \in Jobs : \A c \in Chats : MaySend(j, c) = {} /\ received[j][c] = 0
    BY <1>3 DEF Init, MaySend
  <2> QED
    <3>1. \A j \in Jobs : \A c \in Chats :
            IsFiniteSet(MaySend(j, c)) /\ Cardinality(MaySend(j, c)) = 0
      BY <2>1, FS_EmptySet
    <3> QED
      BY <2>1, <3>1 DEF Init, ChanceInv, Paid
<1> QED
  BY <1>1, <1>4, <1>5, <1>6, <1>7, <1>8 DEF IInv, CalmInv

\* ... and always.
THEOREM Invariance == Spec => []IInv
<1>1. ASSUME IInv, [Next]_vars  PROVE  IInv'
  <2> USE <1>1 DEF IInv
  <2>1. TypeOK' /\ PassInv' /\ OrderInv' /\ AbsentInv' /\ ChanceInv'
    BY TypeStep, PassInvStep, OrderStep, AbsentStep, ChanceStep
  <2>2. ASSUME overruns' = 0  PROVE  LeaseInv' /\ FileInv' /\ OwedInv'
    <3>1. overruns = 0
      BY <2>2, Grows, BoundsAssumption DEF TypeOK
    <3>2. LeaseInv /\ FileInv /\ OwedInv
      BY <3>1 DEF CalmInv
    <3> QED
      BY <2>2, <3>1, <3>2, LeaseStep, FileStep, OwedStep
  <2> QED
    BY <2>1, <2>2 DEF CalmInv
<1> QED
  BY <1>1, InitIInv, PTL DEF Spec

\* The types of the state.
THEOREM TypeCorrect == Spec => []TypeOK
  BY Invariance, PTL DEF IInv

\* No two workers have the same job in hand until a lease ends early.
THEOREM LeasesKeepApart == Spec => []OneHolder
<1>1. IInv => OneHolder
  BY DEF IInv, CalmInv, LeaseInv, OneHolder, HasInHand, TypeOK
<1> QED
  BY <1>1, Invariance, PTL

\* While its job is open the video is on the disk, and when the path is gone
\* the video is gone, until a lease ends early.
THEOREM FilesAreKept == Spec => []FilesFollowJobs
<1>1. IInv => FilesFollowJobs
  BY DEF IInv, CalmInv, FileInv, FilesFollowJobs, UploadingHasVideo, NothingLeftBehind
<1> QED
  BY <1>1, Invariance, PTL

\* A recipient gets a video again only after an interruption or a lease that
\* has ended early; without the latter one interruption makes one repetition.
THEOREM InterruptionsArePaid == Spec => []RepeatsNeedFaults
<1>1. ASSUME IInv  PROVE  RepeatsNeedFaults
  <2> SUFFICES ASSUME NEW j \in Jobs
               PROVE  /\ \A c \in Chats : received[j][c] <= 1 + faults + overruns
                      /\ Cardinality({c \in Chats : received[j][c] > 1})
                           <= faults + overruns * Cardinality(Chats)
    BY DEF RepeatsNeedFaults
  <2> DEFINE Repeats == {c \in Chats : received[j][c] > 1}
  <2>1. faults \in Nat /\ overruns \in Nat /\ \A c \in Chats : received[j][c] \in Nat
    BY <1>1, BoundsAssumption DEF IInv, TypeOK
  <2>2. ASSUME NEW c \in Chats  PROVE  received[j][c] <= 1 + faults + overruns
    <3>1. /\ IsFiniteSet(MaySend(j, c))
          /\ received[j][c] + Cardinality(MaySend(j, c)) + (IF Chance(j, c) THEN 1 ELSE 0)
               <= 1 + faults + overruns
      BY <1>1 DEF IInv, ChanceInv, Paid
    <3>2. Cardinality(MaySend(j, c)) \in Nat
      BY <3>1, FS_CardinalityType
    <3> QED
      BY <2>1, <3>1, <3>2
  <2>3. Cardinality(Chats) \in Nat
    BY ChatsAssumption, FS_CardinalityType
  <2>4. CASE overruns = 0
    <3>1. IsFiniteSet(Owed(j)) /\ Repeats \subseteq Owed(j)
      BY ChatsAssumption, FS_Subset DEF Owed
    <3>2. Cardinality(Repeats) <= Cardinality(Owed(j)) /\ Cardinality(Owed(j)) <= faults
      BY <1>1, <2>4, <3>1, FS_Subset DEF IInv, CalmInv, OwedInv
    <3>3. Cardinality(Repeats) \in Nat /\ Cardinality(Owed(j)) \in Nat
      BY <3>1, FS_Subset, FS_CardinalityType
    <3>4. overruns * Cardinality(Chats) = 0
      BY <2>3, <2>4
    <3> HIDE DEF Repeats
    <3> QED
      BY <2>1, <2>2, <3>2, <3>3, <3>4 DEF Repeats
  <2>5. CASE overruns > 0
    <3>1. Cardinality(Repeats) <= Cardinality(Chats) /\ Cardinality(Repeats) \in Nat
      BY ChatsAssumption, FS_Subset, FS_CardinalityType
    <3>2. Cardinality(Chats) <= overruns * Cardinality(Chats)
          /\ overruns * Cardinality(Chats) \in Nat
      <4>1. ASSUME NEW a \in Nat, NEW b \in Nat, a > 0  PROVE  b <= a * b /\ a * b \in Nat
        BY <4>1
      <4> QED
        BY <2>1, <2>3, <2>5, <4>1
    <3> QED
      BY <2>1, <2>2, <3>1, <3>2, <2>3
  <2> QED
    BY <2>1, <2>4, <2>5
<1> QED
  BY <1>1, Invariance, PTL

\* Nothing takes a completed job up again, and nothing of it is sent, until a
\* lease ends early.
THEOREM CompletionIsFinal == Spec => CompletedIsFinal
<1>1. ASSUME IInv, [Next]_vars, overruns' = 0, NEW j \in Jobs, status[j] = "completed"
      PROVE  status'[j] = "completed" /\ received'[j] = received[j]
  <2> USE <1>1
  <2>1. overruns = 0
    BY Grows, BoundsAssumption DEF TypeOK, IInv
  <2>2. TypeOK /\ PassInv /\ LeaseInv
    BY <2>1 DEF IInv, CalmInv
  <2>3. CASE \E w \in Workers : PassStep(w)
    <3>1. PICK w \in Workers : PassStep(w)
      BY <2>3
    <3>2. CASE j # Current(w)
      BY <2>2, <3>1, <3>2, OwnJob
    <3>3. CASE j = Current(w)
      <4>1. Current(w) \in batch[w] /\ step[w] # "idle"
        BY <2>2, <3>1, OwnJob
      <4>2. step[w] \notin Sending \cup {"load"}
        BY <2>2, <3>3 DEF LeaseInv
      <4>3. status'[j] = "completed"
        <5>1. CASE j \in done[w]
          BY <2>2, <3>1, <3>3, <5>1, OwnStatus
        <5>2. CASE j \notin done[w]
          <6>1. HasInHand(w, j)
            BY <3>3, <4>1, <5>2 DEF HasInHand
          <6>2. step[w] \in Over
            BY <2>2, <6>1 DEF LeaseInv
          <6> QED
            BY <2>2, <3>1, <3>3, <5>2, <6>2, OwnStatus DEF Over
        <5> QED
          BY <5>1, <5>2
      <4>4. received' = received
        <5>1. ~Arrives(w)
          BY <4>2 DEF Arrives, Sending, At
        <5> QED
          BY <3>1, <5>1 DEF PassStep, Defer, CommitDeferred, ReuseVideo, StartBuild, FinishBuild,
             BuildFails, CommitFailed, CommitUploading, LoadDeliveries, SendVideo, MarkSent,
             SendFails, Complete, DeleteVideo, CommitDeleted, Working, histVars
      <4> QED
        BY <4>3, <4>4
    <3> QED
      BY <3>2, <3>3
  <2>4. CASE \E w \in Workers : StartPass(w)
    <3>1. PICK w \in Workers : StartPass(w)
      BY <2>4
    <3>2. received' = received
      BY <3>1 DEF StartPass, histVars
    <3> QED
      BY <2>2, <3>1, <3>2, StartOfPass
  <2>5. CASE \E w \in Workers : PassFails(w)
    BY <2>2, <2>5, EndOfPass
  <2>6. CASE ~\E w \in Workers : StartPass(w) \/ PassStep(w) \/ PassFails(w)
    BY <2>2, <2>6, Elsewhere
  <2> QED
    BY <2>3, <2>4, <2>5, <2>6
<1>2. IInv /\ [Next]_vars =>
        [overruns' = 0 =>
           \A j \in Jobs : status[j] = "completed" =>
             status'[j] = "completed" /\ received'[j] = received[j]]_vars
  BY <1>1
<1> QED
  BY <1>2, Invariance, PTL DEF Spec, CompletedIsFinal

-----------------------------------------------------------------------------
(* Every step is a step of PartDelivery, or none.                          *)

\* The recipient whose turn it is: everyone before is marked sent.
LEMMA Turn ==
  ASSUME IInv, NEW w \in Workers, step[w] \in Sending, todo[w] # {}
  PROVE  LET k == Current(w) IN LET c == First(todo[w]) IN
         /\ k \in Jobs /\ c \in Chats
         /\ c \notin Got(k) => Got(k) = sentTo[k]
         /\ c \in Got(k) /\ c \notin sentTo[k] => Got(k) = sentTo[k] \cup {c}
<1> DEFINE k == Current(w)
           c == First(todo[w])
<1>1. k \in Jobs /\ c \in Chats /\ \A d \in todo[w] : c <= d
  BY CurrentIn, FirstTodo DEF IInv, Sending
<1>2. Chats \subseteq todo[w] \cup sentTo[k]
  BY DEF IInv, PassInv, Knows
<1>3. sentTo[k] \subseteq Got(k) /\ \A d \in Got(k), e \in Chats : e < d => e \in sentTo[k]
  BY <1>1 DEF IInv, OrderInv
<1>4. Got(k) \subseteq Chats /\ Chats \subseteq Nat
  BY ChatsAssumption DEF Got
<1>5. ASSUME NEW d \in Got(k), d \notin sentTo[k]  PROVE  d = c \/ c \in sentTo[k]
  <2>1. c <= d
    BY <1>1, <1>2, <1>4, <1>5
  <2> QED
    BY <1>1, <1>3, <1>4, <2>1
<1> HIDE DEF k, c
<1>6. /\ c \notin Got(k) => Got(k) = sentTo[k]
      /\ c \in Got(k) /\ c \notin sentTo[k] => Got(k) = sentTo[k] \cup {c}
  BY <1>3, <1>5
<1> QED
  BY <1>1, <1>6 DEF k, c

\* Recipients are served in order, and a job is completed when all have been.
THEOREM Implements == Spec => DeliverySpec
<1> DEFINE arrived == [j \in Jobs |-> Cardinality({c \in Chats : received[j][c] > 0})]
           acked == [j \in Jobs |-> Cardinality(sentTo[j])]
<1>1. Init => Delivery!Init
  <2> SUFFICES ASSUME Init  PROVE  Delivery!Init
    OBVIOUS
  <2>1. \A j \in Jobs : {c \in Chats : received[j][c] > 0} = {} /\ sentTo[j] = {}
    BY DEF Init
  <2>2. arrived = [j \in Jobs |-> 0] /\ acked = [j \in Jobs |-> 0]
    BY <2>1, FS_EmptySet
  <2> QED
    BY <2>2 DEF Init, Delivery!Init
<1>2. ASSUME IInv, [Next]_vars  PROVE  [Delivery!Next]_(Delivery!vars)
  <2>1. \A j \in Jobs : /\ IsFiniteSet(Got(j)) /\ IsFiniteSet(sentTo[j])
                        /\ Got(j) \subseteq Chats /\ sentTo[j] \subseteq Chats
                        /\ {c \in Chats : received[j][c] > 0} = Got(j)
    <3>1. \A j \in Jobs : Got(j) \subseteq Chats /\ sentTo[j] \subseteq Chats
      BY <1>2 DEF Got, IInv, TypeOK
    <3> QED
      BY <3>1, ChatsAssumption, FS_Subset DEF Got
  <2>2. ASSUME NEW w \in Workers, Arrives(w)  PROVE  [Delivery!Next]_(Delivery!vars)
    <3>1. step[w] \in Sending /\ todo[w] # {}
      BY <1>2, <2>2 DEF Arrives, At, Sending, IInv, PassInv, Knows
    <3>2. PICK k \in Jobs, c \in Chats :
             /\ k = Current(w) /\ c = First(todo[w])
             /\ c \notin Got(k) => Got(k) = sentTo[k]
      BY <1>2, <3>1, Turn
    <3>3. UNCHANGED <<sentTo, served>>
      BY <2>2 DEF Arrives, jobVars
    <3>4. \A j \in Jobs : \A d \in Chats :
            /\ received[j][d] \in Nat
            /\ received'[j][d] = IF j = k /\ d = c THEN received[j][d] + 1 ELSE received[j][d]
      BY <1>2, <2>2, <3>2, ArrivalCounts DEF IInv
    <3>5. \A j \in Jobs : {d \in Chats : received'[j][d] > 0} =
                            IF j = k THEN Got(k) \cup {c} ELSE Got(j)
      BY <3>4, <3>2 DEF Got
    <3>6. CASE c \in Got(k)
      <4>1. arrived' = arrived
        BY <2>1, <3>5, <3>6
      <4> QED
        BY <3>3, <4>1 DEF Delivery!vars
    <3>7. CASE c \notin Got(k)
      <4>1. Cardinality(Got(k) \cup {c}) = Cardinality(Got(k)) + 1 /\ Cardinality(Got(k)) \in Nat
        BY <2>1, <3>7, FS_AddElement, FS_CardinalityType
      <4>2. Cardinality(Got(k) \cup {c}) <= Cardinality(Chats) /\ Cardinality(Chats) \in Nat
        BY <2>1, ChatsAssumption, FS_Subset, FS_CardinalityType
      <4>3. arrived' = [arrived EXCEPT ![k] = @ + 1]
        BY <2>1, <3>5, <4>1
      <4>4. acked[k] = arrived[k] /\ acked[k] < Cardinality(Chats)
        <5>1. arrived[k] = Cardinality(Got(k)) /\ acked[k] = Cardinality(sentTo[k])
          BY <2>1
        <5> QED
          BY <3>2, <3>7, <4>1, <4>2, <5>1
      <4>5. Delivery!Arrive(k)
        BY <3>3, <4>3, <4>4 DEF Delivery!Arrive
      <4> QED
        BY <4>5 DEF Delivery!Next
    <3> QED
      BY <3>6, <3>7
  <2>3. ASSUME NEW w \in Workers, MarkSent(w)  PROVE  [Delivery!Next]_(Delivery!vars)
    <3>1. step[w] = "delivered" /\ step[w] \in Sending /\ todo[w] # {}
      BY <1>2, <2>3 DEF MarkSent, At, Sending, IInv, PassInv, Knows
    <3>2. PICK k \in Jobs, c \in Chats :
             /\ k = Current(w) /\ c = First(todo[w])
             /\ c \in Got(k) /\ c \notin sentTo[k] => Got(k) = sentTo[k] \cup {c}
      BY <1>2, <3>1, Turn
    <3>3. c \in Got(k)
      BY <1>2, <3>1, <3>2 DEF IInv, PassInv, Knows
    <3>4. UNCHANGED <<received, served>> /\ sentTo' = [sentTo EXCEPT ![k] = @ \cup {c}]
      BY <2>3, <3>2 DEF MarkSent, histVars
    <3>5. arrived' = arrived
      BY <3>4
    <3>6. CASE c \in sentTo[k]
      <4>1. sentTo' = sentTo
        BY <1>2, <3>4, <3>6 DEF IInv, TypeOK
      <4> QED
        BY <3>4, <3>5, <4>1 DEF Delivery!vars
    <3>7. CASE c \notin sentTo[k]
      <4>1. /\ Cardinality(sentTo[k] \cup {c}) = Cardinality(sentTo[k]) + 1
            /\ Cardinality(sentTo[k]) \in Nat
        BY <2>1, <3>7, FS_AddElement, FS_CardinalityType
      <4>2. acked[k] < arrived[k]
        <5>1. arrived[k] = Cardinality(Got(k)) /\ acked[k] = Cardinality(sentTo[k])
          BY <2>1
        <5>2. Got(k) = sentTo[k] \cup {c}
          BY <3>2, <3>3, <3>7
        <5> HIDE DEF arrived, acked
        <5> QED
          BY <4>1, <5>1, <5>2
      <4>3. acked' = [acked EXCEPT ![k] = @ + 1]
        BY <1>2, <3>4, <4>1 DEF IInv, TypeOK
      <4>4. Delivery!Acknowledge(k)
        BY <3>4, <3>5, <4>2, <4>3 DEF Delivery!Acknowledge
      <4> QED
        BY <4>4 DEF Delivery!Next
    <3> QED
      BY <3>6, <3>7
  <2>4. ASSUME NEW w \in Workers, Complete(w)  PROVE  [Delivery!Next]_(Delivery!vars)
    <3>1. Current(w) \in Jobs /\ Chats \subseteq sentTo[Current(w)]
      BY <1>2, <2>4, CurrentIn DEF Complete, At, Sending, IInv, PassInv, Knows
    <3>2. sentTo[Current(w)] = Chats
      BY <2>1, <3>1
    <3>3. UNCHANGED <<received, sentTo>> /\ served' = served \cup {Current(w)}
      BY <2>4 DEF Complete
    <3>4. Delivery!Finish(Current(w))
      BY <3>1, <3>2, <3>3 DEF Delivery!Finish
    <3> QED
      BY <3>1, <3>4 DEF Delivery!Next
  <2>5. CASE UNCHANGED <<received, sentTo, served>>
    BY <2>5 DEF Delivery!vars
  <2>6. \/ \E w \in Workers : Arrives(w) \/ MarkSent(w) \/ Complete(w)
        \/ UNCHANGED <<received, sentTo, served>>
    <3>1. CASE \E w \in Workers : PassStep(w)
      <4>1. PICK w \in Workers : PassStep(w)
        BY <3>1
      <4> QED
        BY <4>1 DEF PassStep, Defer, CommitDeferred, ReuseVideo, StartBuild, FinishBuild,
           BuildFails, CommitFailed, CommitUploading, LoadDeliveries, SendVideo, SendFails, GiveUp,
           DeleteVideo, CommitDeleted, Working, histVars, jobVars
    <3>2. CASE \E w \in Workers : StartPass(w) \/ PassFails(w)
      BY <3>2 DEF StartPass, PassFails, histVars, jobVars
    <3>3. CASE ~\E w \in Workers : StartPass(w) \/ PassStep(w) \/ PassFails(w)
      BY <1>2, <3>3, Elsewhere DEF IInv
    <3> QED
      BY <3>1, <3>2, <3>3
  <2> QED
    BY <2>2, <2>3, <2>4, <2>5, <2>6
<1> QED
  BY <1>1, <1>2, Invariance, PTL DEF Spec, DeliverySpec, Delivery!Spec

=============================================================================
