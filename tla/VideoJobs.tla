------------------------------ MODULE VideoJobs ------------------------------
(***************************************************************************)
(* The daily time-lapse videos of one camera: run_daily_timelapse creates  *)
(* the job of the day that has ended, and process_due_video_jobs_once      *)
(* generates the video, sends it to every recipient and deletes it.        *)
(* Several workers may run; a lease of an hour, claimed_at, keeps them     *)
(* apart.                                                                  *)
(*                                                                         *)
(* A worker has one session per pass and keeps its copies of the jobs over *)
(* all commits. A step is a transaction, a file operation or a request to  *)
(* Telegram; status, path, lease and sentTo are what is committed.         *)
(***************************************************************************)
EXTENDS Integers, FiniteSets

CONSTANTS
  Jobs,         \* the days, whose jobs have the order of created_at
  Workers,      \* the worker processes
  Chats,        \* the recipients, in the order of telegram_chat_id
  BatchSize,    \* batch_size of one pass
  MaxFaults,    \* bound: passes that end midway and requests that fail
  MaxOverruns   \* bound: leases that end while their worker is still at work

ASSUME JobsAssumption == Jobs \subseteq Nat \ {0} /\ IsFiniteSet(Jobs)
ASSUME ChatsAssumption == Chats \subseteq Nat /\ Chats # {} /\ IsFiniteSet(Chats)
ASSUME BoundsAssumption ==
  BatchSize \in Nat \ {0} /\ MaxFaults \in Nat /\ MaxOverruns \in Nat

VARIABLES
  day,       \* the last day that has ended and whose time of sending is over
  sender,    \* whether a bot token is configured
  pressure,  \* storage pressure is severe or at the hard limit
  status,    \* timelapse_video_jobs.status, "absent" before the insert
  path,      \* whether storage_path is set
  lease,     \* claimed_at: NULL, younger or older than stale_after
  sentTo,    \* the recipients whose delivery row is "sent"
  file,      \* whether <job_id>.mp4 exists
  step,      \* where the pass of each worker is
  batch,     \* its jobs from the one in work on
  done,      \* those it has loaded as completed
  paths,     \* those whose copy has a storage_path
  deferring, \* whether this pass found the storage under pressure
  todo,      \* the deliveries of the job in work that are still to be made
  received,  \* history: how often each video has arrived in each chat
  served,    \* history: the jobs that have been completed
  overruns,  \* overruns so far
  faults     \* faults so far

envVars  == <<day, sender, pressure>>
jobVars  == <<status, path, lease, sentTo>>
passVars == <<step, batch, done, paths, deferring, todo>>
histVars == <<received, served>>
vars == <<envVars, jobVars, file, passVars, histVars, overruns, faults>>

Open == {"pending", "processing", "uploading"}

TypeOK ==
  /\ day \in Jobs \cup {0} /\ sender \in BOOLEAN /\ pressure \in BOOLEAN
  /\ status \in [Jobs -> Open \cup {"absent", "completed", "failed"}]
  /\ path \in [Jobs -> BOOLEAN]
  /\ lease \in [Jobs -> {"none", "fresh", "stale"}]
  /\ sentTo \in [Jobs -> SUBSET Chats]
  /\ file \in [Jobs -> BOOLEAN]
  /\ step \in [Workers -> {"idle", "next", "building", "built", "failing", "deferring",
                           "load", "sending", "inflight", "delivered", "completed",
                           "deleting"}]
  /\ \A w \in Workers : step[w] = "idle" <=> batch[w] = {}
  /\ batch \in [Workers -> SUBSET Jobs] /\ done \in [Workers -> SUBSET Jobs]
  /\ paths \in [Workers -> SUBSET Jobs] /\ deferring \in [Workers -> BOOLEAN]
  /\ todo \in [Workers -> SUBSET Chats]
  /\ received \in [Jobs -> [Chats -> Nat]] /\ served \subseteq Jobs
  /\ overruns \in 0..MaxOverruns /\ faults \in 0..MaxFaults

Init ==
  /\ day = 0 /\ sender \in BOOLEAN /\ pressure = FALSE
  /\ status = [j \in Jobs |-> "absent"] /\ path = [j \in Jobs |-> FALSE]
  /\ lease = [j \in Jobs |-> "none"] /\ sentTo = [j \in Jobs |-> {}]
  /\ file = [j \in Jobs |-> FALSE]
  /\ step = [w \in Workers |-> "idle"] /\ batch = [w \in Workers |-> {}]
  /\ done = [w \in Workers |-> {}] /\ paths = [w \in Workers |-> {}]
  /\ deferring = [w \in Workers |-> FALSE] /\ todo = [w \in Workers |-> {}]
  /\ received = [j \in Jobs |-> [c \in Chats |-> 0]] /\ served = {}
  /\ overruns = 0 /\ faults = 0

Fault == faults < MaxFaults /\ faults' = faults + 1

First(S) == CHOOSE x \in S : \A y \in S : x <= y
Current(w) == First(batch[w])
HasInHand(w, j) == j \in batch[w] \ done[w]
At(w, where) == step[w] = where
Goto(w, where) == step' = [step EXCEPT ![w] = where]

-----------------------------------------------------------------------------
(* The surroundings: days, the token of the bot (a deployment restarts the *)
(* workers), the disk, leases that nobody holds any more.                  *)

DayPasses ==
  /\ \E d \in Jobs : d > day /\ day' = First({e \in Jobs : e > day})
  /\ UNCHANGED <<sender, pressure, jobVars, file, passVars, histVars, overruns, faults>>

TokenChanges ==
  /\ \A w \in Workers : At(w, "idle")
  /\ sender' = ~sender
  /\ UNCHANGED <<day, pressure, jobVars, file, passVars, histVars, overruns, faults>>

PressureChanges ==
  /\ pressure' = ~pressure
  /\ UNCHANGED <<day, sender, jobVars, file, passVars, histVars, overruns, faults>>

Expire(j) ==
  /\ lease[j] = "fresh"
  /\ lease' = [lease EXCEPT ![j] = "stale"]
  /\ UNCHANGED <<envVars, status, path, sentTo, file, passVars, histVars, faults>>

LeaseExpires(j) ==
  /\ \A w \in Workers : ~HasInHand(w, j)
  /\ Expire(j) /\ UNCHANGED overruns

\* One lease is taken for all jobs of a pass, and renewed when a video has been
\* sent: the videos before it, of up to 30 minutes each, may outlast it.
Overrun(j) ==
  /\ \E w \in Workers : HasInHand(w, j)
  /\ Expire(j)
  /\ overruns < MaxOverruns /\ overruns' = overruns + 1

\* Mutant: the references of all jobs count.
SweepFileUnnamed(j) ==
  /\ file[j] /\ ~path[j]
  /\ \A w \in Workers : j \notin batch[w]
  /\ file' = [file EXCEPT ![j] = FALSE]
  /\ UNCHANGED <<envVars, jobVars, passVars, histVars, overruns, faults>>

\* Reconciliation deletes old files that no open job refers to.
SweepFile(j) ==
  /\ file[j] /\ ~(path[j] /\ status[j] \in Open)
  /\ \A w \in Workers : j \notin batch[w]
  /\ file' = [file EXCEPT ![j] = FALSE]
  /\ UNCHANGED <<envVars, jobVars, passVars, histVars, overruns, faults>>

-----------------------------------------------------------------------------
(* The first transaction of a pass.                                        *)

\* create_due_video_jobs_once: none without a recipient or under pressure,
\* none again, and none while somebody has an image of the day locked. Without
\* images the job has failed from the start.
NewStatuses ==
  {status} \cup
  (IF sender /\ ~pressure /\ day \in Jobs /\ status[day] = "absent"
   THEN {[status EXCEPT ![day] = s] : s \in {"pending", "failed"}} ELSE {})

\* Mutant: the lease is not looked at.
LeaseIgnored(j) == TRUE

\* lease_available
LeaseAvailable(j) == lease[j] # "fresh"

Cleanup(s) == {j \in Jobs : s[j] = "completed" /\ path[j]}

\* eligibility: without a token, only what leaves files behind.
Eligible(s) ==
  LET claimed == {j \in Jobs : s[j] \in {"processing", "uploading"} /\ LeaseAvailable(j)}
  IN  Cleanup(s) \cup
      (IF sender THEN claimed \cup {j \in Jobs : s[j] = "pending"}
       ELSE IF pressure THEN {j \in claimed : path[j]} ELSE {})

\* ORDER BY created_at LIMIT batch_size. No other transaction keeps a row of
\* these locked.
Selected(s) == {j \in Eligible(s) : Cardinality({k \in Eligible(s) : k < j}) < BatchSize}

\* Mutant: whatever is selected is claimed.
ClaimsAll(s) == Selected(s)

\* A completed job is only cleaned up.
Claims(s) == {j \in Selected(s) : s[j] # "completed"}

StartPass(w) ==
  /\ At(w, "idle")
  /\ \E s \in NewStatuses :
       /\ batch' = [batch EXCEPT ![w] = Selected(s)]
       /\ done' = [done EXCEPT ![w] = Selected(s) \ Claims(s)]
       /\ paths' = [paths EXCEPT ![w] = {j \in Selected(s) : path[j]}]
       /\ deferring' = [deferring EXCEPT ![w] = pressure /\ Selected(s) # {}]
       /\ Goto(w, IF Selected(s) = {} THEN "idle" ELSE "next")
       /\ status' = [j \in Jobs |-> IF j \in Claims(s) THEN "processing" ELSE s[j]]
       /\ lease' = [j \in Jobs |-> IF j \in Claims(s) THEN "fresh" ELSE lease[j]]
  /\ UNCHANGED <<envVars, path, sentTo, file, todo, histVars, overruns, faults>>

-----------------------------------------------------------------------------
(* The jobs of the pass, one after the other.                              *)

\* Mutant: the pass ends with the first job.
NextJobNever(w) ==
  LET rest == batch[w] \ {Current(w)} IN
  /\ batch' = [batch EXCEPT ![w] = rest]
  /\ done' = [done EXCEPT ![w] = @ \cap rest] /\ paths' = [paths EXCEPT ![w] = @ \cap rest]
  /\ deferring' = [deferring EXCEPT ![w] = @ /\ rest # {}]
  /\ todo' = [todo EXCEPT ![w] = {}]
  /\ Goto(w, "idle")

NextJob(w) ==
  LET rest == batch[w] \ {Current(w)} IN
  /\ batch' = [batch EXCEPT ![w] = rest]
  /\ done' = [done EXCEPT ![w] = @ \cap rest] /\ paths' = [paths EXCEPT ![w] = @ \cap rest]
  /\ deferring' = [deferring EXCEPT ![w] = @ /\ rest # {}]
  /\ todo' = [todo EXCEPT ![w] = {}]
  /\ Goto(w, IF rest = {} THEN "idle" ELSE "next")

Unlink(j) == file' = [file EXCEPT ![j] = FALSE]

\* What a commit writes of storage_path = None: nothing if the copy had none.
ClearPath(w) == path' = [path EXCEPT ![Current(w)] = @ /\ Current(w) \notin paths[w]]

\* A file operation of worker w on its job.
Working(w, to) ==
  /\ Goto(w, to)
  /\ UNCHANGED <<envVars, jobVars, batch, done, paths, deferring, todo, histVars, overruns,
                 faults>>

\* _defer_job_for_pressure
Defer(w) ==
  /\ At(w, "next") /\ deferring[w] /\ Current(w) \notin done[w]
  /\ IF Current(w) \in paths[w] THEN Unlink(Current(w)) ELSE UNCHANGED file
  /\ Working(w, "deferring")

CommitDeferred(w) ==
  /\ At(w, "deferring")
  /\ status' = [status EXCEPT ![Current(w)] = "pending"]
  /\ lease' = [lease EXCEPT ![Current(w)] = "none"]
  /\ ClearPath(w) /\ NextJob(w)
  /\ UNCHANGED <<envVars, sentTo, file, histVars, overruns, faults>>

\* _process_video_job without pressure: an existing video is sent ...
Takes(w) == At(w, "next") /\ ~deferring[w] /\ Current(w) \notin done[w]
HasVideo(w) == Current(w) \in paths[w] /\ file[Current(w)]

ReuseVideo(w) == Takes(w) /\ HasVideo(w) /\ Working(w, "built") /\ UNCHANGED file

\* ... or one is made: build_timelapse_video deletes what is in its place ...
StartBuild(w) ==
  /\ Takes(w) /\ ~HasVideo(w)
  /\ Unlink(Current(w)) /\ Working(w, "building")

\* ... and replaces it by the output of ffmpeg.
FinishBuild(w) ==
  /\ At(w, "building")
  /\ file' = [file EXCEPT ![Current(w)] = TRUE]
  /\ Working(w, "built")

\* The error of ffmpeg or the disk, or a video of more than
\* TELEGRAM_VIDEO_MAXIMUM_BYTES, which is deleted; then _fail_job.
BuildFails(w) ==
  /\ At(w, "building")
  /\ \/ Current(w) \notin paths[w] /\ UNCHANGED file
     \/ Unlink(Current(w))
  /\ Working(w, "failing")

CommitFailed(w) ==
  /\ At(w, "failing")
  /\ status' = [status EXCEPT ![Current(w)] = "failed"]
  /\ lease' = [lease EXCEPT ![Current(w)] = "none"]
  /\ ClearPath(w) /\ NextJob(w)
  /\ UNCHANGED <<envVars, sentTo, file, histVars, overruns, faults>>

\* The commit of UPLOADING, with the path of a new video.
CommitUploading(w) ==
  /\ At(w, "built")
  /\ status' = [status EXCEPT ![Current(w)] = "uploading"]
  /\ path' = [path EXCEPT ![Current(w)] = @ \/ Current(w) \notin paths[w]]
  /\ paths' = [paths EXCEPT ![w] = @ \cup {Current(w)}]
  /\ Goto(w, "load")
  /\ UNCHANGED <<envVars, lease, sentTo, file, batch, done, deferring, todo, histVars,
                 overruns, faults>>

\* Mutant: every delivery is made again.
LoadAllDeliveries(w) ==
  /\ At(w, "load")
  /\ todo' = [todo EXCEPT ![w] = Chats]
  /\ Goto(w, "sending")
  /\ UNCHANGED <<envVars, jobVars, file, batch, done, paths, deferring, histVars, overruns,
                 faults>>

\* The query of the deliveries, without those that are sent.
LoadDeliveries(w) ==
  /\ At(w, "load")
  /\ todo' = [todo EXCEPT ![w] = Chats \ sentTo[Current(w)]]
  /\ Goto(w, "sending")
  /\ UNCHANGED <<envVars, jobVars, file, batch, done, paths, deferring, histVars, overruns,
                 faults>>

\* send_video opens the file ...
SendVideo(w) ==
  /\ At(w, "sending") /\ todo[w] # {} /\ file[Current(w)]
  /\ Working(w, "inflight") /\ UNCHANGED file

\* ... the message appears in the chat ...
Arrives(w) ==
  /\ At(w, "inflight")
  /\ received' = [received EXCEPT ![Current(w)][First(todo[w])] = @ + 1]
  /\ Goto(w, "delivered")
  /\ UNCHANGED <<envVars, jobVars, file, batch, done, paths, deferring, todo, served,
                 overruns, faults>>

\* ... and the delivery is committed, with a new lease.
MarkSent(w) ==
  /\ At(w, "delivered")
  /\ sentTo' = [sentTo EXCEPT ![Current(w)] = @ \cup {First(todo[w])}]
  /\ todo' = [todo EXCEPT ![w] = @ \ {First(@)}]
  /\ lease' = [lease EXCEPT ![Current(w)] = "fresh"]
  /\ Goto(w, "sending")
  /\ UNCHANGED <<envVars, status, path, file, batch, done, paths, deferring, histVars,
                 overruns, faults>>

\* Mutant: a job is over although recipients have to wait.
GiveUpCompleted(w) ==
  /\ lease' = [lease EXCEPT ![Current(w)] = "none"]
  /\ status' = [status EXCEPT ![Current(w)] = "completed"]
  /\ served' = served \cup {Current(w)}

\* The commit after a failed request: the status in the session is UPLOADING
\* already, so that only the lease is written.
GiveUp(w) ==
  /\ lease' = [lease EXCEPT ![Current(w)] = "none"]
  /\ UNCHANGED <<status, served>>

\* A request fails, whether the message has appeared or not, or the video is
\* gone. The other recipients wait for the next pass.
SendFails(w) ==
  /\ \/ At(w, "inflight") /\ Fault
     \/ At(w, "delivered") /\ Fault
     \/ At(w, "sending") /\ todo[w] # {} /\ ~file[Current(w)] /\ UNCHANGED faults
  /\ GiveUp(w) /\ NextJob(w)
  /\ UNCHANGED <<envVars, path, sentTo, file, received, overruns>>

\* The commit of COMPLETED comes before the video is deleted ...
Complete(w) ==
  /\ At(w, "sending") /\ todo[w] = {}
  /\ status' = [status EXCEPT ![Current(w)] = "completed"]
  /\ lease' = [lease EXCEPT ![Current(w)] = "none"]
  /\ served' = served \cup {Current(w)}
  /\ Goto(w, "completed")
  /\ UNCHANGED <<envVars, path, sentTo, file, batch, done, paths, deferring, todo, received,
                 overruns, faults>>

\* Mutant: the file is left to reconciliation.
DeleteNothing(w) ==
  /\ At(w, "completed") \/ (At(w, "next") /\ Current(w) \in done[w])
  /\ UNCHANGED file /\ Working(w, "deleting")

\* ... which this pass does, or a later one: _delete_completed_video.
DeleteVideo(w) ==
  /\ At(w, "completed") \/ (At(w, "next") /\ Current(w) \in done[w])
  /\ Unlink(Current(w)) /\ Working(w, "deleting")

CommitDeleted(w) ==
  /\ At(w, "deleting")
  /\ ClearPath(w) /\ NextJob(w)
  /\ UNCHANGED <<envVars, status, lease, sentTo, file, histVars, overruns, faults>>

\* An exception or the end of the process, anywhere.
PassFails(w) ==
  /\ ~At(w, "idle")
  /\ Fault
  /\ batch' = [batch EXCEPT ![w] = {}] /\ done' = [done EXCEPT ![w] = {}]
  /\ paths' = [paths EXCEPT ![w] = {}] /\ todo' = [todo EXCEPT ![w] = {}]
  /\ deferring' = [deferring EXCEPT ![w] = FALSE]
  /\ Goto(w, "idle")
  /\ UNCHANGED <<envVars, jobVars, file, histVars, overruns>>

-----------------------------------------------------------------------------
PassStep(w) ==
  \/ Defer(w) \/ CommitDeferred(w) \/ ReuseVideo(w) \/ StartBuild(w) \/ FinishBuild(w)
  \/ BuildFails(w) \/ CommitFailed(w) \/ CommitUploading(w) \/ LoadDeliveries(w)
  \/ SendVideo(w) \/ Arrives(w) \/ MarkSent(w) \/ SendFails(w) \/ Complete(w)
  \/ DeleteVideo(w) \/ CommitDeleted(w)

Next ==
  \/ DayPasses \/ TokenChanges \/ PressureChanges
  \/ \E j \in Jobs : LeaseExpires(j) \/ Overrun(j) \/ SweepFile(j)
  \/ \E w \in Workers : StartPass(w) \/ PassStep(w) \/ PassFails(w)

Spec == Init /\ [][Next]_vars

\* Some worker starts a pass again and again, systemd restarts it, a pass goes
\* on, leases end, and reconciliation comes round.
Fairness ==
  /\ WF_vars(\E w \in Workers : StartPass(w))
  /\ \A w \in Workers : WF_vars(PassStep(w))
  /\ \A j \in Jobs : WF_vars(LeaseExpires(j)) /\ WF_vars(SweepFile(j))

FairSpec == Spec /\ Fairness

-----------------------------------------------------------------------------
(* Safety.                                                                 *)

\* docs/ARCHITECTURE.md: "Leased claims prevent concurrent workers from
\* processing the same job" - as long as no lease ends before its work.
OneHolder ==
  overruns = 0 =>
    \A v, w \in Workers : v # w =>
      (batch[v] \ done[v]) \cap (batch[w] \ done[w]) = {}

\* "Per-recipient Telegram delivery rows that prevent duplicate sends after
\* partial failure": a video arrives twice in a chat only if an interruption
\* has kept its first arrival from being committed, or a lease has ended early.
RepeatsNeedFaults ==
  \A j \in Jobs :
    /\ \A c \in Chats : received[j][c] <= 1 + faults + overruns
    /\ Cardinality({c \in Chats : received[j][c] > 1}) <= faults + overruns * Cardinality(Chats)

\* "Delivery retries reuse an existing generated MP4": while a job is uploading
\* its video is there, whichever pass, sweep or pressure cleanup comes between.
UploadingHasVideo ==
  overruns = 0 => \A j \in Jobs : status[j] = "uploading" => path[j] /\ file[j]

\* "Immediate MP4 deletion": a job that is over has no file once it has given
\* its path up, after interrupted deletions as well.
NothingLeftBehind ==
  overruns = 0 =>
    \A j \in Jobs : status[j] \in {"completed", "failed"} /\ ~path[j] => ~file[j]

\* A video is on the disk for as long as its job needs it and no longer, with
\* deletions before and after their commit, sweeps and pressure in between.
FilesFollowJobs == UploadingHasVideo /\ NothingLeftBehind

\* "Completion persisted before file cleanup so restart cleanup does not
\* resend": nothing takes a completed job up again, and nothing of it is sent.
CompletedIsFinal ==
  [][overruns' = 0 =>
       \A j \in Jobs : status[j] = "completed" =>
         status'[j] = "completed" /\ received'[j] = received[j]]_vars

Delivery == INSTANCE PartDelivery WITH
  PartCount <- [j \in Jobs |-> Cardinality(Chats)],
  acked <- [j \in Jobs |-> Cardinality(sentTo[j])],
  arrived <- [j \in Jobs |-> Cardinality({c \in Chats : received[j][c] > 0})],
  over <- served

\* Recipients are served one after the other, none is taken for served that
\* has not got the video, and a job is completed only when all of them have;
\* this holds with overlapping workers too.
DeliverySpec == Delivery!Spec

\* Every job ends when there is a token and no pressure for good.
VideosEnd ==
  <>[](sender /\ ~pressure) =>
    \A j \in Jobs : status[j] \in Open ~> status[j] \in {"completed", "failed"}

\* The video of a job that is over leaves the disk, token or not, unless a
\* worker whose lease has ended takes the job up again.
VideosLeave ==
  \A j \in Jobs :
    status[j] \in {"completed", "failed"} /\ file[j] ~> ~file[j] \/ status[j] \in Open

\* Jobs end and their videos leave, whatever was interrupted or deferred.
VideosEndAndLeave == VideosEnd /\ VideosLeave

=============================================================================
