# Verification of the time-lapse camera system

TLA+ specifications of the Android camera agent (`src/camera-agent`) and its
server (`src/server`), model-checked with TLC on small instances; every safety property
that holds, and the three refinements, are also proved with TLAPS, for every instance.

The system keeps two promises. *A picture the phone has taken is not lost
without anybody knowing*: the agent holds it until the server confirms it,
unless the limits of the phone force it to drop the picture, which it counts
and reports; the server holds it until retention deletes it, and no repair or
clean-up may destroy it before. *What the system has to tell or to play reaches
its addressee once*: exports, videos, alerts and voice notes go through services
whose answers may be lost, by workers that may stop between any two steps.
`CameraQueue` and `ImageStore` are the two halves of the first promise, the
other modules are about the second and about the arithmetic both rest on.

## 1. Inventory

Paths of the agent are relative to `src/camera-agent/src/camera_agent`, those
of the server to `src/server/src/timelapse`.

### Agent (one process on the phone, asyncio tasks and worker threads)

| part | state | operations | what must hold |
|---|---|---|---|
| queue (`queue.py`) | SQLite: `upload_queue` rows, `agent_state` counters; one JPEG per row | enqueue, claim_due, reschedule, mark_failed, confirm_uploaded, finalize_uploaded_files, recover_interrupted_uploads, enforce_limits, acknowledge_dropped_images | a row and its file go together; nothing is lost uncounted |
| capture loop (`main.py`, `capture.py`, `compressor.py`, `validation.py`) | next capture time | take, prepare, enqueue | one capture at a time, the schedule does not drift |
| upload loop (`uploader.py`) | the item in work | claim, send, classify the answer | delete only what is confirmed; back off, give up on rejection |
| cleanup loop (`cleanup.py`) | none | finalize, age limit, size limit | never touches an upload in progress |
| heartbeat loop (`heartbeat.py`) | the count read for the report | read, send, acknowledge | drops are reported once |
| command loop (`commands.py`) | none | poll, download, play, report | each command is played at most once |
| process (`main.py`, lock file) | process lock | recover, start loops, stop | one agent per phone |

The loops share the database, one write transaction at a time, and the files,
which no transaction protects: `claim_due` and `_drop_scheduled` race for a
row, `confirm_uploaded` and `finalize_uploaded_files` for a file, and a kill of
the process (Android does that) may fall between any two steps.

### Server (API, worker and bot processes over PostgreSQL and a directory)

| part | state | operations | what must hold |
|---|---|---|---|
| image upload (`services/image_upload.py`, `image_files.py`, `api/images.py`) | `images` rows staging/stored, files | stage, install, finalize | idempotent; confirmed means stored |
| retention (`services/retention.py`, `storage_pressure.py`) | row locks, tombstones | expire, emergency | protected images stay |
| reconciliation (`services/reconciliation.py`) | none between passes | mark missing, stale staging, quarantine orphans, stale files | repairs, never destroys |
| exports (`services/export_*.py`) | `export_jobs`, `export_parts`, ZIP files | create, build, send part, resume, cancel | each part is sent, none twice; cancelled means stopped |
| daily videos (`services/timelapse_video_*.py`) | `timelapse_video_jobs`, deliveries, lease | create, claim, generate, deliver, defer | one worker per job; every recipient once |
| camera commands (`services/camera_commands.py`, `voice_note_commands.py`, `api/commands.py`) | `camera_commands`, audio files | prepare, claim, load, report, expire | media lives as long as the command |
| motion (`services/motion_*.py`) | `motion_analyses`, `motion_events` | claim, detect, merge, alert | one event per window, alerts delivered |
| health (`services/health.py`, `camera_status.py`) | `alert_states` | evaluate, alert, recover | no alert is lost or repeated |
| heartbeats (`api/heartbeats.py`, `services/heartbeat_aggregation.py`) | `camera_heartbeats`, daily summaries | store, aggregate, delete | a summary counts every heartbeat once |
| authentication, credentials (`services/camera_authentication.py`, `cli/credentials.py`) | digests | verify, rotate, revoke | read-only for the rest |
| bot, Telegram client (`bot/`, `services/telegram_*.py`) | principals | authorize, dispatch, send | a send may have an unknown outcome |
| worker, database (`workers/application.py`, `database.py`) | none | nine loops, one session each | a failed pass rolls back and is tried again |

The parts interact through rows and files only. The hard behaviour is in the
gaps: a file operation does not roll back with its transaction, a row read in
one statement is written in a later one, and several loops of one process run
concurrently on the same rows.

`PROJECT.json` lists every component with its status, and under `hazards` the
places where this bites.

## 2. Plan

| step | module | composes / refines | main questions | state |
|---|---|---|---|---|
| 1 | `CaptureCustody` | abstract | what a keeper of captures promises | done |
| 2 | `CameraQueue` | implements `CaptureCustody` | crash, cleanup/upload race, drop counter | done, safety proved |
| 3 | `ImageStore` | upload, retention, reconciliation, export on one table | who may touch which row and file when | done, safety proved |
| 4 | `ExportJobs` | implements `PartDelivery` | resume, cancel race, part sent twice | done, safety proved |
| 5 | `VideoJobs` | implements `PartDelivery` | lease against batch, delivery per recipient, deferral under pressure | done, safety proved |
| 6 | `CameraCommands` | agent's command loop, API, expiry, preparation | at most one playback, life of the audio, late requests | done, safety proved |
| 7 | `HealthAlerts`, `MotionEvents` | both extend `AlertRecipients` | alerts across failing sends; images out of order | done, safety proved |
| 8 | `ExportParts`, `CaptureSchedule`, `HeartbeatSummaries` | | packing of parts, capture times, day boundaries | done, all proved |
| 9 | `StoreAndForward` | agent's upload protocol against the server's rows | backoff beyond the staging age | open |

Until step 9 the two halves of the upload are checked against every partner: the
server of `CameraQueue` may store or reject any request at any time, and the
camera of `ImageStore` may send, give up and repeat any request, so that
whatever the two do together is a behaviour of both.

Every component of steps 1 to 8 has a proof module of its own (section 6): type
correctness, the inductive invariant, the safety invariants and action properties that the
runs check, and the refinement where there is an abstract specification. What is left
to prove is what step 9 will ask.

## 3. Modules

### CaptureCustody

The promise without tables or loops: a capture is *held*, and leaves its holder
only by release to the archive that has it, or by being discarded, which raises
`unreported` until somebody reports it.

### CameraQueue

| specification | code |
|---|---|
| `row[c]` | the `state` column, `absent` before the insert, `deleted` after the delete |
| `due` | `next_attempt_at_utc <= now` |
| `files` | the JPEGs in the pending directory |
| `dropped` | `agent_state.dropped_image_count` |
| `captureStep`, `uploadStep`, `cleanStep`, `beatStep` | where each loop is between two transactions or file operations, with its local variables `captureItem`, `uploadItem`, `cleanBatch`/`cleanItem`, `beatCount` |
| `agent` | process down, in `run_agent`'s recovery, running |
| `sent`, `stored` | requests that may reach the server, captures it has stored |
| `cutoff` | now minus `queue_max_age_hours` |
| `stranded`, `discarded`, `acknowledged` | history variables |

Each transaction is one step, an unlink outside of one is a step, and the
unlink inside `_drop_scheduled` is separated from the commit while the write
lock (`WriteLockFree`) is held. A capture is the number of its instant, taken in
any order that the age limit allows, since the clock of a phone may be set back. All
captures are `scheduled`, the only source the agent enqueues. `AgentStops` is a
kill at any step: the transaction rolls back, file operations survive. A request
that the agent gave up may still be stored (`ServerStores`), and the server may
reject a capture it has stored (`UploadRejected`): credentials are rotated, rows tombstoned.
`metrics` and the query for the oldest row, two reads in one iteration of
`enforce_limits`, are one step, `PickOverflow`. The number of
retries, error texts and failure counters are left out.

Properties: `RowsTellTheTruth` (`NoSilentLoss`, `UploadedMeansStored` and
`DeletedRowLeavesNoFile`), `InFlightImageIsHeld`, `DropAccounting`,
`UploadingHasOwner`, the action property `LeavesOnce` (`ImagesLeaveSafely` and
`UploadedIsNotSentAgain`), the refinement `KeepsCustody`, and the liveness
property `RowsLeave` (`SettledRowsLeave` and `QueuedRowsLeave`).

### ImageStore

| specification | code |
|---|---|
| `row[i]` | committed `storage_state`; `tombstone` is missing with `deleted_at`; `deleting` is flushed and never committed |
| `file[i]` | none, the bytes of `sha256`, or others |
| `aside` | copies under `quarantine/` |
| `request[u]` | one run of `upload_image`: received, staged (first transaction over), locked, replacing, installed (inside the second), the answer |
| `retentionStep`, `retentionLocks`, `retentionBatch`, `tombs` | `run_retention_once`, one transaction: rows locked, candidates, uncommitted tombstones |
| `recStep`, `recBatch`, `recMarks`, `recFlushed`, `recKnown`, `camera` | `process_reconciliation_once`, one transaction: rows read, marks not flushed, flushed marks (these hold row locks), known paths, the camera row an audit event key-shares |
| `exportStep`, `exportImages` | one export: its snapshot transaction and the life of the job |
| `analysis[i]`, `old`, `stale` | outstanding analysis; age relative to the retention cutoff and to `stale_staging_age` |

The database is READ COMMITTED: plain queries see committed rows, `FOR UPDATE`
and `UPDATE` wait (`RowLocked`, `FlushMark`), `SKIP LOCKED` passes over. The
advisory lock of an upload is known to uploads only. SQLAlchemy flushes marked
rows with the next query, as an UPDATE by primary key that does not look at the
state it overwrites; that is `FlushMark`. Audit events reference the camera row
and so key-share it until the commit, for which `finalize_image_storage` waits:
together with the row locks that makes a cycle, and PostgreSQL fails one of the
two (`DeadlockFailsUpload`, `DeadlockFailsRec`). One flush inserts its audit events
before or after its updates, since no relationship of the ORM orders the two tables
(`InsertsFirst`), so that a single image is enough for the cycle; the audit of files that
differ from their rows takes the camera row without any mark (`Mismatched`). The audit events
of retention key-share the camera row as well, but retention waits for no row
(`SKIP LOCKED`), so that uploads wait a little longer and nothing else changes. Bodies of retries are equal, as
the camera sends them; the check of metadata in `assert_same_capture` therefore
reduces to state and `deleted_at`. The limit of 100 candidates within the 500
rows of one query, and a crash of the API as a whole (several `UploadFails` in a
row), need no action of their own.

Properties: `NothingDestroyed`, `HeldImagesAreSpared`, `DeletionIsFinal`
(`TombstoneHasNoFile` and `RowsMoveForward`), and the liveness property
`ArchiveSettles`: in the end, and for good, no row is in `staging` or `stored` and no file of a
row that was given up is in place (`AtRest`). `StoredHasFile`
states what the documentation says and does not hold (section 5).

### PartDelivery

What the user who asked for an export may rely on: parts arrive one after the
other, are acknowledged only when they have arrived, and a job is over only when
all of its parts are acknowledged. Repeated arrivals are not seen.

### ExportJobs

| specification | code |
|---|---|
| `status[j]`, `parts[j]`, `count[j]` | committed `export_jobs.status`, `export_parts.status` per part (`none` before the row), `completed_part_count` |
| `zip[j]` | the parts whose ZIP file exists |
| `sender` | whether a bot token is configured |
| `workerStep`, `batch`, `job`, `part` | where the pass is: the loop over jobs (`next`), inside `process_export_job` (`build`, `built`, the loop over `existing_parts`), before and after the request, inside `_delete_sent_part` |
| `loaded`, `write`, `held` | the session of the pass: its copies of the statuses, the status it has flushed and not committed, the rows it has locked |
| `cancelling` | cancellations between their check and their commit; they hold the row of the job |
| `received` | history: how often a part has arrived in the chat |

The session is the point of the module. The query of a pass locks its jobs, the
first commit gives all locks up, and `expire_on_commit=False` leaves the copies as
they were. SQLAlchemy writes a status only where it differs from the copy, so a
job cancelled in between is set back if it was loaded as pending, keeps
`cancelled` if it was loaded as processing, and is sent in both cases
(`BeginJob`). A cancellation looks at job and parts under the row lock of the
job; marking a part `uploading` does not touch that row, counting it does, and
therefore waits (`RowFree` in `MarkSent`). A job fills a constant number of parts
(`ExportParts` has the packing); `Unbuildable` jobs begin with an image that
exceeds a part or have one whose file is gone.
Any exception, a kill included, is `PassFails`: it rolls the session back and
leaves files and, if a request was under way, its outcome open. There is one
worker process with one export loop.

Properties: `PartsAccounted` (`CountMatchesParts`, `CompletedMeansDelivered` and
`UnsentPartHasFile`), `ResendsNeedFaults`, the action property `OutcomesStay`
(`CompletedIsFinal` and `CancelledStaysOut`), the refinement `DeliverySpec`, and the
liveness property `JobsEnd`. `SendsInOrder` is proved only. `CancelIsFinal` states
what the documentation says and does not hold (section 5).

### ExportParts

One call of `build_export_zip_parts`: `sizes` is the export, each image with its
size in the ZIP file; `first` and `image` delimit `current_images`, `parts` the
finished parts, `disk` the ZIP files under their numbers. A candidate is written to learn its
size, left on the disk if it fits, and overwritten by `_finalize_part` if not, which makes
the order of writing and unlinking part of the model. `PartsHoldTheImages`: no image is lost,
repeated or moved, and each file has what its part says. `PartsAreFull`: parts are as
full as the order of images allows, and too large only in the one case
of section 5.

### VideoJobs

| specification | code |
|---|---|
| `status[j]`, `path[j]`, `lease[j]`, `sentTo[j]` | committed `timelapse_video_jobs.status`, whether `storage_path` is set, `claimed_at` (none, younger, older than an hour), the `sent` deliveries |
| `file[j]` | the MP4 of the job |
| `day`, `sender`, `pressure` | the last day that has ended, the bot token, severe storage pressure |
| `step[w]`, `batch[w]`, `todo[w]` | where the pass of a worker is, its jobs, the deliveries it still has to make |
| `done[w]`, `paths[w]`, `deferring[w]` | what its session copied at the start: jobs loaded as completed, jobs with a path, whether there was pressure |
| `received`, `served` | history |

The first transaction creates the job of the day and claims a batch under one
lease. After it the pass works from copies and its commits write only what differs
from them. Pressure defers every claimed job (`Defer`), otherwise a video is reused
or built, sent to one recipient after the other with a commit and a new lease after
each, completed, and only then deleted. `Overrun` is a lease that ends while its worker
is at work, which a batch makes possible; the properties say what holds without one, and
`RepeatsNeedFaults` and `DeliverySpec` what holds even with it. `PassFails` is any exception and
any kill.

Properties: `OneHolder`, `RepeatsNeedFaults`, `FilesFollowJobs` (`UploadingHasVideo`
and `NothingLeftBehind`), the action property `CompletedIsFinal`, the refinement
`DeliverySpec` of `PartDelivery`, and the liveness property `VideosEndAndLeave`.

### AlertRecipients, HealthAlerts, MotionEvents

`AlertRecipients` is what both alerting loops do with a message: one request per
recipient, and the first failure ends the attempt (`left`, `reachable`). Both
loops run a pass in one transaction with the requests inside it: a rollback
takes the rows back, never the messages.

`HealthAlerts`: the camera (`enabled`, `seen`, `reported`), the committed rows (`health`,
`active`, `sent`) and the pass (`passing`, its `verdict`, the `alerts` and
`recoveries` it has still to send, the `message` on the way, what it has `delivered`).
`Evaluate` is `evaluate_camera_health`, `AlertsDue` is `should_send_alert`: an
alert is due when its condition appears, and for as long as it was never sent.
`AlertsMatchHealth` relates health and alerts over every commit and rollback;
`RecordedMeansTold` says what a recovery ends: an occurrence that everyone was told of
(`Announced`, which a resolution resets), unless the alert of this occurrence was skipped or failed
and is recorded only because of an earlier one (`unannounced`; section 5).
`HealthFollows` and `FirstAlertIsRetried` say that the database catches up with
the camera and an alert with its recipients.

`MotionEvents`: images with their analyses, events with their members, window and
alert; `db` is committed, `tx` is what the pass sees. Images are stored in any
order of capture, and retention may delete one between its analysis and its alert.
`EventsPartition`: each detection is in one event, and an event begins only
after the cooldown of all those before it. `MotionCatchesUp`: analyses end and
pending alerts are delivered.

`MCAlerts` joins for the two what is the same question: `RecordsAreTrue` (a row says
`sent` only if everybody was told), `RepeatsNeedFaults` (nobody is told
twice without a failure), `HealthCatchesUp`.

### CameraCommands

| specification | code |
|---|---|
| `status[c]`, `due`, `named`, `started`, `lease` | `camera_commands.status`, `expires_at` passed, `media_storage_path` set, `started_at` set, `claimed_at` of a preparation |
| `audio` | the MP3 files |
| `preparing` | the worker, between the commit of its claim, the MP3 and the last commit |
| `agent`, `current` | the request of `poll_command_once` that waits for its answer, or the playback |
| `late` | requests the agent has given up and that may still reach the server |
| `abandoned` | history: the commands whose MP3 was left by a preparation that stopped; `AudioGoesWithCommand` excuses these and the preparation under way, until `SweepAudio` comes round |
| `plays` | history: how often the phone has played the voice note |

A request is one transaction, as in the code. The agent gives a request up, crashes
(`AgentRestarts`: it keeps nothing), and each given-up request may be handled at any later time,
which covers lost answers as well. Every request expires what is overdue, before it
looks at the state. `OfferAudio` and `PreparationFails` write from a copy of the
row that is as old as the claim. Audio that arrives well may still fail its checks or its
temporary file (`MediaAnswered`), without any fault of the network.

Properties: `PlayedOnce`, `ReportsAreTrue`, `AudioFollowsCommand` (`OfferedHasAudio`
and `AudioGoesWithCommand`), the action property `OutcomeIsFinalInTime`, and the liveness
property `CommandsEnd`, which assumes nothing of the camera.

### CaptureSchedule, HeartbeatSummaries

`CaptureSchedule` is the clock of `capture_loop`: a capture may take any time and
begin any time after it is due. `CapturesKeepTime`: no two captures begin
in one interval, and the next one is the first instant of the grid still to come.

`HeartbeatSummaries` is `aggregate_due_heartbeats_once` for one camera: a day is summarized and
deleted in two statements of one transaction while heartbeats arrive, each with its time taken
before its transaction commits (`arriving`), days follow each
other in the transaction, and any of it may roll back. `EveryBeatCounts`: each heartbeat
is kept or counted once, and the summary measures the silences between the heartbeats of
its day, recomputed here instant by instant. `Upsert` is the insertion or overwriting of
a summary, by the transaction in its own writes and by its commit in the table. Two conversions
make days of instants: `Day` is UTC, `SessionDate` is `func.date` in the time zone of the
database session. `SessionIsUTC` assumes that they agree (section 5 says what happens otherwise),
`LatencyAssumption` that a heartbeat is committed within the time for which details are kept.

## 4. Runs

| run | instance | shows |
|---|---|---|
| CameraQueueSafety | 2 captures of sizes 1 and 2, limit 2 bytes, 2 faults | all safety properties and the refinement |
| CameraQueueLiveness | the same; faults only while there is one image | every row leaves the queue, none starves |
| ImageStoreSafety | one image sent twice, exported, 1 fault; or two images sent once, query limit 1 | all safety properties, lock cycle between images |
| ImageStoreLiveness | one image sent twice, 1 fault; or two images sent once, query limit 1, no emergency; no export | rows and files settle, deadlocks and full queries included |
| ExportJobsAll | 3 jobs of 2 parts, the third unbuildable, passes of 2, 1 fault | all safety properties, the refinement, and that jobs end |
| VideoJobsAll | 2 recipients, 1 fault, 1 overrun; two jobs in one worker's passes, or one job and two workers | all safety properties, the refinement, and that jobs end and videos go |
| AlertLoops | 2 recipients, 1 fault; 1 reportable condition; 4 images, cooldown 1, passes of 2 | both alerting loops |
| CameraCommandsAll | 2 voice notes, 3 faults | all properties of the commands |
| Calculations | exports of up to 5 images of sizes 1 to 4, parts of 3; interval 3, clock to 12; 14 instants in days of 4, 5 heartbeats of which each takes up to a day to commit | the three calculations |
| ImageStoreStoredHasFile | 1 image, 2 requests, no faults, no export | violation, section 5 |
| ExportJobsCancel | 2 jobs of 1 part, no faults | violation, section 5 |
| ExportPartsLimit | exports of up to 2 images | violation, section 5 |

Why the bounds suffice. In `CameraQueue` two captures are needed for the
order of claims and the size limit, whose sum exceeds the limit by either of
them; the loops work on one item each, so that a third capture adds no
interaction. Two faults let a crash follow a failing unlink, or a second crash
fall into the recovery from the first. Under fairness faults are confined to the
states with one image (`OneOrTwo`), since starvation needs two images and no fault.
In `ImageStore` a request is one run of the handler: two of them
are a late request and its retry. One image has all of its races in the rows and
files of that image; two are needed for a transaction that holds one row and
waits for the other (`OneOrTwo` again has both in one run, here as a CONSTRAINT,
which also leaves out mere reorderings and exports of nothing). One fault interrupts any one
transaction, or the disk fails. The run under fairness has the same two instances,
without exports, and with emergencies only where there is one image (`LiveOneOrTwo`, which
restricts steps nobody has to take: sending, failing, beginning an emergency):
a flushed mark of one image against an upload of the other, an audit event against an upload
of the same image, and an older image that is analysed while the query of retention, whose limit is one
row, does not see the younger. Unlinks that fail for ever are beyond it, as faults are
finitely many. In
`ExportJobs` two jobs in a pass are needed for a cancellation of the later one,
a third one for a job that the limit of a pass leaves out and that fails every
pass it is in; two parts for the order of parts and for a resumption in the
middle of a job. One fault interrupts any step of a pass, and `BuildFails` of the
third job rolls back another one. The proofs remove all of these bounds for safety.

In `VideoJobs` two recipients are needed for a delivery that is interrupted in the
middle, two jobs for a batch under one lease, two workers for a competing
claim; the second job adds nothing to two workers that do not share one, so `OneOrTwo`
excludes that. In `MCAlerts` one loop is chosen at the start, since they share no state
but the bounds; a change of the camera during a pass shows in the next one as if it
had happened between the two (`CameraWaits`), recipients are read once per message
(`RecipientsWait`), and only image 2, which can be analysed, be a previous image and be
the photo of an event, is late or deleted (`OneIsUnsteady`). Four images are an event with
members, an image out of order and one beyond the cooldown. In `CameraCommands` two
voice notes let one overtake the other; three faults are a lost request, its late arrival's
consequence and a crash. Of the calculations, five images fill up to five parts with every
alignment of small, exact and oversized ones; twelve instants are four intervals;
fourteen instants are three days and their boundaries.

Fairness. `CameraQueue`: the loops run while the process lives, a supervisor
restarts it (the boot script and the service of the operator guide), each
request ends with an answer or its timeout, time passes; `LiveSpec` adds that
the server, asked again and again, stores and confirms in the end. Without it
nothing is promised but retries. `ImageStore`: the worker loops run again after
each interval (`worker_loop` catches every exception), systemd restarts the
processes, received requests go on, time passes, exports and analyses end; uploads, exports and time take each of
their steps once, so that one conjunct stands for all of them. The
strong fairness of `CommitStored` stands for PostgreSQL serving the waiters for
a row in turn: without it TLC finds an upload that waits for the camera row for ever, since
one pass of reconciliation after the other takes it.
`ExportJobs`: the export loop runs again after each interval, a cancellation is
one request of the API, and the strong fairness of the steps that wait for the row
of a job is PostgreSQL serving the waiters in turn. Faults being finitely many stands for
Telegram accepting a document in the end; `JobsEnd` speaks of a job with no
unbuildable one before it, since that one stops the jobs behind it (section 5).
`VideoJobs`: some worker starts a pass again and again, every pass goes on, a lease nobody
holds ends, reconciliation comes round. The alert loops: passes start and go on. `CameraCommands`:
time passes, the expiry sweep, the sweep of audio and the preparation go on; the phone may be off.

Deadlock is checked in every run whose cfg does not turn it off.
The runs of `ExportJobs` turn it off: when all jobs have ended the system rests. So do
`Calculations` and `ExportPartsLimit`: an export is built, and the clocks have a bound.

## 5. Where the code departs from its documentation

Checked by a run:

1. `ImageStoreStoredHasFile`. Reconciliation reads `known_paths`, then lists
   the image directory. An upload that commits in between, or that has installed
   its file and not committed yet, has a file under an unknown path: it is moved to
   `quarantine/orphans`, the row is committed as `stored`, and the camera is told
   so. `docs/ARCHITECTURE.md` says of `stored` that "metadata and filesystem copy
   are valid". `NothingDestroyed` shows that the copy still exists, in quarantine.
2. `ExportJobsCancel`. A cancellation is accepted until the first part is marked
   `uploading`, and the administrator is told "Export cancelled". A pass that has
   the job in hand goes on with its copies: it sends the parts and sets the
   job to `completed`. `CancelledStaysOut` shows what is left: a job cancelled
   outside of a pass stays cancelled, and no pass takes it up.
3. `ExportPartsLimit`. The size of a candidate is checked for a single image only when it
   is the first of its export. An image that overflows a part begins the next one
   unchecked, and is finalized as a part above the limit. `docs/ARCHITECTURE.md`:
   "oversized single-image parts fail with a stable error". `PartsAreFull` shows that
   this is the only way.

Seen in the models, with no run of their own:

- An upload of an image whose staging row is older than an hour may find its
  `stored` overwritten by `missing` (`FlushMark` waits for the upload and then writes by
  primary key). If the confirmation got lost, the next attempt is answered 409, and
  the agent gives the image up; `docs/ARCHITECTURE.md` promises `already_stored`.
- "Already-sent parts are not resent after restart": a part is marked sent after
  it was sent, and a crash in between sends it again. `ResendsNeedFaults` bounds that
  by one repetition per interruption, and `SendsInOrder` shows that what is *marked* sent is never
  sent again, as the operator guide says.
- An export whose first image is too large raises out of the pass, keeps its status and is tried
  again by every pass, with the jobs behind it waiting until it is cancelled
  (`Unbuildable`, and the exemption in `JobsEnd`).
- A preparation that ends after its command has expired writes `pending` over `expired`, or
  `failed` (`OfferAudio`, the exemption in `OutcomeIsFinalInTime`); the command is overdue, so
  that it is expired again rather than played.
- A condition that was announced once and comes back while there is no recipient, or whose alert
  then fails, is not announced later, because `last_sent_at` is never cleared and is still set
  from before (`AlertsDue`): `FirstAlertIsRetried` speaks of conditions that were never
  announced. Its recovery is sent all the same (`RecoveriesDue`), although nobody was told of this
  occurrence; the outcome `resolved_without_prior_delivery` (`services/health.py:281-290`)
  shows that this is not meant. `RecordedMeansTold` without its first case is violated.
- The dates of `aggregate_due_heartbeats_once` come from `func.date` in the time zone of the
  database session, the limits of a day are UTC. `TZ=UTC` of the services
  does not reach the session. With `SessionOffset` 1 or -1 instead of the assumption
  `SessionIsUTC`, TLC finds `EveryBeatCounts` violated; with a session behind UTC, a finished
  summary is overwritten by one of no heartbeats.
- A late image joins an event whose window ends long after it was taken: `InWindow` compares
  with the end of the window only, and `EventsPartition` makes no claim about that distance.
- A silence across midnight is in no summary (`OfflineSeconds` looks at the heartbeats of a day).

## 6. Proofs

`CameraQueueProofs` proves for every set of captures, every size and limit and
every number of faults, from the assumptions of `CameraQueue` on its constants
and no other:

- `Invariance`: `IInv` is an invariant. It strengthens the safety properties
  by what each loop knows at each step: that an item in work has a row in the
  state its step requires (`UploadInv`), that only the holder of the write
  lock is between an unlink and a commit (`CleanInv`), that no loop runs while the
  process is down (`LoopsInv`), that a capture about to be enqueued is new (`FreshInv`), what
  each state of a row says of its file and of the server (`RowsInv`), that the counter is the number of
  drops not acknowledged (`CountInv`) and whose every uploading row is (`OwnerInv`).
  None of the properties is inductive alone: that a row in `uploading` keeps its
  file, for example, depends on where the cleanup thread is.
- from it `TypeCorrect`, `NothingLostSilently`, `UploadsHoldTheirImage`,
  `NoFileLeftBehind`, `DropsReportedOnce`, `NoForgottenUpload`,
  `UploadedIsStored`, together `RowsMatch`, and the action properties `DeletionIsSafe` and
  `NeverSentAgain`, together `ImagesLeaveOnce`;
- `Refinement`: `Spec => KeepsCustody`, step by step: each action of the queue
  is an action of `CaptureCustody` or changes nothing it sees.

`ImageStoreProofs` does the same for `ImageStore`. Its `IInv` says that a row has
one holder at a time (`LockInv`), that an upload inside its second transaction keeps a row that is staging
or stored (`UploadInv`), that retention holds stored rows, spares what is in
use up to the unlink, and has no file left of what it deleted
(`RetentionInv`), that reconciliation marks rows that exist
(`RecInv`), and that an installed image has a copy or a known reason not to
(`KeptInv`). The locks carry the proof: `HeldImagesAreSpared` is about a test
made several steps before the unlink, and `TombstoneHasNoFile` about an upload
staged before the deletion. From it `TypeCorrect`, `NoImageDestroyed`,
`HeldImagesSpared`, and `DeletedStaysDeleted` and `ForwardOnly`, together `DeletionStands`.

`ExportJobsProofs` does so for `ExportJobs`, with any jobs, numbers of parts, batch
sizes and faults. Its `IInv` says that the delivered parts of a job are its first `count[j]`
ones, all deleted but perhaps the last, and that only the next one can be
uploading (`PartsInv`); that an arrival that is not recorded has been paid for
with a fault (`ArrivalInv`); what the pass knows of its job at each step
(`PassInv`); and that no pass and no cancellation has a completed job before it
(`LockInv`), which needs the row lock that `MarkSent` waits for. From it
`TypeCorrect`, `CountsParts`, `CompletedIsDelivered`, `UnsentIsOnDisk`, together
`PartsMatch`, the action properties `OrderedSends`, `CompletionIsFinal`,
`QuietCancelHolds`, the latter two together `OutcomesStand`, and
`Implements`: `Spec => DeliverySpec`. `InterruptionsArePaid` is `ResendsNeedFaults`, a bound on a
set that grows over all jobs and parts. Two sets are counted together: the repetitions there have
been (`Repeats`) and the parts that have arrived without a record and will be sent again
(`Owed`); no step lets their sum grow without a fault, since a part that is repeated leaves
the one as it joins the other.

`VideoJobsProofs` does so for any days, recipients, workers, faults and leases that end early. Two
halves of its `IInv` hold whatever the leases do: what a worker knows of its job at each
step, of which the essence is that its list of deliveries may be too long but never too short
(`Knows`), and that recipients are served in order (`OrderInv`); from these follow
`Implements` (`Spec => DeliverySpec`) and what `RepeatsNeedFaults` says of a
single recipient. The latter is a count (`ChanceInv`): what has arrived, plus the workers
that may still send, plus one if another may take the job up, is at most 1 plus
faults plus overruns; a lease that is fresh and held leaves no such vacancy. The other half
(`CalmInv`) holds as long as no lease has ended early: who holds a job has a fresh lease and is
alone (`LeaseInv`), what each status says of path and file with the copies of paths that
passes keep (`FileInv`), and which recipients an interruption has left unrecorded
(`OwedInv`). From it `LeasesKeepApart`, `FilesAreKept`, `InterruptionsArePaid` and the action property
`CompletionIsFinal`.

`AlertsProofs` does so for both alerting loops. The lemmas are about `HealthNext` and `MotionNext` as
they are, without the restrictions by which `MCAlerts` keeps TLC's instance small
(`CameraWaits`, `RecipientsWait`, `OneIsUnsteady`): `HealthAlone` and `MotionAlone` state the
results for `HealthSpec` and `MotionSpec`, and the theorems about `Spec` follow from the same
lemmas. In the health loop the alerts to come, the one on the way and those delivered
are disjoint sets of what is due (`HealthPassInv`), whoever counts as reached has been told
(`ToldInv`), everyone has been told of an active condition that counts as announced since it was
last resolved (`AnnouncedInv`), and a recipient who counts as told has been told at most once more often than there were
faults (`AlertCountInv`), where a rollback is the fault that makes the told untold. In the motion loop the same
invariant on events (`EventsInv`) holds of the committed rows and of those the pass sees: an
event ends more than a cooldown before the next one begins. An image that comes out of
order joins the candidate that ended last, and no event begins after that one, since it
would be a candidate that ended later; so nothing is overlapped when the window is moved on.

`CameraCommandsProofs` does so for any number of voice notes and faults. Why no note is
played twice is a chain through three processes: a command the agent has ever had in
hand is `Spent`, which means that no poll can claim it again (`SpentInv`); it stays so although a
preparation that outlived its lease may set it back to `pending`, because a
preparation still under way is of a row that is `preparing` or overdue (`PrepareInv`), and an overdue
row is expired before anything is claimed. `PlayInv` adds that the start is on record before the
playback, `ReportInv` that completion is reported of what was played, `NamedInv` and `AudioInv`
where the audio is and who answers for audio that no row names. The handlers are proved once, as lemmas about
the transaction, and cited for the request of the agent and for the late one. From it `TypeCorrect`,
`NeverPlayedTwice`, `TrueReports`, `AudioIsKept` and the action property `OutcomesHold`.

`CalculationsProofs` proves the three calculations for all inputs, without the bounds of their
instances. `NoDrift`: the next capture is on the grid and after the interval in which the last
one began; the lemmas are about division with remainder. `NoImageIsLost` and `PartsAreFilled`, from
`PackingInv`: besides what has been packed, it says where `current_images` begins and that they
fit, or are the one image that overflowed its predecessors' part. `NoBeatIsLost`, from
`BeatsInv`: the days of the transaction are over and have no summary, what is written is
the summary of all that has arrived on those days, what is deleted is what the days still have.
That days which are summarized get no more heartbeats carries the argument; it comes from `Cutoff` being the
beginning of a day that is `RetentionDays` before today, and from heartbeats committing within that time (`ArrivesInTime`). The sums are `MapThenSumSet` of the community modules, a recursion over
finite sets. What a sum is, is proved by a smallest counterexample instead of induction: a smallest set
without a sum, or with a wrong one, would have a smaller one (`SumsExist`, `SumsAreNatural`,
`SumsCount`). `OfflineSecondsMeasure` then says that the seconds of `_offline_seconds` are the instants of
silence, the silences before different heartbeats being disjoint.

`SetLemmas` has what several of these need: a finite set that gains or loses an element, and
the least and the greatest of a set of numbers.

Assumptions on constants are those of the modules: captures and images have sizes, bounds are
natural numbers, jobs, images and chats are numbers (their order is that of the queries
that select them), finitely many where a property counts them, an interval, a day and a batch
are not empty, and there is someone to tell; in `HeartbeatSummaries` (`SummaryAssumption`),
that the threshold of silence, the retention and the clock's bound are natural numbers, that
sessions use UTC (`SessionIsUTC`) and that heartbeats commit in time (`LatencyAssumption`).

Left to TLC: liveness (`RowsLeave`, `ArchiveSettles`, `JobsEnd`, `VideosEndAndLeave`,
`HealthCatchesUp`, `MotionCatchesUp`, `CommandsEnd`), since it needs fairness and ENABLED, which the
provers do not have; and the runs that expect a violation.

## 7. Not modelled

The contents of images, the tools that take and compress
them, configuration and parsing; authentication (an answer of the server); the
dispatch and wording of the bot; HTTP; schema migrations and deployment scripts. In `ImageStore`:
the deletion of stale files outside of `images/`, the content of audit events,
videos as a second holder of
images (their snapshot uses the same lock and is protected as an export without expiry is), and
captures of a source other than `scheduled`. In `VideoJobs`: branches of the worker that no
state of the database reaches (`camera_missing`, `snapshot_image_missing`, `no_recipient`: foreign keys and
the snapshot rule them out) and the switch `daily_timelapse_enabled`, which is a day without a job.
In `HeartbeatSummaries`: minima, maxima and averages. In `CameraCommands`: the bytes and
checksum of the audio.

`StoreAndForward` (section 2): the halves are checked apart, and what they say of
each other's partner is weaker than what it does, which is sound for safety and leaves
open only what would need both clocks, the backoff of the agent and the age of a staging row.

Two hazards
of the agent are visible in the model and promised by nobody: a JPEG whose
enqueue failed is never swept, and a capture task that died is never restarted.
