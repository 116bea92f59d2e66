---------------------------- MODULE CameraCommands ----------------------------
(***************************************************************************)
(* Voice notes for one camera: the command rows of the server, the worker  *)
(* that prepares the audio and ends what is overdue, the three requests of *)
(* the command API, and the agent that polls, downloads, plays and reports.*)
(*                                                                         *)
(* A request is answered in one step with its transaction. A request that  *)
(* the agent has given up may still reach the server, at any later time;   *)
(* a lost answer is such a request that the server has handled at once.    *)
(***************************************************************************)
EXTENDS Integers, FiniteSets

CONSTANTS
  Commands,  \* the voice notes, in the order of created_at
  MaxFaults  \* bound: time-outs, crashes and interrupted transactions

ASSUME CommandsAssumption == Commands \subseteq Nat \ {0} /\ IsFiniteSet(Commands)
ASSUME FaultsAssumption == MaxFaults \in Nat

VARIABLES
  status,     \* camera_commands.status
  due,        \* the commands whose expires_at has passed
  named,      \* those with a media_storage_path
  audio,      \* those whose MP3 file exists
  lease,      \* claimed_at of a preparation: "none", "held", "over" after 5 minutes
  preparing,  \* the worker: "idle", or <<"downloading" or "normalized", command>>
  abandoned,  \* history: those whose file was left by a preparation that stopped
  started,    \* those with a started_at
  plays,      \* history: how often the phone has played the voice note
  agent,      \* "idle", "playing" or the request that waits for its answer:
              \* "next", "media", "started", "completed", "failed"
  current,    \* the command the agent is working on, 0 if none
  late,       \* <<request, command>> that the agent has given up
  faults      \* faults so far

rowVars    == <<status, due, named, lease, started>>
workerVars == <<preparing, abandoned>>
agentVars  == <<plays, agent, current, late>>
vars       == <<rowVars, audio, workerVars, agentVars, faults>>

Active == {"preparing", "pending", "claimed", "started"}
Ended == {"completed", "failed", "expired"}
Results == {"started", "completed", "failed"}
Requests == {"next", "media"} \cup Results
Idle == <<"idle", 0>>

\* Every variable has its type, and the agent has a command while it works on one.
TypeOK ==
  /\ status \in [Commands -> {"absent"} \cup Active \cup Ended]
  /\ due \subseteq Commands /\ named \subseteq Commands /\ audio \subseteq Commands
  /\ lease \in [Commands -> {"none", "held", "over"}]
  /\ preparing \in {Idle} \cup {"downloading", "normalized"} \X Commands
  /\ abandoned \subseteq Commands /\ started \subseteq Commands
  /\ plays \in [Commands -> Nat]
  /\ agent \in {"idle", "playing"} \cup Requests /\ current \in Commands \cup {0}
  /\ (current = 0 <=> agent \in {"idle", "next"})
  /\ late \subseteq Requests \X (Commands \cup {0})
  /\ faults \in 0..MaxFaults

Init ==
  /\ status = [c \in Commands |-> "absent"] /\ due = {} /\ named = {} /\ audio = {}
  /\ lease = [c \in Commands |-> "none"] /\ preparing = Idle /\ abandoned = {}
  /\ started = {}
  /\ plays = [c \in Commands |-> 0] /\ agent = "idle" /\ current = 0 /\ late = {}
  /\ faults = 0

Fault == faults < MaxFaults /\ faults' = faults + 1

Oldest(S) == {c \in S : \A d \in S : c <= d}

-----------------------------------------------------------------------------
(* The bot and the clock.                                                  *)

\* queue_voice_note_command
QueueVoiceNote(c) ==
  /\ status[c] = "absent" /\ \A d \in Commands : d < c => status[d] # "absent"
  /\ status' = [status EXCEPT ![c] = "preparing"]
  /\ UNCHANGED <<due, named, lease, started, audio, workerVars, agentVars, faults>>

TimeIsUp(c) ==
  /\ status[c] # "absent" /\ c \notin due /\ due' = due \cup {c}
  /\ UNCHANGED <<status, named, lease, started, audio, workerVars, agentVars, faults>>

LeaseRunsOut(c) ==
  /\ lease[c] = "held" /\ lease' = [lease EXCEPT ![c] = "over"]
  /\ UNCHANGED <<status, due, named, started, audio, workerVars, agentVars, faults>>

-----------------------------------------------------------------------------
(* prepare_voice_note_commands_once                                        *)

Preparable(c) == status[c] = "preparing" /\ c \notin due /\ lease[c] # "held"

ClaimPreparation(c) ==
  /\ preparing = Idle /\ c \in Oldest({d \in Commands : Preparable(d)})
  /\ preparing' = <<"downloading", c>> /\ lease' = [lease EXCEPT ![c] = "held"]
  /\ UNCHANGED <<status, due, named, started, audio, abandoned, agentVars, faults>>

\* The voice note is downloaded and ffmpeg writes the MP3 file.
Normalize(c) ==
  /\ preparing = <<"downloading", c>> /\ preparing' = <<"normalized", c>>
  /\ audio' = audio \cup {c}
  /\ UNCHANGED <<rowVars, abandoned, agentVars, faults>>

\* The row is locked and written. The session has kept its copy of the row over
\* the commit of the claim: that the command is still being prepared is looked
\* up in the copy, so that an expiry in between is overwritten.
OfferAudio(c) ==
  /\ preparing = <<"normalized", c>> /\ preparing' = Idle
  /\ status' = [status EXCEPT ![c] = "pending"] /\ named' = named \cup {c}
  /\ lease' = [lease EXCEPT ![c] = "none"] /\ abandoned' = abandoned \ {c}
  /\ UNCHANGED <<due, started, audio, agentVars, faults>>

\* Any exception on the way: the file goes, the row fails, from the same copy.
PreparationFails(c) ==
  /\ preparing \in {<<"downloading", c>>, <<"normalized", c>>} /\ preparing' = Idle
  /\ status' = [status EXCEPT ![c] = "failed"] /\ lease' = [lease EXCEPT ![c] = "none"]
  /\ audio' = audio \ {c} /\ abandoned' = abandoned \ {c}
  /\ UNCHANGED <<due, named, started, agentVars, faults>>

\* The worker stops. The lease stays, and so does a file that has been written.
PreparationStops ==
  /\ preparing # Idle /\ preparing' = Idle /\ Fault
  /\ abandoned' = IF preparing[1] = "normalized" THEN abandoned \cup {preparing[2]} ELSE abandoned
  /\ UNCHANGED <<rowVars, audio, agentVars>>

-----------------------------------------------------------------------------
(* Expiry, in the sweep of the worker and in every request.                *)

\* Mutant: a command that is still being prepared is left alone.
OverdueOffers == {c \in Commands : status[c] \in Active \ {"preparing"} /\ c \in due}

Overdue == {c \in Commands : status[c] \in Active /\ c \in due}

\* Mutant: the row forgets its file, which stays.
ExpireRowOnly(S) ==
  /\ status' = [c \in Commands |-> IF c \in S THEN "expired" ELSE status[c]]
  /\ named' = named \ S /\ UNCHANGED audio

\* _expire_command for each of S: a file goes if the row names it.
Expire(S) ==
  /\ status' = [c \in Commands |-> IF c \in S THEN "expired" ELSE status[c]]
  /\ named' = named \ S /\ audio' = audio \ (S \cap named)

\* expire_camera_commands_once
ExpirySweep ==
  /\ Overdue # {} /\ Expire(Overdue)
  /\ UNCHANGED <<due, lease, started, workerVars, agentVars, faults>>

\* The worker stops between the unlink and the commit.
ExpiryInterrupted(c) ==
  /\ c \in Overdue \cap named /\ audio' = audio \ {c} /\ Fault
  /\ UNCHANGED <<rowVars, workerVars, agentVars>>

\* Reconciliation removes a file of an hour that no active row names.
SweepAudio(c) ==
  /\ c \in audio /\ ~(c \in named /\ status[c] \in Active) /\ preparing[2] # c
  /\ audio' = audio \ {c} /\ abandoned' = abandoned \ {c}
  /\ UNCHANGED <<rowVars, preparing, agentVars, faults>>

-----------------------------------------------------------------------------
(* The command API: what a request does to the rows, and whether it ends   *)
(* well.                                                                   *)

\* claim_next_camera_command expires what is overdue, then claims the oldest
\* pending command c, or none (0).
\* Mutant: what has not ended is offered again.
ClaimableAgain == {c \in Commands : status[c] \in Active /\ c \notin due /\ c \in named}

Claimable == {c \in Commands : status[c] = "pending" /\ c \notin due /\ c \in named}

Claims(c) ==
  /\ IF Claimable = {} THEN c = 0 ELSE c \in Oldest(Claimable)
  /\ status' = [d \in Commands |-> IF d = c THEN "claimed"
                                   ELSE IF d \in Overdue THEN "expired" ELSE status[d]]
  /\ named' = named \ Overdue /\ audio' = audio \ (Overdue \cap named)
  /\ UNCHANGED started

\* load_camera_command_media
LoadsMedia(c, good) ==
  /\ good = (c \notin due /\ status[c] \in {"claimed", "started"} /\ c \in named \cap audio)
  /\ IF c \in due THEN Expire({c}) ELSE UNCHANGED <<status, named, audio>>
  /\ UNCHANGED started

\* Mutant: the state of the row is not looked at.
AcceptableAlways(c) == c \notin due

Acceptable(c) == c \notin due /\ status[c] \in {"claimed", "started"}

\* record_camera_command_result. Whether the time is up is looked at first, also
\* when the command has ended; the start extends expires_at into the future.
Records(result, c, good) ==
  /\ good = Acceptable(c)
  /\ IF c \in due THEN Expire({c}) /\ UNCHANGED started
     ELSE IF ~good THEN UNCHANGED <<status, named, audio, started>>
     ELSE /\ status' = [status EXCEPT ![c] = result]
          /\ IF result = "started"
             THEN started' = started \cup {c} /\ UNCHANGED <<named, audio>>
             ELSE named' = named \ {c} /\ audio' = audio \ ({c} \cap named) /\ UNCHANGED started

\* A request that was given up reaches the server.
LateRequest ==
  /\ \E r \in late :
       /\ late' = late \ {r}
       /\ \/ r[1] = "next" /\ \E c \in Commands \cup {0} : Claims(c)
          \/ r[1] = "media" /\ \E good \in BOOLEAN : LoadsMedia(r[2], good)
          \/ r[1] \in Results /\ \E good \in BOOLEAN : Records(r[1], r[2], good)
  /\ UNCHANGED <<due, lease, workerVars, plays, agent, current, faults>>

-----------------------------------------------------------------------------
(* The agent: poll_command_once.                                           *)

AgentGoes(step, c) == agent' = step /\ current' = c

Asks == UNCHANGED <<due, lease, workerVars, plays, late, faults>>

\* The error handler reports the failure, and what the report meets is ignored.
Fails == AgentGoes("failed", current)
Finishes == AgentGoes("idle", 0)

Poll ==
  /\ agent = "idle" /\ AgentGoes("next", 0)
  /\ UNCHANGED <<rowVars, audio, workerVars, plays, late, faults>>

\* A command of no duration is refused before the error handler is reached: the
\* server hears nothing of it.
NextAnswered ==
  /\ agent = "next"
  /\ \E c \in Commands \cup {0} :
       Claims(c) /\ (Finishes \/ (c # 0 /\ AgentGoes("media", c)))
  /\ Asks

\* The audio may still have the wrong size or checksum, or not be written.
MediaAnswered ==
  /\ agent = "media"
  /\ \E good \in BOOLEAN :
       LoadsMedia(current, good) /\ ((good /\ AgentGoes("started", current)) \/ Fails)
  /\ Asks

\* Mutant: the agent plays whatever the server says.
StartAnsweredAnyhow ==
  /\ agent = "started"
  /\ \E good \in BOOLEAN : Records("started", current, good) /\ AgentGoes("playing", current)
  /\ Asks

StartAnswered ==
  /\ agent = "started"
  /\ \E good \in BOOLEAN :
       Records("started", current, good) /\ IF good THEN AgentGoes("playing", current) ELSE Fails
  /\ Asks

Heard == plays' = [plays EXCEPT ![current] = @ + 1]

\* termux-media-player plays the file, and the agent waits for its duration; or
\* it fails, or takes too long, whether anything was heard or not.
Play ==
  /\ agent = "playing"
  /\ \/ Heard /\ AgentGoes("completed", current)
     \/ (Heard \/ UNCHANGED plays) /\ Fails
  /\ UNCHANGED <<rowVars, audio, workerVars, late, faults>>

CompletionAnswered ==
  /\ agent = "completed"
  /\ \E good \in BOOLEAN : Records("completed", current, good) /\ IF good THEN Finishes ELSE Fails
  /\ Asks

FailureAnswered ==
  /\ agent = "failed"
  /\ \E good \in BOOLEAN : Records("failed", current, good)
  /\ Finishes /\ Asks

\* The agent gives a request up, which may still arrive.
RequestTimesOut ==
  /\ agent \in Requests /\ Fault
  /\ late' = late \cup {<<agent, current>>}
  /\ IF agent \in {"next", "failed"} THEN Finishes ELSE Fails
  /\ UNCHANGED <<rowVars, audio, workerVars, plays>>

\* The API stops between the unlink and the commit of a result.
ResultInterrupted ==
  /\ agent \in {"completed", "failed"} /\ (current \in due \/ Acceptable(current)) /\ Fault
  /\ audio' = audio \ ({current} \cap named)
  /\ IF agent = "failed" THEN Finishes ELSE Fails
  /\ UNCHANGED <<rowVars, workerVars, plays, late>>

\* Mutant: the agent remembers its command.
RestartsWithCommand ==
  /\ agent # "idle" /\ Fault /\ AgentGoes("idle", current)
  /\ late' = IF agent \in Requests THEN late \cup {<<agent, current>>} ELSE late
  /\ UNCHANGED <<rowVars, audio, workerVars, plays>>

\* The agent stops and starts again; it has kept nothing.
AgentRestarts ==
  /\ agent # "idle" /\ Fault /\ Finishes
  /\ late' = IF agent \in Requests THEN late \cup {<<agent, current>>} ELSE late
  /\ UNCHANGED <<rowVars, audio, workerVars, plays>>

-----------------------------------------------------------------------------
PreparationStep(c) == Normalize(c) \/ OfferAudio(c) \/ PreparationFails(c)

AgentStep ==
  \/ Poll \/ NextAnswered \/ MediaAnswered \/ StartAnswered
  \/ Play \/ CompletionAnswered \/ FailureAnswered

Next ==
  \/ \E c \in Commands :
       \/ QueueVoiceNote(c) \/ TimeIsUp(c) \/ LeaseRunsOut(c)
       \/ ClaimPreparation(c) \/ PreparationStep(c)
       \/ ExpiryInterrupted(c) \/ SweepAudio(c)
  \/ PreparationStops \/ ExpirySweep \/ LateRequest
  \/ AgentStep \/ RequestTimesOut \/ ResultInterrupted \/ AgentRestarts

Spec == Init /\ [][Next]_vars

\* Time passes and the loops of the worker go on; nothing is assumed of the
\* camera, which may be switched off.
Fairness ==
  /\ WF_vars(ExpirySweep)
  /\ \A c \in Commands :
       WF_vars(TimeIsUp(c)) /\ WF_vars(PreparationStep(c)) /\ WF_vars(SweepAudio(c))

FairSpec == Spec /\ Fairness

-----------------------------------------------------------------------------
\* A voice note is played at most once, whatever requests are lost, late or
\* given up, and although a preparation may offer an expired command again.
PlayedOnce == \A c \in Commands : plays[c] <= 1

\* What the server says of a playback is true: nothing is played unless its
\* start is recorded, and what is completed has been played.
ReportsAreTrue ==
  \A c \in Commands :
    /\ plays[c] > 0 => c \in started
    /\ status[c] = "completed" => plays[c] > 0

\* A command that may be claimed has its audio.
OfferedHasAudio == Claimable \subseteq audio

\* "Immediate server audio deletion on completion, failure, or expiry": the audio
\* of a command that has ended is in the hands of a preparation that goes on, or
\* was left by one that stopped; no lost, late or interrupted request, and no
\* interrupted deletion, leaves any.
AudioGoesWithCommand ==
  \A c \in Commands :
    status[c] \in Ended /\ c \in audio => preparing = <<"normalized", c>> \/ c \in abandoned

\* The audio is there for as long as it may be asked for and no longer, between
\* worker, requests and expiry.
AudioFollowsCommand == OfferedHasAudio /\ AudioGoesWithCommand

\* Until its time is up the outcome of a command is final. (A late report expires
\* what has ended, and a preparation overwrites an expiry.)
OutcomeIsFinalInTime ==
  [][\A c \in Commands :
       status[c] \in Ended /\ status'[c] # status[c] =>
         c \in due /\ status'[c] \in {"expired", "pending", "failed"}]_vars

\* "A worker expiry sweep handles cameras that never poll": every command ends,
\* and in the end no audio is left.
CommandsEnd ==
  <>[](audio = {} /\ \A c \in Commands : status[c] \in Ended \cup {"absent"})

=============================================================================
