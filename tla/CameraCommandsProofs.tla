------------------------- MODULE CameraCommandsProofs -------------------------
(***************************************************************************)
(* Proofs about CameraCommands, for any number of voice notes and faults.  *)
(***************************************************************************)
EXTENDS CameraCommands, TLAPS

(***************************************************************************)
(* The inductive invariant.                                                *)
(***************************************************************************)

\* Only a poll has no command.
LateInv == \A r \in late : r[1] = "next" \/ r[2] \in Commands

\* What is prepared is still "preparing" or overdue, whatever the copy says,
\* and has not been offered before.
PrepareInv ==
  \A c \in Commands : preparing[2] = c =>
    (status[c] = "preparing" \/ c \in due) /\ c \notin named

\* Which commands have a media_storage_path.
NamedInv ==
  \A c \in Commands :
    /\ status[c] \in {"absent", "preparing"} \cup Ended => c \notin named
    /\ status[c] = "pending" => c \in named

\* Where the audio is, and who answers for audio that no row names.
AudioInv ==
  \A c \in Commands :
    /\ status[c] = "pending" => c \in audio \cup due
    /\ preparing = <<"normalized", c>> => c \in audio \cup due
    /\ c \in audio \ named => preparing = <<"normalized", c>> \/ c \in abandoned

\* A command that can never be claimed again.
Spent(c) ==
  /\ status[c] \notin {"absent", "preparing"}
  /\ status[c] = "pending" \/ preparing[2] = c => c \in due

\* A command the agent has ever had in hand is spent.
SpentInv == \A c \in Commands : current = c \/ plays[c] > 0 => Spent(c)

\* The agent plays what it has not played, after its start is recorded.
PlayInv ==
  /\ \A c \in Commands : plays[c] <= 1 /\ (plays[c] > 0 => c \in started)
  /\ agent \in {"media", "started", "playing"} => plays[current] = 0
  /\ agent = "playing" => current \in started

\* Completion is reported of what has been played.
ReportInv ==
  /\ \A c \in Commands : status[c] = "completed" \/ <<"completed", c>> \in late => plays[c] > 0
  /\ agent = "completed" => plays[current] > 0

IInv ==
  /\ TypeOK /\ LateInv /\ PrepareInv /\ NamedInv /\ AudioInv /\ SpentInv /\ PlayInv /\ ReportInv

(***************************************************************************)
(* The requests of the command API, from the agent or late.                *)
(***************************************************************************)

RowsTyped ==
  /\ status \in [Commands -> {"absent"} \cup Active \cup Ended]
  /\ named \subseteq Commands /\ audio \subseteq Commands /\ started \subseteq Commands

\* What a request leaves true, whatever it finds.
RequestKeeps ==
  /\ RowsTyped' /\ PrepareInv' /\ NamedInv' /\ AudioInv'
  /\ \A c \in Commands : Spent(c) => Spent(c)'
  /\ started \subseteq started'

NothingElse == UNCHANGED <<due, preparing, abandoned, faults>>

\* A poll claims a command that is not spent, and spends it.
LEMMA ClaimsKeep ==
  ASSUME IInv, NEW c \in Commands \cup {0}, Claims(c), NothingElse
  PROVE  /\ RequestKeeps /\ started' = started
         /\ \A d \in Commands : status'[d] = "completed" => status[d] = "completed"
         /\ c # 0 => c \in Commands /\ ~Spent(c) /\ Spent(c)'
<1> USE DEF IInv, TypeOK, Active, Ended
<1>1. /\ Overdue \subseteq due /\ Overdue \subseteq Commands /\ 0 \notin Commands
      /\ c # 0 => c \in Claimable
      /\ \A d \in Overdue : status[d] \in Active
  BY CommandsAssumption DEF Claims, Overdue, Oldest
<1>2. c # 0 => c \in Commands \ due /\ status[c] = "pending" /\ c \in named
  BY <1>1 DEF Claimable
<1>3. RowsTyped' /\ started' = started
  BY <1>1 DEF Claims, RowsTyped
<1>4. PrepareInv'
  BY <1>1, <1>2 DEF Claims, PrepareInv, NothingElse
<1>5. NamedInv'
  BY <1>1, <1>2 DEF Claims, NamedInv
<1>6. AudioInv'
  BY <1>1, <1>2 DEF Claims, AudioInv, NothingElse
<1>7. \A d \in Commands : Spent(d) => Spent(d)'
  BY <1>1, <1>2 DEF Claims, Spent, NothingElse
<1>8. c # 0 => c \in Commands /\ ~Spent(c) /\ Spent(c)'
  BY <1>1, <1>2 DEF Claims, Spent, NothingElse, PrepareInv
<1>9. \A d \in Commands : status'[d] = "completed" => status[d] = "completed"
  BY <1>1, <1>2 DEF Claims
<1> QED
  BY <1>3, <1>4, <1>5, <1>6, <1>7, <1>8, <1>9 DEF RequestKeeps

\* Expiry by a request or by the sweep.
LEMMA ExpireKeeps ==
  ASSUME IInv, NEW S \in SUBSET due, Expire(S), started' = started, NothingElse
  PROVE  /\ RequestKeeps
         /\ \A d \in Commands : status'[d] = "completed" => status[d] = "completed"
<1> USE DEF IInv, TypeOK, Active, Ended, Expire, NothingElse
<1>1. RowsTyped'
  BY DEF RowsTyped
<1>2. PrepareInv'
  BY DEF PrepareInv
<1>3. NamedInv'
  BY DEF NamedInv
<1>4. AudioInv'
  BY DEF AudioInv
<1>5. \A d \in Commands : Spent(d) => Spent(d)'
  BY DEF Spent
<1>6. \A d \in Commands : status'[d] = "completed" => status[d] = "completed"
  OBVIOUS
<1> QED
  BY <1>1, <1>2, <1>3, <1>4, <1>5, <1>6 DEF RequestKeeps

\* A request that is answered without a write keeps what requests keep.
LEMMA UnchangedKeeps ==
  ASSUME IInv, UNCHANGED <<status, named, audio, started>>, NothingElse
  PROVE  /\ RequestKeeps
         /\ \A d \in Commands : status'[d] = "completed" => status[d] = "completed"
BY DEF RequestKeeps, NothingElse, IInv, TypeOK, RowsTyped, PrepareInv, NamedInv, AudioInv, Spent

\* So does the request for the audio of a command (load_command_media).
LEMMA LoadsMediaKeeps ==
  ASSUME IInv, NEW c \in Commands, NEW good \in BOOLEAN, LoadsMedia(c, good), NothingElse
  PROVE  /\ RequestKeeps
         /\ \A d \in Commands : status'[d] = "completed" => status[d] = "completed"
<1>1. CASE c \in due
  <2>1. {c} \in SUBSET due /\ Expire({c}) /\ started' = started
    BY <1>1 DEF LoadsMedia
  <2> QED
    BY <2>1, ExpireKeeps
<1>2. CASE c \notin due
  BY <1>2, UnchangedKeeps DEF LoadsMedia
<1> QED
  BY <1>1, <1>2

\* A result is recorded of a command in the agent's hands only.
LEMMA RecordsKeep ==
  ASSUME IInv, NEW result \in Results, NEW c \in Commands, NEW good \in BOOLEAN,
         Records(result, c, good), NothingElse
  PROVE  /\ RequestKeeps
         /\ \A d \in Commands :
              status'[d] = "completed" => status[d] = "completed" \/ (d = c /\ result = "completed")
         /\ good /\ result = "started" => c \in started'
<1>1. CASE c \in due
  <2>1. {c} \in SUBSET due /\ Expire({c}) /\ started' = started /\ ~good
    BY <1>1 DEF Records, Acceptable
  <2> QED
    BY <2>1, ExpireKeeps
<1>2. CASE c \notin due /\ ~good
  BY <1>2, UnchangedKeeps DEF Records
<1>3. CASE c \notin due /\ good
  <2> USE DEF IInv, TypeOK, Active, Ended, Results, NothingElse
  <2>1. /\ status[c] \in {"claimed", "started"}
        /\ status' = [status EXCEPT ![c] = result]
        /\ named' \subseteq named /\ named \ {c} \subseteq named'
        /\ audio' = audio \ (named \ named')
        /\ started' \subseteq started \cup {c} /\ started \subseteq started'
        /\ result = "started" => c \in started' /\ named' = named
        /\ result # "started" => c \notin named'
    BY <1>3 DEF Records, Acceptable
  <2>2. RowsTyped'
    BY <2>1 DEF RowsTyped
  <2>3. PrepareInv'
    BY <2>1, <1>3 DEF PrepareInv
  <2>4. NamedInv'
    BY <2>1 DEF NamedInv
  <2>5. AudioInv'
    BY <2>1, <1>3 DEF AudioInv, PrepareInv
  <2>6. \A d \in Commands : Spent(d) => Spent(d)'
    BY <2>1 DEF Spent
  <2>7. \A d \in Commands :
          status'[d] = "completed" => status[d] = "completed" \/ (d = c /\ result = "completed")
    BY <2>1
  <2> QED
    BY <2>1, <2>2, <2>3, <2>4, <2>5, <2>6, <2>7 DEF RequestKeeps
<1> QED
  BY <1>1, <1>2, <1>3

(***************************************************************************)
(* Steps the agent has no part in.                                         *)
(***************************************************************************)

OthersTyped ==
  /\ due \subseteq Commands
  /\ lease \in [Commands -> {"none", "held", "over"}]
  /\ preparing \in {Idle} \cup {"downloading", "normalized"} \X Commands
  /\ abandoned \subseteq Commands /\ faults \in 0..MaxFaults

\* It is enough that a step keeps what a request keeps, completes nothing, and
\* leaves the agent where it is.
LEMMA WithoutAgent ==
  ASSUME IInv, RequestKeeps, OthersTyped', UNCHANGED <<plays, agent, current>>, late' \subseteq late,
         \A d \in Commands : status'[d] = "completed" =>
           status[d] = "completed" \/ <<"completed", d>> \in late
  PROVE  IInv'
<1> USE DEF IInv, RequestKeeps
<1>1. TypeOK'
  BY DEF TypeOK, RowsTyped, OthersTyped
<1>2. LateInv'
  BY DEF LateInv
<1>3. SpentInv'
  BY DEF SpentInv
<1>4. PlayInv'
  BY DEF PlayInv
<1>5. ReportInv'
  BY DEF ReportInv
<1> QED
  BY <1>1, <1>2, <1>3, <1>4, <1>5

\* The steps of the worker and the passing of time.
LEMMA WorkerStep ==
  ASSUME IInv, NEW c \in Commands,
         \/ QueueVoiceNote(c) \/ TimeIsUp(c) \/ LeaseRunsOut(c) \/ ClaimPreparation(c)
         \/ PreparationStep(c) \/ ExpiryInterrupted(c) \/ SweepAudio(c) \/ PreparationStops
  PROVE  IInv'
<1> USE DEF IInv, TypeOK, Active, Ended, Idle
<1>1. UNCHANGED <<plays, agent, current, late, started>>
  BY DEF QueueVoiceNote, TimeIsUp, LeaseRunsOut, ClaimPreparation, PreparationStep, Normalize,
         OfferAudio, PreparationFails, ExpiryInterrupted, SweepAudio, PreparationStops,
         agentVars, rowVars
<1>2. SUFFICES
        /\ RowsTyped' /\ OthersTyped' /\ PrepareInv' /\ NamedInv' /\ AudioInv'
        /\ \A d \in Commands :
             /\ Spent(d) => Spent(d)'
             /\ status'[d] = "completed" => status[d] = "completed"
  BY <1>1, WithoutAgent DEF RequestKeeps
<1> USE DEF RowsTyped, OthersTyped, PrepareInv, NamedInv, AudioInv, Spent, rowVars, workerVars
<1>3. CASE QueueVoiceNote(c)
  BY <1>3 DEF QueueVoiceNote
<1>4. CASE TimeIsUp(c)
  BY <1>4 DEF TimeIsUp
<1>5. CASE LeaseRunsOut(c)
  BY <1>5 DEF LeaseRunsOut
<1>6. CASE ClaimPreparation(c)
  <2>1. status[c] = "preparing"
    BY <1>6 DEF ClaimPreparation, Oldest, Preparable
  <2> QED
    BY <1>6, <2>1 DEF ClaimPreparation
<1>7. CASE Normalize(c)
  <2>1. /\ preparing = <<"downloading", c>> /\ preparing' = <<"normalized", c>>
        /\ preparing[2] = c /\ preparing'[2] = c /\ audio' = audio \cup {c}
        /\ UNCHANGED <<status, due, named, started, lease, abandoned, faults>>
    BY <1>7 DEF Normalize
  <2>2. RowsTyped' /\ OthersTyped'
    BY <2>1
  <2>3. PrepareInv' /\ NamedInv'
    BY <2>1
  <2>4. AudioInv'
    BY <2>1
  <2> QED
    BY <2>1, <2>2, <2>3, <2>4
<1>8. CASE OfferAudio(c)
  <2>1. /\ preparing = <<"normalized", c>> /\ preparing[2] = c /\ preparing' = Idle
        /\ status' = [status EXCEPT ![c] = "pending"] /\ named' = named \cup {c}
        /\ lease' = [lease EXCEPT ![c] = "none"] /\ abandoned' = abandoned \ {c}
        /\ UNCHANGED <<due, started, audio, faults>>
    BY <1>8 DEF OfferAudio
  <2>2. RowsTyped' /\ OthersTyped'
    BY <2>1
  <2>3. PrepareInv' /\ NamedInv'
    BY <2>1, CommandsAssumption
  <2>4. AudioInv'
    BY <2>1
  <2>5. \A d \in Commands :
          /\ Spent(d) => Spent(d)'
          /\ status'[d] = "completed" => status[d] = "completed"
    BY <2>1, CommandsAssumption
  <2> QED
    BY <2>2, <2>3, <2>4, <2>5
<1>9. CASE PreparationFails(c)
  <2>1. /\ preparing \in {<<"downloading", c>>, <<"normalized", c>>}
        /\ preparing[2] = c /\ preparing' = Idle /\ audio' = audio \ {c}
        /\ status' = [status EXCEPT ![c] = "failed"]
        /\ lease' = [lease EXCEPT ![c] = "none"] /\ abandoned' = abandoned \ {c}
        /\ UNCHANGED <<due, named, started, faults>>
    BY <1>9 DEF PreparationFails
  <2>2. RowsTyped' /\ OthersTyped'
    BY <2>1
  <2>3. PrepareInv' /\ NamedInv'
    BY <2>1, CommandsAssumption
  <2>4. AudioInv'
    BY <2>1
  <2>5. \A d \in Commands :
          /\ Spent(d) => Spent(d)'
          /\ status'[d] = "completed" => status[d] = "completed"
    BY <2>1, CommandsAssumption
  <2> QED
    BY <2>2, <2>3, <2>4, <2>5
<1>10. CASE ExpiryInterrupted(c)
  BY <1>10, FaultsAssumption DEF ExpiryInterrupted, Overdue, Fault
<1>11. CASE SweepAudio(c)
  <2>1. /\ c \in audio /\ ~(c \in named /\ status[c] \in Active) /\ preparing[2] # c
        /\ audio' = audio \ {c} /\ abandoned' = abandoned \ {c}
        /\ UNCHANGED <<status, due, named, started, lease, preparing, faults>>
    BY <1>11 DEF SweepAudio
  <2>2. preparing # <<"normalized", c>> /\ status[c] # "pending"
    BY <2>1
  <2>3. RowsTyped' /\ OthersTyped' /\ PrepareInv' /\ NamedInv'
    BY <2>1
  <2>4. AudioInv'
    BY <2>1, <2>2
  <2>5. \A d \in Commands :
          /\ Spent(d) => Spent(d)'
          /\ status'[d] = "completed" => status[d] = "completed"
    BY <2>1
  <2> QED
    BY <2>3, <2>4, <2>5
<1>12. CASE PreparationStops
  <2>1. /\ preparing' = Idle /\ preparing'[2] = 0 /\ 0 \notin Commands
        /\ faults' \in 0..MaxFaults
        /\ UNCHANGED <<status, due, named, started, lease, audio>>
        /\ abandoned \subseteq abandoned' /\ abandoned' \subseteq abandoned \cup {preparing[2]}
        /\ preparing[1] = "normalized" => preparing[2] \in Commands \cap abandoned'
        /\ preparing[1] # "normalized" => abandoned' = abandoned
    BY <1>12, FaultsAssumption, CommandsAssumption DEF PreparationStops, Fault
  <2>2. RowsTyped' /\ OthersTyped' /\ PrepareInv' /\ NamedInv'
    BY <2>1
  <2>3. AudioInv'
    BY <2>1
  <2>4. \A d \in Commands :
          /\ Spent(d) => Spent(d)'
          /\ status'[d] = "completed" => status[d] = "completed"
    BY <2>1
  <2> QED
    BY <2>2, <2>3, <2>4
<1> QED
  BY <1>3, <1>4, <1>5, <1>6, <1>7, <1>8, <1>9, <1>10, <1>11, <1>12 DEF PreparationStep

\* The sweep that expires overdue commands.
LEMMA SweepStep ==
  ASSUME IInv, ExpirySweep
  PROVE  IInv'
<1>1. Overdue \in SUBSET due /\ Expire(Overdue)
  BY DEF ExpirySweep, Overdue
<1>2. /\ NothingElse /\ started' = started /\ lease' = lease
      /\ UNCHANGED <<plays, agent, current, late>>
  BY DEF ExpirySweep, NothingElse, workerVars, agentVars
<1>3. OthersTyped'
  BY <1>2 DEF OthersTyped, NothingElse, IInv, TypeOK
<1> QED
  BY <1>1, <1>2, <1>3, ExpireKeeps, WithoutAgent

\* A request the agent has given up arrives after all.
LEMMA LateStep ==
  ASSUME IInv, LateRequest
  PROVE  IInv'
<1>1. PICK r \in late :
        /\ late' = late \ {r}
        /\ \/ r[1] = "next" /\ \E c \in Commands \cup {0} : Claims(c)
           \/ r[1] = "media" /\ \E good \in BOOLEAN : LoadsMedia(r[2], good)
           \/ r[1] \in Results /\ \E good \in BOOLEAN : Records(r[1], r[2], good)
  BY DEF LateRequest
<1>2. NothingElse /\ UNCHANGED <<plays, agent, current, lease>> /\ late' \subseteq late
  BY <1>1 DEF LateRequest, NothingElse, workerVars
<1>3. OthersTyped'
  BY <1>2 DEF OthersTyped, NothingElse, IInv, TypeOK
<1>4. r[1] = "next" \/ r[2] \in Commands
  BY DEF IInv, LateInv
<1>5. r = <<r[1], r[2]>>
  BY DEF IInv, TypeOK
<1>6. CASE r[1] = "next"
  <2>1. PICK c \in Commands \cup {0} : Claims(c)
    BY <1>1, <1>6 DEF Results
  <2> QED
    BY <1>2, <1>3, <2>1, ClaimsKeep, WithoutAgent
<1>7. CASE r[1] = "media"
  <2>1. PICK good \in BOOLEAN : LoadsMedia(r[2], good)
    BY <1>1, <1>7 DEF Results
  <2> QED
    BY <1>2, <1>3, <1>4, <1>7, <2>1, LoadsMediaKeeps, WithoutAgent
<1>8. CASE r[1] \in Results
  <2>1. PICK good \in BOOLEAN : Records(r[1], r[2], good)
    BY <1>1, <1>8 DEF Results
  <2>2. r[2] \in Commands
    BY <1>4, <1>8 DEF Results
  <2>3. RequestKeeps /\ \A d \in Commands : status'[d] = "completed" =>
          status[d] = "completed" \/ (d = r[2] /\ r[1] = "completed")
    BY <1>2, <1>8, <2>1, <2>2, RecordsKeep
  <2> QED
    BY <1>2, <1>3, <1>5, <2>3, WithoutAgent
<1> QED
  BY <1>1, <1>6, <1>7, <1>8

(***************************************************************************)
(* Steps of the agent.                                                     *)
(***************************************************************************)

\* Where a request leaves the agent: what is still to be shown of the agent
\* when the rows are fine.
LEMMA WithAgent ==
  ASSUME IInv, RequestKeeps, OthersTyped',
         plays' \in [Commands -> Nat], agent' \in {"idle", "playing"} \cup Requests,
         current' \in Commands \cup {0}, current' = 0 <=> agent' \in {"idle", "next"},
         late' \subseteq late \cup {<<agent, current>>}, late' = late \/ agent \in Requests,
         \A c \in Commands : current' = c => c = current \/ Spent(c)',
         PlayInv', ReportInv',
         \A c \in Commands : plays'[c] > 0 => plays[c] > 0 \/ c = current
  PROVE  IInv'
<1> USE DEF IInv, RequestKeeps
<1>1. TypeOK'
  BY DEF TypeOK, RowsTyped, OthersTyped
<1>2. LateInv'
  <2>1. agent = "next" \/ agent \notin Requests \/ current \in Commands
    BY DEF TypeOK, Requests, Results
  <2>2. ASSUME NEW r \in late'
        PROVE  r[1] = "next" \/ r[2] \in Commands
    <3>1. CASE r \in late
      BY <3>1 DEF LateInv
    <3>2. CASE r \notin late
      <4>1. r = <<agent, current>> /\ agent \in Requests
        BY <3>2
      <4> QED
        BY <2>1, <4>1
    <3> QED
      BY <3>1, <3>2
  <2> QED
    BY <2>2 DEF LateInv
<1>3. SpentInv'
  BY CommandsAssumption DEF SpentInv, TypeOK
<1> QED
  BY <1>1, <1>2, <1>3

\* A step of the agent or of the network alone leaves rows, audio and worker as they are.
LEMMA RowsRest ==
  ASSUME IInv, UNCHANGED <<rowVars, audio, workerVars>>, faults' \in 0..MaxFaults, faults' >= faults
  PROVE  /\ RequestKeeps /\ OthersTyped'
         /\ UNCHANGED <<status, started>>
<1> USE DEF rowVars, workerVars, IInv, TypeOK
<1>1. RowsTyped' /\ OthersTyped' /\ PrepareInv' /\ NamedInv'
  BY DEF RowsTyped, OthersTyped, PrepareInv, NamedInv
<1>2. AudioInv'
  BY FaultsAssumption DEF AudioInv
<1>3. \A c \in Commands : Spent(c) => Spent(c)'
  BY DEF Spent
<1> QED
  BY <1>1, <1>2, <1>3 DEF RequestKeeps

\* The steps that read the answer of the server to a request.
LEMMA AnswerStep ==
  ASSUME IInv,
         NextAnswered \/ MediaAnswered \/ StartAnswered \/ CompletionAnswered \/ FailureAnswered
  PROVE  IInv'
<1>1. /\ NothingElse /\ UNCHANGED <<lease, plays, late, faults>>
      /\ agent \in Requests
  BY DEF NextAnswered, MediaAnswered, StartAnswered, CompletionAnswered, FailureAnswered, Asks,
         NothingElse, workerVars, Requests, Results
<1>2. OthersTyped'
  BY <1>1 DEF OthersTyped, NothingElse, IInv, TypeOK
<1>3. agent # "next" => current \in Commands
  BY <1>1 DEF IInv, TypeOK, Requests, Results
<1>4. CASE NextAnswered
  <2>1. PICK c \in Commands \cup {0} :
          Claims(c) /\ (Finishes \/ (c # 0 /\ AgentGoes("media", c)))
    BY <1>4 DEF NextAnswered
  <2>2. /\ RequestKeeps /\ started' = started
        /\ \A d \in Commands : status'[d] = "completed" => status[d] = "completed"
        /\ c # 0 => c \in Commands /\ ~Spent(c) /\ Spent(c)'
    BY <1>1, <2>1, ClaimsKeep
  <2>3. c # 0 => plays[c] = 0
    BY <2>2 DEF IInv, SpentInv, TypeOK
  <2>4. \/ agent' = "idle" /\ current' = 0
        \/ agent' = "media" /\ current' = c /\ c # 0
    BY <2>1 DEF Finishes, AgentGoes
  <2>5. PlayInv' /\ ReportInv'
    BY <1>1, <2>2, <2>3, <2>4 DEF IInv, PlayInv, ReportInv
  <2> QED
    BY <1>1, <1>2, <2>2, <2>4, <2>5, WithAgent, CommandsAssumption DEF IInv, TypeOK, Requests,
       Results
<1>5. CASE MediaAnswered
  <2>1. PICK good \in BOOLEAN :
          LoadsMedia(current, good) /\ ((good /\ AgentGoes("started", current)) \/ Fails)
    BY <1>5 DEF MediaAnswered
  <2>2. /\ RequestKeeps
        /\ \A d \in Commands : status'[d] = "completed" => status[d] = "completed"
    BY <1>1, <1>3, <1>5, <2>1, LoadsMediaKeeps DEF MediaAnswered
  <2>3. agent = "media" /\ agent' \in {"started", "failed"} /\ current' = current
    BY <1>5, <2>1 DEF MediaAnswered, Fails, AgentGoes
  <2>4. PlayInv' /\ ReportInv'
    BY <1>1, <2>2, <2>3 DEF IInv, PlayInv, ReportInv, RequestKeeps
  <2> QED
    BY <1>1, <1>2, <2>2, <2>3, <2>4, WithAgent, CommandsAssumption DEF IInv, TypeOK, Requests,
       Results
<1>6. CASE StartAnswered
  <2>1. PICK good \in BOOLEAN :
          /\ Records("started", current, good)
          /\ IF good THEN AgentGoes("playing", current) ELSE Fails
    BY <1>6 DEF StartAnswered
  <2>2. /\ RequestKeeps
        /\ \A d \in Commands : status'[d] = "completed" => status[d] = "completed"
        /\ good => current \in started'
    BY <1>1, <1>3, <1>6, <2>1, RecordsKeep DEF StartAnswered, Results
  <2>3. /\ agent = "started" /\ current' = current
        /\ agent' = IF good THEN "playing" ELSE "failed"
    BY <1>6, <2>1 DEF StartAnswered, Fails, AgentGoes
  <2>4. PlayInv' /\ ReportInv'
    BY <1>1, <2>2, <2>3 DEF IInv, PlayInv, ReportInv, RequestKeeps
  <2> QED
    BY <1>1, <1>2, <2>2, <2>3, <2>4, WithAgent, CommandsAssumption DEF IInv, TypeOK, Requests,
       Results
<1>7. CASE CompletionAnswered
  <2>1. PICK good \in BOOLEAN :
          Records("completed", current, good) /\ IF good THEN Finishes ELSE Fails
    BY <1>7 DEF CompletionAnswered
  <2>2. /\ RequestKeeps
        /\ \A d \in Commands :
             status'[d] = "completed" => status[d] = "completed" \/ d = current
    BY <1>1, <1>3, <1>7, <2>1, RecordsKeep DEF CompletionAnswered, Results
  <2>3. /\ agent = "completed"
        /\ \/ agent' = "idle" /\ current' = 0
           \/ agent' = "failed" /\ current' = current
    BY <1>7, <2>1 DEF CompletionAnswered, Finishes, Fails, AgentGoes
  <2>4. PlayInv' /\ ReportInv'
    BY <1>1, <2>2, <2>3 DEF IInv, PlayInv, ReportInv, RequestKeeps
  <2> QED
    BY <1>1, <1>2, <2>2, <2>3, <2>4, WithAgent, CommandsAssumption DEF IInv, TypeOK, Requests,
       Results
<1>8. CASE FailureAnswered
  <2>1. PICK good \in BOOLEAN : Records("failed", current, good)
    BY <1>8 DEF FailureAnswered
  <2>2. /\ RequestKeeps
        /\ \A d \in Commands : status'[d] = "completed" => status[d] = "completed"
    BY <1>1, <1>3, <1>8, <2>1, RecordsKeep DEF FailureAnswered, Results
  <2>3. agent' = "idle" /\ current' = 0
    BY <1>8 DEF FailureAnswered, Finishes, AgentGoes
  <2>4. PlayInv' /\ ReportInv'
    BY <1>1, <2>2, <2>3 DEF IInv, PlayInv, ReportInv, RequestKeeps
  <2> QED
    BY <1>1, <1>2, <2>2, <2>3, <2>4, WithAgent, CommandsAssumption DEF IInv, TypeOK
<1> QED
  BY <1>4, <1>5, <1>6, <1>7, <1>8

\* The other steps of the agent: no request reaches the server.
LEMMA AgentAloneStep ==
  ASSUME IInv, Poll \/ Play \/ RequestTimesOut \/ AgentRestarts
  PROVE  IInv'
<1>1. /\ UNCHANGED <<rowVars, audio, workerVars>>
      /\ faults' \in 0..MaxFaults /\ faults' >= faults
  BY FaultsAssumption
     DEF IInv, TypeOK, Poll, Play, RequestTimesOut, AgentRestarts, Fault
<1>2. RequestKeeps /\ OthersTyped' /\ UNCHANGED <<status, started>>
  BY <1>1, RowsRest
<1> USE DEF IInv, TypeOK, PlayInv, ReportInv, Requests, Results, AgentGoes
<1>3. CASE Poll
  BY <1>2, <1>3, WithAgent DEF Poll
<1>4. CASE Play
  <2>1. /\ agent = "playing" /\ current \in Commands /\ current' = current /\ late' = late
        /\ \/ agent' = "completed" /\ Heard
           \/ agent' = "failed" /\ (Heard \/ plays' = plays)
    BY <1>4 DEF Play, Fails
  <2>2. /\ plays' \in [Commands -> Nat] /\ plays[current] = 0
        /\ \A c \in Commands : plays'[c] = plays[c] \/ (c = current /\ plays'[c] = 1)
        /\ agent' = "completed" => plays'[current] = 1
    BY <2>1 DEF Heard
  <2>3. PlayInv' /\ ReportInv'
    BY <1>2, <2>1, <2>2
  <2> QED
    BY <1>2, <2>1, <2>2, <2>3, WithAgent
<1>5. CASE RequestTimesOut \/ AgentRestarts
  <2>1. /\ plays' = plays
        /\ \/ agent' = "idle" /\ current' = 0
           \/ agent' = "failed" /\ current' = current /\ agent \in Requests \ {"next"}
        /\ \/ late' = late
           \/ agent \in Requests /\ late' = late \cup {<<agent, current>>}
    BY <1>5 DEF RequestTimesOut, AgentRestarts, Finishes, Fails
  <2>2. PlayInv' /\ ReportInv'
    BY <1>2, <2>1
  <2> QED
    BY <1>2, <2>1, <2>2, WithAgent, CommandsAssumption
<1> QED
  BY <1>3, <1>4, <1>5

\* A result is recorded up to the removal of its audio, and the transaction rolls back.
LEMMA InterruptedStep ==
  ASSUME IInv, ResultInterrupted
  PROVE  IInv'
<1> USE DEF IInv, TypeOK, rowVars, workerVars
<1>1. /\ UNCHANGED <<status, due, named, lease, started, preparing, abandoned, plays, late>>
      /\ faults' \in 0..MaxFaults
      /\ audio' = audio \ ({current} \cap named)
      /\ current \in Commands /\ (current \in due \/ Acceptable(current))
  BY FaultsAssumption DEF ResultInterrupted, Fault
<1>2. RowsTyped' /\ OthersTyped' /\ PrepareInv' /\ NamedInv'
  BY <1>1 DEF RowsTyped, OthersTyped, PrepareInv, NamedInv
<1>3. AudioInv'
  BY <1>1 DEF AudioInv, Acceptable, PrepareInv
<1>4. \A c \in Commands : Spent(c) => Spent(c)'
  BY <1>1 DEF Spent
<1>5. \/ agent' = "idle" /\ current' = 0
      \/ agent' = "failed" /\ current' = current
  BY DEF ResultInterrupted, Finishes, Fails, AgentGoes
<1>6. PlayInv' /\ ReportInv'
  BY <1>1, <1>5 DEF PlayInv, ReportInv
<1> QED
  BY <1>1, <1>2, <1>3, <1>4, <1>5, <1>6, WithAgent, CommandsAssumption DEF RequestKeeps,
     Requests, Results

\* Every step keeps the invariant.
LEMMA Inductive == IInv /\ [Next]_vars => IInv'
<1> SUFFICES ASSUME IInv, [Next]_vars PROVE IInv'
  OBVIOUS
<1>1. CASE Next
  <2>1. CASE PreparationStops
    <3>1. preparing[2] \in Commands
      BY <2>1 DEF PreparationStops, IInv, TypeOK
    <3> QED
      BY <2>1, <3>1, WorkerStep
  <2> QED
    BY <1>1, <2>1, WorkerStep, SweepStep, LateStep, AnswerStep, AgentAloneStep, InterruptedStep
       DEF Next, AgentStep
<1>2. CASE UNCHANGED vars
  BY <1>2 DEF vars, rowVars, workerVars, agentVars, IInv, TypeOK, LateInv, PrepareInv, NamedInv,
              AudioInv, SpentInv, Spent, PlayInv, ReportInv
<1> QED
  BY <1>1, <1>2

\* Without a command there is nothing to keep.
LEMMA Initial == Init => IInv
BY CommandsAssumption, FaultsAssumption
   DEF Init, IInv, TypeOK, LateInv, PrepareInv, NamedInv, AudioInv, SpentInv, Spent, PlayInv,
       ReportInv, Idle, Active, Ended

\* IInv is an invariant of the commands.
THEOREM Invariance == Spec => []IInv
  BY Initial, Inductive, PTL DEF Spec

(***************************************************************************)
(* The properties of the runs.                                             *)
(***************************************************************************)

\* Rows, files, requests and the steps of the agent and the worker are what
\* TypeOK says.
THEOREM TypeCorrect == Spec => []TypeOK
<1>1. IInv => TypeOK
  BY DEF IInv
<1> QED
  BY <1>1, Invariance, PTL

\* A voice note is played at most once, however many requests are lost, late or
\* repeated and however often agent and worker stop.
THEOREM NeverPlayedTwice == Spec => []PlayedOnce
<1>1. IInv => PlayedOnce
  BY DEF IInv, PlayInv, PlayedOnce
<1> QED
  BY <1>1, Invariance, PTL

\* What the server says of a playback is true.
THEOREM TrueReports == Spec => []ReportsAreTrue
<1>1. IInv => ReportsAreTrue
  BY DEF IInv, PlayInv, ReportInv, ReportsAreTrue
<1> QED
  BY <1>1, Invariance, PTL

\* The audio is there while it may be claimed, and leaves with the command.
THEOREM AudioIsKept == Spec => []AudioFollowsCommand
<1>1. IInv => OfferedHasAudio
  BY DEF IInv, AudioInv, OfferedHasAudio, Claimable
<1>2. IInv => AudioGoesWithCommand
  BY DEF IInv, TypeOK, AudioInv, NamedInv, AudioGoesWithCommand, Ended
<1> QED
  BY <1>1, <1>2, Invariance, PTL DEF AudioFollowsCommand

\* Until its time is up the outcome of a command is final.
LEMMA OutcomeStep ==
  ASSUME IInv, Next, NEW c \in Commands, status[c] \in Ended, status'[c] # status[c]
  PROVE  c \in due /\ status'[c] \in {"expired", "pending", "failed"}
<1> USE DEF IInv, TypeOK, Ended, Active
<1>1. ASSUME NEW S \in SUBSET Commands, S \subseteq due \/ c \notin S, Expire(S)
      PROVE  c \in due /\ status'[c] = "expired"
  BY <1>1 DEF Expire
<1>2. ASSUME NEW d \in Commands \cup {0}, Claims(d)
      PROVE  FALSE
  <2>1. d = c => c \in Claimable
    BY <1>2, CommandsAssumption DEF Claims, Oldest
  <2>2. d # c /\ c \notin Overdue
    BY <2>1 DEF Claimable, Overdue
  <2> QED
    BY <1>2, <2>2 DEF Claims
<1>3. ASSUME NEW d \in Commands, NEW good \in BOOLEAN, LoadsMedia(d, good)
      PROVE  c \in due /\ status'[c] = "expired"
  BY <1>1, <1>3 DEF LoadsMedia
<1>4. ASSUME NEW result \in Results, NEW d \in Commands, NEW good \in BOOLEAN,
             Records(result, d, good)
      PROVE  c \in due /\ status'[c] = "expired"
  <2>1. CASE d \in due
    BY <1>1, <1>4, <2>1 DEF Records
  <2>2. CASE d \notin due
    BY <1>4, <2>2 DEF Records, Acceptable
  <2> QED
    BY <2>1, <2>2
<1>5. \/ \E d \in Commands :
           QueueVoiceNote(d) \/ OfferAudio(d) \/ PreparationFails(d)
      \/ ExpirySweep \/ LateRequest \/ NextAnswered \/ MediaAnswered \/ StartAnswered
      \/ CompletionAnswered \/ FailureAnswered
  BY DEF Next, AgentStep, PreparationStep, TimeIsUp, LeaseRunsOut, ClaimPreparation, Normalize,
         ExpiryInterrupted, SweepAudio, PreparationStops, Poll, Play, RequestTimesOut,
         ResultInterrupted, AgentRestarts, rowVars
<1>6. ASSUME NEW d \in Commands, QueueVoiceNote(d) \/ OfferAudio(d) \/ PreparationFails(d)
      PROVE  c \in due /\ status'[c] \in {"expired", "pending", "failed"}
  <2>1. d = c /\ status'[c] \in {"pending", "failed"} /\ preparing[2] = c
    BY <1>6 DEF QueueVoiceNote, OfferAudio, PreparationFails
  <2> QED
    BY <2>1 DEF PrepareInv
<1>7. CASE ExpirySweep
  BY <1>1, <1>7 DEF ExpirySweep, Overdue
<1>8. CASE LateRequest
  <2>1. PICK r \in late :
          \/ r[1] = "next" /\ \E d \in Commands \cup {0} : Claims(d)
          \/ r[1] = "media" /\ \E good \in BOOLEAN : LoadsMedia(r[2], good)
          \/ r[1] \in Results /\ \E good \in BOOLEAN : Records(r[1], r[2], good)
    BY <1>8 DEF LateRequest
  <2>2. r[1] = "next" \/ r[2] \in Commands
    BY DEF LateInv
  <2> QED
    BY <1>2, <1>3, <1>4, <2>1, <2>2 DEF Results
<1>9. CASE NextAnswered
  BY <1>2, <1>9 DEF NextAnswered
<1>10. CASE MediaAnswered \/ StartAnswered \/ CompletionAnswered \/ FailureAnswered
  <2>1. current \in Commands
    BY <1>10 DEF MediaAnswered, StartAnswered, CompletionAnswered, FailureAnswered
  <2> QED
    BY <1>3, <1>4, <1>10, <2>1
       DEF MediaAnswered, StartAnswered, CompletionAnswered, FailureAnswered, Results
<1> QED
  BY <1>5, <1>6, <1>7, <1>8, <1>9, <1>10

\* An outcome changes only when it is overdue, by an expiry or a late preparation.
THEOREM OutcomesHold == Spec => OutcomeIsFinalInTime
<1>1. IInv /\ [Next]_vars =>
        [\A c \in Commands :
           status[c] \in Ended /\ status'[c] # status[c] =>
             c \in due /\ status'[c] \in {"expired", "pending", "failed"}]_vars
  BY OutcomeStep
<1> QED
  BY <1>1, Invariance, PTL DEF Spec, OutcomeIsFinalInTime

=============================================================================
