---------------------------- MODULE JobLifecycle ----------------------------
(***************************************************************************)
(* The life of a transcription job in the local runtime of GrooveScribe:   *)
(* the upload and retry handlers that create a row and enqueue it, the     *)
(* in-process queue with one worker thread that runs the pipeline in a     *)
(* subprocess and publishes its artifacts, the recovery a server performs  *)
(* when it starts, and the ways a server process stops.                    *)
(*                                                                         *)
(* A server process is an incarnation s \in Servers; the rows and the      *)
(* stored files survive it, its queue, worker thread and request handlers  *)
(* do not.  Every commit and every storage write is a step of its own.     *)
(***************************************************************************)
EXTENDS Integers, Sequences, FiniteSets

CONSTANTS
  Jobs,          (* the job ids that uploads and retries may draw           *)
  MaxServers,    (* bound: how many times the backend process is started    *)
  Artifacts,     (* the files a successful run must store before publishing *)
  FailureStages, (* the stages a failing pipeline subprocess can report     *)
  Faults,        (* the faults of the environment that are admitted         *)
  NoJob          (* "no job": an idle worker, a job with no source          *)

FaultKinds ==
  { "storage",   \* a write to the artifact storage raises
    "enqueue",   \* executor.submit raises
    "pipeline",  \* the subprocess fails, times out or leaves bad output
    "commit",    \* a database commit raises
    "recovery",  \* the startup recovery raises SQLAlchemyError and is skipped
    "crash",     \* a server process is killed
    "overlap" }  \* a server starts while its predecessor still drains

(* error_stage of an exception that has none: read from the row instead.   *)
RowStage == "row_stage"
NoStage == "none"

ASSUME ConstantsAssumption ==
  /\ MaxServers \in Nat
  /\ Faults \subseteq FaultKinds
  /\ NoJob \notin Jobs
  /\ Artifacts \cap {"original", "truncated", "log"} = {}
  /\ Artifacts # {}
  /\ FailureStages \subseteq {"preprocessing", "source_separation",
       "drum_transcription", "midi_post_processing", "notation_generation"}

Servers == 1..MaxServers

VARIABLES
  row,       (* [Jobs -> Row]: the transcription_jobs table                 *)
  audio,     (* audio[j]: the job under whose directory the original lies   *)
  source,    (* source[j]: source_job_id                                    *)
  files,     (* files[j]: what is stored under jobs/<j>/                     *)
  phase,     (* phase[s]: the life of the server process                    *)
  found,     (* found[s]: the processing rows its recovery has read         *)
  request,   (* request[j]: the handler that is creating job j              *)
  queue,     (* queue[s]: the executor's pending work items                 *)
  worker,    (* worker[s]: the executor's only thread                       *)
  pipelines  (* the jobs whose pipeline subprocess is alive                 *)

vars == <<row, audio, source, files, phase, found, request, queue, worker,
          pipelines>>

Terminal == {"completed", "failed", "interrupted"}
Statuses == {"absent", "uploaded", "queued", "processing"} \cup Terminal
Stages == {"uploaded", "queued", "completed", "failed", "preprocessing",
           "source_separation", "drum_transcription",
           "midi_post_processing", "notation_generation"}

Row == [status : Statuses, stage : Stages \cup {NoStage},
        errorStage : Stages \cup {NoStage}, failedAt : BOOLEAN,
        completedAt : BOOLEAN, exports : BOOLEAN]

NoRow == [status |-> "absent", stage |-> NoStage, errorStage |-> NoStage,
          failedAt |-> FALSE, completedAt |-> FALSE, exports |-> FALSE]

(* The original is written in place: a failed write can leave part of it.  *)
Originals == {"original", "truncated"}

HasAudio(j) == Originals \cap files[j] # {}

NewRow(status) == [NoRow EXCEPT !.status = status, !.stage = status]

Idle == [pc |-> "idle", job |-> NoJob, err |-> NoStage,
         sawError |-> FALSE]

NoRequest == [pc |-> "none", at |-> 0, err |-> NoStage]

RequestPc == {"none", "store", "accept", "enqueue", "reject", "done"}

Request == [pc : RequestPc, at : 0..MaxServers,
            err : {NoStage, "uploaded", "queued"}]

WorkerPc == {"idle", "start", "launch", "running", "exited", "storing",
             "publish", "failing"}

Worker == [pc : WorkerPc, job : Jobs \cup {NoJob},
           err : Stages \cup {NoStage, RowStage}, sawError : BOOLEAN]

Files == Artifacts \cup Originals \cup {"log"}

Phase == {"off", "recovering", "serving", "draining", "dead"}

TypeOK ==
  /\ row \in [Jobs -> Row]
  /\ audio \in [Jobs -> Jobs]
  /\ source \in [Jobs -> Jobs \cup {NoJob}]
  /\ files \in [Jobs -> SUBSET Files]
  /\ phase \in [Servers -> Phase]
  /\ found \in [Servers -> SUBSET Jobs]
  /\ request \in [Jobs -> Request]
  /\ queue \in [Servers -> Seq(Jobs)]
  /\ worker \in [Servers -> Worker]
  /\ pipelines \subseteq Jobs

Init ==
  /\ row = [j \in Jobs |-> NoRow]
  /\ audio = [j \in Jobs |-> j]
  /\ source = [j \in Jobs |-> NoJob]
  /\ files = [j \in Jobs |-> {}]
  /\ phase = [s \in Servers |-> "off"]
  /\ found = [s \in Servers |-> {}]
  /\ request = [j \in Jobs |-> NoRequest]
  /\ queue = [s \in Servers |-> <<>>]
  /\ worker = [s \in Servers |-> Idle]
  /\ pipelines = {}

Alive(s) == phase[s] \in {"serving", "draining"}
InFlight(j) == request[j].pc \notin {"none", "done"}
Holds(s, j) == worker[s].pc # "idle" /\ worker[s].job = j

-----------------------------------------------------------------------------
(* Request handlers.                                                       *)

Handler(j, from) == request[j].pc = from /\ Alive(request[j].at)
Goto(j, to) == request' = [request EXCEPT ![j].pc = to]
HandlerFails(j, stage) ==
  request' = [request EXCEPT ![j].pc = "reject", ![j].err = stage]

(* Deviation: error_stage is read after stage has been overwritten.        *)
FailedLate(r, stage) ==
  [r EXCEPT !.status = "failed", !.stage = "failed", !.errorStage = "failed",
            !.failedAt = TRUE]

Failed(r, stage) ==
  [r EXCEPT !.status = "failed", !.stage = "failed", !.errorStage = stage,
            !.failedAt = TRUE]

(* create_transcription is async and calls the service synchronously: one  *)
(* upload at a time per process.                                           *)
UploadInFlight(s) ==
  \E k \in Jobs : InFlight(k) /\ request[k].at = s /\ source[k] = NoJob

UploadBegin(s, j) ==
  /\ phase[s] = "serving"
  /\ row[j].status = "absent"
  /\ ~UploadInFlight(s)
  /\ row' = [row EXCEPT ![j] = NewRow("uploaded")]
  /\ request' = [request EXCEPT ![j] =
                   [pc |-> "store", at |-> s, err |-> NoStage]]
  /\ UNCHANGED <<audio, source, files, phase, found, queue, worker, pipelines>>

UploadStore(j) ==
  /\ Handler(j, "store")
  /\ \/ /\ files' = [files EXCEPT ![j] = @ \cup {"original"}]
        /\ Goto(j, "accept")
     \/ /\ "storage" \in Faults
        /\ \E left \in {{}} \cup {{f} : f \in Originals} :
             files' = [files EXCEPT ![j] = @ \cup left]
        /\ HandlerFails(j, "uploaded")
  /\ UNCHANGED <<row, audio, source, phase, found, queue, worker, pipelines>>

UploadAccept(j) ==
  /\ Handler(j, "accept")
  /\ \/ /\ row' = [row EXCEPT ![j].status = "queued", ![j].stage = "queued"]
        /\ Goto(j, "enqueue")
     \/ /\ "commit" \in Faults
        /\ Goto(j, "done")
        /\ UNCHANGED row
  /\ UNCHANGED <<audio, source, files, phase, found, queue, worker, pipelines>>

(* Deviations from Retryable: no look at the stored file; any known job.   *)
RetryableUnchecked(src) == row[src].status \in Terminal
RetryableActive(src) == row[src].status # "absent" /\ HasAudio(audio[src])

Retryable(src) == row[src].status \in Terminal /\ HasAudio(audio[src])

(* retry_job up to its commit; it runs in the thread pool, concurrently    *)
(* with uploads and with other retries.                                    *)
RetryBegin(s, src, j) ==
  /\ phase[s] = "serving"
  /\ Retryable(src)
  /\ row[j].status = "absent"
  /\ row' = [row EXCEPT ![j] = NewRow("queued")]
  /\ audio' = [audio EXCEPT ![j] = audio[src]]
  /\ source' = [source EXCEPT ![j] = src]
  /\ request' = [request EXCEPT ![j] =
                   [pc |-> "enqueue", at |-> s, err |-> NoStage]]
  /\ UNCHANGED <<files, phase, found, queue, worker, pipelines>>

(* Deviation: the item is submitted twice.                                 *)
EnqueuedTwice(q, j) == q \o <<j, j>>

Enqueued(q, j) == Append(q, j)

Enqueue(j) ==
  /\ Handler(j, "enqueue")
  /\ \/ /\ queue' = [queue EXCEPT ![request[j].at] = Enqueued(@, j)]
        /\ Goto(j, "done")
     \/ /\ "enqueue" \in Faults
        /\ HandlerFails(j, "queued")
        /\ UNCHANGED queue
  /\ UNCHANGED <<row, audio, source, files, phase, found, worker, pipelines>>

Reject(j) ==
  /\ Handler(j, "reject")
  /\ \/ row' = [row EXCEPT ![j] = Failed(@, request[j].err)]
     \/ "commit" \in Faults /\ UNCHANGED row
  /\ Goto(j, "done")
  /\ UNCHANGED <<audio, source, files, phase, found, queue, worker, pipelines>>

-----------------------------------------------------------------------------
(* The worker thread of server s.                                          *)

Working(s, from) == Alive(s) /\ worker[s].pc = from
Step(s, to) == worker' = [worker EXCEPT ![s].pc = to]
Raise(s, stage) ==
  worker' = [worker EXCEPT ![s].pc = "failing", ![s].err = stage]

TakeJob(s) ==
  /\ Working(s, "idle")
  /\ queue[s] # <<>>
  /\ queue' = [queue EXCEPT ![s] = Tail(@)]
  /\ worker' = [worker EXCEPT ![s] =
                  [Idle EXCEPT !.pc = "start", !.job = Head(queue[s])]]
  /\ UNCHANGED <<row, audio, source, files, phase, found, request, pipelines>>

Processing(r) ==
  [r EXCEPT !.status = "processing", !.stage = "preprocessing",
            !.errorStage = NoStage, !.failedAt = FALSE, !.completedAt = FALSE]

(* Load the job, copy its input, mark it processing and commit.  The       *)
(* status found in the row is not looked at; a truncated input is refused  *)
(* only when nothing at all was written.                                   *)
StartRun(s) ==
  LET j == worker[s].job IN
  /\ Working(s, "start")
  /\ \/ /\ HasAudio(audio[j])
        /\ row' = [row EXCEPT ![j] = Processing(@)]
        /\ Step(s, "launch")
     \/ /\ \/ "original" \notin files[audio[j]]
           \/ {"storage", "commit"} \cap Faults # {}
        /\ Raise(s, RowStage)
        /\ UNCHANGED row
  /\ UNCHANGED <<audio, source, files, phase, found, request, queue, pipelines>>

(* The commit expired the job object: it is read again here, and what it   *)
(* holds now decides which columns the final UPDATE will write.            *)
Launch(s) ==
  LET j == worker[s].job IN
  /\ Working(s, "launch")
  /\ worker' = [worker EXCEPT ![s].pc = "running",
                              ![s].sawError = row[j].failedAt]
  /\ pipelines' = pipelines \cup {j}
  /\ UNCHANGED <<row, audio, source, files, phase, found, request, queue>>

PipelineExits(s) ==
  LET j == worker[s].job IN
  /\ Working(s, "running")
  /\ pipelines' = pipelines \ {j}
  /\ \/ Step(s, "exited")
     \/ /\ "pipeline" \in Faults
        /\ \E st \in FailureStages :
             worker' = [worker EXCEPT ![s].pc = "exited", ![s].err = st]
  /\ UNCHANGED <<row, audio, source, files, phase, found, request, queue>>

StoreLog(s) ==
  LET j == worker[s].job IN
  /\ Working(s, "exited")
  /\ \/ /\ files' = [files EXCEPT ![j] = @ \cup {"log"}]
        /\ Step(s, IF worker[s].err = NoStage THEN "storing" ELSE "failing")
     \/ /\ "storage" \in Faults
        /\ Raise(s, RowStage)
        /\ UNCHANGED files
  /\ UNCHANGED <<row, audio, source, phase, found, request, queue, pipelines>>

Missing(j) == Artifacts \ files[j]

(* Deviation: published without checking the required artifacts.           *)
AnyArtifact(j, a) == a \in Missing(j)

LastArtifact(j, a) == Missing(j) = {a}

StoreArtifact(s, a) ==
  LET j == worker[s].job IN
  /\ Working(s, "storing")
  /\ a \in Missing(j)
  /\ files' = [files EXCEPT ![j] = @ \cup {a}]
  /\ Step(s, IF LastArtifact(j, a) THEN "publish" ELSE "storing")
  /\ UNCHANGED <<row, audio, source, phase, found, request, queue, pipelines>>

(* An artifact is missing, empty or outside the output directory, or its   *)
(* storage write raises.                                                   *)
StoreArtifactFails(s) ==
  /\ Working(s, "storing")
  /\ \/ "storage" \in Faults /\ Raise(s, RowStage)
     \/ "pipeline" \in Faults /\ \E st \in FailureStages : Raise(s, st)
  /\ UNCHANGED <<row, audio, source, files, phase, found, request, queue,
                 pipelines>>

(* The final UPDATE of the run.  A column whose new value equals the value *)
(* read at Launch is left out of it: with no error seen then, an error     *)
(* written by another process in between stays in the row.                 *)
Completed(r, sawError) ==
  [r EXCEPT !.status = "completed", !.stage = "completed",
            !.completedAt = TRUE, !.exports = TRUE,
            !.errorStage = IF sawError THEN NoStage ELSE @,
            !.failedAt = IF sawError THEN FALSE ELSE @]

Publish(s) ==
  LET j == worker[s].job IN
  /\ Working(s, "publish")
  /\ \/ /\ row' = [row EXCEPT ![j] = Completed(@, worker[s].sawError)]
        /\ worker' = [worker EXCEPT ![s] = Idle]
     \/ /\ {"storage", "commit"} \cap Faults # {}
        /\ Raise(s, RowStage)
        /\ UNCHANGED row
  /\ UNCHANGED <<audio, source, files, phase, found, request, queue, pipelines>>

(* Deviation: an exception without error_stage is not given the row's.     *)
UnresolvedStage(s) == worker[s].err

ErrorStage(s) ==
  IF worker[s].err = RowStage THEN row[worker[s].job].stage ELSE worker[s].err

MarkFailed(s) ==
  LET j == worker[s].job IN
  /\ Working(s, "failing")
  /\ \/ row' = [row EXCEPT ![j] = Failed(@, ErrorStage(s))]
     \/ "commit" \in Faults /\ UNCHANGED row
  /\ worker' = [worker EXCEPT ![s] = Idle]
  /\ UNCHANGED <<audio, source, files, phase, found, request, queue, pipelines>>

-----------------------------------------------------------------------------
(* Server processes.                                                       *)

(* Deviation: recovery looks for the wrong rows.                           *)
StaleQueued(j) == row[j].status = "queued"

Stale(j) == row[j].status = "processing"

(* Deviation: a start does not wait for the graceful stop to end.          *)
PredecessorStopping(t) == phase[t] \in {"draining", "dead"}

PredecessorGone(t) ==
  phase[t] = "dead" \/ ("overlap" \in Faults /\ phase[t] = "draining")

(* A new incarnation starts when the earlier ones are gone, or, when       *)
(* processes may overlap, no longer serve.  Its first act is to read the   *)
(* rows that are processing.                                               *)
StartServer(s) ==
  /\ phase[s] = "off"
  /\ \A t \in 1..(s - 1) : PredecessorGone(t)
  /\ phase' = [phase EXCEPT ![s] = "recovering"]
  /\ found' = [found EXCEPT ![s] = {j \in Jobs : Stale(j)}]
  /\ UNCHANGED <<row, audio, source, files, request, queue, worker, pipelines>>

(* Deviation: error_stage is read after stage has been overwritten.        *)
InterruptedLate(r) ==
  [r EXCEPT !.status = "interrupted", !.stage = "failed",
            !.errorStage = "failed", !.failedAt = TRUE]

(* Every row in found[s] had stage "preprocessing" and no completed_at     *)
(* when it was read; completed_at is therefore not among the columns the   *)
(* UPDATE writes.                                                          *)
Interrupted(r) ==
  [r EXCEPT !.status = "interrupted", !.stage = "failed",
            !.errorStage = "preprocessing", !.failedAt = TRUE]

Recover(s) ==
  /\ phase[s] = "recovering"
  /\ \/ row' = [j \in Jobs |->
                  IF j \in found[s] THEN Interrupted(row[j]) ELSE row[j]]
     \/ "recovery" \in Faults /\ UNCHANGED row
  /\ phase' = [phase EXCEPT ![s] = "serving"]
  /\ found' = [found EXCEPT ![s] = {}]
  /\ UNCHANGED <<audio, source, files, request, queue, worker, pipelines>>

(* A graceful stop takes no new requests, lets the ones in flight finish   *)
(* and runs the executor's queue to its end before the process exits.      *)
Drain(s) ==
  /\ phase[s] = "serving"
  /\ phase' = [phase EXCEPT ![s] = "draining"]
  /\ UNCHANGED <<row, audio, source, files, found, request, queue, worker,
                 pipelines>>

NoRequestsAt(s) == \A j \in Jobs : request[j].at = s => ~InFlight(j)

(* Deviation: pending work items are cancelled at exit.                    *)
DrainedButQueue(s) == worker[s].pc = "idle" /\ NoRequestsAt(s)

(* Deviation: the process exits beside a run.                              *)
DrainedButRun(s) == queue[s] = <<>> /\ NoRequestsAt(s)

Drained(s) == queue[s] = <<>> /\ worker[s].pc = "idle" /\ NoRequestsAt(s)

DrainEnds(s) ==
  /\ phase[s] = "draining"
  /\ Drained(s)
  /\ phase' = [phase EXCEPT ![s] = "dead"]
  /\ UNCHANGED <<row, audio, source, files, found, request, queue, worker,
                 pipelines>>

(* The process is killed: whatever it held in memory is gone; a pipeline   *)
(* subprocess survives as an orphan.                                       *)
Crash(s) ==
  /\ "crash" \in Faults
  /\ phase[s] \in {"recovering", "serving", "draining"}
  /\ phase' = [phase EXCEPT ![s] = "dead"]
  /\ found' = [found EXCEPT ![s] = {}]
  /\ queue' = [queue EXCEPT ![s] = <<>>]
  /\ worker' = [worker EXCEPT ![s] = Idle]
  /\ request' = [j \in Jobs |-> IF request[j].at = s /\ InFlight(j)
                                THEN [request[j] EXCEPT !.pc = "done"]
                                ELSE request[j]]
  /\ UNCHANGED <<row, audio, source, files, pipelines>>

OrphanExits(j) ==
  /\ j \in pipelines
  /\ \A s \in Servers : ~(worker[s].pc = "running" /\ worker[s].job = j)
  /\ pipelines' = pipelines \ {j}
  /\ UNCHANGED <<row, audio, source, files, phase, found, request, queue, worker>>

-----------------------------------------------------------------------------
RequestStep(j) == UploadStore(j) \/ UploadAccept(j) \/ Enqueue(j) \/ Reject(j)

WorkerStep(s) ==
  \/ TakeJob(s) \/ StartRun(s) \/ Launch(s) \/ PipelineExits(s) \/ StoreLog(s)
  \/ \E a \in Artifacts : StoreArtifact(s, a)
  \/ StoreArtifactFails(s) \/ Publish(s) \/ MarkFailed(s)

ServerStep(s) ==
  StartServer(s) \/ Recover(s) \/ Drain(s) \/ DrainEnds(s) \/ Crash(s)

Next ==
  \/ \E s \in Servers, j \in Jobs : UploadBegin(s, j)
  \/ \E s \in Servers, src, j \in Jobs : RetryBegin(s, src, j)
  \/ \E j \in Jobs : RequestStep(j) \/ OrphanExits(j)
  \/ \E s \in Servers : WorkerStep(s) \/ ServerStep(s)

Spec == Init /\ [][Next]_vars

(* A handler, the worker thread and the startup sequence run on their own; *)
(* a pipeline subprocess ends because subprocess.run has a timeout.  Users *)
(* upload, retry, start and stop as they like: no fairness for those.      *)
Fairness ==
  /\ \A j \in Jobs : WF_vars(RequestStep(j))
  /\ \A s \in Servers : WF_vars(WorkerStep(s)) /\ WF_vars(Recover(s))

FairSpec == Spec /\ Fairness

-----------------------------------------------------------------------------
(* Safety.  Each property names the faults it tolerates; the runs and the  *)
(* theorems choose Faults accordingly.                                     *)

(* Every fault.  A job reads "completed" only when every artifact, the     *)
(* pipeline log and the audio it came from are in storage and its exports  *)
(* are published: files are stored before the one commit that publishes.   *)
PublishedWhole ==
  \A j \in Jobs : row[j].status = "completed" =>
    /\ row[j].exports /\ row[j].completedAt
    /\ Artifacts \cup {"log"} \subseteq files[j]
    /\ HasAudio(audio[j])

(* Every fault.  No row is ever offered to the worker before its audio is  *)
(* stored: the upload commits "queued" after the write and a retry checks  *)
(* the file of the audio it shares.  Only a retry of a failed upload can   *)
(* run on a truncated original: the check asks whether the file exists.    *)
AudioBeforeQueue ==
  \A j \in Jobs :
    row[j].status \in {"queued", "processing", "completed", "interrupted"} =>
      \/ "original" \in files[audio[j]]
      \/ /\ "truncated" \in files[audio[j]]
         /\ source[j] # NoJob /\ row[audio[j]].status = "failed"

(* Every fault.  A retry is a new job beside a finished one: its source    *)
(* has ended, and still has, and both work from the same audio.            *)
RetriesFollowFinishedJobs ==
  \A j \in Jobs : source[j] # NoJob =>
    /\ row[source[j]].status \in Terminal
    /\ audio[j] = audio[source[j]]

(* Every fault but "overlap".  The error columns are set on failed and     *)
(* interrupted jobs and on no other, and name a stage in which work was    *)
(* being done.                                                             *)
ErrorsMatchOutcome ==
  \A j \in Jobs : LET r == row[j] IN
    /\ r.errorStage # NoStage <=> r.status \in {"failed", "interrupted"}
    /\ r.failedAt <=> r.errorStage # NoStage
    /\ r.errorStage \notin {"failed", "completed"}

Elements(q) == {q[i] : i \in DOMAIN q}

HeldByWorker(j) == \E s \in Servers : Alive(s) /\ Holds(s, j)

Held(j) ==
  \/ InFlight(j) /\ Alive(request[j].at)
  \/ HeldByWorker(j)
  \/ \E s \in Servers : Alive(s) /\ j \in Elements(queue[s])

(* Without "overlap", "commit" and "recovery", kills included.  While a    *)
(* server serves, a row that reads "processing" is really being worked on: *)
(* recovery has cleared what its predecessors left.                        *)
NoZombieProcessing ==
  (\E s \in Servers : phase[s] = "serving") =>
    \A j \in Jobs : row[j].status = "processing" => HeldByWorker(j)

(* Every fault.  Processing is entered from "queued" alone, although the   *)
(* runner does not look at the status: no job is ever run twice.           *)
StartsOnlyFromQueued ==
  [][\A j \in Jobs :
       row[j].status # "processing" /\ row'[j].status = "processing" =>
         row[j].status = "queued"]_vars

(* Every fault but "overlap".  A job that has ended never changes again,   *)
(* neither its row nor its files; in particular a retry leaves the job it  *)
(* retries alone.                                                          *)
TerminalIsFinal ==
  [][\A j \in Jobs : row[j].status \in Terminal =>
       row'[j] = row[j] /\ files'[j] = files[j]]_vars

-----------------------------------------------------------------------------
(* Liveness, of FairSpec.                                                  *)

(* Without "overlap", "commit" and "recovery", kills included.  No job     *)
(* stays "processing" while the application is run: it ends, is marked     *)
(* interrupted at the next start, or no server runs any more.              *)
ProcessingResolves ==
  \A j \in Jobs : row[j].status = "processing" ~>
    \/ row[j].status \in Terminal
    \/ \A s \in Servers : phase[s] \in {"off", "dead"}
=============================================================================
