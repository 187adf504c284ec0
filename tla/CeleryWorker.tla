---------------------------- MODULE CeleryWorker ----------------------------
(***************************************************************************)
(* The optional server mode of GrooveScribe: the API hands a job to a      *)
(* Celery broker, worker processes take messages and run the pipeline in   *)
(* one PostgreSQL transaction (READ COMMITTED) that only the last step     *)
(* commits, and an error boundary records a failure in a transaction of    *)
(* its own.                                                                *)
(*                                                                         *)
(* Reads take no lock.  The first UPDATE of a row takes its row lock and   *)
(* keeps it until the transaction ends; an UPDATE of a locked row waits    *)
(* and then changes the newest committed version.                          *)
(***************************************************************************)
EXTENDS Integers, Sequences

CONSTANTS
  Jobs,        (* the jobs that the API submits                             *)
  Workers,     (* worker processes, each executing one task at a time       *)
  None,        (* no worker holds the row, no job is being executed         *)
  MaxCopies,   (* bound: copies of one message waiting in the broker        *)
  Faults       (* the faults that are admitted                              *)

FaultKinds ==
  { "send",        \* send_task raises, before or after the broker has it
    "redelivery",  \* a reserved message is delivered to a worker once more
    "stage",       \* a stage or the publication raises, the session intact
    "commit",      \* the database refuses the commit of a run
    "storage",     \* a log file cannot be written
    "timeout",     \* the soft time limit raises in the running task
    "crash" }      \* a worker process is killed

ASSUME WorkerAssumption ==
  /\ MaxCopies \in Nat
  /\ Faults \subseteq FaultKinds
  /\ None \notin Workers
  /\ None \notin Jobs

VARIABLES
  row,      (* [Jobs -> Row]: the committed transcription_jobs rows         *)
  lock,     (* lock[j]: the worker whose transaction has updated row j      *)
  copies,   (* copies[j]: messages for j that the broker will deliver       *)
  api,      (* api[j]: where the upload handler of j is                     *)
  task,     (* task[w]: the task that worker w executes                     *)
  logged    (* the jobs that have logs/pipeline.json                        *)

vars == <<row, lock, copies, api, task, logged>>

PipelineOrder ==
  << "preprocessing", "source_separation", "stem_validation",
     "drum_transcription", "midi_post_processing", "notation_generation",
     "pdf_export" >>

PipelineStages == {PipelineOrder[i] : i \in 1..Len(PipelineOrder)}

Statuses == {"absent", "uploaded", "queued", "processing", "completed", "failed"}
Ended == {"completed", "failed"}
Stages == PipelineStages \cup Statuses
NoError == "none"

(* Stages without an entry in the table report PIPELINE_FAILED.            *)
StageErrors ==
  { <<"source_separation", "SOURCE_SEPARATION_FAILED">>,
    <<"drum_transcription", "DRUM_TRANSCRIPTION_FAILED">>,
    <<"midi_post_processing", "MIDI_POST_PROCESSING_FAILED">>,
    <<"notation_generation", "NOTATION_GENERATION_FAILED">>,
    <<"pdf_export", "PDF_EXPORT_FAILED">> }

StageError(s) ==
  IF \E e \in StageErrors : e[1] = s
  THEN (CHOOSE e \in StageErrors : e[1] = s)[2]
  ELSE "PIPELINE_FAILED"

Codes == {e[2] : e \in StageErrors} \cup
  {"PIPELINE_FAILED", "WORKER_TIMEOUT", "INVALID_JOB_STATE_TRANSITION",
   "QUEUE_ENQUEUE_FAILED", NoError}

Row == [status : Statuses, stage : Stages, error : Codes,
        errorStage : Stages, published : BOOLEAN]

NewRow(status) == [status |-> status, stage |-> status, error |-> NoError,
                   errorStage |-> "absent", published |-> FALSE]

NoRow == NewRow("absent")

(* view is the version of the row that the task's transaction has written. *)
Idle == [pc |-> "idle", job |-> None, view |-> NoRow, err |-> NoError,
         stage |-> "absent", claimed |-> FALSE, late |-> FALSE]

InTransaction == {"stage", "finish", "commit"}
InRun == {"load", "claim", "report"} \cup InTransaction
InHandler == {"handle", "read", "write"}

(* What is raised in a task, as far as the error boundary tells it apart.  *)
Raised == {"transition", "timeout", "stage", NoError}

Task == [pc : {"idle"} \cup InRun \cup InHandler, job : Jobs \cup {None},
         view : Row, err : Raised, stage : Stages, claimed : BOOLEAN,
         late : BOOLEAN]

TypeOK ==
  /\ row \in [Jobs -> Row]
  /\ lock \in [Jobs -> Workers \cup {None}]
  /\ copies \in [Jobs -> Nat]
  /\ api \in [Jobs -> {"none", "store", "send", "reject", "done"}]
  /\ task \in [Workers -> Task]
  /\ logged \subseteq Jobs

Init ==
  /\ row = [j \in Jobs |-> NoRow]
  /\ lock = [j \in Jobs |-> None]
  /\ copies = [j \in Jobs |-> 0]
  /\ api = [j \in Jobs |-> "none"]
  /\ task = [w \in Workers |-> Idle]
  /\ logged = {}

-----------------------------------------------------------------------------
(* The API.                                                                *)

Failed(r, code, stage) ==
  [r EXCEPT !.status = "failed", !.stage = "failed", !.error = code,
            !.errorStage = stage]

Upload(j) ==
  /\ api[j] = "none"
  /\ api' = [api EXCEPT ![j] = "store"]
  /\ row' = [row EXCEPT ![j] = NewRow("uploaded")]
  /\ UNCHANGED <<lock, copies, task, logged>>

(* The row is committed as queued before the message is sent.              *)
Accept(j) ==
  /\ api[j] = "store"
  /\ api' = [api EXCEPT ![j] = "send"]
  /\ row' = [row EXCEPT ![j] = NewRow("queued")]
  /\ UNCHANGED <<lock, copies, task, logged>>

(* Deviation: an exception of send_task is swallowed.                      *)
SendUnchecked(j) ==
  /\ api[j] = "send"
  /\ api' = [api EXCEPT ![j] = "done"]
  /\ \/ copies' = [copies EXCEPT ![j] = @ + 1]
     \/ "send" \in Faults /\ UNCHANGED copies
  /\ UNCHANGED <<row, lock, task, logged>>

Send(j) ==
  /\ api[j] = "send"
  /\ \/ /\ api' = [api EXCEPT ![j] = "done"]
        /\ copies' = [copies EXCEPT ![j] = @ + 1]
     \/ /\ "send" \in Faults
        /\ api' = [api EXCEPT ![j] = "reject"]
        /\ \E delivered \in {0, 1} : copies' = [copies EXCEPT ![j] = @ + delivered]
  /\ UNCHANGED <<row, lock, task, logged>>

(* Marks the job failed whatever its status is by then.                    *)
Reject(j) ==
  /\ api[j] = "reject"
  /\ lock[j] = None
  /\ api' = [api EXCEPT ![j] = "done"]
  /\ row' = [row EXCEPT ![j] = Failed(@, "QUEUE_ENQUEUE_FAILED", "queued")]
  /\ UNCHANGED <<lock, copies, task, logged>>

-----------------------------------------------------------------------------
(* The broker, external: a message is acknowledged when its task starts;   *)
(* one that waits longer than the visibility timeout, reserved by a busy   *)
(* worker, is delivered again.                                             *)

Receive(w, j) ==
  /\ task[w].pc = "idle"
  /\ copies[j] > 0
  /\ copies' = [copies EXCEPT ![j] = @ - 1]
  /\ task' = [task EXCEPT ![w] = [Idle EXCEPT !.pc = "load", !.job = j]]
  /\ UNCHANGED <<row, lock, api, logged>>

Redeliver(j) ==
  /\ "redelivery" \in Faults
  /\ copies[j] \in 1..(MaxCopies - 1)
  /\ copies' = [copies EXCEPT ![j] = @ + 1]
  /\ UNCHANGED <<row, lock, api, task, logged>>

-----------------------------------------------------------------------------
(* run_transcription_job: the run.                                         *)

At(w, pc) == task[w].pc = pc

Goto(w, pc) == task' = [task EXCEPT ![w].pc = pc]

Raise(w, err) ==
  task' = [task EXCEPT ![w].pc = "handle", ![w].err = err]

Unlocked(w) == [j \in Jobs |-> IF lock[j] = w THEN None ELSE lock[j]]

(* _load_job_input and the read of mark_processing.                        *)
Load(w) ==
  /\ At(w, "load")
  /\ IF row[task[w].job].status = "queued" THEN Goto(w, "claim")
                                           ELSE Raise(w, "transition")
  /\ UNCHANGED <<row, lock, copies, api, logged>>

(* Deviation: the claim is a transaction of its own.                       *)
ClaimCommitted(w) ==
  LET claimed == [row[task[w].job] EXCEPT !.status = "processing",
                                          !.stage = PipelineOrder[1]] IN
  /\ At(w, "claim")
  /\ lock[task[w].job] = None
  /\ row' = [row EXCEPT ![task[w].job] = claimed]
  /\ task' = [task EXCEPT ![w].pc = "stage", ![w].claimed = TRUE,
                          ![w].view = claimed]
  /\ UNCHANGED <<lock, copies, api, logged>>

(* The update of mark_processing, which does not repeat the check, and the *)
(* first update_stage.                                                     *)
Claim(w) ==
  LET j == task[w].job IN
  /\ At(w, "claim")
  /\ lock[j] = None
  /\ lock' = [lock EXCEPT ![j] = w]
  /\ task' = [task EXCEPT
       ![w].pc = "stage", ![w].claimed = TRUE,
       ![w].view = [row[j] EXCEPT !.status = "processing",
                                  !.stage = PipelineOrder[1]]]
  /\ UNCHANGED <<row, copies, api, logged>>

(* A stage ends and update_stage enters the next one.                      *)
Stage(w) ==
  /\ At(w, "stage")
  /\ \E i \in 1..Len(PipelineOrder) :
       /\ task[w].view.stage = PipelineOrder[i]
       /\ IF i = Len(PipelineOrder)
          THEN Goto(w, "finish")
          ELSE task' = [task EXCEPT ![w].view.stage = PipelineOrder[i + 1]]
  /\ UNCHANGED <<row, lock, copies, api, logged>>

(* Deviation: the job is marked completed without its metadata.            *)
FinishUnpublished(w) ==
  /\ At(w, "finish")
  /\ logged' = logged \cup {task[w].job}
  /\ task' = [task EXCEPT ![w].pc = "commit", ![w].view.status = "completed",
                          ![w].view.stage = "completed"]
  /\ UNCHANGED <<row, lock, copies, api>>

(* _write_mock_metadata, the pipeline log, mark_completed.                 *)
Finish(w) ==
  /\ At(w, "finish")
  /\ logged' = logged \cup {task[w].job}
  /\ task' = [task EXCEPT
       ![w].pc = "commit",
       ![w].view = [@ EXCEPT !.status = "completed", !.stage = "completed",
                             !.error = NoError, !.errorStage = "absent",
                             !.published = TRUE]]
  /\ UNCHANGED <<row, lock, copies, api>>

Commit(w) ==
  /\ At(w, "commit")
  /\ row' = [row EXCEPT ![task[w].job] = task[w].view]
  /\ lock' = Unlocked(w)
  /\ Goto(w, "report")
  /\ UNCHANGED <<copies, api, logged>>

Report(w) ==
  /\ At(w, "report")
  /\ task' = [task EXCEPT ![w] = Idle]
  /\ UNCHANGED <<row, lock, copies, api, logged>>

(* The run writes what log it has before it raises on; if that fails too,  *)
(* its own exception replaces the first one.                               *)
LogsOnError(w, err, raised) ==
  \/ raised = err /\ logged' = logged \cup {task[w].job}
  \/ "storage" \in Faults /\ raised = "stage" /\ UNCHANGED logged

StageFails(w) ==
  /\ "stage" \in Faults
  /\ task[w].pc \in {"stage", "finish"}
  /\ LogsOnError(w, "stage", "stage")
  /\ Raise(w, "stage")
  /\ UNCHANGED <<row, lock, copies, api>>

-----------------------------------------------------------------------------
(* run_transcription_job: the error boundary.                              *)

(* Deviation: the stage is read after the rollback.                        *)
HandleLate(w) ==
  /\ At(w, "handle")
  /\ task' = [task EXCEPT ![w].pc = "read", ![w].view = NoRow,
                          ![w].stage = row[task[w].job].stage]
  /\ lock' = Unlocked(w)
  /\ logged' = logged \cup {task[w].job}
  /\ UNCHANGED <<row, copies, api>>

(* Deviation: the failed transaction is not rolled back.                   *)
HandleOpen(w) ==
  /\ At(w, "handle")
  /\ task' = [task EXCEPT ![w].pc = "read", ![w].stage = task[w].view.stage]
  /\ logged' = logged \cup {task[w].job}
  /\ UNCHANGED <<row, lock, copies, api>>

(* The stage is read in the transaction that is then rolled back; a log    *)
(* that exists is kept.                                                    *)
Handle(w) ==
  LET t == task[w] IN
  /\ At(w, "handle")
  /\ task' = [task EXCEPT ![w].pc = "read", ![w].view = NoRow,
       ![w].stage = IF lock[t.job] = w THEN t.view.stage ELSE row[t.job].stage]
  /\ lock' = Unlocked(w)
  /\ logged' = logged \cup {t.job}
  /\ UNCHANGED <<row, copies, api>>

(* An exception nobody catches, or a kill: the transaction is rolled back, *)
(* the message has been acknowledged already.                              *)
Die(w) ==
  /\ task' = [task EXCEPT ![w] = Idle]
  /\ lock' = Unlocked(w)
  /\ UNCHANGED <<row, copies, api, logged>>

(* A refused commit leaves a session that accepts no statement until it is *)
(* rolled back.  The boundary reads the stage before its rollback: that    *)
(* read raises, in the handler, where nothing catches it.                  *)
CommitFails(w) ==
  /\ "commit" \in Faults
  /\ At(w, "commit")
  /\ Die(w)

LogFails(w) ==
  /\ "storage" \in Faults
  /\ At(w, "handle")
  /\ task[w].job \notin logged
  /\ Die(w)

(* Deviation: a completed job may be marked failed.                        *)
MarkFailedUnchecked(w) ==
  /\ At(w, "read")
  /\ Goto(w, "write")
  /\ UNCHANGED <<row, lock, copies, api, logged>>

(* The read of mark_failed; its exception is not caught.                   *)
MarkFailedRead(w) ==
  /\ At(w, "read")
  /\ IF row[task[w].job].status = "completed"
     THEN Die(w)
     ELSE Goto(w, "write") /\ UNCHANGED <<row, lock, copies, api, logged>>

(* Deviation: an exception without a code of its own keeps its name.       *)
ErrorCodeUnmapped(t) == t.err

(* map_exception_to_worker_error                                           *)
ErrorCode(t) ==
  CASE t.err = "timeout"    -> "WORKER_TIMEOUT"
    [] t.err = "transition" -> "INVALID_JOB_STATE_TRANSITION"
    [] OTHER                -> StageError(t.stage)

(* The update of mark_failed and its commit.                               *)
MarkFailedWrite(w) ==
  LET t == task[w] IN
  /\ At(w, "write")
  /\ lock[t.job] = None
  /\ row' = [row EXCEPT ![t.job] = Failed(@, ErrorCode(t), t.stage)]
  /\ task' = [task EXCEPT ![w] = Idle]
  /\ UNCHANGED <<lock, copies, api, logged>>

-----------------------------------------------------------------------------
(* The soft time limit raises once, anywhere in the task.  In the run the  *)
(* error boundary catches it; in the boundary itself nothing does, and an  *)
(* interrupted wait for the row, or an interrupted commit, can leave the   *)
(* session unusable to it.                                                 *)
Timeout(w) ==
  /\ "timeout" \in Faults
  /\ ~task[w].late
  /\ \/ /\ task[w].pc \in InRun
        /\ \E raised \in {"timeout", "stage"} :
             /\ task' = [task EXCEPT ![w].pc = "handle", ![w].err = raised,
                                     ![w].late = TRUE]
             /\ IF task[w].pc \in {"stage", "finish"}
                THEN LogsOnError(w, "timeout", raised)
                ELSE raised = "timeout" /\ UNCHANGED logged
        /\ UNCHANGED <<row, lock, copies, api>>
     \/ task[w].pc \in InHandler \cup {"claim", "commit"} /\ Die(w)

Crash(w) ==
  /\ "crash" \in Faults
  /\ task[w].pc # "idle"
  /\ Die(w)

ApiStep(j) == Upload(j) \/ Accept(j) \/ Send(j) \/ Reject(j)

RunStep(w) ==
  \/ Load(w) \/ Claim(w) \/ Stage(w) \/ Finish(w) \/ Commit(w) \/ Report(w)
  \/ Handle(w) \/ MarkFailedRead(w) \/ MarkFailedWrite(w)

TaskFault(w) ==
  StageFails(w) \/ CommitFails(w) \/ LogFails(w) \/ Timeout(w) \/ Crash(w)

Next ==
  \/ \E j \in Jobs : ApiStep(j) \/ Redeliver(j)
  \/ \E w \in Workers, j \in Jobs : Receive(w, j)
  \/ \E w \in Workers : RunStep(w) \/ TaskFault(w)

Spec == Init /\ [][Next]_vars

(* Handlers and tasks keep running; the broker delivers what it holds to   *)
(* an idle worker.                                                         *)
Fairness ==
  /\ \A j \in Jobs : WF_vars(ApiStep(j))
  /\ \A w \in Workers : WF_vars(RunStep(w))
  /\ \A w \in Workers : WF_vars(\E j \in Jobs : Receive(w, j))

FairSpec == Spec /\ Fairness

-----------------------------------------------------------------------------
(* At most one run of a job is past its claim, whatever is delivered twice *)
(* and whatever fails: the row lock serialises the pipelines of a job.     *)
OneRunPerJob ==
  \A v, w \in Workers :
    /\ task[v].pc \in InTransaction
    /\ task[w].pc \in InTransaction
    /\ task[v].job = task[w].job
    => v = w

(* A job that users see as completed has its drum track and its exports.   *)
CompletedIsPublished ==
  \A j \in Jobs : row[j].status = "completed" => row[j].published

(* With one message per job, and sends that fail cleanly, no step of API,  *)
(* worker, timeout or kill changes a job that has ended.                   *)
EndedIsFinal ==
  [][\A j \in Jobs : row[j].status \in Ended => row'[j] = row[j]]_vars

(* With one message per job a failed row names the stage that failed, with *)
(* the code of that stage: the stage survives the rollback that erases it  *)
(* from the row, and no failure is reported as a refused transition.       *)
FailureNamesItsStage ==
  \A j \in Jobs :
    row[j].status = "failed" =>
      IF row[j].error = "WORKER_TIMEOUT"
      THEN row[j].errorStage \in PipelineStages \cup {"queued", "completed"}
      ELSE /\ row[j].errorStage \in PipelineStages
           /\ row[j].error = StageError(row[j].errorStage)

-----------------------------------------------------------------------------
(* What the proofs need beside TypeOK.                                     *)

WorkersHaveJobs == \A w \in Workers : task[w].pc # "idle" => task[w].job \in Jobs

TransactionsHoldLocks ==
  \A w \in Workers : task[w].pc \in InTransaction => lock[task[w].job] = w

CommitsPublish ==
  \A w \in Workers :
    At(w, "commit") => task[w].view.status = "completed" /\ task[w].view.published

ExactlyOnce == {"send", "redelivery"} \cap Faults = {}

TaskOf(w, j) == task[w].pc # "idle" /\ task[w].job = j

(* A job is with its upload handler, or waits in the broker, or is the job *)
(* of one task, or is left alone.                                          *)
OnePlace ==
  \A j \in Jobs :
    /\ api[j] # "reject" /\ copies[j] \in {0, 1}
    /\ api[j] # "done" => copies[j] = 0 /\ \A w \in Workers : ~TaskOf(w, j)
    /\ copies[j] = 1 => \A w \in Workers : ~TaskOf(w, j)
    /\ \A v, w \in Workers : TaskOf(v, j) /\ TaskOf(w, j) => v = w

(* A job that has ended is in no place that still writes its row.          *)
EndedAtRest ==
  \A j \in Jobs :
    row[j].status \in Ended =>
      /\ api[j] = "done"
      /\ copies[j] = 0
      /\ \A w \in Workers :
           TaskOf(w, j) => /\ row[j].status = "completed"
                           /\ task[w].pc \in {"report", "handle", "read"}

LockInv == WorkersHaveJobs /\ TransactionsHoldLocks /\ CommitsPublish
OnceInv == OnePlace /\ EndedAtRest

-----------------------------------------------------------------------------
(* A rule that the job specification states and the worker does not keep:  *)
(* no transition leads out of completed.                                   *)
CompletedStaysCompleted ==
  [][\A j \in Jobs : row[j].status = "completed" =>
       row'[j].status = "completed"]_vars
=============================================================================
