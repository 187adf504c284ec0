----------------------------- MODULE PipelineRun -----------------------------
(***************************************************************************)
(* One run of the pipeline seen from inside: the AI child process with its *)
(* five stages and the log it rewrites after each, the backend runner that *)
(* waits for it, reads the log, stores log and artifacts and publishes     *)
(* them; PipelineReads says what the server then answers.  Beside it runs  *)
(* the script that removes job directories without a row.  The queue       *)
(* around a run is JobLifecycle's subject; here there is one worker, and   *)
(* the jobs are an upload (First), its retries and theirs, which share its *)
(* audio row.                                                              *)
(* A job id is run at most once, so a directory has one writer.            *)
(***************************************************************************)
EXTENDS Integers, Sequences, FiniteSets

CONSTANTS
  Jobs, First,  (* the job ids, and the one the upload draws               *)
  NoJob,        (* no job: an idle worker, an audio row not normalized     *)
  Faults,       (* the faults admitted                                     *)
  ExportPdf,    (* pipeline_export_pdf                                     *)
  Partial,      (* bound: the stages that may leave a side output out      *)
  RemovalOrder, (* the order in which rmtree takes what lies under a job   *)
  MaxKills,     (* bound: how often the server process is killed           *)
  MaxSweeps     (* bound: how often the clean-up script is run             *)

FaultKinds ==
  { "launch",   \* the interpreter of the AI runtime is not found
    "timeout",  \* the child outlives pipeline_timeout_seconds
    "child",    \* the child is killed, possibly while it writes its log
    "storage",  \* storing an artifact or a log raises, which may leave the
                \* stored log torn
    "commit" }  \* the commit of a completed run raises

(* What lies under jobs/<id>; "artifacts" stands for the directories audio,*)
(* stems, midi, notation and exports.                                      *)
Parts == {"original", "pipeline-work", "artifacts", "logs"}

ASSUME PipelineAssumption ==
  /\ First \in Jobs /\ NoJob \notin Jobs
  /\ Faults \subseteq FaultKinds /\ Partial \subseteq {2, 5}
  /\ RemovalOrder \in Seq(Parts)
  /\ \A part \in Parts : \E i \in DOMAIN RemovalOrder : RemovalOrder[i] = part
  /\ ExportPdf \in BOOLEAN /\ MaxKills \in Nat /\ MaxSweeps \in Nat

Stage == 1..5
BackendStage == <<"preprocessing", "source_separation", "drum_transcription",
                  "midi_post_processing", "notation_generation">>
StageCode == <<"AUDIO_DECODE_FAILED", "SOURCE_SEPARATION_FAILED",
               "DRUM_TRANSCRIPTION_FAILED", "MIDI_POST_PROCESSING_FAILED",
               "NOTATION_GENERATION_FAILED">>

(* What a stage makes of the outcome of its tool: "broken" is a tool that  *)
(* is missing, runs into its own timeout, exits with an error or leaves no *)
(* usable main output; "partial" is one that leaves a side output out.     *)
Outcomes(s) == {"ok", "broken"} \cup (IF s \in Partial THEN {"partial"} ELSE {})
Raises == {"raises"}

Normalize(o) == IF o = "broken" THEN Raises ELSE {"normalized_audio"}
Separate(o) ==
  IF o = "broken" THEN Raises
  ELSE {"drums_stem"} \cup (IF o = "ok" THEN {"accompaniment_stem"} ELSE {})
Transcribe(o) == IF o = "broken" THEN Raises ELSE {"raw_midi"}
PostProcess(o) == IF o = "broken" THEN Raises ELSE {"processed_midi", "drum_events"}

(* The renderer needs both its calls to succeed, and never raises.         *)
Rendered(o) == IF ExportPdf /\ o = "ok" THEN {"pdf"} ELSE {}
Notate(o) ==
  IF o = "broken" THEN Raises
  ELSE {"musicxml", "performance_midi", "chart_events"} \cup Rendered(o)

StageResult(s, o) ==
  CASE s = 1 -> Normalize(o) [] s = 2 -> Separate(o) [] s = 3 -> Transcribe(o)
    [] s = 4 -> PostProcess(o) [] s = 5 -> Notate(o)

Outputs(s) == StageResult(s, "ok")
Required == {"normalized_audio", "drums_stem", "raw_midi", "processed_midi",
             "drum_events", "musicxml"}
Artifacts == UNION {Outputs(s) : s \in Stage}

(* The order in which they are stored, in groups that are one step here.   *)
PutOrder == <<{"normalized_audio", "drums_stem", "accompaniment_stem"},
              {"raw_midi", "processed_midi", "performance_midi"},
              {"drum_events", "chart_events"}, {"musicxml", "pdf"}>>

VARIABLES
  row,        (* [Jobs -> status, error code and error stage]               *)
  source,     (* source[j]: the job that j repeats                          *)
  normalized, (* the job whose file the shared audio row names              *)
  exports,    (* exports[j]: the export rows of j that are available        *)
  original,   (* the original lies under jobs/<First>/original              *)
  dirs,       (* the jobs that have a directory under jobs/                 *)
  stored,     (* stored[j]: the artifacts stored for j                      *)
  slog,       (* slog[j]: the stored pipeline log of j                      *)
  request,    (* where the upload handler of First is                       *)
  waiting,    (* the jobs in the memory of the queue                        *)
  up,         (* the server process is up                                   *)
  w,          (* the worker thread, the child it waits for and the          *)
              (* workspace of its job, which no other run reads             *)
  sweep,      (* the clean-up script                                        *)
  broke,      (* history, broke[j]: what went wrong in the run of j         *)
  late,       (* history: the rows committed after a sweep read the ids     *)
  kills, sweeps

disk == <<original, dirs, stored, slog>>
table == <<row, source, normalized, exports>>
history == <<broke, late, kills, sweeps>>
memory == <<request, waiting, up>>
vars == <<table, disk, memory, w, sweep, history>>

NoLog == [is |-> "none", status |-> "none", failed |-> 0, names |-> {},
          keys |-> FALSE]
Torn == [NoLog EXCEPT !.is = "torn"]
Log(status, failed, names, keys) ==
  [is |-> "whole", status |-> status, failed |-> failed, names |-> names,
   keys |-> keys]
FailureLog == Log("failed", 0, {}, FALSE)

NoError == [code |-> "none", stage |-> "none"]
Error(code, stage) == [code |-> code, stage |-> stage]
NewRow(status) == [status |-> status, err |-> NoError]

(* work is pipeline.json in the workspace, files the outputs there, made   *)
(* what the child has listed so far, left what is yet to be stored.        *)
Idle == [pc |-> "idle", job |-> NoJob, child |-> "none", done |-> 0,
         exit |-> 0, lost |-> FALSE, made |-> {}, files |-> {}, work |-> NoLog,
         log |-> NoLog, next |-> "none", left |-> {}, err |-> NoError]

SweepOver == [pc |-> "idle", ids |-> {}, victims |-> {}, at |-> NoJob, removed |-> 0]

TypeOK ==
  /\ \A j \in Jobs :
       /\ row[j].status \in {"absent", "uploaded", "queued", "processing",
                             "completed", "failed", "interrupted"}
       /\ exports[j] \subseteq {"midi", "musicxml", "pdf"}
       /\ stored[j] \subseteq Artifacts /\ source[j] \in Jobs \cup {NoJob}
  /\ \A l \in {w.work, w.log} \cup {slog[j] : j \in Jobs} :
       /\ l.is \in {"none", "torn", "whole"} /\ l.keys \in BOOLEAN
       /\ l.status \in {"none", "running", "completed", "failed"}
       /\ l.failed \in 0..5 /\ l.names \subseteq Artifacts
  /\ w.job \in Jobs \cup {NoJob} /\ w.done \in 0..5 
  /\ w.left \subseteq Artifacts /\ w.files \subseteq Artifacts
  /\ w.pc \in {"idle", "launch", "child", "read", "log", "copy", "store", "put",
               "commit", "fail"}
  /\ normalized \in Jobs \cup {NoJob}
  /\ dirs \subseteq Jobs /\ waiting \subseteq Jobs /\ late \subseteq Jobs

Init ==
  /\ row = [j \in Jobs |-> NewRow("absent")]
  /\ source = [j \in Jobs |-> NoJob]
  /\ normalized = NoJob /\ exports = [j \in Jobs |-> {}]
  /\ original = FALSE /\ dirs = {} /\ w = Idle
  /\ request = "none" /\ waiting = {} /\ up = TRUE
  /\ slog = [j \in Jobs |-> NoLog] /\ stored = [j \in Jobs |-> {}]
  /\ sweep = SweepOver
  /\ broke = [j \in Jobs |-> {}] /\ late = {} /\ kills = 0 /\ sweeps = 0

Broke(j, what) == broke' = [broke EXCEPT ![j] = @ \cup {what}]

(***************************************************************************)
(* The handlers that create work.                                          *)
(***************************************************************************)
CommitRow(j, status) ==
  /\ row' = [row EXCEPT ![j] = NewRow(status)]
  /\ late' = IF sweep.pc = "list" THEN late \cup {j} ELSE late
  /\ UNCHANGED <<normalized, exports, disk, w, sweep, up, broke, kills, sweeps>>

Upload ==
  /\ up /\ row[First].status = "absent"
  /\ CommitRow(First, "uploaded")
  /\ request' = "store"
  /\ UNCHANGED <<source, waiting>>

StoreOriginal ==
  /\ request = "store" /\ request' = "accept"
  /\ original' = TRUE /\ dirs' = dirs \cup {First}
  /\ UNCHANGED <<table, stored, slog, waiting, up, w, sweep,
                 history>>

Accept ==
  /\ request = "accept" /\ request' = "none"
  /\ row' = [row EXCEPT ![First].status = "queued"]
  /\ waiting' = waiting \cup {First}
  /\ UNCHANGED <<source, normalized, exports, disk, up, w, sweep, history>>

Ended == {"failed", "interrupted", "completed"}

(* RETRYABLE_STATUSES: a job can be repeated whatever its end was, and so  *)
(* can a retry.                                                            *)
Retry(j) ==
  /\ up /\ j # First /\ row[j].status = "absent"
  /\ \E of \in Jobs : row[of].status \in Ended /\ source' = [source EXCEPT ![j] = of]
  /\ original
  /\ CommitRow(j, "queued")
  /\ waiting' = waiting \cup {j}
  /\ UNCHANGED request

(***************************************************************************)
(* The runner up to the child.                                             *)
(***************************************************************************)
Start(j) ==
  /\ up /\ w.pc = "idle" /\ j \in waiting
  /\ waiting' = waiting \ {j}
  /\ dirs' = dirs \cup {j}
  /\ IF original
     THEN /\ row' = [row EXCEPT ![j] = NewRow("processing")]
          /\ w' = [Idle EXCEPT !.pc = "launch", !.job = j]
          /\ UNCHANGED broke
     ELSE /\ w' = [Idle EXCEPT !.pc = "fail", !.job = j,
                     !.err = Error("PIPELINE_FAILED", "queued")]
          /\ Broke(j, "swept")
          /\ UNCHANGED row
  /\ UNCHANGED <<source, normalized, exports, original, stored, slog,
                 request, up, sweep, late, kills, sweeps>>

RowStageError == Error("PIPELINE_FAILED", "preprocessing")

Failing(err) == [Idle EXCEPT !.pc = "fail", !.job = w.job, !.err = err]

(* A storage error has no error code of its own; raised in a handler, it   *)
(* takes the place of the error that was to be told.                       *)
RunFails(what) == w' = Failing(RowStageError) /\ Broke(w.job, what)

(* A log is rewritten in the workspace, whose directories are made again,  *)
(* and then copied over the stored one; the copy truncates its target.     *)
WriteLog(log, next, err) ==
  /\ w' = [Idle EXCEPT !.pc = "log", !.job = w.job, !.files = w.files, !.work = log,
                        !.log = log, !.next = next, !.err = err]
  /\ dirs' = dirs \cup {w.job}

OnlyLog == UNCHANGED <<table, original, dirs, stored, memory, sweep, late,
                       kills, sweeps>>

StartCopy ==
  /\ w.pc = "log" /\ w.work.is # "none"
  /\ w' = [w EXCEPT !.pc = "copy"]
  /\ slog' = [slog EXCEPT ![w.job] = Torn]
  /\ UNCHANGED broke /\ OnlyLog

CopyEnds ==
  /\ w.pc = "copy" /\ slog[w.job].is = "torn"
  /\ slog' = [slog EXCEPT ![w.job] = w.log]
  /\ w' = IF w.next = "fail" THEN Failing(w.err) ELSE [w EXCEPT !.pc = w.next]
  /\ UNCHANGED broke /\ OnlyLog

(* put_file raises, before the copy, in it or after it: the stored log is  *)
(* left as it is, whole or torn.                                           *)
LogFails ==
  /\ \/ "storage" \in Faults /\ w.pc \in {"log", "copy"}
     \/ w.pc = "log" /\ w.work.is = "none"
     \/ w.pc = "copy" /\ slog[w.job].is = "none"
  /\ RunFails("storage")
  /\ UNCHANGED slog /\ OnlyLog

Launch ==
  /\ w.pc = "launch"
  /\ \/ /\ w' = [w EXCEPT !.pc = "child", !.child = "running"]
        /\ UNCHANGED <<disk, broke>>
     \/ /\ "launch" \in Faults
        /\ WriteLog(FailureLog, "fail", Error("PIPELINE_FAILED", "preprocessing"))
        /\ Broke(w.job, "launch")
        /\ UNCHANGED <<original, stored, slog>>
  /\ UNCHANGED <<table, memory, sweep, late, kills, sweeps>>

(***************************************************************************)
(* The child: LocalPipelineRunner.run.                                     *)
(***************************************************************************)
ChildAlive == w.pc = "child"
OnlyChild == UNCHANGED <<table, original, dirs, stored, slog, memory, sweep,
                         late, kills, sweeps>>

StageCompletes ==
  /\ ChildAlive /\ w.child = "running" /\ w.done < 5 /\ ~w.lost
  /\ \E o \in Outcomes(w.done + 1) :
       LET out == StageResult(w.done + 1, o)
       IN /\ out # Raises
          /\ w' = [w EXCEPT !.done = @ + 1, !.made = @ \cup out, !.files = @ \cup out,
                       !.work = Log("running", 0, w.made \cup out, FALSE)]
  /\ UNCHANGED broke /\ OnlyChild

StageRaises ==
  /\ ChildAlive /\ w.child = "running" /\ w.done < 5 /\ ~w.lost
  /\ \E o \in Outcomes(w.done + 1) : StageResult(w.done + 1, o) = Raises
  /\ w' = [w EXCEPT !.child = "failed",
               !.work = Log("failed", w.done + 1, w.made, FALSE)]
  /\ Broke(w.job, BackendStage[w.done + 1])
  /\ OnlyChild

LogCompleted ==
  /\ ChildAlive /\ w.child = "running" /\ w.done = 5 /\ ~w.lost
  /\ w' = [w EXCEPT !.child = "completed", !.work = Log("completed", 0, w.made, FALSE)]
  /\ UNCHANGED broke /\ OnlyChild

(* Its directory has been removed: the next log write raises.              *)
ChildLost ==
  /\ ChildAlive /\ w.child = "running" /\ w.lost
  /\ w' = [w EXCEPT !.child = "failed"]
  /\ UNCHANGED broke /\ OnlyChild

ChildExits ==
  /\ ChildAlive /\ w.child # "running"
  /\ w' = [w EXCEPT !.pc = "read", !.exit = IF w.child = "completed" THEN 0 ELSE 1]
  /\ UNCHANGED broke /\ OnlyChild

ChildKilled ==
  /\ ChildAlive /\ "child" \in Faults
  /\ \E log \in {w.work} \cup (IF w.child = "running" /\ ~w.lost THEN {Torn} ELSE {}) :
       w' = [w EXCEPT !.pc = "read", !.exit = 137, !.work = log]
  /\ Broke(w.job, "childkilled")
  /\ OnlyChild

Timeout ==
  /\ ChildAlive /\ "timeout" \in Faults
  /\ WriteLog(FailureLog, "fail", Error("WORKER_TIMEOUT", "preprocessing"))
  /\ Broke(w.job, "timeout")
  /\ UNCHANGED <<table, original, stored, slog, memory, sweep, late, kills,
                 sweeps>>

(***************************************************************************)
(* The runner after the child.                                             *)
(***************************************************************************)
Payload ==
  IF w.work.is = "whole" THEN w.work
  ELSE IF w.exit = 0 THEN Log("completed", 0, w.made, FALSE) ELSE FailureLog

(* Deviation: the stage that was due, whoever ended the child.             *)
StageDue(payload) == LET s == IF w.done < 5 THEN w.done + 1 ELSE 5
                     IN Error(StageCode[s], BackendStage[s])

(* Deviation: only a failed stage refuses the run, not the exit code.      *)
RefusedByStage(payload) == payload.status = "failed"

StageError(payload) ==
  IF payload.failed = 0 THEN RowStageError
  ELSE Error(StageCode[payload.failed], BackendStage[payload.failed])

Refused(payload) == w.exit # 0 \/ payload.status = "failed"

ReadLog ==
  /\ w.pc = "read"
  /\ IF w.work.is = "torn"
     THEN WriteLog(FailureLog, "fail", Error("PIPELINE_FAILED", "preprocessing"))
     ELSE IF Refused(Payload)
     THEN WriteLog(Payload, "fail", StageError(Payload))
     ELSE WriteLog(Payload, "store", NoError)
  /\ UNCHANGED <<table, original, stored, slog, memory, sweep, history>>

Earliest(as) == CHOOSE s \in Stage : /\ as \cap Outputs(s) # {}
                                     /\ \A t \in 1..(s - 1) : as \cap Outputs(t) = {}

(* _artifact_paths checks every named file, then the required names; only  *)
(* then is anything stored.                                                *)
Unfit == LET missing == w.log.names \ w.files
         IN IF missing # {} THEN missing ELSE Required \ w.log.names

ValidateArtifacts ==
  /\ w.pc = "store"
  /\ IF Unfit = {}
     THEN /\ w' = [w EXCEPT !.pc = "put", !.left = w.log.names]
          /\ UNCHANGED disk
     ELSE /\ WriteLog([w.log EXCEPT !.status = "failed"], "fail",
               Error("ARTIFACT_NOT_FOUND", BackendStage[Earliest(Unfit)]))
          /\ UNCHANGED <<original, stored, slog>>
  /\ UNCHANGED <<table, memory, sweep, history>>

(* What is stored next: the first group of which something is left.        *)
NextToPut(as) ==
  \E i \in DOMAIN PutOrder :
    /\ as = PutOrder[i] \cap w.left /\ as # {}
    /\ \A k \in 1..(i - 1) : PutOrder[k] \cap w.left = {}

StoreArtifacts ==
  /\ w.pc = "put"
  /\ \E as \in SUBSET w.left :
       /\ NextToPut(as) /\ as \subseteq w.files
       /\ w' = [w EXCEPT !.left = @ \ as]
       /\ stored' = [stored EXCEPT ![w.job] = @ \cup as]
  /\ dirs' = dirs \cup {w.job}
  /\ UNCHANGED <<table, original, slog, memory, sweep, history>>

(* A source is gone, or the copy is gone again, or a write fails.          *)
StoreFails ==
  /\ w.pc = "put" /\ w.left # {}
  /\ \/ "storage" \in Faults
     \/ ~(w.left \subseteq w.files)
     \/ sweep.at = w.job
  /\ RunFails("storage")
  /\ UNCHANGED <<table, disk, memory, sweep, late, kills, sweeps>>

Relog ==
  /\ w.pc = "put" /\ w.left = {}
  /\ WriteLog([w.log EXCEPT !.keys = TRUE], "commit", NoError)
  /\ UNCHANGED <<table, original, stored, slog, memory, sweep, history>>

(* Deviations: a row for a PDF that was not made; a row per artifact.      *)
PdfRowAlways(names) == {"midi", "musicxml", "pdf"}
RowPerArtifact(names) == names

ExportRows(names) ==
  {"midi", "musicxml"} \cup (IF "pdf" \in names THEN {"pdf"} ELSE {})

Commit ==
  /\ w.pc = "commit"
  /\ \/ /\ row' = [row EXCEPT ![w.job] = NewRow("completed")]
        /\ exports' = [exports EXCEPT ![w.job] = ExportRows(w.log.names)]
        /\ normalized' = w.job
        /\ w' = Idle
        /\ UNCHANGED <<source, broke>>
     \/ /\ "commit" \in Faults
        /\ RunFails("commit")
        /\ UNCHANGED table
  /\ UNCHANGED <<disk, memory, sweep, late, kills, sweeps>>

MarkFailed ==
  /\ w.pc = "fail"
  /\ row' = [row EXCEPT ![w.job] = [status |-> "failed", err |-> w.err]]
  /\ w' = Idle
  /\ UNCHANGED <<source, normalized, exports, disk, memory, sweep, history>>

(***************************************************************************)
(* The server process dies and a new one recovers.  The child may outlive  *)
(* it, but only writes a workspace that nobody reads again.                *)
(***************************************************************************)
ServerKilled ==
  /\ up /\ kills < MaxKills
  /\ up' = FALSE /\ kills' = kills + 1
  /\ request' = "none" /\ waiting' = {} /\ w' = Idle
  /\ broke' = IF w.job = NoJob THEN broke
              ELSE [broke EXCEPT ![w.job] = @ \cup {"killed"}]
  /\ UNCHANGED <<table, disk, sweep, late, sweeps>>

Restart ==
  /\ ~up /\ up' = TRUE
  /\ row' = [j \in Jobs |-> IF row[j].status # "processing" THEN row[j]
                            ELSE [status |-> "interrupted", err |-> RowStageError]]
  /\ UNCHANGED <<source, normalized, exports, disk, request, waiting, w, sweep, history>>

(***************************************************************************)
(* cleanup_orphan_job_artifacts --apply: the ids are read first, the       *)
(* directories are listed after that, and each is removed piece by piece.  *)
(***************************************************************************)
SweepReadsIds ==
  /\ sweep.pc = "idle" /\ sweeps < MaxSweeps
  /\ sweep' = [SweepOver EXCEPT !.pc = "list",
                              !.ids = {j \in Jobs : row[j].status # "absent"}]
  /\ sweeps' = sweeps + 1
  /\ UNCHANGED <<table, disk, memory, w, broke, late, kills>>

Orphans == dirs \ sweep.ids

SweepLists ==
  /\ sweep.pc = "list"
  /\ sweep' = IF Orphans = {} THEN SweepOver
              ELSE [sweep EXCEPT !.pc = "remove", !.ids = {}, !.victims = Orphans]
  /\ UNCHANGED <<table, disk, memory, w, history>>

SweepTakes(j) ==
  /\ sweep.pc = "remove" /\ sweep.at = NoJob /\ j \in sweep.victims
  /\ sweep' = [sweep EXCEPT !.victims = @ \ {j}, !.at = j, !.removed = 0]
  /\ Broke(j, "swept")
  /\ UNCHANGED <<table, disk, memory, w, late, kills, sweeps>>

SweepRemoves ==
  /\ sweep.at # NoJob /\ sweep.removed < Len(RemovalOrder)
  /\ sweep' = [sweep EXCEPT !.removed = @ + 1]
  /\ LET j == sweep.at
         part == RemovalOrder[sweep.removed + 1]
     IN /\ original' = (original /\ ~(part = "original" /\ j = First))
        /\ stored' = IF part = "artifacts" THEN [stored EXCEPT ![j] = {}] ELSE stored
        /\ slog' = IF part = "logs" THEN [slog EXCEPT ![j] = NoLog] ELSE slog
        /\ w' = IF part = "pipeline-work" /\ w.job = j
                THEN [w EXCEPT !.work = NoLog, !.files = {},
                               !.lost = w.pc \in {"launch", "child"}] ELSE w
  /\ UNCHANGED <<table, dirs, memory, history>>

(* The directory itself goes last.  rmdir raises, and ends the script, when *)
(* the server has put something there again, were it only a directory.     *)
SweepLeaves ==
  /\ sweep.at # NoJob /\ sweep.removed = Len(RemovalOrder)
  /\ LET j == sweep.at
     IN \/ /\ slog[j].is = "none" /\ stored[j] = {} /\ ~(j = First /\ original)
           /\ w.job = j => w.work.is = "none"
           /\ sweep' = IF sweep.victims = {} THEN SweepOver
                       ELSE [sweep EXCEPT !.at = NoJob, !.removed = 0]
           /\ dirs' = dirs \ {j}
        \/ sweep' = SweepOver /\ UNCHANGED dirs
  /\ UNCHANGED <<table, original, stored, slog, memory, w, history>>

Next ==
  \/ Upload \/ StoreOriginal \/ Accept
  \/ \E j \in Jobs : Retry(j) \/ Start(j) \/ SweepTakes(j)
  \/ Launch \/ StageCompletes \/ StageRaises \/ LogCompleted \/ ChildLost
  \/ ChildExits \/ ChildKilled \/ Timeout \/ ReadLog
  \/ StartCopy \/ CopyEnds \/ LogFails \/ ValidateArtifacts
  \/ StoreArtifacts \/ StoreFails \/ Relog \/ Commit \/ MarkFailed \/ ServerKilled \/ Restart
  \/ SweepReadsIds \/ SweepLists \/ SweepRemoves \/ SweepLeaves

Spec == Init /\ [][Next]_vars
=============================================================================
