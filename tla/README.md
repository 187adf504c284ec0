# GrooveScribe: formal models

GrooveScribe turns an uploaded song into a drum chart. A browser front end talks to a FastAPI
backend; the backend keeps one row per transcription job in a database, the audio and every
result file in an artifact storage, and runs one AI pipeline after another in a subprocess.
This directory holds TLA+ models of that system, the TLC runs that check them and proofs that
TLAPS checks. Paths below are relative to the repository.

## 1. Inventory

| Part | Source | State | Operations | Interacts with |
| --- | --- | --- | --- | --- |
| Upload | `backend/app/services/upload_service.py` | a row in two commits, the original file | `create_upload_job` | database, storage, queue |
| Retry | `services/job_history_service.py` | a second row on the same audio | `retry_job` | database, storage, queue |
| Local queue | `services/local_job_queue.py` | the executor's items and one thread, in memory | submit, `_run_job`, `_mark_failed`, drain at exit | pipeline runner, database |
| Pipeline run | `services/pipeline_service.py` | row, subprocess, work directory, artifacts, export rows | `run` | subprocess, storage, database |
| Recovery | `services/local_job_recovery.py` | rows left processing | `recover_interrupted_jobs` at every start | database |
| Processes | `scripts/run_v1_local_dev.py`, uvicorn | live and dying server processes | start, terminate, kill | all of the above |
| Readers | `services/download_service.py`, `result_service.py`, `review_packet_service.py`, `internal_job_detail_service.py` | none (read rows, files, logs) | open a download, build a page or a ZIP | database, storage, front end |
| AI child process | `scripts/run_local_pipeline.py`, `ai_pipeline/local_runner.py` | files and a log in one directory | five stages, candidate analysis | models, ffmpeg, the backend that waits |
| MIDI and notation | `ai_pipeline/midi`, `ai_pipeline/notation` | none (pure) | quantise, filter, write, chart, judge | the stages of the child |
| Celery worker | `worker/app` | the same rows, one transaction per run | `run_transcription_job` | broker, database |
| Front end | `frontend/src/App.tsx` | selected job, poll timer; playback sessions, timers, audio contexts | poll, retry, select; play, stop, change rate and mode | backend, browser |
| Benchmark | `scripts/run_performance_benchmark.py`, `ai_pipeline/benchmark` | reports, reservations and consumption marks on disk | measure items, calibrate the gate | AI child process, the gate of later jobs |
| Release chain | `scripts/run_v1_release_gate.py`, `generate_v1_release_evidence.py`, `run_v1_rc_pilot.py`, `check_v1_rc_handoff.py` | reports in shared directories, the working tree | gate, evidence, pilot, handoff check | each other, a developer who edits |
| Clean-up | `scripts/cleanup_orphan_job_artifacts.py` | storage | list, delete | storage, database, a running server |

The hard behaviour of the first six parts is that they share rows and files and are concurrent:
a request handler, the worker thread and the recovery of another process all write the same
row in commits of their own; a process can be stopped or killed between any two of them; every
write can fail. The AI child writes its log in place while it can be killed, and a clean-up may
remove its directory. The Celery worker adds messages that arrive twice or too late and
transactions that hide a run until it ends. The front end is single-threaded, but every `await`
lets clicks, timers and older answers in between. The benchmark and the release chain are batch
tools whose invocations overlap, die and meet each other's files. MIDI, notation and gate are pure;
what is hard there are numeric edges, and the many places that must judge one score alike.

What makes each part correct:

- Upload, retry, queue: no accepted job is lost or run twice; no job is queued before its audio
  is stored; a retry leaves the job it retries alone.
- Pipeline run: a job reads completed only when everything is stored and published, its error
  columns say what happened, and nothing of a failed run is visible.
- Recovery: what a killed process left processing is repaired, and nothing else is touched.
- Processes: pipelines overlap only after a kill; a graceful stop finishes what was accepted.
- Readers: what a page, a packet or a detail page offers is what a download serves.
- MIDI and notation: full measures, no core drum lost or invented, MIDI that reads back, one
  verdict in every place that shows it, nothing delivered without earned calibration.
- Celery worker: one run of a job at a time whatever is delivered twice; a failed row says what
  failed; with messages delivered once, a job that has ended stays as it is.
- Polling: the active job is polled until its end and its result are shown or the page tells of a
  failure, by one chain of requests and timers as long as refreshes do not overlap; it then stops.
- Playback: what comes back to a session that is over is undone; drums and audio keep one rate.
- Benchmark: a holdout is measured once, on evidence earned on the items it was tuned on.
- Release chain: what is signed off was checked, by one pilot, on the tree that is signed off.

`PROJECT.json` lists the components and, under `hazards`, the lines where each of these can go
wrong.

## 2. Modules

| Module | What it is |
| --- | --- |
| `JobLifecycle` | the local runtime: handlers, queue, worker, processes, recovery |
| `LifecycleHistory` | the same with a history of the faults that struck each job |
| `JobLifecycleInvariant`, `JobLifecycleProofs` | its inductive invariant under every fault, and theorems about it, its history and its refinement |
| `JobContract` | what users are promised of jobs, without queues, threads, files, processes |
| `JobRefinement` | `JobLifecycle` implements `JobContract` with capacity 1 |
| `PipelineRun` | one run seen from inside: child, stages, logs, artifacts, rows; the clean-up beside it |
| `PipelineReads` | what the server answers in a state of `PipelineRun` |
| `PipelineRunProofs` | theorems about both |
| `DrumMidi` | raw notes to drum events, quality, the MIDI track and its quantities |
| `DrumChart` | drum events to the readable chart and the voices of the score |
| `GateCalibration` | the verdict of the performance gate, its calibration from runs |
| `PerformanceGate` | the issues of a chart, the recommendation of a candidate, the timeline |
| `ScorePage` | what result page and review packet make of gate, quality and candidates |
| `BenchmarkMetrics` | the comparison of a chart with a reference, and the verdict on an item |
| `ScoreRules`, `ScoreRulesProofs` | the stages from transcription to verdict, and candidate analysis, over all of these; theorems |
| `CeleryWorker` | the optional server mode: API, broker, workers, row locks, error boundary |
| `CeleryHistory` | the same with a history of tasks that died |
| `CeleryArtifacts` | the same with the files that its runs write and the rows that they insert |
| `CeleryRefinement` | workers with exactly-once delivery implement `JobContract`, one job per worker |
| `CeleryWorkerProofs` | theorems about these four, the refinement among them |
| `JobPolling`, `JobPollingProofs` | the front end's polling with overlapping requests and a user; theorems |
| `PracticePlayback`, `PracticePlaybackProofs` | the practice player: sessions, awaited starts, timers, contexts; theorems |
| `PerformanceBenchmark`, `PerformanceBenchmarkProofs` | invocations of the benchmark that share directories and evidence; theorems |
| `ReleaseChain`, `ReleaseChainProofs` | gate, evidence, pilot and handoff check on a tree that is edited; theorems |
| `MC*` | finite instances for TLC |

`PipelineReads` extends `PipelineRun`; the score modules extend each other in the order of the
table, `DrumMidi` and `GateCalibration` first. `JobLifecycle` and `PipelineRun` describe the same
runner from two sides: the first keeps every process, commit and fault and takes the pipeline as a
step, the second takes one server and opens the pipeline. `ScoreRules` opens the last three stages
of `PipelineRun` once more, for the data they compute.

### JobLifecycle and the code

`row[j]` is a row of `transcription_jobs` (`models/transcription_job.py`), cut down to status,
stage, error stage, the two end timestamps (set or not) and whether available export rows exist.
`audio[j]` and `source[j]` are `audio_file_id` (as the job under whose directory the file lies)
and `source_job_id`. `files[j]` is what the storage holds under `jobs/<j>/`. A server process is
a number `s`; `phase[s]`, `found[s]`, `queue[s]`, `worker[s]` and the requests with `at = s` are
its memory and vanish when it is killed. `pipelines` are the live pipeline subprocesses.

Each commit and each storage write is an action. `UploadBegin` is `create_upload_job` up to its
first commit, `UploadStore` the storage write, `UploadAccept` the commit of queued, `Enqueue` the
submission, `Reject` the failure handler. `create_transcription` is `async` and runs the service
on the event loop, so at most one upload is in flight per process; `retry_transcription` is a
plain function and runs in the thread pool, so retries interleave with everything. The worker's
actions follow `PipelineServiceRunner.run`: `StartRun` (load, copy input, commit processing),
`Launch`, `PipelineExits`, `StoreLog`, `StoreArtifact`, `Publish`, and `MarkFailed` for the
handler in `_run_job`. `StartServer` and `Recover` are the lifespan hook, whose read and commit
are separate steps; `Drain`/`DrainEnds` a graceful stop (uvicorn stops listening, requests end,
`concurrent.futures` joins its threads and runs the queue to the end); `Crash` a kill at any
point; `OrphanExits` the end of a subprocess whose parent is gone.

Two details of SQLAlchemy matter and are modelled. A commit expires the objects of its session,
so the runner reads the row again after `StartRun`; the final UPDATE then writes only columns
whose value differs from the one read (`Completed`, `sawError`). Recovery likewise does not write
`completed_at`, which was null when it read the row (`Interrupted`).

`Faults` is the set of faults the environment may show. Every property names the faults it
tolerates in its comment, because some are false under others, and the code makes no claim there:
a failing commit loses the failure mark of a job, a kill loses the queue, overlapping processes
let recovery interrupt a job that is being completed.

What is abstracted: the contents of the pipeline payload, warnings, event counts, progress,
titles, presets and error texts; candidate artifacts are stored like the others and never needed
for completion; the second write of the log is the first one again. A job runs once, so its work
directory is fresh. `JOB_NOT_FOUND` cannot happen (no row is deleted) and a legacy `true_ai` row
cannot enter the queue (both creators normalise the mode), so these early returns are left out.
A kill in the middle of the upload's storage write is the kill just before it: the row stays
uploaded, which nothing can retry.

`LifecycleHistory` adds one variable, `hit[j]`: whether a kill of the process that had job `j`, or
a failed commit about it, has struck it. With it a property can say of every job, under all faults
at once, that only a job that was struck is lost, and that all others end.

### PipelineRun, PipelineReads and the code

`w` is the worker thread with the child it waits for and the workspace `jobs/<j>/pipeline-work` of
its job (`w.work` the log there, `w.files` the outputs), `stored[j]` and `slog[j]` the stored
artifacts and the stored log, `row`, `source`, `exports`, `normalized` the tables. `StageCompletes`
and `StageRaises` are
`LocalPipelineRunner.run` with its `_write_log` after every stage, and an outcome decides what a
stage yields (`Normalize` ... `Notate`). The child can be killed, also while it writes the log,
which is then torn. `ReadLog`, `ValidateArtifacts`, `StoreArtifacts`, `Relog`, `Commit` and
`MarkFailed` are the runner afterwards. A log is written in the workspace (`WriteLog`), torn while
it is copied (`StartCopy`, `CopyEnds`), and stays as it is, whole or torn, when the copy raises
(`LogFails`); that error then takes the place of the one that was to be told. Artifacts are stored
in four groups (`PutOrder`: audio, MIDI, events, score), each a step, and before the last log is
written. `SweepReadsIds`, `SweepLists`, `SweepTakes`, `SweepRemoves`, `SweepLeaves` are
`cleanup_orphan_job_artifacts --apply`: `shutil.rmtree` takes what lies under a job piece by piece,
in an order that is a constant (`RemovalOrder`; `artifacts` stands for `audio`, `stems`, `midi`,
`notation` and `exports`), and fails at the end if the run has put something back. A job that has
ended in any way can be repeated, and so can its retry: two completed jobs may share an audio row.
`broke` is a history of what really went wrong in a run, against which the row is judged.

`PipelineReads` holds no variable: each operator is the answer of a service in the current state,
with the order in which it reads row, log and file and the error it gives. A request reads in one
step. `QualityVerdict` says whether the page has a verdict: from the log, or none when only the rows
are left. The review packet reads twice: its exports are checked against the storage
(`PacketExport`), the validation its notes report comes from the log (`ValidationStatus`), and
`ReviewNotes` is written from the packet alone; that the two agree rests on a stored log naming
exactly the files that are stored with it. For a job whose directory was being removed while it ran
it need not: the artifacts can go between their storing and the last log, and the job completes with
a log that names them, so the notes then call good what the packet lacks. Texts, content types and
redaction are left out; keys are compared, not built.

### The score modules and the code

Notes are records `[tick, note, vel]`, drum events `[tick, drum, vel]`; a chart is its events, the
kind of each measure and its warnings, a score the lines of rests and notes of each measure.
Rates are in thousandths, benchmark scores in ten-thousandths; `RoundDiv` is Python's `round`,
half to even. `Process`, `BuildChart`, `BuildScore`, `EvaluateScore`, `Recommend`,
`TimelineMeasures`, `CompareDrumMidi` are the functions of that name in the code or the public
method of their module. `CandidateScore` adds up `ScoreTerms`, the terms of
`evaluate_candidate_recommendation`, and `SelectedCandidate` is the effect of `App.tsx:231` that
chooses the candidate a page opens. `ScoreRules` runs them as the stages of a candidate:
`Transcribe`,
`PostProcess`, `Notate`, `Judge`, `StageFails`, then `Select`. The model that hears the drums, the
audio and what the alignment measures of it are inputs: `TakesAssumption` says that a transcription
is a finite set of raw notes, `RatesAssumption` that a rate is between 0 and 1.

The calibration a pipeline is given was either made by `CalibrateGate` from the runs (`RunItem`) of
one of `Benchmarks`, or comes from elsewhere. The page is in the model because four places judge a
score independently: the gate, the draft quality of `quality.py`, the recommendation and the
front end with its own rules in `isVerifiedPerformanceScore` and the panels of `App.tsx`. The
panels draw on three summaries (gate, draft, notation warnings), which `QualitySummary` brings
together as the result service does.

Left out: the XML, tempo, wording, the older chart modes `v2` and `simplified`, which no caller of
the pipeline reaches, and `adtof.py`, which the backend does not select.

### CeleryWorker and the code

`row[j]` is the committed row, `task[w]` the task a worker executes with the version of the row
its transaction has written (`view`), `lock[j]` the transaction that has updated the row.
`MockPipelineRunner.run` writes status, stage and metadata in one transaction that
`run_transcription_job` commits at the end, so `Stage` changes `view` only and `Commit` the row.
The database is PostgreSQL at READ COMMITTED: a read takes no lock, so the test of
`mark_processing` (`Load`) and its update (`Claim`) are separate steps, and likewise
`MarkFailedRead` and `MarkFailedWrite`; an update waits for a locked row and then works on the
newest version. `Handle` is the head of the error boundary: stage, rollback, log. What nothing
catches (a refusal in `mark_failed`, a log that cannot be written, a time limit in the boundary)
ends the task like a kill: `Die`. So does a refused commit (`CommitFails`): it leaves the session in
a state that takes no statement before a rollback, and the boundary asks it for the stage
(`transcription.py:45`) before it rolls back (46). The broker acknowledges a message when its task
starts, which is Celery's default and not overridden, and may deliver one that waits too long once
more. Left out: `JOB_NOT_FOUND` (no row is deleted) and `STORAGE_WRITE_FAILED` (raised only for
unsafe keys). The stages themselves are mocks in the code; one raises or writes its files.

`CeleryRefinement` maps a job to processing while a task that has claimed it has not ended, and to
interrupted when its task died after the claim (history variable `cut`), although the committed row
goes on saying queued. Duplicates break the contract (a job is queued again), so it is stated for
one message, with as many jobs at a time as there are workers. `CeleryHistory` records the tasks
that died, so that under every fault the loss of a job names its cause.

`CeleryArtifacts` adds what a run leaves behind. `whole` are the files under `jobs/<j>/`, which
`put_bytes` writes in place, before the commit and beyond any rollback; `rows` are the committed
rows of `drum_tracks` and `export_files`, `inserted` those of an open transaction. `WriteMetadata`
looks for the rows that are missing (`_drum_track_exists`, `_export_exists`), stores the files of
missing exports once more and inserts; a run that is cut off has written its stage's files up to
some point, the next one torn or not. A repeated run that is cut off over published files is
recorded in `cutLater`: it tears them without a trace in the rows.

### JobPolling and the code

`active`, `shown`, `result`, `error`, `uploading`, `retrying` are the React states `activeJobId`,
`jobStatus`, `result`, `jobError`, `uploading`, `retryingJobId`; `ref` is `pollTimer.current`,
`timers` the browser's pending timers and `calls` the invocations of `refreshJob` that await an
answer. A step is one callback up to its next `await`: `Refresh` the head of `refreshJob`,
`Answer` the server reading the status, `ShowStatus` and `ShowResult` what follows the two
awaits, `CallFails` the catch branch. `Activate` is `setActiveJobId` with the effect it triggers.
`server` is the backend, external here. A job taken from a browser's storage is the active job
of `Init`. The history list, texts and forms are left out; `CanRetry` is the button of a row of the
list: any job that is over, except the one whose retry is being asked for. The user may do anything
at any moment that the page offers, also upload while the active job is polled; any request may
fail. Two histories say what has happened: `overlap`, that a `refreshJob` began while another
awaited its answer (until one begins alone), and `astray`, that a request or a timer was for another
job than the active one (until a
`refreshJob` begins without such a request or timer).

### PracticePlayback and the code

`player` holds what the refs of `PracticePlaybackPanel` hold: session number, timers, animation frame,
audio context, and the starts on their way, which are invocations of `playFrom` at one of its two
awaits (`audio.play`, `context.resume`). `shown` is whether the panel, as drawn, says that it plays:
a continuation sets state before React draws, so a click may act on the old panel. Passive effects
run with the draw. `hasty` and `leaked` are histories of two situations the code does not handle
(see below). Positions, volumes, messages and the rendering of notation are left out. Every mode
that is available has an audio source, so the timers that stand in for a missing one are not
reached.

### PerformanceBenchmark, ReleaseChain and the code

In `PerformanceBenchmark` an invocation is a record with its program counter, plan (profile, split,
output directory), evidence and results; `report`, `reserved`, `consumed`, `log` and `files` are on
disk. `CheckEvidence` and `Reserve` are the two halves of `_reserve_holdout_evidence`, `Consume`,
`Release` and `FinalizeFails` the outcomes of `_finalize_holdout_reservation`; `ReuseItem` is
`_completed_pipeline_for_resume`, `RunCandidate` and `WriteLog` the child process. `CheckMarks` is a
step of its own, for the mark is read after the evidence and before the reservation is created.
The manifest may be edited at any time: `version` is the one whose items an invocation loaded (137),
`hashed` the one it last hashed, for the evidence (371) or for its report (177, `HashManifest`).
`Kill` takes the script only, whose child goes on as an orphan; `PipelineDies` is a child that ends
without its log or amid writing it, beside a script that takes the item for failed (237-239) or
alone. `WriteReport` writes the report and its tables; in `ReportTorn` the report is cut off, in
`TableFails` it is there and a table fails (797-805): what the holdout measured can be read, so the
evidence counts as spent, while the code gives the reservation back (196-198).

In `ReleaseChain` a `world` is what the checks see of the working tree: failing tests, missing
tools, stray files, rows of the manual evaluation. An invocation runs the commands of the gate one
by one, or writes one file, per step; `disk` holds the reports outside the repository.

### Bounds

`JobLifecycle`: `Jobs` and `MaxServers` bound the rows ever created and the starts of the
backend. Two jobs are an upload and its retry or two uploads; with four servers they go through
three kills, one of them during the recovery from another. Two artifacts tell "all stored" from
"some stored". `CeleryWorker`: two workers and two copies of a message are a run and its duplicate,
before or after the end of the first; `MaxCopies` bounds the copies that wait, not how often a
message is delivered; three jobs on two workers make one wait. `PipelineRun`: an upload and a retry
(one repeats the other, the first completed or not), one kill of the server and one clean-up, each
at any moment; any stage may fail, and the renderer may leave out the PDF (`Partial` names the
stages whose side outputs may be missing; a missing accompaniment changes no answer but its own).
The clean-up takes log and artifacts before the workspace, the order in which a run can go on
longest; the theorems hold for any order. `ScoreRules`: grooves of two measures from lines of hats,
snares and kicks, with toms and cymbals at the end or one more hit on or off the grid, a third
measure of toms, nine measures with five fills, four signatures (only 7/16 leaves a sixteenth in a
groove; in 3/4 also one late snare), up to three candidates (there are four thresholds in the code),
six calibrations of which four are made by a benchmark: one that authorises, one below the gate's
default, one that fails closed, one without enough evidence. 512 ticks to the beat make sixteenths,
windows and tolerances divide unevenly. `JobPolling`:
`MaxClicks` bounds what the user does, `MaxCalls` and `MaxTimers` the overlapping requests and
timers; a click that would exceed them is not taken. `PracticePlayback`: four clicks reach a second
start, a change of rate or mode and a stop with both awaits of the first start outstanding.
`PerformanceBenchmark`: three invocations, two at a time (one earns evidence, two compete for
it), two directories, one edit of the manifest at any step, one invocation that is killed, loses
its pipeline or cannot write a file that matters. `ReleaseChain`: two
invocations of the four scripts and option sets in `SomePlans`, six of the eleven commands (one
of each kind of answer), one edit.

Deadlock checking is off everywhere because each of these systems may stop: the last server has
stopped, messages are consumed, the user has left, the analysis has ended. Jobs, workers and
invocations are symmetric where a `SYMMETRY` is declared; runs with liveness declare none.

### Fairness

`JobLifecycle`: weak fairness for a request handler's next step, for the worker thread's next
step (also the end of the pipeline: `subprocess.run` has a timeout) and for recovery, which runs
before the server listens. Users, starts, stops and kills get none, and neither do orphans.
`CeleryWorker`: weak fairness for handlers, for a task's next step and for the delivery of some
message to an idle worker. `JobPolling`: weak fairness for answers (also the browser's fetch
ends), for timers and for the progress of jobs, which `JobLifecycle` shows; none for the user.
`PracticePlayback`: weak fairness for the animation frame and for the draw of the panel, which the
browser gives a visible page; none for media events, which may never come, nor for the answers of
audio element and context. The other modules state no liveness.

## 3. Runs

| Run | Instance | Question and answer |
| --- | --- | --- |
| `LifecycleAnyFault` | 2 jobs, 2 servers, fair; all seven faults | a completed job is whole, none is queued before its audio; what is lost, overlaps or changes after its end has a cause, job by job; every other job ends: hold |
| `LifecycleCrash` | 2 jobs, 4 servers, fair; storage, enqueue, pipeline, crash | error columns match the outcome, no row stays processing, and the contract of `JobContract`: hold |
| `PublishedRun` | 2 jobs, five faults, 1 kill, 1 clean-up | a failed row names the stage that broke and no other; page, packet, detail page and downloads agree about a completed job, also when a completed retry shares its audio row: hold |
| `ScoreRules` | the transcriptions of `MCScoreRules`, 4 benchmarks | scores are full and faithful to the core drums, MIDI reads back, all judges agree, delivery is earned: hold |
| `CeleryAnyFault` | 1 job, 2 workers, 2 copies, fair; all seven faults | a job is published once and whole, none is lost without a cause, accepted jobs end: hold |
| `CeleryOneMessage` | 3 jobs, 2 workers, 1 copy; stage, commit, storage, timeout, crash | ended jobs are final, failures name their stage, and the contract with one job per worker: hold |
| `Polling` | 2 jobs, 3 clicks, 2 requests, 2 timers, fair; any user, any request may fail | one polling loop until refreshes overlap; until a request strays, the job is polled to its end or an error is shown, and the panel follows it; polling stops: hold |
| `PracticePlayback` | 2 modes, 2 rates, 4 clicks, fair | a session that is over leaves nothing behind, drums and audio keep one rate, the panel does not say "playing" for ever: hold |
| `HoldoutEvidence` | 3 invocations, 2 at a time, 2 directories, 1 edit; kill, io, stage | a holdout is measured by one at a time, once unless its tables failed, on earned evidence; a log describes the files beside it: hold |
| `ReleaseChain` | 2 invocations of four plans, 6 commands, 1 edit | what is signed off was checked on that tree, evidence and bundle are of one pilot: hold |
| `DocWorkerCompleted` | redelivery, stage | "illegal transitions are refused": a duplicate turns completed into failed |
| `DocNoInventedHits` | as `ScoreRules` | "it never invents a drum": a snare between two slots is drawn twice |

Every property of a passing run has a mutant, an operator called a deviation next to the
definition it deviates from (an omitted check, a swapped order, a wrong filter), under which TLC
finds the property violated. The score modules were also compared with the Python code on random
inputs, which is how small mistakes in a translation of arithmetic are found.

What the models and the reading for them showed, besides the two violations, in the parts where
the code disagrees with a document, a comment or itself. Each property above either excepts such
a case by name or is stated so that it is true of the code as it is.

Jobs:

- `local_job_recovery.py:46` sets `failed_at` on interrupted jobs; `docs/資料模型設計.md:204`
  reserves it for failed ones.
- `upload_service.py:111` commits the rows before it stores the file;
  `docs/02_功能細部設計/音檔上傳功能規格.md:29` wants the file first.
- The row never shows a stage beyond preprocessing in the local runner, and the Celery worker moves
  it in a transaction nobody can read; `docs/02_功能細部設計/背景任務與Job狀態規格.md:36` and `:98`
  want readers to see each stage.
- `_mark_completed` checks no status: a draining server completes a job that its successor has
  marked interrupted. In the worker a refused duplicate of a failed job overwrites its error. The
  same document, line 85, wants illegal transitions refused.
- The same document, line 37, wants every uncaught error turned into `failed`. In the worker a
  refused commit, a log that cannot be written and a time limit in the boundary leave the row
  queued, without message or task: `AcceptedJobsEnd` and `QueuedJobsAreSomewhere` except the jobs
  whose task died, and name the deaths.
- A killed server leaves its pipeline running beside the next one, against "one at a time" in
  `docs/系統架構.md:55`.
- Retry is offered (`JOB_NOT_COMPLETED`, `EXPORT_NOT_READY` are retriable) for results that will
  never come: a failed or interrupted job, a PDF that failed.
- A child killed in mid-stage is reported as a failure of preprocessing, because its log names no
  failed stage; the detail page answers 500 for a log that was torn by a kill or a failed copy. A
  log copy that raises also hides the error of the stage: the row then says `PIPELINE_FAILED`.
- `cleanup_orphan_job_artifacts.py --apply` promises to "Delete only directories reported by the dry
  run" but makes its list again; a job born in between may lose its directory, and may still
  complete, with a log that names files which are gone.
- The packet checks that a file exists, the result page that it is intact.
- The backend has a warning, `completed_with_warning` and `PDF_EXPORT_FAILED`, for a PDF that the
  log reports as failed (`pipeline_service.py:786-825`); the AI pipeline reports a PDF it could not
  make as unavailable or skipped, so no local run ever ends with that warning.

Front end:

- One failed status request ends polling (`App.tsx:145`), against `docs/02_功能細部設計/前端頁面與互動規格.md:82`,
  which wants it to go on; a refused retry leaves the active job without its timer and a refused
  upload leaves a completed job without its result (`App.tsx:158`, `:186`). `ActiveJobIsPolled` and
  `EndIsShown` except these cases and demand that the page then shows an error, or that the user's
  next request is on its way.
- When the user turns to another job during a request (by selecting it, or because the answer to an
  upload comes while the job before it is asked for), the late answer overwrites the panel and sets
  a timer whose end clears the one of the active job, which is then polled no more while no error is
  shown (`App.tsx:130`, `:139`, `:126`; the document, line 99, wants a processing job polled). The
  properties except this by `astray`; `PollingStops` does not.
- A change of rate while a start is pending gives the audio the new rate and the drums the old one
  (`App.tsx:1438`, `:1391`; history `hasty`); Play pressed before the panel is redrawn overwrites an
  audio context that is then never closed (history `leaked`).
- "Drum chart only" plays the drum stem beside the synthesized drums and is missing without a stem;
  `docs/V1_Local_Quickstart.md:90` describes the built-in drum sound alone.
- A candidate that was chosen stays chosen on another result, if that has a candidate of the same id
  (`App.tsx:231-243`), and ids are numbered alike in every analysis.
- Jobs of the mode `generic_baseline`, which `pipeline_config.py:10` keeps for historical jobs only,
  are shown under another name: with the default `PIPELINE_MOCK_AI=true` (`config.py:26`) their
  tracks bear the label of a mock (`pipeline_service.py:687`) and the page calls them a demo, else
  "true_ai" (`result_service.py:259-293`).

Scores:

- The v3 arranger is laid out for four quarters: in 3/4 its grid spills into the next measure; gate
  and timeline count only the numerator, so in 6/8 no measure is complete and the timeline is twice
  too long. `CoreEvidenceIsCharted` and `PageFollowsScore` are stated for the signatures the code
  handles.
- In 3/4 one late snare is drawn in two measures. These make a stable groove, so the score is
  delivered, while the draft, which counts the one snare, is to be reviewed and names no limitation;
  the part of `PageFollowsScore` about the alert is stated for 4/4.
- A score has one empty measure more when a hit lies in its last beat; the gate counts rests in
  fills, which the arranger exempts; eighth-note hats through a fill are always "too dense".
- The alert that asks to revise a result of the generic baseline is never shown: it waits for that
  mode (`App.tsx:1026`), but the backend knows no name for it and sends `mock`, with which the page
  warns of a demo instead, or `true_ai`, with which it warns of nothing (`result_service.py:261`,
  `:289`); the test at `App.test.tsx:758` gives the page a mode that it never gets.
  In the demo mode an alert can stand over a score called ready to perform, because the gate does
  not count toms and the draft's quality does.
- The page says of too many fills that "the system treats this as a limit of quality"
  (`App.tsx:1995`), but no limitation, issue or score knows of it. Its advice and label for missing
  hats wait for `hihat_missing_likely`, while the summary says `hihat_missing` (`quality.py:315`).
- A calibration that authorises nothing still lowers the onset threshold; delivery stays refused.
- The benchmark measures four thresholds as candidates; the backend never passes any, although
  `docs/V1_Local_Quickstart.md:81` says so of its preset.

Benchmark and release:

- `bootstrap_external_performance_benchmarks.py:220` and
  `generate_realistic_performance_benchmark.py:96` require an F1 for "closed_hat", but the metrics
  know one class of hi-hat (`metrics.py:26`), and a class that is missing counts as 0: no item they
  make can pass, and no calibration can come of it. The items of the second also lack what
  `validate_item_provenance` asks for, and the bootstrapped mixes are synthetic.
- Greedy matching may find fewer hits than there are: predictions at 0 and 60 match one of -55 and
  50.
- "Re-running it is safer than mixing artifacts from different executions"
  (`run_performance_benchmark.py:285-289`), but a re-run whose child dies without its log, while
  the script goes on (237-239) or with it, leaves new files beside an older completed log, which the
  next invocation reuses. `LogDescribesItsFiles` excepts exactly these executions, those that still
  run and those side by side; a kill of the script alone needs no exception.
- Evidence "can be consumed once" (`scripts/README.md:181`); the check for the mark precedes the
  reservation (393, 396), so two overlapping invocations can both spend it; and a table that fails
  after the report (797-805) gives the reservation back unmarked (197), so the next one measures the
  holdout again. `EvidenceIsSpentOnce` is stated for invocations of which one ended before the other
  began, the first with its tables written. An invocation without `--benchmark-split` measures
  holdout items ungated.
- The evidence must be "of the same manifest" (`scripts/README.md:181`), but the items are loaded at
  137 and the manifest is hashed again for the report (177) and for the evidence (371): replaced in
  between, it names items that were not measured. `HoldoutIsEarned` excepts exactly that.
- `--skip-build` is "not for final release signoff" (`run_v1_release_gate.py:66`), but leaves no
  trace that the handoff check could see; an `evidence.json` is taken even when its command died;
  the handoff check compares no files and accepts a manifest that failed.

## 4. Proofs

TLAPS proves the theorems below for all values of the constants, under the `ASSUME` of the
component's module only; TLC evaluates that assumption in every run.

### JobLifecycleProofs

For every set of faults, any number of jobs and servers:

- `TypeCorrect`: `TypeOK` (strengthened by `Occupied`: a worker has a job exactly when it is not
  idle, a request in flight has a server).
- `SafetyInvariant`: `SafetyInv` of `JobLifecycleInvariant`. `PublishedWhole`, `AudioBeforeQueue`
  and `StartsOnlyFromQueued` are not inductive: that the worker publishes a job whose files are
  all there depends on what it did before, and that the row it marks processing is queued depends
  on nobody else having the job. The strengthening says that a job is a token: its handler has it
  until the submission (`RequestInv`), then it is in one place of one queue (`QueueInv`), then one
  worker has it (`WorkerInv`), and it is in recovery's list only if it has started (`FoundInv`);
  `RetryInv` and `TruncatedInv` say whose file a retry reads and why a truncated one was never
  run by its own upload.
- `PublishedIsWhole`, `AudioComesFirst`, `RetriesAreBesideTheirSource`, `NoJobRunsTwice` follow.

The argument has two lemmas that carry most steps: `HandlerAdvances` and `WorkerAdvances` say
that a step which changes only its own job, in one of a few ways, preserves the invariant; each
action is then shown to be such a step.

The lemmas `WhoChangesARow` and `WhoHasAJob` sum the actions up: a row changes by its handler, its
worker or the recovery that has found it. The theorems about the history argue from these, and so
does the refinement below. For every set of faults, what `LifecycleAnyFault` checks on its instance:

- `LossHasAReason` (`LossIsExplained`). The property is inductive by itself once types are known:
  each action leaves job `j` held, ends it, strikes it, or does not touch it (`Outcome`). That a
  kill strikes exactly what the process held needs that being held and being somewhere in a live
  process are the same (`HeldIsSomewhere`).
- `OverlapNeedsAKill` (`PipelinesOverlapOnlyAfterKills`), from `PipelineInv`: a pipeline that runs
  was struck by a kill or belongs to the worker of a live process that is waiting for it.
- `EndIsAlmostFinal` (`EndedRowsChangeOnlyByRecovery`), from `SafetyInv` and `RunningInv`: what a
  worker has is never completed or failed, so its last write can only meet an end that
  recovery has written.

### JobLifecycleProofs: the refinement

Processes that do not overlap (`"overlap" \notin Faults`), everything else may fail:

- `JobsEndOnce` (`TerminalIsFinal`, which no run lists) and `ErrorsNameOutcomes`
  (`ErrorsMatchOutcome`). The invariant is `SoloInv`: the processes before a running one are dead,
  only a live one has work, the list of a recovery holds processing rows, and a run that goes on
  is processing. `ErrorInv` adds that an error is known where it is raised.

The database takes every commit as well (`NoLostCommit`); handlers, storage and pipelines may
still fail and processes may be killed at any point:

- `ProcessingIsWorkedOn` (`NoZombieProcessing`, which no run lists): a row that reads processing
  while the application serves is held by the worker.
- `RuntimeImplementsContract` (`ImplementsContract`): the safety half of the contract, by step
  simulation. `ResolveInv` says that a processing row is run, on the list of a recovery, or nobody
  runs; that there is at most one; and that exports and "completed" go together. Without the
  second, a recovery would interrupt several jobs in one step, which the contract does in several;
  without the first, the worker could start a job beside one that still reads processing. The
  lemma `StepMoves` reduces every action to a move of one job (`ContractMove`) or to none, and the
  theorem translates the moves.

### CeleryWorkerProofs

- `TypeCorrect`, `OneRunAtATime` and `CompletedJobsArePublished` for every set of faults. The
  inductive invariant is `TypeOK /\ LockInv`: a task past its claim holds the lock of its row,
  which is what makes two of them impossible, and one about to commit has written its metadata.
- `JobsArePublishedOnce` (`PublishedOnce` of `CeleryArtifacts`) for every set of faults. Of
  `ArtifactInv`, `InsertsWhatIsMissing` says that a transaction inserts what the committed rows
  lack, as nobody else commits rows while it holds the lock, `RunIsStored` that a run has stored
  what its stages so far write, and `RowsTogether` that a job has all four kinds or none and, with
  them, its files, unless a later run was cut off.
- `PublishedFilesStayWhole`: with exactly-once delivery (`ExactlyOnce`, no `send` and no
  `redelivery`) no later run exists.
- `EndedJobsAreFinal` for every set of faults without `send` and `redelivery`. It needs `OnceInv`: a
  job is with its upload handler, or in the broker, or with one task (`OnePlace`), and one that has
  ended is with nobody who would write its row again (`EndedAtRest`). The run
  `DocWorkerCompleted` shows that the premise cannot be dropped.
- `NoQueuedJobIsLost` (`QueuedJobsAreSomewhere`) for every set of faults, of `HSpec`. It rests on
  two facts: a job that its handler has not sent has no message and no task, and a task reports
  only a job that has ended; so a task that goes away leaves an ended row, a failed one, or a
  dead job.
- `FailuresNameTheirStage` (`FailureNamesItsStage`) when messages are delivered once. The invariant
  `BlameInv` follows the stage from the transaction into the task: who holds a lock has a task on
  that row (`LocksHaveTasks`), a committed row and its stage agree and a message waits for a queued
  one (`RowsAgree`), and what a task has raised says where it was (`TasksTell`).
- `WorkersImplementContract` (`ImplementsContract` of `CeleryRefinement`) when messages are
  delivered once and there are finitely many workers; commits may fail. `ClaimInv` adds to
  `OnceInv` which tasks have claimed their job, that a row is as far as its upload and never says
  processing, and that nobody takes up a job whose task died after the claim. `StepMoves` reduces
  each step to a move of one job as the contract sees it; `RoomForOne` counts: the jobs that are
  shown as processing map one to one to workers other than the one that takes up another.

### JobPollingProofs

For any number of jobs, requests, timers and clicks:

- `TypeCorrect`. That an outstanding request names a job is part of `ClientType`, because the
  server's answer is a status only then.
- `OneLoop`: `OnePollingLoop`, whatever fails and whatever the user does. The inductive invariant is
  `OneThingAtATime`: a request and a timer exclude each other, and the reference names the timer
  that is pending. Without the latter the clean-ups would miss the timer; this is what an overlap
  breaks.
- `PollingGoesOn` and `PanelFollowsTheJob`: `ActiveJobIsPolled` and `PanelShowsTheJob`. The
  invariant `AllForActive` holds while nothing is astray. Its three claims excuse each other's gaps:
  a panel that shows another job has asked for the active one (`Requesting`), a completed one
  without its result has a request for it, a job without request and timer has ended, and all of
  them yield to a failure that the page knows (`UserKnows`). A `refreshJob` that begins restores
  them all, which is why they hold again after a stray request or timer is gone.

### PerformanceBenchmarkProofs

For any number of invocations, directories, items, kills and failing files, also with all of them
running at once:

- `TypeCorrect`.
- `OneHolder`, `EarnedFirst`, `SpentOnce`, `NotLost`: `OneHoldoutAtATime`, `HoldoutIsEarned`,
  `EvidenceIsSpentOnce` and `EvidenceIsNotLost` (the last is proved only; no run lists it). The
  inductive invariant `Inv` has a part for each. `ReservationInv`: the file beside a report belongs
  to the invocation that holds it, or to one that something stopped; so a second one finds it
  there. `EarnedInv`: whatever overwrites a report, one that counts as evidence names a manifest
  under whose name there was an improvement, and so does everyone who has shown it; which items
  these were, the exception of `HoldoutIsEarned` leaves open only where a manifest was replaced.
  `SpentInv` and `OnceInv`: who has spent evidence marks it or leaves its reservation for ever,
  unless its tables could not be written (history `unmarked`), so an invocation that starts later is
  stopped by the mark or by the reservation; `AfterInv` says that earlier ones stay ended.

The lemma `Effects` reduces the steps of the script to the eleven things that can happen to the
account; every part of the invariant is then shown to be preserved by these.

`LogsDescribeFiles` (`LogDescribesItsFiles`) has an invariant of its own, `LogInv`: the log and the
files of an item are those of invocations that have started, what a running one has written is its
own or of one beside it, and whoever replaced files that a log lists still runs there, lost its
pipeline on that item, or ran beside the one that wrote the log. Nothing is assumed about which
directories invocations share.

### PipelineRunProofs

For any number of jobs, kills and clean-ups, and every fault:

- `TypesHold`, and `FailedRowsNameTheBreak`, `CompletedJobsAreServed`, `DetailsNameOwnFiles` and
  `LogsAgreeWithRows`: the four properties of `PublishedRun`.

The inductive invariant `Inv` follows one run through its hands. `ChildInv` relates the work log,
the files and the stages that are done while the child runs: a stage that has raised is the one
the log calls failed, unless the child was killed or the directory swept. `StoreInv`
carries that through copying, storing and publishing: `Ready` says what must be true of the log in
hand for what comes next (telling of a failure, storing, publishing), and `RunInv` when each
applies. `LogInv` and `JobInv` say what remains when nobody works on the job: which log goes with
which row and which error, and that the log of a completed job names exactly the files stored with
it unless the job was swept, which is why notes written from the log are true of the files.
`ServerInv` says that a server that is down has no run, which is what recovery relies on, that a
retry repeats a job that has ended, and that a clean-up only takes jobs born while it held the ids.
None of this depends on the order of removal. The readers of `PipelineReads` are functions of the
state; the last theorems need the invariant only for completed and failed jobs.

### PracticePlaybackProofs

For every set of modes and rates and any number of clicks:

- `NothingIsLeftBehind` (`NothingOutlivesItsSession`) and `DrumsKeepTheRate` (`RatesAgree`). The
  session number alone does not protect the player, since an awaited `play()` or `resume()` comes
  back whenever it likes. The invariant says who may hold what: a start that waits is the only one
  of its session and nothing is scheduled before it begins (`StartsInv`), timers, frame loop and
  sound belong to the current session or to its start (`TimersInv`), an open context has the
  player or a start that will close it (`ContextsInv`), and the rate of all of these is the one
  shown unless the session is one of the hasty (`RateInv`).

### ReleaseChainProofs

For any number of invocations, plans, edits and worlds:

- `SignOffsAreEarned` (`SignOffIsEarned`), `EvidenceIsOwn` (`EvidenceIsOfTheRun`) and
  `BundlesAreOneRun` (`BundleIsOneRun`). Two kinds of facts are needed. What a file claims is true
  of the commands its author ran, whoever reads it later (`FilesAreSound`, `Sound`): so a report
  read from the wrong pilot still cannot pass what nobody checked. And a pilot that nothing
  interfered with finds at each place the files it wrote itself (`OnCourse`); `OverlapIsStruck`
  makes the interference known to both sides, and `BundleInv` keeps what lies beside a passed
  manifest after its pilot has ended and another one has started.

`ReleaseAssumption` says of the plans what the scripts' parsers enforce: the commands are those of
`_deterministic_steps`, and a pilot can only ask for true AI, since it starts the gate with none
of the flags that skip a step.

### ScoreRulesProofs

For any transcriptions, rates, calibrations, benchmarks and number of candidates:

- `JudgementsFollowTheLogs`: the inductive invariant `Inv`. `WorkInv` says that the flags and the
  chart of a candidate are those of its own events, which is what a gate that sees only the chart
  and a recommendation that sees only counts have in common. `DoneInv` keeps of a judged candidate
  what every reader relies on: one that is rejected shows what to do, one with the core of a groove
  is not rejected, and what the quality panel makes of the counts fits the recommendation. The last
  needs an argument across the arranger: a candidate without hats must not be recommended, although
  the recommendation does not ask for hats. The lemma `ChartedFromEvents` supplies it (a core drum
  of the chart was transcribed), so without hats no measure is complete, the groove is not stable
  and the verdict takes points (`GateOfCandidate`, `Recommendation`). `CalibrationInv` and
  `AnalysisInv` say where calibration and recommendation come from.
- `TheBestIsRecommended` (`RecommendationIsSound`): runner, benchmark and page each sort in their
  own way; the lemmas `FirstOfRanked`, `Reevaluated` and `HeadOfShown` show that all three have the
  one first candidate at their head (`FirstExists`, `FirstIsUnique`).
- `DeliveryFollowsTheGate` (`DeliveredIsChecked`): `GateVerdict` is the core, a case distinction
  over `apply_gate_calibration`: what is delivered has no issue left, what is offered has none but
  its alignment, what is refused has one that the page knows (`PageOfVerdict`), provided an
  alignment called low is below the threshold (`NoAlignmentIssueAbove`). `CalibrationMissesNone`
  compares `calibrate_gate` with what the gate does later, and `CoreIsHeard` turns the two measures
  of complete groove into kicks, snares and hats of the draft.

The arranger's order of hits is computed by folds. The proofs do not look into these: they use that
every event drawn is placed for some source, `Placed`, which holds for any order.

### Only model-checked

- `MeasuresAreFull`, `CoreEvidenceIsCharted`, `MidiReadsBack` and `PageFollowsScore` of
  `ScoreRules`: what voices, charts, tracks and timelines contain is computed by folds and recursive
  functions over data, and that it is right for every input needs induction over data.
- Liveness: `EveryJobEnds`, `ProcessingResolves`, `AcceptedJobsEnd`, `EndIsShown`,
  `PollingStops`, `PlaybackStops`.

Every other property of a passing run is stated by a theorem.

## 5. Not modelled, and the plan

Next, in order:

1. The audio modes and the seconds of the review timeline, and the checks of an upload's metadata.
2. The export of the review packet in the release chain.

Left out for good: model inference and signal processing (numerics without a specification),
rendering of XML, PDF and pages, redaction and response schemas (pure string work), host
diagnostics, migrations, deployment, the training, evaluation and spike scripts, scripts that only
report (`cleanup_storage`, `plan_local_reset`), the chart modes and the transcription backend
(`adtof.py`) that the pipeline does not reach, and the in-process runner that only tests use.
