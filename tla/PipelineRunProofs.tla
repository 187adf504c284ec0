--------------------------- MODULE PipelineRunProofs ---------------------------
(***************************************************************************)
(* What holds of PipelineRun, and of what PipelineReads answers about it,  *)
(* for every set of jobs, any faults and any number of kills and sweeps.   *)
(***************************************************************************)
EXTENDS PipelineReads, TLAPS

(***************************************************************************)
(* The inductive invariant.                                                *)
(***************************************************************************)
Breaks == {BackendStage[s] : s \in Stage}
            \cup {"launch", "timeout", "childkilled", "storage", "commit", "swept", "killed"}
ErrorType ==
  [code : {StageCode[s] : s \in Stage}
            \cup {"PIPELINE_FAILED", "WORKER_TIMEOUT", "ARTIFACT_NOT_FOUND", "none"},
   stage : {BackendStage[s] : s \in Stage} \cup {"queued", "none"}]
RowType ==
  [status : {"absent", "uploaded", "queued", "processing", "completed", "failed",
             "interrupted"},
   err : ErrorType]
LogType ==
  [is : {"none", "torn", "whole"}, status : {"none", "running", "completed", "failed"},
   failed : 0..5, names : SUBSET Artifacts, keys : BOOLEAN]
RunType ==
  [pc : {"idle", "launch", "child", "read", "log", "copy", "store", "put", "commit", "fail"},
   job : Jobs \cup {NoJob}, child : {"none", "running", "completed", "failed"},
   done : 0..5, exit : {0, 1, 137}, lost : BOOLEAN, made : SUBSET Artifacts,
   files : SUBSET Artifacts, work : LogType, log : LogType,
   next : {"none", "fail", "store", "commit"}, left : SUBSET Artifacts, err : ErrorType]
SweepType ==
  [pc : {"idle", "list", "remove"}, ids : SUBSET Jobs, victims : SUBSET Jobs,
   at : Jobs \cup {NoJob}, removed : Nat]

Types ==
  /\ row \in [Jobs -> RowType]
  /\ source \in [Jobs -> Jobs \cup {NoJob}] /\ normalized \in Jobs \cup {NoJob}
  /\ exports \in [Jobs -> SUBSET {"midi", "musicxml", "pdf"}]
  /\ original \in BOOLEAN
  /\ dirs \subseteq Jobs
  /\ slog \in [Jobs -> LogType] /\ stored \in [Jobs -> SUBSET Artifacts]
  /\ request \in {"none", "store", "accept"}
  /\ waiting \subseteq Jobs
  /\ up \in BOOLEAN
  /\ w \in RunType
  /\ sweep \in SweepType
  /\ broke \in [Jobs -> SUBSET Breaks]
  /\ late \subseteq Jobs
  /\ kills \in Nat /\ sweeps \in Nat

Swept(j) == "swept" \in broke[j]
Killed(j) == "childkilled" \in broke[j]

(* What FailureNamesTheBreak says of an error and of what broke.           *)
Told(err, b) ==
  /\ b # {}
  /\ \A s \in Stage :
       /\ err.code = StageCode[s] => BackendStage[s] \in b /\ err.stage = BackendStage[s]
       /\ b = {BackendStage[s]} => err.code = StageCode[s]
  /\ err.code = "ARTIFACT_NOT_FOUND" => "swept" \in b
  /\ b = {"timeout"} => err.code = "WORKER_TIMEOUT"
  /\ ~Retriable(err.code) => "swept" \in b \/ \E s \in Stage : BackendStage[s] \in b

(* What the completed stages have made for certain.                        *)
Main(n) ==
  (IF n >= 1 THEN {"normalized_audio"} ELSE {})
  \cup (IF n >= 2 THEN {"drums_stem"} ELSE {})
  \cup (IF n >= 3 THEN {"raw_midi"} ELSE {})
  \cup (IF n >= 4 THEN {"processed_midi", "drum_events"} ELSE {})
  \cup (IF n >= 5 THEN {"musicxml", "performance_midi", "chart_events"} ELSE {})

(* A score is never there without the MIDI it is made from.                *)
InOrder(names) ==
  /\ "musicxml" \in names => "processed_midi" \in names
  /\ "pdf" \in names => ExportPdf

Fresh(j) == slog[j] = NoLog /\ stored[j] = {}

(* A log without a break in it: nothing broke but for a removed directory. *)
Unbroken(j) == broke[j] \subseteq {"swept"}

(* The completed log of a run, before and after its artifacts are stored.  *)
CompleteLog(l, keys) ==
  /\ l.is = "whole" /\ l.status = "completed" /\ l.failed = 0 /\ l.keys = keys
  /\ Main(5) \subseteq l.names /\ InOrder(l.names)

Excused == {"childkilled", "storage", "commit", "swept"}

(* A log and the error that goes with it.                                  *)
Consistent(l, err, b) ==
  /\ l.status = "completed" => b \cap Excused # {}
  /\ l.status = "running" => "childkilled" \in b
  /\ l.failed # 0 => err.stage = BackendStage[l.failed]

(* How far the jobs are, whoever works on them.                            *)
JobInv(j) ==
  LET status == row[j].status IN
  /\ status \in {"absent", "uploaded", "queued"} => Fresh(j) /\ row[j].err = NoError
  /\ status \in {"absent", "uploaded"} \/ j \in waiting => Unbroken(j)
  /\ j \in waiting => status = "queued" /\ w.job # j
  /\ exports[j] # {} => status = "completed"
  /\ Swept(j) /\ j \notin late =>
       /\ j \notin waiting /\ status \in {"queued", "failed"}
       /\ w.job = j => w.pc = "fail"
  /\ status \in {"processing", "completed"} => original \/ First \in late
  /\ status \in {"failed", "interrupted"} => row[j].err # NoError
  /\ j \in dirs => status # "absent"

(* The stored log of a job by itself.                                      *)
StoredLog(j) ==
  LET l == slog[j] IN
  /\ l.is = "none" => l = NoLog
  /\ l.is = "torn" =>
       l = Torn /\ (broke[j] \cap {"killed", "storage"} # {} \/ (w.job = j /\ w.pc = "copy"))
  /\ InOrder(l.names)
  /\ l.status = "running" => Killed(j)

(* The stored log of a job, and the rows that go with it.                  *)
LogInv(j) ==
  LET l == slog[j]  status == row[j].status IN
  /\ StoredLog(j)
  /\ l.failed # 0 =>
       \/ w.job = j /\ w.pc = "fail" /\ w.err.stage = BackendStage[l.failed]
       \/ row[j].err # NoError
       \/ ~up /\ status = "processing"
  /\ status = "failed" =>
       /\ Told(row[j].err, broke[j])
       /\ l.status = "completed" => broke[j] \cap Excused # {}
  /\ status = "completed" =>
       /\ row[j].err = NoError /\ l.is # "torn"
       /\ {"midi", "musicxml"} \subseteq exports[j] /\ ("pdf" \in exports[j] => ExportPdf)
       /\ IF l.is = "whole"
          THEN /\ CompleteLog(l, TRUE) /\ exports[j] = ExportRows(l.names)
               /\ l.names \subseteq stored[j] \/ Swept(j)
          ELSE Swept(j)

(* The run of job j up to the reading of its log.                          *)
ChildInv(j) ==
  LET l == w.work IN
  /\ Fresh(j)
  /\ Main(w.done) \subseteq w.made /\ InOrder(w.made)
  /\ w.made \subseteq w.files \/ Swept(j)
  /\ l.is = "none" => l = NoLog
  /\ l.is = "torn" => l = Torn /\ Killed(j)
  /\ InOrder(l.names)
  /\ l.failed # 0 => l.status = "failed" /\ BackendStage[l.failed] \in broke[j]
  /\ \A s \in Stage : BackendStage[s] \in broke[j] => l.failed = s \/ Swept(j) \/ Killed(j)
  /\ "timeout" \in broke[j] => Swept(j) \/ Killed(j)
  /\ w.pc = "launch" => Unbroken(j) /\ w.done = 0 /\ w.made = {} /\ l = NoLog
  /\ w.lost => Swept(j) /\ (w.pc \in {"launch", "child"} => l = NoLog)
  /\ w.pc = "child" =>
       /\ w.child # "none" /\ l.is # "torn"
       /\ w.child = "running" => Unbroken(j) /\ l.status \in {"none", "running"}
       /\ w.child = "failed" => l.status \in {"none", "failed"} /\ (Swept(j) \/ l.failed # 0)
  /\ (w.pc = "child" /\ w.child = "completed") \/ (w.pc = "read" /\ w.exit = 0) =>
       /\ w.done = 5 /\ Unbroken(j)
       /\ l = Log("completed", 0, w.made, FALSE) \/ (l = NoLog /\ Swept(j))
  /\ w.pc = "read" /\ w.exit # 0 =>
       /\ Killed(j) \/ Swept(j) \/ l.failed # 0
       /\ l.status \in {"completed", "running"} => Killed(j)

(* What the runner is about to do with the log it has in hand: tell of the *)
(* failure, store the artifacts, or publish.                               *)
Ready(j, next, l) ==
  /\ next = "fail" => Consistent(l, w.err, broke[j]) /\ Told(w.err, broke[j]) /\ w.err # NoError
  /\ next \in {"store", "put"} =>
       CompleteLog(l, FALSE) /\ (l.names \subseteq w.files \/ Swept(j))
  /\ next = "put" => l.names \ w.left \subseteq stored[j] \/ Swept(j)
  /\ next = "commit" => CompleteLog(l, TRUE) /\ (l.names \subseteq stored[j] \/ Swept(j))

(* The run of job j while it stores its log and its artifacts.             *)
StoreInv(j) ==
  LET l == w.log IN
  /\ w.pc \in {"log", "copy"} =>
       w.next # "none" /\ l.is = "whole" /\ InOrder(l.names) /\ Ready(j, w.next, l)
  /\ w.pc = "log" => slog[j].is # "torn" /\ slog[j].failed = 0 /\ slog[j].status # "running"
  /\ w.pc = "copy" => slog[j] = Torn \/ (slog[j] = NoLog /\ Swept(j))
  /\ w.pc \in {"store", "put", "commit"} =>
       Ready(j, w.pc, l) /\ (slog[j] = l \/ (slog[j] = NoLog /\ Swept(j)))
  /\ w.pc = "fail" => Ready(j, "fail", slog[j])

RunsInv(j) ==
  IF w.pc \in {"launch", "child", "read"} THEN ChildInv(j) ELSE StoreInv(j)

RunInv ==
  IF w.pc = "idle" THEN w = Idle
  ELSE /\ w.job \in Jobs /\ up
       /\ \/ row[w.job].status = "processing"
          \/ row[w.job].status = "queued" /\ w.pc = "fail"
       /\ row[w.job].err = NoError
       /\ RunsInv(w.job)

(* What the jobs have in common.                                           *)
ServerInv ==
  /\ ~up => w = Idle /\ request = "none" /\ waiting = {}
  /\ request # "none" => row[First].status = "uploaded"
  /\ \A j \in Jobs : source[j] # NoJob => row[source[j]].status \in Ended
  /\ sweep.pc = "list" => \A j \in Jobs : row[j].status # "absent" => j \in sweep.ids \cup late
  /\ sweep.victims \subseteq late
  /\ sweep.at # NoJob => sweep.at \in late /\ Swept(sweep.at)

Inv ==
  /\ Types /\ ServerInv /\ RunInv
  /\ \A j \in Jobs : JobInv(j) /\ LogInv(j)

-----------------------------------------------------------------------------

(* Values that the steps below share.                                      *)

LEMMA StageNames ==
  /\ DOMAIN BackendStage = Stage /\ DOMAIN StageCode = Stage
  /\ \A s \in Stage :
       /\ BackendStage[s] \notin {"launch", "timeout", "childkilled", "storage", "commit",
                                  "swept", "killed", "none"}
       /\ StageCode[s] \notin {"PIPELINE_FAILED", "WORKER_TIMEOUT", "ARTIFACT_NOT_FOUND",
                               "none"}
       /\ ~Retriable(StageCode[s])
  /\ \A s, t \in Stage : BackendStage[s] = BackendStage[t] \/ StageCode[s] = StageCode[t]
                           => s = t
<1>1. \A s \in Stage : s \in {1, 2, 3, 4, 5}
  BY DEF Stage
<1>2. DOMAIN BackendStage = Stage /\ DOMAIN StageCode = Stage
  BY DEF Stage, BackendStage, StageCode
<1>3. \A s \in Stage :
         /\ BackendStage[s] \notin {"launch", "timeout", "childkilled", "storage", "commit",
                                   "swept", "killed", "none"}
        /\ StageCode[s] \notin {"PIPELINE_FAILED", "WORKER_TIMEOUT", "ARTIFACT_NOT_FOUND",
                                "none"}
        /\ ~Retriable(StageCode[s])
  BY <1>1 DEF BackendStage, StageCode, Retriable
<1>4. \A s, t \in Stage : BackendStage[s] = BackendStage[t] \/ StageCode[s] = StageCode[t]
                            => s = t
  BY <1>1 DEF BackendStage, StageCode
<1> QED BY <1>2, <1>3, <1>4

(* What a stage leaves behind when it does not raise.                      *)

LEMMA StageMakes ==
  ASSUME NEW n \in 0..4, NEW o \in Outcomes(n + 1), StageResult(n + 1, o) # Raises,
         NEW made \in SUBSET Artifacts, Main(n) \subseteq made, InOrder(made)
  PROVE  LET out == StageResult(n + 1, o) IN
         /\ made \cup out \in SUBSET Artifacts
         /\ Main(n + 1) \subseteq made \cup out
         /\ InOrder(made \cup out)
<1> DEFINE out == StageResult(n + 1, o)
<1>1. n \in {0, 1, 2, 3, 4}
  OBVIOUS
<1>2. out \subseteq Artifacts
  <2>1. out \subseteq Outputs(n + 1)
    BY <1>1 DEF StageResult, Outputs, Normalize, Separate, Transcribe, PostProcess, Notate,
                Rendered, Outcomes, Raises
  <2>2. n + 1 \in Stage
    BY DEF Stage
  <2> QED BY <2>1, <2>2 DEF Artifacts
<1>3. Main(n + 1) \ Main(n) \subseteq out
  <2> USE DEF StageResult, Normalize, Separate, Transcribe, PostProcess, Notate, Rendered,
              Outcomes, Raises
  <2>1. CASE n = 0
    BY <2>1 DEF Main
  <2>2. CASE n = 1
    <3>1. "drums_stem" \in out
      BY <2>2
    <3> QED BY <2>2, <3>1 DEF Main
  <2>3. CASE n = 2
    BY <2>3 DEF Main
  <2>4. CASE n = 3
    BY <2>4 DEF Main
  <2>5. CASE n = 4
    <3>1. {"musicxml", "performance_midi", "chart_events"} \subseteq out
      BY <2>5
    <3> QED BY <2>5, <3>1 DEF Main
  <2> QED BY <1>1, <2>1, <2>2, <2>3, <2>4, <2>5
<1>4. "musicxml" \in out => n = 4
  BY <1>1 DEF StageResult, Normalize, Separate, Transcribe, PostProcess, Notate,
              Rendered, Outcomes, Raises
<1>5. "pdf" \in out => ExportPdf
  BY <1>1 DEF StageResult, Normalize, Separate, Transcribe, PostProcess, Notate,
              Rendered, Outcomes, Raises
<1>6. n = 4 => "processed_midi" \in made
  BY DEF Main
<1> QED BY <1>2, <1>3, <1>4, <1>5, <1>6 DEF InOrder

LEMMA Values ==
  /\ NoError \in ErrorType /\ RowStageError \in ErrorType
  /\ RowStageError # NoError
  /\ NoLog \in LogType /\ Torn \in LogType /\ FailureLog \in LogType
  /\ NoLog.is = "none" /\ Torn.is = "torn" /\ FailureLog.is = "whole"
  /\ \A l \in {NoLog, Torn, FailureLog} : l.failed = 0 /\ l.names = {} /\ InOrder(l.names)
  /\ NoLog.status = "none" /\ Torn.status = "none" /\ FailureLog.status = "failed"
  /\ Idle \in RunType /\ Idle.pc = "idle" /\ Idle.job = NoJob
  /\ \A status \in {"absent", "uploaded", "queued", "processing", "completed"} :
       NewRow(status) \in RowType /\ NewRow(status).status = status
       /\ NewRow(status).err = NoError
<1>1. NoError \in ErrorType /\ RowStageError \in ErrorType /\ RowStageError # NoError
  <2>1. BackendStage[1] = "preprocessing" /\ 1 \in Stage
    BY DEF BackendStage, Stage
  <2> QED BY <2>1 DEF NoError, RowStageError, Error, ErrorType
<1>2. NoLog \in LogType /\ Torn \in LogType /\ FailureLog \in LogType
  <2>1. NoLog \in LogType
    BY DEF NoLog, LogType
  <2>2. Torn \in LogType
    BY <2>1 DEF Torn, LogType
  <2>3. FailureLog \in LogType
    BY DEF FailureLog, Log, LogType
  <2> QED BY <2>1, <2>2, <2>3
<1>3. /\ NoLog.is = "none" /\ Torn.is = "torn" /\ FailureLog.is = "whole"
      /\ \A l \in {NoLog, Torn, FailureLog} : l.failed = 0 /\ l.names = {} /\ InOrder(l.names)
      /\ NoLog.status = "none" /\ Torn.status = "none" /\ FailureLog.status = "failed"
  <2>1. NoLog.is = "none" /\ NoLog.failed = 0 /\ NoLog.names = {} /\ NoLog.status = "none"
    BY DEF NoLog
  <2>2. Torn.is = "torn" /\ Torn.failed = 0 /\ Torn.names = {} /\ Torn.status = "none"
    BY DEF Torn, NoLog
  <2>3. /\ FailureLog.is = "whole" /\ FailureLog.failed = 0 /\ FailureLog.names = {}
        /\ FailureLog.status = "failed"
    BY DEF FailureLog, Log
  <2> QED BY <2>1, <2>2, <2>3 DEF InOrder
<1>4. Idle \in RunType /\ Idle.pc = "idle" /\ Idle.job = NoJob
  BY <1>1, <1>2 DEF Idle, RunType
<1>5. \A status \in {"absent", "uploaded", "queued", "processing", "completed"} :
        NewRow(status) \in RowType /\ NewRow(status).status = status
        /\ NewRow(status).err = NoError
  BY <1>1 DEF NewRow, RowType
<1> QED BY <1>1, <1>2, <1>3, <1>4, <1>5

LEMMA LogIsLog ==
  ASSUME NEW status \in {"none", "running", "completed", "failed"}, NEW failed \in 0..5,
         NEW names \in SUBSET Artifacts, NEW keys \in BOOLEAN
  PROVE  LET l == Log(status, failed, names, keys) IN
         /\ l \in LogType /\ l.is = "whole" /\ l.status = status /\ l.failed = failed
         /\ l.names = names /\ l.keys = keys
BY DEF Log, LogType
(* The values that tell what broke: adding a removed directory never makes *)
(* an error a lie, and a general failure is told of anything that is no    *)
(* stage and no timeout.                                                   *)
LEMMA ToldSwept ==
  ASSUME NEW err, NEW b, Told(err, b)
  PROVE  Told(err, b \cup {"swept"})
<1>1. \A s \in Stage : b \cup {"swept"} # {BackendStage[s]}
  BY StageNames
<1> QED BY <1>1 DEF Told

LEMMA ToldGeneral ==
  ASSUME NEW err, err.code = "PIPELINE_FAILED", NEW b,
         b \cap {"launch", "childkilled", "storage", "commit", "swept"} # {}
  PROVE  Told(err, b)
<1>1. \A s \in Stage : b # {BackendStage[s]} /\ err.code # StageCode[s]
  BY StageNames
<1>2. b # {} /\ b # {"timeout"}
  OBVIOUS
<1>3. Retriable(err.code)
  BY DEF Retriable
<1> QED BY <1>1, <1>2, <1>3 DEF Told

LEMMA ToldStage ==
  ASSUME NEW s \in Stage, NEW b, BackendStage[s] \in b
  PROVE  Told(Error(StageCode[s], BackendStage[s]), b)
<1>1. Error(StageCode[s], BackendStage[s]).code = StageCode[s]
      /\ Error(StageCode[s], BackendStage[s]).stage = BackendStage[s]
  BY DEF Error
<1>2. StageCode[s] # "ARTIFACT_NOT_FOUND" /\ b # {"timeout"}
  BY StageNames
<1>3. \A t \in Stage : StageCode[s] = StageCode[t] \/ b = {BackendStage[t]} => s = t
  BY StageNames
<1> QED BY <1>1, <1>2, <1>3 DEF Told

(***************************************************************************)
(* The jobs a step leaves alone.                                           *)
(***************************************************************************)
Same(j) ==
  /\ row'[j] = row[j] /\ exports'[j] = exports[j] /\ broke'[j] = broke[j]
  /\ slog'[j] = slog[j] /\ stored'[j] = stored[j]
  /\ j \in waiting' => j \in waiting
  /\ j \in dirs' => j \in dirs

LEMMA Frame ==
  ASSUME NEW j \in Jobs, JobInv(j), LogInv(j), Same(j),
         w' = w \/ (w.job # j /\ w'.job # j), up' = up,
         original \/ First \in late => original' \/ First \in late',
         late \subseteq late'
  PROVE  JobInv(j)' /\ LogInv(j)'
<1>1. JobInv(j)'
  BY DEF JobInv, Same, Fresh, Unbroken, Swept
<1>2. StoredLog(j)'
  BY DEF LogInv, StoredLog, Same, Killed, InOrder
<1>3. LogInv(j)'
  BY <1>2 DEF LogInv, Same, Told, CompleteLog, ExportRows, Excused, Swept, InOrder, Main
<1> QED BY <1>1, <1>3

(* A step of the runner touches the job it runs, and nothing else.         *)
RunnerStep ==
  /\ w.pc # "idle" /\ (w'.job = w.job \/ w' = Idle)
  /\ UNCHANGED <<source, request, waiting, up, sweep, original, late>>
  /\ dirs' \in {dirs, dirs \cup {w.job}}
  /\ broke[w.job] \subseteq broke'[w.job]
  /\ \A j \in Jobs \ {w.job} :
       /\ row'[j] = row[j] /\ exports'[j] = exports[j] /\ broke'[j] = broke[j]
       /\ slog'[j] = slog[j] /\ stored'[j] = stored[j]
  /\ row'[w.job] = row[w.job] \/ row'[w.job].status \in {"completed", "failed"}

LEMMA RunnerFrame ==
  ASSUME Inv, PipelineAssumption, RunnerStep
  PROVE  /\ w.job \in Jobs
         /\ ServerInv'
         /\ \A j \in Jobs \ {w.job} : JobInv(j)' /\ LogInv(j)'
         /\ w.job \notin waiting' /\ row[w.job].err = NoError
         /\ row[w.job].status = "processing" \/ (row[w.job].status = "queued" /\ w.pc = "fail")
         /\ w.pc # "fail" => ~Swept(w.job) \/ w.job \in late
         /\ w.pc # "fail" => original \/ First \in late
<1>1. w.job \in Jobs /\ RunInv /\ up
  BY DEF Inv, RunInv, RunnerStep
<1>2. /\ row[w.job].status = "processing" \/ (row[w.job].status = "queued" /\ w.pc = "fail")
      /\ row[w.job].err = NoError
  BY <1>1 DEF RunInv, RunnerStep
<1>3. JobInv(w.job)
  BY <1>1 DEF Inv
<1>4. ASSUME NEW j \in Jobs \ {w.job} PROVE JobInv(j)' /\ LogInv(j)'
  <2>1. JobInv(j) /\ LogInv(j)
    BY DEF Inv
  <2>2. w'.job # j
    BY Values DEF RunnerStep, PipelineAssumption
  <2>3. Same(j)
    BY DEF RunnerStep, Same
  <2>4. up' = up /\ original' = original /\ late' = late
    BY DEF RunnerStep
  <2> QED BY <2>1, <2>2, <2>3, <2>4, Frame
<1>5. ServerInv'
  <2> USE DEF RunnerStep
  <2>1. ServerInv /\ source \in [Jobs -> Jobs \cup {NoJob}] /\ sweep \in SweepType
    BY DEF Inv, Types
  <2>2. up'
    BY <1>1
  <2>3. request' # "none" => row'[First].status = "uploaded"
    BY <1>1, <1>2, <2>1, PipelineAssumption DEF ServerInv, PipelineAssumption
  <2>4. ASSUME NEW j \in Jobs, source'[j] # NoJob
        PROVE  row'[source'[j]].status \in Ended
    <3>1. source[j] \in Jobs /\ row[source[j]].status \in Ended
      BY <2>1, <2>4 DEF ServerInv
    <3>2. source[j] # w.job
      BY <1>2, <3>1 DEF Ended
    <3> QED BY <3>1, <3>2
  <2>5. ASSUME NEW j \in Jobs, sweep'.pc = "list", row'[j].status # "absent"
        PROVE  j \in sweep'.ids \cup late'
    <3>1. row[j].status # "absent"
      BY <1>2, <2>5
    <3> QED BY <2>1, <2>5, <3>1 DEF ServerInv
  <2>6. sweep'.victims \subseteq late'
    BY <2>1 DEF ServerInv
  <2>7. sweep'.at # NoJob => sweep'.at \in late' /\ Swept(sweep.at)'
    BY <1>1, <2>1 DEF ServerInv, Swept, SweepType
  <2> QED BY <2>2, <2>3, <2>4, <2>5, <2>6, <2>7 DEF ServerInv
<1>6. w.job \notin waiting'
  BY <1>1, <1>3 DEF JobInv, RunnerStep
<1>7. w.pc # "fail" => (~Swept(w.job) \/ w.job \in late) /\ (original \/ First \in late)
  BY <1>2, <1>3 DEF JobInv
<1> QED BY <1>1, <1>2, <1>4, <1>5, <1>6, <1>7

LEMMA RunsOn ==
  ASSUME Inv, PipelineAssumption, NEW r \in Jobs, r = w.job, RunnerStep,
         Types', RunInv', JobInv(r)', LogInv(r)'
  PROVE  Inv'
<1>1. ServerInv' /\ \A j \in Jobs \ {r} : JobInv(j)' /\ LogInv(j)'
  BY RunnerFrame
<1>2. \A j \in Jobs : JobInv(j)' /\ LogInv(j)'
  BY <1>1
<1> QED BY <1>1, <1>2 DEF Inv

(* As long as the row stays "processing" the runner needs to keep no more  *)
(* than what is said of its stored log and of where it is.                 *)
LEMMA RunnerKeeps ==
  ASSUME Inv, PipelineAssumption, NEW r \in Jobs, r = w.job, w.pc \notin {"idle", "fail"},
         w' \in RunType, w'.job = r, w'.pc # "idle",
         UNCHANGED <<table, original, memory, sweep, late, kills, sweeps>>,
         dirs' \in {dirs, dirs \cup {r}},
         NEW more \in SUBSET (Breaks \ {"swept"}),
         broke' = [broke EXCEPT ![r] = @ \cup more],
         slog' \in [Jobs -> LogType], stored' \in [Jobs -> SUBSET Artifacts],
         \A j \in Jobs \ {r} : slog'[j] = slog[j] /\ stored'[j] = stored[j],
         StoredLog(r)',
         slog'[r].failed # 0 => w'.pc = "fail" /\ w'.err.stage = BackendStage[slog'[r].failed],
         RunsInv(r)'
  PROVE  Inv'
<1>1. Types /\ RunInv /\ up /\ JobInv(r) /\ LogInv(r)
  BY DEF Inv, RunInv
<1>2. /\ broke'[r] = broke[r] \cup more /\ broke' \in [Jobs -> SUBSET Breaks]
      /\ \A j \in Jobs \ {r} : broke'[j] = broke[j]
  BY <1>1 DEF Types
<1>3. row' = row /\ exports' = exports /\ up' = up /\ waiting' = waiting /\ request' = request
      /\ source' = source /\ normalized' = normalized
  BY DEF table, memory
<1>4. RunnerStep
  BY <1>2, <1>3 DEF RunnerStep
<1>5. /\ r \notin waiting' /\ row[r].status = "processing" /\ row[r].err = NoError
      /\ ~Swept(r) \/ r \in late
      /\ original \/ First \in late
  BY <1>4, RunnerFrame
<1>6. Types'
  <2>1. dirs' \subseteq Jobs
    BY <1>1 DEF Types
  <2> QED BY <1>1, <1>2, <1>3, <2>1 DEF Types
<1>7. JobInv(r)'
  BY <1>1, <1>2, <1>3, <1>5 DEF JobInv, Swept
<1>8. LogInv(r)'
  BY <1>3, <1>5 DEF LogInv
<1>9. RunInv'
  BY <1>1, <1>3, <1>5 DEF RunInv
<1> QED BY <1>4, <1>6, <1>7, <1>8, <1>9, RunsOn

LEMMA InRun ==
  ASSUME Inv, w.pc # "idle"
  PROVE  /\ w.job \in Jobs /\ Types /\ RunInv /\ w \in RunType
         /\ w.pc \in {"launch", "child", "read"} => ChildInv(w.job)
         /\ w.pc \notin {"launch", "child", "read"} => StoreInv(w.job)
         /\ LogInv(w.job) /\ JobInv(w.job)
BY DEF Inv, RunInv, RunsInv, Types

LEMMA NothingBroke ==
  ASSUME Types, NEW r \in Jobs, UNCHANGED broke
  PROVE  broke' = [broke EXCEPT ![r] = @ \cup {}] /\ {} \in SUBSET (Breaks \ {"swept"})
BY DEF Types

LEMMA NoLogStored ==
  ASSUME NEW r \in Jobs, Fresh(r)'
  PROVE  StoredLog(r)' /\ slog'[r].failed = 0
BY Values DEF Fresh, StoredLog, InOrder

(* A log is written into the workspace.                                    *)
LEMMA LogWritten ==
  ASSUME Inv, PipelineAssumption, NEW r \in Jobs, r = w.job,
         w.pc \in {"launch", "child", "read", "store", "put"},
         NEW log \in LogType, log.is = "whole", InOrder(log.names),
         NEW next \in {"fail", "store", "commit"}, NEW err \in ErrorType,
         WriteLog(log, next, err),
         UNCHANGED <<table, original, stored, slog, memory, sweep, late, kills, sweeps>>,
         NEW more \in SUBSET (Breaks \ {"swept"}),
         broke' = [broke EXCEPT ![r] = @ \cup more],
         next = "fail" => /\ Consistent(log, err, broke'[r])
                          /\ Told(err, broke'[r]) /\ err # NoError,
         next = "store" => /\ CompleteLog(log, FALSE)
                           /\ log.names \subseteq w.files \/ Swept(r),
         next = "commit" => /\ CompleteLog(log, TRUE)
                            /\ log.names \subseteq stored[r] \/ Swept(r)
  PROVE  Inv'
<1>1. Types /\ w \in RunType /\ LogInv(r)
  BY InRun
<1>2. /\ w' \in RunType /\ w'.pc = "log" /\ w'.job = r /\ w'.log = log /\ w'.next = next
      /\ w'.err = err /\ w'.files = w.files
  BY <1>1, Values DEF WriteLog, RunType
<1>3. broke'[r] = broke[r] \cup more /\ dirs' = dirs \cup {r} /\ slog' = slog /\ stored' = stored
  BY <1>1 DEF WriteLog, Types
<1>4. slog[r].is # "torn" /\ slog[r].failed = 0 /\ slog[r].status # "running"
  <2>1. CASE w.pc \in {"launch", "child", "read"}
    BY <2>1, InRun, Values DEF ChildInv, Fresh
  <2>2. CASE w.pc \in {"store", "put"}
    BY <2>2, InRun, Values DEF StoreInv, Ready, CompleteLog
  <2> QED BY <2>1, <2>2
<1>5. StoredLog(r)'
  BY <1>1, <1>3, <1>4 DEF LogInv, StoredLog, InOrder
<1>6. StoreInv(r)'
  <2>1. Ready(r, next, log)'
    BY <1>2, <1>3 DEF Ready, Swept, Consistent, Told, Excused, CompleteLog, Main, InOrder
  <2> QED BY <1>2, <1>3, <1>4, <2>1 DEF StoreInv, Ready, InOrder
<1>7. /\ slog' \in [Jobs -> LogType] /\ stored' \in [Jobs -> SUBSET Artifacts]
      /\ \A j \in Jobs \ {r} : slog'[j] = slog[j] /\ stored'[j] = stored[j]
  BY <1>1, <1>3 DEF Types
<1> QED BY <1>2, <1>3, <1>4, <1>5, <1>6, <1>7, RunnerKeeps DEF RunsInv

(* Storing or committing raises: the run is going to be marked failed.     *)
LEMMA RunBreaks ==
  ASSUME Inv, PipelineAssumption, NEW r \in Jobs, r = w.job,
         w.pc \in {"log", "copy", "put", "commit"},
         NEW what \in {"storage", "commit"}, what = "commit" => w.pc = "commit",
         RunFails(what),
         UNCHANGED <<table, original, dirs, stored, slog, memory, sweep, late, kills, sweeps>>
  PROVE  Inv'
<1>1. Types /\ w \in RunType /\ LogInv(r) /\ StoreInv(r)
  BY InRun
<1>2. /\ w' \in RunType /\ w'.pc = "fail" /\ w'.job = r /\ w'.err = RowStageError
  BY Values DEF RunFails, Failing, RunType
<1>3. broke' = [broke EXCEPT ![r] = @ \cup {what}] /\ {what} \in SUBSET (Breaks \ {"swept"})
  BY DEF RunFails, Broke, Breaks
<1>4. broke'[r] = broke[r] \cup {what} /\ slog' = slog /\ stored' = stored
  BY <1>1, <1>3 DEF Types
<1>5. /\ slog[r].failed = 0 /\ slog[r].status # "running"
      /\ slog[r].is = "torn" => w.pc = "copy"
  BY <1>1, Values DEF StoreInv, Ready, CompleteLog
<1>6. StoredLog(r)'
  BY <1>1, <1>4, <1>5 DEF LogInv, StoredLog, InOrder
<1>7. StoreInv(r)'
  <2>1. Told(RowStageError, broke'[r])
    BY <1>4, ToldGeneral DEF RowStageError, Error
  <2>2. Consistent(slog[r], RowStageError, broke'[r])
    BY <1>4, <1>5 DEF Consistent, Excused
  <2>3. Ready(r, "fail", slog[r])'
    BY <1>2, <1>4, <2>1, <2>2, Values
       DEF Ready, Told, Consistent, Excused
  <2> QED BY <1>2, <2>3 DEF StoreInv, Ready, Told, Consistent, Excused
<1>8. /\ slog' \in [Jobs -> LogType] /\ stored' \in [Jobs -> SUBSET Artifacts]
      /\ \A j \in Jobs \ {r} : slog'[j] = slog[j] /\ stored'[j] = stored[j]
  BY <1>1, <1>4 DEF Types
<1> QED BY <1>2, <1>3, <1>4, <1>5, <1>6, <1>7, <1>8, RunnerKeeps DEF RunsInv

(* A step of the child, or of the runner that starts it, needs to keep no  *)
(* more than what is known of the child.                                   *)
LEMMA ChildSteps ==
  ASSUME Inv, PipelineAssumption, NEW r \in Jobs, r = w.job, w.pc \in {"launch", "child"},
         w' \in RunType, w'.job = r, w'.pc \in {"child", "read"},
         UNCHANGED <<table, original, dirs, stored, slog, memory, sweep, late, kills, sweeps>>,
         NEW more \in SUBSET (Breaks \ {"swept"}),
         broke' = [broke EXCEPT ![r] = @ \cup more],
         ChildInv(r)'
  PROVE  Inv'
<1>1. Types
  BY InRun
<1>2. /\ slog' \in [Jobs -> LogType] /\ stored' \in [Jobs -> SUBSET Artifacts]
      /\ \A j \in Jobs \ {r} : slog'[j] = slog[j] /\ stored'[j] = stored[j]
  BY <1>1 DEF Types
<1>3. StoredLog(r)' /\ slog'[r].failed = 0
  BY NoLogStored DEF ChildInv
<1> QED BY <1>2, <1>3, RunnerKeeps DEF RunsInv


(* What the child writes of itself.                                        *)
Advanced(run, out, log) ==
  [run EXCEPT !.done = @ + 1, !.made = @ \cup out, !.files = @ \cup out, !.work = log]

LEMMA ChildGoesOn ==
  ASSUME NEW run \in RunType, run.done \in 0..4, NEW log \in LogType,
         NEW out \in SUBSET Artifacts
  PROVE  LET after == Advanced(run, out, log) IN
         /\ after \in RunType /\ after.pc = run.pc /\ after.job = run.job
         /\ after.child = run.child /\ after.done = run.done + 1 /\ after.lost = run.lost
         /\ after.made = run.made \cup out /\ after.files = run.files \cup out
         /\ after.work = log
<1>1. /\ run.done + 1 \in 0..5 /\ run.made \cup out \in SUBSET Artifacts
      /\ run.files \cup out \in SUBSET Artifacts
  BY DEF RunType
<1> QED BY <1>1 DEF Advanced, RunType

WithLog(run, log) == [run EXCEPT !.child = log.status, !.work = log]

LEMMA ChildEnds ==
  ASSUME NEW run \in RunType, NEW log \in LogType
  PROVE  LET after == WithLog(run, log) IN
         /\ after \in RunType /\ after.pc = run.pc /\ after.job = run.job
         /\ after.child = log.status /\ after.done = run.done /\ after.lost = run.lost
         /\ after.made = run.made /\ after.files = run.files /\ after.work = log
<1>1. log.status \in {"none", "running", "completed", "failed"}
  BY DEF LogType
<1> QED BY <1>1 DEF WithLog, RunType

LEMMA StageCompletesKeeps ==
  ASSUME Inv, PipelineAssumption, StageCompletes
  PROVE  Inv'
<1>0. w.pc = "child" /\ w.child = "running" /\ ~w.lost /\ w.done < 5
  BY DEF StageCompletes, ChildAlive
<1>1. PICK r \in Jobs : r = w.job
  BY <1>0, InRun
<1>2. Types /\ ChildInv(r) /\ w \in RunType
  BY <1>0, <1>1, InRun
<1>3. PICK o \in Outcomes(w.done + 1) :
        LET out == StageResult(w.done + 1, o)
        IN /\ out # Raises
           /\ w' = [w EXCEPT !.done = @ + 1, !.made = @ \cup out, !.files = @ \cup out,
                        !.work = Log("running", 0, w.made \cup out, FALSE)]
  BY DEF StageCompletes
<1> DEFINE out == StageResult(w.done + 1, o)
           log == Log("running", 0, w.made \cup out, FALSE)
<1>4. /\ w.done \in 0..4 /\ w.made \in SUBSET Artifacts
      /\ Main(w.done) \subseteq w.made /\ InOrder(w.made)
  BY <1>0, <1>2 DEF RunType, ChildInv
<1>5. /\ w.made \cup out \in SUBSET Artifacts
      /\ Main(w.done + 1) \subseteq w.made \cup out
      /\ InOrder(w.made \cup out)
  BY <1>3, <1>4, StageMakes
<1>6. log \in LogType /\ log.is = "whole" /\ log.status = "running" /\ log.failed = 0
      /\ log.names = w.made \cup out
  BY <1>5 DEF Log, LogType
<1> HIDE DEF out, log
<1>7. w' = Advanced(w, out, log)
  BY <1>3 DEF out, log, Advanced
<1>8. out \in SUBSET Artifacts
  BY <1>5
<1>9. /\ w' \in RunType /\ w'.job = r /\ w'.pc = "child" /\ w'.child = "running"
      /\ w'.done = w.done + 1 /\ w'.made = w.made \cup out /\ w'.lost = w.lost
      /\ w'.work = log /\ w'.files = w.files \cup out
  BY <1>0, <1>1, <1>2, <1>4, <1>5, <1>6, <1>7, <1>8, ChildGoesOn
<1>10. broke'[r] = broke[r] /\ slog'[r] = slog[r] /\ stored'[r] = stored[r]
  BY DEF OnlyChild, StageCompletes
<1>11. ChildInv(r)'
  <2>1. Fresh(r)' /\ (Swept(r)' <=> Swept(r)) /\ (Unbroken(r)' <=> Unbroken(r)) /\ Unbroken(r)
    BY <1>0, <1>2, <1>10 DEF ChildInv, Fresh, Swept, Unbroken
  <2>2. Main(w.done)' \subseteq w'.made /\ InOrder(w.made)' /\ InOrder(w.work.names)'
    <3>1. w'.done = w.done + 1 /\ w'.work.names = w'.made /\ w'.made = w.made \cup out
      BY <1>6, <1>9
    <3>2. Main(w.done)' = Main(w.done + 1)
      BY <3>1 DEF Main
    <3>3. InOrder(w.made)' /\ InOrder(w.work.names)'
      BY <1>5, <3>1 DEF InOrder
    <3> QED BY <1>5, <3>1, <3>2, <3>3
  <2>3. w'.made \subseteq w'.files \/ Swept(r)'
    BY <1>2, <1>9, <2>1 DEF ChildInv
  <2>4. ~w'.lost
    BY <1>0, <1>9
  <2>5. "timeout" \notin broke'[r] /\ \A s \in Stage : BackendStage[s] \notin broke'[r]
    BY <1>10, <2>1, StageNames DEF Unbroken
  <2> QED BY <1>6, <1>9, <2>1, <2>2, <2>3, <2>4, <2>5 DEF ChildInv
<1> QED BY <1>0, <1>1, <1>2, <1>9, <1>11, NothingBroke, ChildSteps DEF OnlyChild, StageCompletes

LEMMA StageRaisesKeeps ==
  ASSUME Inv, PipelineAssumption, StageRaises
  PROVE  Inv'
<1>0. w.pc = "child" /\ w.child = "running" /\ ~w.lost /\ w.done < 5
  BY DEF StageRaises, ChildAlive
<1>1. PICK r \in Jobs : r = w.job
  BY <1>0, InRun
<1>2. Types /\ ChildInv(r) /\ w \in RunType
  BY <1>0, <1>1, InRun
<1> DEFINE s == w.done + 1
           log == Log("failed", s, w.made, FALSE)
<1>3. s \in Stage /\ s \in 1..5 /\ w.made \in SUBSET Artifacts
  BY <1>0, <1>2 DEF RunType, Stage
<1>4. log \in LogType /\ log.is = "whole" /\ log.status = "failed" /\ log.failed = s
      /\ log.names = w.made
  BY <1>3 DEF Log, LogType
<1> HIDE DEF log
<1>5. w' = WithLog(w, log)
  BY <1>4 DEF WithLog, log, StageRaises
<1>6. /\ w' \in RunType /\ w'.job = r /\ w'.pc = "child" /\ w'.child = "failed"
      /\ w'.done = w.done /\ w'.made = w.made /\ w'.lost = w.lost
      /\ w'.work = log /\ w'.files = w.files
  BY <1>0, <1>1, <1>2, <1>4, <1>5, ChildEnds
<1>7. {BackendStage[s]} \in SUBSET (Breaks \ {"swept"})
  BY <1>3, StageNames DEF Breaks
<1>8. /\ broke' = [broke EXCEPT ![r] = @ \cup {BackendStage[s]}]
      /\ broke'[r] = broke[r] \cup {BackendStage[s]}
      /\ slog'[r] = slog[r] /\ stored'[r] = stored[r]
  BY <1>1, <1>2 DEF Types, OnlyChild, Broke, StageRaises
<1>9. /\ \A t \in Stage : BackendStage[t] \in broke'[r] => t = s
      /\ "timeout" \notin broke'[r] /\ Swept(r)' = Swept(r)
  BY <1>0, <1>2, <1>3, <1>8, StageNames DEF ChildInv, Unbroken, Swept
<1>10. ChildInv(r)'
  <2>1. Fresh(r)' /\ Main(w.done)' \subseteq w'.made /\ InOrder(w.made)'
    BY <1>2, <1>6, <1>8 DEF ChildInv, Main, InOrder, Fresh
  <2>2. w'.made \subseteq w'.files \/ Swept(r)'
    BY <1>2, <1>6, <1>9 DEF ChildInv
  <2>3. InOrder(w.work.names)'
    BY <1>2, <1>4, <1>6 DEF ChildInv, InOrder
  <2>4. ~w'.lost
    BY <1>0, <1>6
  <2> HIDE DEF s
  <2>5. w'.work.failed = s /\ s # 0 /\ BackendStage[s] \in broke'[r]
    <3>1. w'.work.failed = s
      BY <1>4, <1>6
    <3>2. s # 0
      BY <1>3
    <3>3. BackendStage[s] \in broke'[r]
      BY <1>8
    <3> QED BY <3>1, <3>2, <3>3
  <2>6. \A t \in Stage : BackendStage[t] \in broke'[r] => w'.work.failed = t
    BY <1>9, <2>5
  <2>7. w'.work.is = "whole" /\ w'.work.status = "failed"
    BY <1>4, <1>6
  <2> QED BY <1>6, <1>9, <2>1, <2>2, <2>3, <2>4, <2>5, <2>6, <2>7 DEF ChildInv
<1> QED BY <1>0, <1>1, <1>6, <1>7, <1>8, <1>10, ChildSteps DEF OnlyChild, StageRaises

LEMMA LogCompletedKeeps ==
  ASSUME Inv, PipelineAssumption, LogCompleted
  PROVE  Inv'
<1>0. w.pc = "child" /\ w.child = "running" /\ ~w.lost /\ w.done = 5
  BY DEF LogCompleted, ChildAlive
<1>1. PICK r \in Jobs : r = w.job
  BY <1>0, InRun
<1>2. Types /\ ChildInv(r) /\ w \in RunType /\ w.made \in SUBSET Artifacts
  BY <1>0, <1>1, InRun DEF RunType
<1> DEFINE log == Log("completed", 0, w.made, FALSE)
<1>3. log \in LogType /\ log.is = "whole" /\ log.status = "completed" /\ log.failed = 0
      /\ log.names = w.made
  BY <1>2 DEF Log, LogType
<1> HIDE DEF log
<1>4. w' = WithLog(w, log)
  BY <1>3 DEF WithLog, log, LogCompleted
<1>5. /\ w' \in RunType /\ w'.job = r /\ w'.pc = "child" /\ w'.child = "completed"
      /\ w'.done = w.done /\ w'.made = w.made /\ w'.lost = w.lost
      /\ w'.work = log /\ w'.files = w.files
  BY <1>0, <1>1, <1>2, <1>3, <1>4, ChildEnds
<1>6. broke'[r] = broke[r] /\ slog'[r] = slog[r] /\ stored'[r] = stored[r]
  BY DEF OnlyChild, LogCompleted
<1>7. log = Log("completed", 0, w'.made, FALSE)
  BY <1>5 DEF log
<1>8. ChildInv(r)'
  BY <1>0, <1>2, <1>3, <1>5, <1>6, <1>7
     DEF ChildInv, Fresh, Swept, Killed, Unbroken, Main, InOrder, Log
<1> QED BY <1>0, <1>1, <1>2, <1>5, <1>8, NothingBroke, ChildSteps DEF OnlyChild, LogCompleted

LEMMA ChildLostKeeps ==
  ASSUME Inv, PipelineAssumption, ChildLost
  PROVE  Inv'
<1> USE DEF ChildLost, ChildAlive
<1>1. PICK r \in Jobs : r = w.job
  BY InRun
<1>2. Types /\ ChildInv(r) /\ w \in RunType
  BY <1>1, InRun
<1>3. /\ w' \in RunType /\ w'.job = r /\ w'.pc = "child" /\ w'.child = "failed"
      /\ w'.done = w.done /\ w'.made = w.made /\ w'.lost = w.lost
      /\ w'.work = w.work /\ w'.files = w.files
  BY <1>1, <1>2 DEF RunType
<1>4. broke'[r] = broke[r] /\ slog'[r] = slog[r] /\ stored'[r] = stored[r]
  BY DEF OnlyChild
<1>5. w.work = NoLog /\ Swept(r)
  BY <1>2 DEF ChildInv
<1>6. ChildInv(r)'
  BY <1>2, <1>3, <1>4, <1>5, Values
     DEF ChildInv, Fresh, Swept, Killed, Unbroken, Main, InOrder
<1> QED BY <1>1, <1>2, <1>3, <1>6, NothingBroke, ChildSteps DEF OnlyChild

LEMMA ChildExitsKeeps ==
  ASSUME Inv, PipelineAssumption, ChildExits
  PROVE  Inv'
<1> USE DEF ChildExits, ChildAlive
<1>1. PICK r \in Jobs : r = w.job
  BY InRun
<1>2. Types /\ ChildInv(r) /\ w \in RunType
  BY <1>1, InRun
<1>3. /\ w' \in RunType /\ w'.job = r /\ w'.pc = "read"
      /\ w'.exit = IF w.child = "completed" THEN 0 ELSE 1
      /\ w'.done = w.done /\ w'.made = w.made /\ w'.lost = w.lost
      /\ w'.work = w.work /\ w'.files = w.files
  BY <1>1, <1>2 DEF RunType
<1>4. broke'[r] = broke[r] /\ slog'[r] = slog[r] /\ stored'[r] = stored[r]
  BY DEF OnlyChild
<1>5. w.child \in {"completed", "failed"}
  BY <1>2 DEF ChildInv, RunType
<1>6. ChildInv(r)'
  BY <1>2, <1>3, <1>4, <1>5, Values
     DEF ChildInv, Fresh, Swept, Killed, Unbroken, Main, InOrder, Log
<1> QED BY <1>1, <1>2, <1>3, <1>6, NothingBroke, ChildSteps DEF OnlyChild

LEMMA ChildKilledKeeps ==
  ASSUME Inv, PipelineAssumption, ChildKilled
  PROVE  Inv'
<1> USE DEF ChildKilled, ChildAlive
<1>1. PICK r \in Jobs : r = w.job
  BY InRun
<1>2. Types /\ ChildInv(r) /\ w \in RunType
  BY <1>1, InRun
<1>3. PICK log \in {w.work, Torn} :
        w' = [w EXCEPT !.pc = "read", !.exit = 137, !.work = log] /\ (w.lost => log = w.work)
  OBVIOUS
<1>4. log \in LogType
  BY <1>2, Values DEF RunType
<1>5. /\ w' \in RunType /\ w'.job = r /\ w'.pc = "read" /\ w'.exit = 137
      /\ w'.done = w.done /\ w'.made = w.made /\ w'.lost = w.lost
      /\ w'.work = log /\ w'.files = w.files
  BY <1>1, <1>2, <1>3, <1>4 DEF RunType
<1>6. /\ slog'[r] = slog[r] /\ stored'[r] = stored[r]
      /\ broke'[r] = broke[r] \cup {"childkilled"}
      /\ broke' = [broke EXCEPT ![r] = @ \cup {"childkilled"}]
  BY <1>1, <1>2 DEF Types, OnlyChild, Broke
<1>7. /\ Killed(r)' /\ Swept(r)' = Swept(r)
      /\ \A t \in Stage : BackendStage[t] \in broke'[r] <=> BackendStage[t] \in broke[r]
  BY <1>6, StageNames DEF Killed, Swept
<1>8. ChildInv(r)'
  <2>1. Fresh(r)' /\ Main(w.done)' \subseteq w'.made /\ InOrder(w.made)'
    BY <1>2, <1>5, <1>6 DEF ChildInv, Main, InOrder, Fresh
  <2>2. w'.made \subseteq w'.files \/ Swept(r)'
    BY <1>2, <1>5, <1>7 DEF ChildInv
  <2>3. /\ log.is = "none" => log = NoLog
        /\ log.is = "torn" => log = Torn
        /\ InOrder(log.names)
    <3>1. CASE log = Torn
      BY <3>1, Values
    <3>2. CASE log = w.work
      BY <1>2, <3>2 DEF ChildInv
    <3> QED BY <3>1, <3>2
  <2>4. InOrder(w.work.names)'
    BY <1>5, <2>3 DEF InOrder
  <2>5. log.failed # 0 => log.status = "failed" /\ BackendStage[log.failed] \in broke'[r]
    BY <1>2, <1>6, Values DEF ChildInv
  <2>6. w'.lost => Swept(r)'
    BY <1>2, <1>5, <1>7 DEF ChildInv
  <2> QED BY <1>5, <1>7, <2>1, <2>2, <2>3, <2>4, <2>5, <2>6 DEF ChildInv
<1>9. {"childkilled"} \in SUBSET (Breaks \ {"swept"})
  BY DEF Breaks
<1> QED BY <1>1, <1>5, <1>6, <1>8, <1>9, ChildSteps DEF OnlyChild

LEMMA LaunchKeeps ==
  ASSUME Inv, PipelineAssumption, Launch
  PROVE  Inv'
<1>0. w.pc = "launch"
  BY DEF Launch
<1>1. PICK r \in Jobs : r = w.job
  BY <1>0, InRun
<1>2. Types /\ ChildInv(r) /\ w \in RunType
  BY <1>0, <1>1, InRun
<1>3. CASE w' = [w EXCEPT !.pc = "child", !.child = "running"] /\ UNCHANGED <<disk, broke>>
  <2>1. /\ w' \in RunType /\ w'.job = r /\ w'.pc = "child" /\ w'.child = "running"
        /\ w'.done = w.done /\ w'.made = w.made /\ w'.lost = w.lost
        /\ w'.work = w.work /\ w'.files = w.files
    BY <1>0, <1>1, <1>2, <1>3 DEF RunType
  <2>2. UNCHANGED <<original, dirs, stored, slog, broke>>
    BY <1>3 DEF disk
  <2>3. w.work = NoLog /\ Unbroken(r)
    BY <1>0, <1>2 DEF ChildInv
  <2>4. ChildInv(r)'
    BY <1>0, <1>2, <2>1, <2>2, <2>3, Values
       DEF ChildInv, Fresh, Swept, Killed, Unbroken, Main, InOrder
  <2> QED BY <1>0, <1>1, <1>2, <2>1, <2>2, <2>4, NothingBroke, ChildSteps DEF Launch
<1>4. CASE /\ WriteLog(FailureLog, "fail", RowStageError)
           /\ Broke(r, "launch")
           /\ UNCHANGED <<original, stored, slog>>
  <2>1. broke' = [broke EXCEPT ![r] = @ \cup {"launch"}]
    BY <1>4 DEF Broke
  <2>2. {"launch"} \in SUBSET (Breaks \ {"swept"}) /\ "launch" \in broke'[r]
    BY <1>2, <2>1 DEF Breaks, Types
  <2>3. Told(RowStageError, broke'[r])
    BY <2>2, ToldGeneral DEF RowStageError, Error
  <2>4. Consistent(FailureLog, RowStageError, broke'[r])
    BY Values DEF Consistent
  <2> QED BY <1>0, <1>1, <1>4, <2>1, <2>2, <2>3, <2>4, Values, LogWritten DEF Launch
<1> QED BY <1>1, <1>3, <1>4 DEF Launch, RowStageError

LEMMA TimeoutKeeps ==
  ASSUME Inv, PipelineAssumption, Timeout
  PROVE  Inv'
<1>0. w.pc = "child"
  BY DEF Timeout, ChildAlive
<1>1. PICK r \in Jobs : r = w.job
  BY <1>0, InRun
<1>2. Types
  BY DEF Inv
<1> DEFINE err == Error("WORKER_TIMEOUT", "preprocessing")
<1>3. broke' = [broke EXCEPT ![r] = @ \cup {"timeout"}]
  BY <1>1 DEF Timeout, Broke
<1>4. {"timeout"} \in SUBSET (Breaks \ {"swept"}) /\ "timeout" \in broke'[r]
  BY <1>2, <1>3 DEF Breaks, Types
<1>5. err.code = "WORKER_TIMEOUT" /\ err \in ErrorType /\ err # NoError
  <2>1. BackendStage[1] = "preprocessing" /\ 1 \in Stage
    BY DEF BackendStage, Stage
  <2> QED BY <2>1 DEF Error, ErrorType, NoError
<1>6. Told(err, broke'[r])
  <2>1. \A s \in Stage : broke'[r] # {BackendStage[s]} /\ err.code # StageCode[s]
    BY <1>4, <1>5, StageNames
  <2>2. Retriable(err.code)
    BY <1>5 DEF Retriable
  <2> HIDE DEF err
  <2> QED BY <1>4, <1>5, <2>1, <2>2 DEF Told
<1>7. Consistent(FailureLog, err, broke'[r])
  BY Values DEF Consistent
<1>8. WriteLog(FailureLog, "fail", err)
  BY DEF Timeout
<1> HIDE DEF err
<1> QED BY <1>0, <1>1, <1>3, <1>4, <1>5, <1>6, <1>7, <1>8, Values, LogWritten DEF Timeout

(* What the runner reads of the log, and the error it makes of it.         *)
LEMMA PayloadRead ==
  ASSUME Inv, PipelineAssumption, NEW r \in Jobs, r = w.job, w.pc = "read",
         w.work.is # "torn"
  PROVE  /\ Payload \in LogType /\ Payload.is = "whole" /\ InOrder(Payload.names)
         /\ Refused(Payload) =>
              /\ StageError(Payload) \in ErrorType /\ StageError(Payload) # NoError
              /\ Told(StageError(Payload), broke[r])
              /\ Consistent(Payload, StageError(Payload), broke[r])
         /\ ~Refused(Payload) =>
              /\ CompleteLog(Payload, FALSE)
              /\ Payload.names \subseteq w.files \/ Swept(r)
<1>1. ChildInv(r) /\ w \in RunType /\ w.work \in LogType /\ w.made \in SUBSET Artifacts
  BY InRun DEF RunType
<1> DEFINE full == Log("completed", 0, w.made, FALSE)
<1>2. full \in LogType /\ full.is = "whole" /\ full.status = "completed" /\ full.failed = 0
      /\ full.names = w.made /\ full.keys = FALSE
  BY <1>1 DEF Log, LogType
<1> HIDE DEF full
<1>3. Payload = IF w.work.is = "whole" THEN w.work
                ELSE IF w.exit = 0 THEN full ELSE FailureLog
  BY DEF Payload, full
<1>4. w.work.is # "whole" => w.work = NoLog
  BY <1>1 DEF ChildInv, LogType
<1>5. Payload \in LogType /\ Payload.is = "whole" /\ InOrder(Payload.names)
  BY <1>1, <1>2, <1>3, Values DEF ChildInv
<1>6. w.exit = 0 => Payload = full
  BY <1>1, <1>3, <1>4, Values DEF ChildInv, full
<1>7. ASSUME ~Refused(Payload)
      PROVE  /\ CompleteLog(Payload, FALSE)
             /\ Payload.names \subseteq w.files \/ Swept(r)
  <2>1. w.exit = 0 /\ Payload = full
    BY <1>6, <1>7 DEF Refused
  <2>2. w.done = 5
    BY <1>1, <2>1 DEF ChildInv
  <2>3. Main(5) \subseteq full.names /\ InOrder(full.names)
    BY <1>1, <1>2, <2>2 DEF ChildInv
  <2>4. full.names \subseteq w.files \/ Swept(r)
    BY <1>1, <1>2 DEF ChildInv
  <2> QED BY <1>2, <2>1, <2>3, <2>4 DEF CompleteLog
<1>8. ASSUME Refused(Payload)
      PROVE  /\ StageError(Payload) \in ErrorType /\ StageError(Payload) # NoError
             /\ Told(StageError(Payload), broke[r])
             /\ Consistent(Payload, StageError(Payload), broke[r])
  <2>1. w.exit # 0
    BY <1>2, <1>6, <1>8 DEF Refused
  <2>2. (Payload = w.work /\ w.work.is = "whole") \/ (Payload = FailureLog /\ w.work = NoLog)
    BY <1>3, <1>4, <2>1
  <2>3. Payload.status \in {"completed", "running"} => Killed(r)
    BY <1>1, <2>1, <2>2, Values DEF ChildInv
  <2>4. CASE Payload.failed = 0
    <3>1. StageError(Payload) = RowStageError
      BY <2>4 DEF StageError
    <3>2. Killed(r) \/ Swept(r)
      BY <1>1, <2>1, <2>2, <2>4, Values DEF ChildInv
    <3>3. Told(RowStageError, broke[r])
      BY <3>2, ToldGeneral DEF RowStageError, Error, Killed, Swept
    <3>4. Consistent(Payload, RowStageError, broke[r])
      BY <2>3, <2>4 DEF Consistent, Excused, Killed
    <3> QED BY <3>1, <3>3, <3>4, Values
  <2>5. CASE Payload.failed # 0
    <3> DEFINE s == Payload.failed
    <3>1. StageError(Payload) = Error(StageCode[s], BackendStage[s])
      BY <2>5 DEF StageError
    <3>2. Payload = w.work
      BY <2>2, <2>5, Values
    <3>3. s \in Stage /\ BackendStage[s] \in broke[r] /\ Payload.status = "failed"
      BY <1>1, <1>5, <2>5, <3>2 DEF ChildInv, LogType, Stage
    <3> HIDE DEF s
    <3>4. Told(Error(StageCode[s], BackendStage[s]), broke[r])
      BY <3>3, ToldStage
    <3>5. Error(StageCode[s], BackendStage[s]) \in ErrorType
          /\ Error(StageCode[s], BackendStage[s]) # NoError
          /\ Error(StageCode[s], BackendStage[s]).stage = BackendStage[s]
      BY <3>3, StageNames DEF Error, ErrorType, NoError
    <3>6. Consistent(Payload, Error(StageCode[s], BackendStage[s]), broke[r])
      BY <3>3, <3>5 DEF Consistent, s
    <3> QED BY <3>1, <3>4, <3>5, <3>6 DEF s
  <2> QED BY <2>4, <2>5
<1> QED BY <1>5, <1>7, <1>8

LEMMA ReadLogKeeps ==
  ASSUME Inv, PipelineAssumption, ReadLog
  PROVE  Inv'
<1>0. w.pc = "read"
  BY DEF ReadLog
<1>1. PICK r \in Jobs : r = w.job
  BY <1>0, InRun
<1>2. Types /\ ChildInv(r)
  BY <1>0, <1>1, InRun
<1>3. /\ broke' = [broke EXCEPT ![r] = @ \cup {}] /\ broke' = broke
      /\ {} \in SUBSET (Breaks \ {"swept"})
      /\ UNCHANGED <<table, original, stored, slog, memory, sweep, late, kills, sweeps>>
  BY <1>2, NothingBroke DEF ReadLog, history
<1>4. CASE w.work.is = "torn"
  <2>1. WriteLog(FailureLog, "fail", RowStageError)
    BY <1>4 DEF ReadLog, RowStageError
  <2>2. Told(RowStageError, broke[r])
    BY <1>2, <1>4, ToldGeneral DEF ChildInv, RowStageError, Error, Killed
  <2>3. Consistent(FailureLog, RowStageError, broke[r])
    BY Values DEF Consistent
  <2> QED BY <1>0, <1>1, <1>3, <2>1, <2>2, <2>3, Values, LogWritten
<1>5. CASE w.work.is # "torn"
  <2>1. CASE Refused(Payload)
    <3>1. WriteLog(Payload, "fail", StageError(Payload))
      BY <1>5, <2>1 DEF ReadLog
    <3> QED BY <1>0, <1>1, <1>3, <1>5, <2>1, <3>1, PayloadRead, LogWritten
  <2>2. CASE ~Refused(Payload)
    <3>1. WriteLog(Payload, "store", NoError)
      BY <1>5, <2>2 DEF ReadLog
    <3> QED BY <1>0, <1>1, <1>3, <1>5, <2>2, <3>1, PayloadRead, Values, LogWritten
  <2> QED BY <2>1, <2>2
<1> QED BY <1>4, <1>5


LEMMA StartCopyKeeps ==
  ASSUME Inv, PipelineAssumption, StartCopy
  PROVE  Inv'
<1>0. w.pc = "log"
  BY DEF StartCopy
<1>1. PICK r \in Jobs : r = w.job
  BY <1>0, InRun
<1>2. Types /\ StoreInv(r) /\ w \in RunType
  BY <1>0, <1>1, InRun
<1>3. /\ w' \in RunType /\ w'.pc = "copy" /\ w'.job = r /\ w'.log = w.log /\ w'.next = w.next
      /\ w'.err = w.err /\ w'.files = w.files /\ w'.left = w.left
  BY <1>1, <1>2 DEF StartCopy, RunType
<1>4. /\ slog' \in [Jobs -> LogType] /\ slog'[r] = Torn /\ stored' = stored /\ broke' = broke
      /\ \A j \in Jobs \ {r} : slog'[j] = slog[j]
  BY <1>1, <1>2, Values DEF StartCopy, OnlyLog, Types
<1>5. StoredLog(r)' /\ slog'[r].failed = 0
  BY <1>3, <1>4, Values DEF StoredLog, InOrder
<1>6. StoreInv(r)'
  <2>1. Ready(r, w.next, w.log)
    BY <1>0, <1>2 DEF StoreInv
  <2>2. Ready(r, w.next, w.log)'
    BY <1>3, <1>4, <2>1
       DEF Ready, Swept, Consistent, Told, Excused, CompleteLog, Main, InOrder
  <2> QED BY <1>0, <1>2, <1>3, <1>4, <2>2 DEF StoreInv, InOrder, Ready
<1>7. stored' \in [Jobs -> SUBSET Artifacts] /\ \A j \in Jobs \ {r} : stored'[j] = stored[j]
  BY <1>2, <1>4 DEF Types
<1> QED BY <1>0, <1>1, <1>2, <1>3, <1>4, <1>5, <1>6, <1>7, NothingBroke, RunnerKeeps
        DEF StartCopy, OnlyLog, RunsInv

LEMMA CopyEndsKeeps ==
  ASSUME Inv, PipelineAssumption, CopyEnds
  PROVE  Inv'
<1>0. w.pc = "copy"
  BY DEF CopyEnds
<1>1. PICK r \in Jobs : r = w.job
  BY <1>0, InRun
<1>2. Types /\ StoreInv(r) /\ w \in RunType
  BY <1>0, <1>1, InRun
<1>3. /\ w.next \in {"fail", "store", "commit"} /\ w.log \in LogType /\ w.log.is = "whole"
      /\ InOrder(w.log.names) /\ Ready(r, w.next, w.log)
  BY <1>0, <1>2 DEF StoreInv, RunType
<1>4. /\ slog' \in [Jobs -> LogType] /\ slog'[r] = w.log /\ stored' = stored /\ broke' = broke
      /\ \A j \in Jobs \ {r} : slog'[j] = slog[j]
  BY <1>1, <1>2, <1>3 DEF CopyEnds, OnlyLog, Types
<1>5. w.log.status = "running" => Killed(r)
  BY <1>3 DEF Ready, Consistent, CompleteLog, Killed
<1>6. StoredLog(r)'
  <2>1. Killed(r)' = Killed(r)
    BY <1>4 DEF Killed
  <2> QED BY <1>3, <1>4, <1>5, <2>1 DEF StoredLog, InOrder
<1>7. CASE w.next = "fail"
  <2>1. w' \in RunType /\ w'.pc = "fail" /\ w'.job = r /\ w'.err = w.err
    BY <1>1, <1>2, <1>7, Values DEF CopyEnds, Failing, RunType
  <2>2. Ready(r, "fail", slog[r])'
    BY <1>3, <1>4, <1>7, <2>1
       DEF Ready, Swept, Consistent, Told, Excused, CompleteLog, Main, InOrder
  <2>3. StoreInv(r)'
    BY <2>1, <2>2 DEF StoreInv, Ready, Consistent, Told, Excused
  <2>4. slog'[r].failed # 0 => w'.err.stage = BackendStage[slog'[r].failed]
    BY <1>3, <1>4, <1>7, <2>1 DEF Ready, Consistent
  <2>5. stored' \in [Jobs -> SUBSET Artifacts] /\ \A j \in Jobs \ {r} : stored'[j] = stored[j]
    BY <1>2, <1>4 DEF Types
  <2> QED BY <1>0, <1>1, <1>2, <1>4, <1>6, <2>1, <2>3, <2>4, <2>5, NothingBroke, RunnerKeeps
          DEF CopyEnds, OnlyLog, RunsInv
<1>8. CASE w.next # "fail"
  <2>1. /\ w' \in RunType /\ w'.pc = w.next /\ w'.job = r /\ w'.log = w.log
        /\ w'.files = w.files /\ w'.left = w.left /\ w'.next = w.next
    BY <1>1, <1>2, <1>3, <1>8 DEF CopyEnds, RunType
  <2>2. Ready(r, w.next, w.log)'
    BY <1>3, <1>4, <1>8, <2>1 DEF Ready, Swept, CompleteLog, Main, InOrder
  <2>3. StoreInv(r)'
    BY <1>3, <1>4, <1>8, <2>1, <2>2 DEF StoreInv, Ready, Swept, CompleteLog, Main, InOrder
  <2>4. slog'[r].failed = 0
    BY <1>3, <1>4, <1>8 DEF Ready, CompleteLog
  <2>5. stored' \in [Jobs -> SUBSET Artifacts] /\ \A j \in Jobs \ {r} : stored'[j] = stored[j]
    BY <1>2, <1>4 DEF Types
  <2>6. w'.pc \in {"store", "commit"}
    BY <1>3, <1>8, <2>1
  <2> QED BY <1>0, <1>1, <1>2, <1>4, <1>6, <2>1, <2>3, <2>4, <2>5, <2>6, NothingBroke, RunnerKeeps
          DEF CopyEnds, OnlyLog, RunsInv
<1> QED BY <1>7, <1>8

LEMMA LogFailsKeeps ==
  ASSUME Inv, PipelineAssumption, LogFails
  PROVE  Inv'
<1>1. w.pc \in {"log", "copy"}
  BY DEF LogFails
<1>2. w.job \in Jobs
  BY <1>1, InRun
<1> QED BY <1>1, <1>2, RunBreaks DEF LogFails, OnlyLog
(* The stage that is blamed for a missing file made one of them.           *)
LEMMA EarliestStage ==
  ASSUME NEW as \in SUBSET Artifacts, as # {}
  PROVE  Earliest(as) \in Stage
<1> DEFINE Is(s) == /\ as \cap Outputs(s) # {}
                    /\ \A t \in 1..(s - 1) : as \cap Outputs(t) = {}
<1>1. \E s \in Stage : as \cap Outputs(s) # {}
  <2>1. PICK a \in as : a \in Artifacts
    OBVIOUS
  <2>2. PICK s \in Stage : a \in Outputs(s)
    BY <2>1 DEF Artifacts
  <2> QED BY <2>1, <2>2
<1>2. Stage = {1, 2, 3, 4, 5}
  BY DEF Stage
<1>3. \E s \in Stage : Is(s)
  <2>1. CASE as \cap Outputs(1) # {}
    <3>1. Is(1)
      <4>1. 1..(1 - 1) = {}
        OBVIOUS
      <4> QED BY <2>1, <4>1
    <3> QED BY <1>2, <3>1
  <2>2. CASE as \cap Outputs(1) = {} /\ as \cap Outputs(2) # {}
    <3>1. Is(2)
      <4>1. \A t \in 1..(2 - 1) : t = 1
        OBVIOUS
      <4> QED BY <2>2, <4>1
    <3> QED BY <1>2, <3>1
  <2>3. CASE /\ \A t \in {1, 2} : as \cap Outputs(t) = {}
             /\ as \cap Outputs(3) # {}
    <3>1. Is(3)
      <4>1. \A t \in 1..(3 - 1) : t \in {1, 2}
        OBVIOUS
      <4> QED BY <2>3, <4>1
    <3> QED BY <1>2, <3>1
  <2>4. CASE /\ \A t \in {1, 2, 3} : as \cap Outputs(t) = {}
             /\ as \cap Outputs(4) # {}
    <3>1. Is(4)
      <4>1. \A t \in 1..(4 - 1) : t \in {1, 2, 3}
        OBVIOUS
      <4> QED BY <2>4, <4>1
    <3> QED BY <1>2, <3>1
  <2>5. CASE /\ \A t \in {1, 2, 3, 4} : as \cap Outputs(t) = {}
             /\ as \cap Outputs(5) # {}
    <3>1. Is(5)
      <4>1. \A t \in 1..(5 - 1) : t \in {1, 2, 3, 4}
        OBVIOUS
      <4> QED BY <2>5, <4>1
    <3> QED BY <1>2, <3>1
  <2> QED BY <1>1, <1>2, <2>1, <2>2, <2>3, <2>4, <2>5
<1>4. Earliest(as) = CHOOSE s \in Stage : Is(s)
  BY DEF Earliest
<1> HIDE DEF Is
<1> QED BY <1>3, <1>4

(* A complete log lacks nothing, so only a removed file can be unfit.      *)
LEMMA UnfitFiles ==
  ASSUME Inv, PipelineAssumption, NEW r \in Jobs, r = w.job, w.pc = "store"
  PROVE  /\ CompleteLog(w.log, FALSE) /\ w.log \in LogType
         /\ Unfit \in SUBSET Artifacts
         /\ Unfit # {} => Swept(r)
<1>1. w \in RunType /\ StoreInv(r)
  BY InRun
<1>2. CompleteLog(w.log, FALSE) /\ (w.log.names \subseteq w.files \/ Swept(r))
  BY <1>1 DEF StoreInv, Ready
<1>3. w.log \in LogType /\ w.log.names \in SUBSET Artifacts
  BY <1>1 DEF RunType, LogType
<1>4. Required \subseteq w.log.names
  BY <1>2 DEF CompleteLog, Main, Required
<1>5. Unfit = w.log.names \ w.files
  BY <1>4 DEF Unfit
<1> QED BY <1>2, <1>3, <1>5

LEMMA ValidateArtifactsKeeps ==
  ASSUME Inv, PipelineAssumption, ValidateArtifacts
  PROVE  Inv'
<1>0. w.pc = "store"
  BY DEF ValidateArtifacts
<1>1. PICK r \in Jobs : r = w.job
  BY <1>0, InRun
<1>2. Types /\ StoreInv(r) /\ LogInv(r) /\ w \in RunType /\ w.log \in LogType
  BY <1>0, <1>1, InRun DEF RunType
<1>3. /\ broke' = [broke EXCEPT ![r] = @ \cup {}] /\ broke' = broke
      /\ {} \in SUBSET (Breaks \ {"swept"})
      /\ UNCHANGED <<table, original, stored, slog, memory, sweep, late, kills, sweeps>>
  BY <1>2, NothingBroke DEF ValidateArtifacts, history, disk
<1>4. CASE Unfit = {}
  <2>1. w' = [w EXCEPT !.pc = "put", !.left = w.log.names] /\ dirs' = dirs
    BY <1>4 DEF ValidateArtifacts, disk
  <2>2. w.log.names \in SUBSET Artifacts
    BY <1>2 DEF LogType
  <2>3. /\ w' \in RunType /\ w'.pc = "put" /\ w'.job = r /\ w'.log = w.log
        /\ w'.files = w.files /\ w'.left = w.log.names
    BY <1>1, <1>2, <2>1, <2>2 DEF RunType
  <2>4. slog[r].is # "torn" /\ slog[r].failed = 0
    BY <1>0, <1>2, Values DEF StoreInv, Ready, CompleteLog
  <2>5. StoredLog(r)'
    BY <1>2, <1>3, <2>4 DEF LogInv, StoredLog, InOrder, Killed
  <2>6. StoreInv(r)'
    <3>1. Ready(r, "put", w.log)'
      BY <1>0, <1>2, <1>3, <2>3 DEF StoreInv, Ready, Swept, CompleteLog, Main, InOrder
    <3> QED BY <1>0, <1>2, <1>3, <2>3, <3>1
            DEF StoreInv, Ready, Swept, CompleteLog, Main, InOrder
  <2>7. /\ slog' \in [Jobs -> LogType] /\ stored' \in [Jobs -> SUBSET Artifacts]
        /\ \A j \in Jobs \ {r} : slog'[j] = slog[j] /\ stored'[j] = stored[j]
    BY <1>2, <1>3 DEF Types
  <2> QED BY <1>0, <1>1, <1>3, <2>1, <2>3, <2>4, <2>5, <2>6, <2>7, RunnerKeeps DEF RunsInv
<1>5. CASE Unfit # {}
  <2> DEFINE log == [w.log EXCEPT !.status = "failed"]
             s == Earliest(Unfit)
             err == Error("ARTIFACT_NOT_FOUND", BackendStage[s])
  <2>1. WriteLog(log, "fail", err)
    BY <1>5 DEF ValidateArtifacts
  <2>2. Swept(r) /\ s \in Stage /\ CompleteLog(w.log, FALSE)
    BY <1>0, <1>1, <1>5, UnfitFiles, EarliestStage
  <2>3. w.log.failed = 0 /\ w.log.is = "whole" /\ InOrder(w.log.names)
    BY <2>2 DEF CompleteLog
  <2>4. log \in LogType /\ log.is = "whole" /\ InOrder(log.names) /\ log.failed = 0
        /\ log.status = "failed"
    <3>1. log.names = w.log.names
      BY <1>2 DEF LogType
    <3> QED BY <1>2, <2>3, <3>1 DEF LogType
  <2> HIDE DEF s
  <2>5. err \in ErrorType /\ err.code = "ARTIFACT_NOT_FOUND" /\ err # NoError
    BY <2>2 DEF Error, ErrorType, NoError
  <2>6. Told(err, broke[r])
    <3>1. \A t \in Stage : err.code # StageCode[t] /\ broke[r] # {BackendStage[t]}
      BY <2>2, <2>5, StageNames DEF Swept
    <3> HIDE DEF err
    <3> QED BY <2>2, <2>5, <3>1 DEF Told, Swept
  <2>7. Consistent(log, err, broke[r])
    BY <2>4 DEF Consistent
  <2> HIDE DEF log, err
  <2> QED BY <1>0, <1>1, <1>3, <2>1, <2>4, <2>5, <2>6, <2>7, LogWritten
<1> QED BY <1>4, <1>5

LEMMA StoreArtifactsKeeps ==
  ASSUME Inv, PipelineAssumption, StoreArtifacts
  PROVE  Inv'
<1>0. w.pc = "put"
  BY DEF StoreArtifacts
<1>1. PICK r \in Jobs : r = w.job
  BY <1>0, InRun
<1>2. Types /\ StoreInv(r) /\ LogInv(r) /\ w \in RunType
  BY <1>0, <1>1, InRun
<1>3. PICK as \in SUBSET w.left :
        /\ w' = [w EXCEPT !.left = @ \ as]
        /\ stored' = [stored EXCEPT ![r] = @ \cup as]
  BY <1>1 DEF StoreArtifacts
<1>4. as \in SUBSET Artifacts /\ w.left \ as \in SUBSET Artifacts
  BY <1>2 DEF RunType
<1>5. /\ w' \in RunType /\ w'.pc = "put" /\ w'.job = r /\ w'.log = w.log
      /\ w'.files = w.files /\ w'.left = w.left \ as
  BY <1>0, <1>1, <1>2, <1>3, <1>4 DEF RunType
<1>6. /\ stored' \in [Jobs -> SUBSET Artifacts] /\ stored'[r] = stored[r] \cup as
      /\ \A j \in Jobs \ {r} : stored'[j] = stored[j]
  BY <1>2, <1>3, <1>4 DEF Types
<1>7. /\ slog' = slog /\ broke' = broke /\ slog' \in [Jobs -> LogType]
      /\ dirs' = dirs \cup {r}
      /\ UNCHANGED <<table, original, memory, sweep, late, kills, sweeps>>
  BY <1>1, <1>2 DEF StoreArtifacts, history, Types
<1>8. slog[r].is # "torn" /\ slog[r].failed = 0
  BY <1>0, <1>2, Values DEF StoreInv, Ready, CompleteLog
<1>9. StoredLog(r)'
  BY <1>2, <1>7, <1>8 DEF LogInv, StoredLog, InOrder, Killed
<1>10. StoreInv(r)'
  <2>1. Ready(r, "put", w.log) /\ (slog[r] = w.log \/ (slog[r] = NoLog /\ Swept(r)))
    BY <1>0, <1>2 DEF StoreInv
  <2>2. Ready(r, "put", w.log)'
    BY <1>5, <1>6, <1>7, <2>1 DEF Ready, Swept, CompleteLog, Main, InOrder
  <2> QED BY <1>5, <1>7, <2>1, <2>2 DEF StoreInv, Ready, Swept, CompleteLog, Main, InOrder
<1> QED BY <1>0, <1>1, <1>2, <1>5, <1>6, <1>7, <1>8, <1>9, <1>10, NothingBroke, RunnerKeeps
        DEF RunsInv

LEMMA StoreFailsKeeps ==
  ASSUME Inv, PipelineAssumption, StoreFails
  PROVE  Inv'
<1>1. w.pc = "put"
  BY DEF StoreFails
<1>2. w.job \in Jobs
  BY <1>1, InRun
<1> QED BY <1>1, <1>2, RunBreaks DEF StoreFails, disk

LEMMA RelogKeeps ==
  ASSUME Inv, PipelineAssumption, Relog
  PROVE  Inv'
<1>0. w.pc = "put" /\ w.left = {}
  BY DEF Relog
<1>1. PICK r \in Jobs : r = w.job
  BY <1>0, InRun
<1>2. Types /\ StoreInv(r) /\ w \in RunType /\ w.log \in LogType
  BY <1>0, <1>1, InRun DEF RunType
<1> DEFINE log == [w.log EXCEPT !.keys = TRUE]
<1>3. CompleteLog(w.log, FALSE) /\ (w.log.names \subseteq stored[r] \/ Swept(r))
  BY <1>0, <1>2 DEF StoreInv, Ready
<1>4. /\ log \in LogType /\ log.is = "whole" /\ log.names = w.log.names /\ log.keys = TRUE
      /\ log.status = "completed" /\ log.failed = 0
  BY <1>2, <1>3 DEF LogType, CompleteLog
<1>5. CompleteLog(log, TRUE) /\ InOrder(log.names) /\ (log.names \subseteq stored[r] \/ Swept(r))
  BY <1>3, <1>4 DEF CompleteLog
<1>6. WriteLog(log, "commit", NoError)
  BY DEF Relog
<1>7. /\ broke' = [broke EXCEPT ![r] = @ \cup {}] /\ {} \in SUBSET (Breaks \ {"swept"})
      /\ UNCHANGED <<table, original, stored, slog, memory, sweep, late, kills, sweeps>>
  BY <1>2, NothingBroke DEF Relog, history
<1> HIDE DEF log
<1> QED BY <1>0, <1>1, <1>4, <1>5, <1>6, <1>7, Values, LogWritten

LEMMA CommitKeeps ==
  ASSUME Inv, PipelineAssumption, Commit
  PROVE  Inv'
<1>0. w.pc = "commit"
  BY DEF Commit
<1>1. PICK r \in Jobs : r = w.job
  BY <1>0, InRun
<1>2. Types /\ StoreInv(r) /\ JobInv(r) /\ LogInv(r) /\ w \in RunType
  BY <1>0, <1>1, InRun
<1>3. UNCHANGED <<disk, memory, sweep, late, kills, sweeps>>
  BY DEF Commit
<1>4. /\ CompleteLog(w.log, TRUE)
      /\ w.log.names \subseteq stored[r] \/ Swept(r)
      /\ slog[r] = w.log \/ (slog[r] = NoLog /\ Swept(r))
  BY <1>0, <1>2 DEF StoreInv, Ready
<1>5. CASE /\ row' = [row EXCEPT ![r] = NewRow("completed")]
           /\ exports' = [exports EXCEPT ![r] = ExportRows(w.log.names)]
           /\ normalized' = r
           /\ w' = Idle
           /\ UNCHANGED <<source, broke>>
  <2>1. /\ row' \in [Jobs -> RowType] /\ row'[r].status = "completed" /\ row'[r].err = NoError
        /\ \A j \in Jobs \ {r} : row'[j] = row[j]
    BY <1>2, <1>5, Values DEF Types
  <2>2. ExportRows(w.log.names) \subseteq {"midi", "musicxml", "pdf"}
    BY DEF ExportRows
  <2>3. /\ exports' \in [Jobs -> SUBSET {"midi", "musicxml", "pdf"}]
        /\ exports'[r] = ExportRows(w.log.names)
        /\ \A j \in Jobs \ {r} : exports'[j] = exports[j]
    BY <1>2, <1>5, <2>2 DEF Types
  <2>4. UNCHANGED <<original, dirs, stored, slog, request, waiting, up>>
    BY <1>3 DEF disk, memory
  <2>5. RunnerStep
    BY <1>0, <1>1, <1>3, <1>5, <2>1, <2>3, <2>4 DEF RunnerStep
  <2>6. /\ r \notin waiting' /\ row[r].status = "processing"
        /\ ~Swept(r) \/ r \in late
        /\ original \/ First \in late
    BY <1>0, <1>1, <2>5, RunnerFrame
  <2>7. Types'
    BY <1>2, <1>3, <1>5, <2>1, <2>3, <2>4, Values DEF Types
  <2>8. JobInv(r)'
    BY <1>2, <1>3, <1>5, <2>1, <2>4, <2>6 DEF JobInv, Swept
  <2>9. LogInv(r)'
    <3>1. slog'[r] = slog[r] /\ stored'[r] = stored[r] /\ broke'[r] = broke[r]
      BY <1>5, <2>4
    <3>2. {"midi", "musicxml"} \subseteq exports'[r] /\ ("pdf" \in exports'[r] => ExportPdf)
      BY <1>4, <2>3 DEF ExportRows, CompleteLog, InOrder
    <3>3. slog[r].is = "whole" => slog[r] = w.log
      BY <1>4, Values
    <3>4. slog[r].is = "whole" => /\ CompleteLog(slog[r], TRUE)
                                  /\ exports'[r] = ExportRows(slog[r].names)
                                  /\ slog[r].names \subseteq stored[r] \/ Swept(r)
      BY <1>4, <2>3, <3>3
    <3>5. slog[r].is # "whole" => Swept(r)
      BY <1>4 DEF CompleteLog
    <3>6. slog[r].is # "torn" /\ slog[r].failed = 0 /\ slog[r].status # "running"
      BY <1>4, Values DEF CompleteLog
    <3>7. StoredLog(r)'
      BY <1>2, <3>1, <3>6 DEF LogInv, StoredLog, InOrder
    <3> QED BY <2>1, <3>1, <3>2, <3>4, <3>5, <3>6, <3>7
            DEF LogInv, CompleteLog, ExportRows, InOrder, Main, Swept
  <2>10. RunInv'
    BY <1>5, Values DEF RunInv, Idle, NoLog, NoError
  <2> QED BY <1>1, <2>5, <2>7, <2>8, <2>9, <2>10, RunsOn
<1>6. CASE RunFails("commit") /\ UNCHANGED table
  BY <1>0, <1>1, <1>3, <1>6, RunBreaks DEF disk
<1> QED BY <1>1, <1>5, <1>6 DEF Commit

LEMMA MarkFailedKeeps ==
  ASSUME Inv, PipelineAssumption, MarkFailed
  PROVE  Inv'
<1>0. w.pc = "fail" /\ w' = Idle
  BY DEF MarkFailed
<1>1. PICK r \in Jobs : r = w.job
  BY <1>0, InRun
<1>2. Types /\ StoreInv(r) /\ JobInv(r) /\ LogInv(r) /\ w \in RunType
  BY <1>0, <1>1, InRun
<1>3. UNCHANGED <<source, normalized, exports, original, dirs, stored, slog, request,
                  waiting, up, sweep, broke, late, kills, sweeps>>
  BY DEF MarkFailed, disk, memory, history
<1>4. /\ row' \in [Jobs -> RowType] /\ row'[r].status = "failed" /\ row'[r].err = w.err
      /\ \A j \in Jobs \ {r} : row'[j] = row[j]
  <2>1. [status |-> "failed", err |-> w.err] \in RowType
    BY <1>2 DEF RunType, RowType
  <2> QED BY <1>1, <1>2, <2>1 DEF MarkFailed, Types
<1>5. RunnerStep
  BY <1>0, <1>1, <1>3, <1>4 DEF RunnerStep
<1>6. r \notin waiting'
  BY <1>1, <1>5, RunnerFrame
<1>7. Types'
  BY <1>0, <1>2, <1>3, <1>4, Values DEF Types
<1>8. w.err # NoError /\ Told(w.err, broke[r]) /\ Consistent(slog[r], w.err, broke[r])
  BY <1>0, <1>2 DEF StoreInv, Ready
<1>9. JobInv(r)'
  <2>1. exports[r] = {}
    BY <1>0, <1>1, <1>5, <1>2, RunnerFrame DEF JobInv
  <2> QED BY <1>0, <1>2, <1>3, <1>4, <1>6, <1>8, <2>1, Values DEF JobInv, Swept
<1>10. LogInv(r)'
  <2>1. StoredLog(r)'
    BY <1>0, <1>2, <1>3 DEF LogInv, StoredLog, InOrder, Killed
  <2> QED BY <1>2, <1>3, <1>4, <1>8, <2>1 DEF LogInv, Told, Consistent, Excused, InOrder
<1>11. RunInv'
  BY <1>0, Values DEF RunInv, Idle, NoLog, NoError
<1> QED BY <1>1, <1>5, <1>7, <1>9, <1>10, <1>11, RunsOn


(***************************************************************************)
(* The handlers, the process and the clean-up script.                      *)
(***************************************************************************)
LEMMA RunFrame ==
  ASSUME RunInv, w' = w, up' = up, NEW r, r = w.job, w.pc # "idle" => Same(r)
  PROVE  RunInv'
<1>1. CASE w.pc = "idle"
  BY <1>1 DEF RunInv, Idle, NoLog, NoError
<1>2. CASE w.pc # "idle"
  <2>1. Same(r) /\ r \in Jobs /\ up
    BY <1>2 DEF RunInv
  <2>2. w.pc \in {"launch", "child", "read"} => ChildInv(r)'
    BY <1>2, <2>1
       DEF RunInv, RunsInv, ChildInv, Same, Fresh, Unbroken, Swept, Killed, Main, InOrder, Log
  <2>3. w.pc \notin {"launch", "child", "read"} => StoreInv(r)'
    BY <1>2, <2>1 DEF RunInv, RunsInv, StoreInv, Ready, Same, Swept, CompleteLog, Consistent, Told,
                      Excused, Main, InOrder
  <2> QED BY <1>2, <2>1, <2>2, <2>3 DEF RunInv, RunsInv, Same
<1> QED BY <1>1, <1>2

(* The run of the worker is of a job that has been accepted.               *)
LEMMA RunsAccepted ==
  ASSUME Inv, w.pc # "idle"
  PROVE  row[w.job].status \in {"queued", "processing"} /\ w.job \notin waiting
BY InRun DEF RunInv, JobInv

(* What the jobs have in common stays, when a job that had not ended moves *)
(* and nothing else changes.                                               *)
LEMMA ServerFrame ==
  ASSUME Inv, PipelineAssumption, NEW j \in Jobs, row[j].status \notin Ended,
         \A k \in Jobs \ {j} : row'[k] = row[k],
         up', source' = source, sweep' = sweep,
         request' # "none" => row'[First].status = "uploaded",
         \A k \in Jobs : broke[k] \subseteq broke'[k],
         row[j].status = "absent" /\ row'[j].status # "absent" /\ sweep.pc = "list"
            => j \in late',
         late \subseteq late'
  PROVE  ServerInv'
<1>1. ServerInv /\ Types
  BY DEF Inv
<1>2. ASSUME NEW k \in Jobs, source'[k] # NoJob
      PROVE  row'[source'[k]].status \in Ended
  <2>1. source[k] \in Jobs /\ row[source[k]].status \in Ended
    BY <1>1, <1>2 DEF ServerInv, Types
  <2> QED BY <2>1
<1>3. ASSUME NEW k \in Jobs, sweep'.pc = "list", row'[k].status # "absent"
      PROVE  k \in sweep'.ids \cup late'
  BY <1>1, <1>3 DEF ServerInv
<1>4. sweep'.victims \subseteq late'
  BY <1>1 DEF ServerInv
<1>5. sweep'.at # NoJob => sweep'.at \in late' /\ Swept(sweep.at)'
  BY <1>1 DEF ServerInv, Swept, Types, SweepType
<1> QED BY <1>2, <1>3, <1>4, <1>5 DEF ServerInv

LEMMA CommitRowKeeps ==
  ASSUME Inv, PipelineAssumption, NEW j \in Jobs, row[j].status = "absent",
         NEW status \in {"uploaded", "queued"}, CommitRow(j, status),
         \/ source' = source
         \/ \E of \in Jobs : row[of].status \in Ended /\ source' = [source EXCEPT ![j] = of],
         status = "uploaded" => j = First /\ request' \in {"store", "none"} /\ waiting' = waiting,
         status = "queued" => /\ j # First /\ request' = request /\ waiting' = waiting \cup {j},
         up
  PROVE  Inv'
<1>1. Types /\ ServerInv /\ RunInv /\ JobInv(j) /\ LogInv(j)
  BY DEF Inv
<1>2. UNCHANGED <<normalized, exports, original, dirs, stored, slog, w, sweep, up,
                  broke, kills, sweeps>>
  BY DEF CommitRow, disk
<1>3. /\ row' \in [Jobs -> RowType] /\ row'[j].status = status /\ row'[j].err = NoError
      /\ \A k \in Jobs \ {j} : row'[k] = row[k]
  BY <1>1, Values DEF Types, CommitRow
<1>4. late' = IF sweep.pc = "list" THEN late \cup {j} ELSE late
  BY DEF CommitRow
<1>5. w.job # j \/ w.pc = "idle"
  BY RunsAccepted
<1>6. w.job # j
  BY <1>1, <1>5, Values DEF RunInv, PipelineAssumption
<1>7. waiting' \subseteq waiting \cup {j} /\ request' \in {"none", "store", "accept"}
      /\ (status = "uploaded" => j \notin waiting')
  BY <1>1 DEF Types, JobInv
<1>8. /\ source' \in [Jobs -> Jobs \cup {NoJob}]
      /\ \A k \in Jobs : source'[k] = source[k] \/ row[source'[k]].status \in Ended
  BY <1>1 DEF Types
<1>9. Types'
  BY <1>1, <1>2, <1>3, <1>4, <1>7, <1>8 DEF Types
<1>10. \A k \in Jobs \ {j} : JobInv(k)' /\ LogInv(k)'
  <2> SUFFICES ASSUME NEW k \in Jobs \ {j} PROVE JobInv(k)' /\ LogInv(k)'
    OBVIOUS
  <2>1. Same(k)
    BY <1>2, <1>3, <1>7 DEF Same
  <2> QED BY <1>2, <1>4, <2>1, Frame DEF Inv
<1>11. JobInv(j)'
  BY <1>1, <1>2, <1>3, <1>4, <1>6, <1>7 DEF JobInv, Fresh, Unbroken, Swept
<1>12. LogInv(j)'
  <2>1. Fresh(j)'
    BY <1>1, <1>2 DEF JobInv, Fresh
  <2> QED BY <1>2, <1>3, <2>1, NoLogStored DEF LogInv, Fresh, NoLog
<1>13. RunInv'
  <2>1. w.pc # "idle" => Same(w.job)
    BY <1>1, <1>2, <1>3, <1>6, <1>7 DEF RunInv, Same
  <2> QED BY <1>1, <1>2, <2>1, RunFrame
<1>14. ServerInv'
  <2>1. request' # "none" => row'[First].status = "uploaded"
    BY <1>1, <1>3, PipelineAssumption DEF ServerInv, PipelineAssumption
  <2>2. ASSUME NEW k \in Jobs, source'[k] # NoJob
        PROVE  row'[source'[k]].status \in Ended
    <3>1. source'[k] \in Jobs /\ row[source'[k]].status \in Ended
      BY <1>1, <1>8, <2>2 DEF ServerInv
    <3>2. source'[k] # j
      BY <3>1 DEF Ended
    <3> QED BY <1>3, <3>1, <3>2
  <2>3. ASSUME NEW k \in Jobs, sweep'.pc = "list", row'[k].status # "absent"
        PROVE  k \in sweep'.ids \cup late'
    BY <1>1, <1>2, <1>3, <1>4, <2>3 DEF ServerInv
  <2>4. sweep'.victims \subseteq late'
    BY <1>1, <1>2, <1>4 DEF ServerInv
  <2>5. sweep'.at # NoJob => sweep'.at \in late' /\ Swept(sweep.at)'
    BY <1>1, <1>2, <1>4 DEF ServerInv, Swept
  <2> QED BY <1>2, <2>1, <2>2, <2>3, <2>4, <2>5 DEF ServerInv
<1> QED BY <1>9, <1>10, <1>11, <1>12, <1>13, <1>14 DEF Inv

LEMMA UploadKeeps ==
  ASSUME Inv, PipelineAssumption, Upload
  PROVE  Inv'
BY CommitRowKeeps DEF Upload, PipelineAssumption

LEMMA RetryKeeps ==
  ASSUME Inv, PipelineAssumption, NEW j \in Jobs, Retry(j)
  PROVE  Inv'
BY CommitRowKeeps DEF Retry

LEMMA StoreOriginalKeeps ==
  ASSUME Inv, PipelineAssumption, StoreOriginal
  PROVE  Inv'
<1>1. Types /\ ServerInv /\ RunInv
  BY DEF Inv
<1>2. UNCHANGED <<row, source, normalized, exports, stored, slog, waiting, up, w, sweep,
                  broke, late, kills, sweeps>>
  BY DEF StoreOriginal, table, history
<1>3. original' = TRUE /\ dirs' = dirs \cup {First} /\ request' = "accept"
      /\ row[First].status = "uploaded" /\ First \in Jobs
  BY <1>1 DEF StoreOriginal, ServerInv, PipelineAssumption
<1>4. Types'
  BY <1>1, <1>2, <1>3 DEF Types
<1>5. \A k \in Jobs \ {First} : JobInv(k)' /\ LogInv(k)'
  <2> SUFFICES ASSUME NEW k \in Jobs \ {First} PROVE JobInv(k)' /\ LogInv(k)'
    OBVIOUS
  <2>1. Same(k)
    BY <1>2, <1>3 DEF Same
  <2> QED BY <1>2, <1>3, <2>1, Frame DEF Inv
<1>6. JobInv(First)'
  BY <1>2, <1>3 DEF Inv, JobInv, Fresh, Unbroken, Swept
<1>7. LogInv(First)'
  BY <1>2, <1>3 DEF Inv, LogInv, StoredLog, InOrder, Killed
<1>8. RunInv'
  <2>1. w.pc # "idle" => Same(w.job)
    BY <1>2, <1>3, RunsAccepted DEF Same
  <2> QED BY <1>1, <1>2, <2>1, RunFrame
<1>9. ServerInv'
  <2>1. up' /\ row[First].status \notin Ended
    BY <1>1, <1>2, <1>3 DEF ServerInv, StoreOriginal, Ended
  <2> QED BY <1>2, <1>3, <2>1, ServerFrame
<1> QED BY <1>4, <1>5, <1>6, <1>7, <1>8, <1>9 DEF Inv

LEMMA AcceptKeeps ==
  ASSUME Inv, PipelineAssumption, Accept
  PROVE  Inv'
<1>1. Types /\ ServerInv /\ RunInv /\ JobInv(First) /\ LogInv(First) /\ First \in Jobs
  BY DEF Inv, PipelineAssumption
<1>2. UNCHANGED <<source, normalized, exports, original, dirs, stored, slog, up, w, sweep,
                  broke, late, kills, sweeps>>
  BY DEF Accept, disk, history
<1>3. /\ waiting' = waiting \cup {First} /\ request = "accept" /\ request' = "none"
      /\ row[First].status = "uploaded"
  BY <1>1 DEF Accept, ServerInv
<1>4. /\ row' \in [Jobs -> RowType] /\ row'[First].status = "queued"
      /\ row'[First].err = row[First].err
      /\ \A k \in Jobs \ {First} : row'[k] = row[k]
  BY <1>1 DEF Types, Accept, RowType
<1>5. w.job # First
  BY <1>1, <1>3, RunsAccepted, Values DEF RunInv, PipelineAssumption
<1>6. Types'
  BY <1>1, <1>2, <1>3, <1>4 DEF Types
<1>7. \A k \in Jobs \ {First} : JobInv(k)' /\ LogInv(k)'
  <2> SUFFICES ASSUME NEW k \in Jobs \ {First} PROVE JobInv(k)' /\ LogInv(k)'
    OBVIOUS
  <2>1. Same(k)
    BY <1>2, <1>3, <1>4 DEF Same
  <2> QED BY <1>2, <2>1, Frame DEF Inv
<1>8. JobInv(First)'
  BY <1>1, <1>2, <1>3, <1>4, <1>5 DEF JobInv, Fresh, Unbroken, Swept
<1>9. LogInv(First)'
  <2>1. Fresh(First)'
    BY <1>1, <1>2, <1>3 DEF JobInv, Fresh
  <2> QED BY <1>2, <1>4, <2>1, NoLogStored DEF LogInv, Fresh, NoLog
<1>10. RunInv'
  <2>1. w.pc # "idle" => Same(w.job)
    BY <1>1, <1>2, <1>3, <1>4, <1>5 DEF RunInv, Same
  <2> QED BY <1>1, <1>2, <2>1, RunFrame
<1>11. ServerInv'
  <2>1. up' /\ row[First].status \notin Ended
    BY <1>1, <1>2, <1>3 DEF ServerInv, Ended
  <2> QED BY <1>1, <1>2, <1>3, <1>4, <2>1, ServerFrame
<1> QED BY <1>6, <1>7, <1>8, <1>9, <1>10, <1>11 DEF Inv

(* The job that a run takes over had nothing done to it before.            *)
LEMMA StartsJob ==
  ASSUME Inv, PipelineAssumption, NEW j \in Jobs, w = Idle, w'.job = j, up,
         UNCHANGED <<source, normalized, exports, original, stored, slog, request, up, sweep,
                     late, kills, sweeps>>,
         waiting' = waiting \ {j}, dirs' = dirs \cup {j},
         row[j].status = "queued", Fresh(j), row[j].err = NoError,
         row'[j].status \in {"queued", "processing"}, row'[j].err = NoError,
         broke[j] \subseteq broke'[j],
         \A k \in Jobs \ {j} : row'[k] = row[k] /\ broke'[k] = broke[k],
         Types', JobInv(j)', RunInv'
  PROVE  Inv'
<1>1. ServerInv /\ w.job = NoJob
  BY Values DEF Inv
<1>2. \A k \in Jobs \ {j} : JobInv(k)' /\ LogInv(k)'
  <2> SUFFICES ASSUME NEW k \in Jobs \ {j} PROVE JobInv(k)' /\ LogInv(k)'
    OBVIOUS
  <2>1. Same(k)
    BY DEF Same
  <2>2. w.job # k /\ w'.job # k
    BY <1>1 DEF PipelineAssumption
  <2> QED BY <2>1, <2>2, Frame DEF Inv
<1>3. LogInv(j)'
  <2>1. Fresh(j)'
    BY DEF Fresh
  <2> QED BY <2>1, NoLogStored DEF LogInv, Fresh, NoLog
<1>4. ServerInv'
  <2>1. request' # "none" => row'[First].status = "uploaded"
    BY <1>1, PipelineAssumption DEF ServerInv, PipelineAssumption
  <2>2. row[j].status \notin Ended
    BY DEF Ended
  <2> QED BY <2>1, <2>2, ServerFrame
<1> QED BY <1>2, <1>3, <1>4 DEF Inv

LEMMA StartKeeps ==
  ASSUME Inv, PipelineAssumption, NEW j \in Jobs, Start(j)
  PROVE  Inv'
<1>1. Types /\ ServerInv /\ RunInv /\ JobInv(j) /\ LogInv(j)
  BY DEF Inv
<1>2. /\ up /\ w.pc = "idle" /\ j \in waiting
      /\ waiting' = waiting \ {j} /\ dirs' = dirs \cup {j}
      /\ UNCHANGED <<source, normalized, exports, original, stored, slog, request, up, sweep,
                     late, kills, sweeps>>
  BY DEF Start
<1>3. /\ row[j].status = "queued" /\ row[j].err = NoError /\ Fresh(j) /\ Unbroken(j)
      /\ ~Swept(j) \/ j \in late
      /\ w = Idle /\ w.job = NoJob
  BY <1>1, <1>2, Values DEF JobInv, RunInv
<1>4. CASE original
  <2>1. /\ row' = [row EXCEPT ![j] = NewRow("processing")]
        /\ w' = [Idle EXCEPT !.pc = "launch", !.job = j] /\ broke' = broke
    BY <1>4 DEF Start
  <2>2. /\ row' \in [Jobs -> RowType] /\ row'[j].status = "processing" /\ row'[j].err = NoError
        /\ \A k \in Jobs \ {j} : row'[k] = row[k]
    BY <1>1, <2>1, Values DEF Types
  <2>3. /\ w' \in RunType /\ w'.pc = "launch" /\ w'.job = j /\ w'.done = 0 /\ w'.made = {}
        /\ w'.lost = FALSE /\ w'.work = NoLog
    <3>1. Idle.done = 0 /\ Idle.made = {} /\ Idle.lost = FALSE /\ Idle.work = NoLog
      BY DEF Idle
    <3> QED BY <2>1, <3>1, Values DEF RunType
  <2>4. Types'
    BY <1>1, <1>2, <2>1, <2>2, <2>3 DEF Types
  <2>5. JobInv(j)'
    BY <1>1, <1>2, <1>3, <1>4, <2>1, <2>2, <2>3 DEF JobInv, Swept
  <2>6. RunInv'
    <3>1. ChildInv(j)'
      <4>1. Main(w.done)' = {} /\ InOrder(w.made)'
        BY <2>3 DEF Main, InOrder
      <4>2. Fresh(j)' /\ Unbroken(j)' /\ InOrder(w.work.names)'
        BY <1>2, <1>3, <2>1, <2>3, Values DEF Fresh, Unbroken, InOrder
      <4>3. \A s \in Stage : BackendStage[s] \notin broke'[j]
        BY <1>3, <2>1, StageNames DEF Unbroken
      <4>4. "timeout" \notin broke'[j]
        BY <1>3, <2>1 DEF Unbroken
      <4> QED BY <2>3, <4>1, <4>2, <4>3, <4>4, Values DEF ChildInv
    <3> QED BY <1>2, <2>2, <2>3, <3>1 DEF RunInv, RunsInv
  <2> QED BY <1>1, <1>2, <1>3, <2>1, <2>2, <2>3, <2>4, <2>5, <2>6, StartsJob
<1>5. CASE ~original
  <2> DEFINE err == Error("PIPELINE_FAILED", "queued")
  <2>1. /\ row' = row /\ w' = [Idle EXCEPT !.pc = "fail", !.job = j, !.err = err]
        /\ broke' = [broke EXCEPT ![j] = @ \cup {"swept"}]
    BY <1>5 DEF Start, Broke
  <2>2. err \in ErrorType /\ err # NoError /\ err.code = "PIPELINE_FAILED"
    BY DEF Error, ErrorType, NoError
  <2> HIDE DEF err
  <2>3. w' \in RunType /\ w'.pc = "fail" /\ w'.job = j /\ w'.err = err
    BY <2>1, <2>2, Values DEF RunType
  <2>4. /\ broke' \in [Jobs -> SUBSET Breaks] /\ broke'[j] = broke[j] \cup {"swept"}
        /\ \A k \in Jobs \ {j} : broke'[k] = broke[k]
    BY <1>1, <2>1 DEF Types, Breaks
  <2>5. Types'
    BY <1>1, <1>2, <2>1, <2>3, <2>4 DEF Types
  <2>6. JobInv(j)'
    BY <1>1, <1>2, <1>3, <2>1, <2>3, <2>4, Values DEF JobInv, Swept, Fresh
  <2>7. RunInv'
    <3>1. Told(err, broke'[j])
      BY <2>2, <2>4, ToldGeneral
    <3>2. Consistent(slog'[j], err, broke'[j])
      BY <1>2, <1>3, Values DEF Consistent, Fresh
    <3>3. StoreInv(j)'
      BY <2>2, <2>3, <3>1, <3>2 DEF StoreInv, Ready, Told, Consistent, Excused
    <3> QED BY <1>2, <1>3, <2>1, <2>3, <3>3 DEF RunInv, RunsInv
  <2> QED BY <1>1, <1>2, <1>3, <2>1, <2>3, <2>4, <2>5, <2>6, <2>7, StartsJob
<1> QED BY <1>4, <1>5

LEMMA ServerKilledKeeps ==
  ASSUME Inv, PipelineAssumption, ServerKilled
  PROVE  Inv'
<1>1. Types /\ ServerInv /\ RunInv
  BY DEF Inv
<1>2. /\ up /\ up' = FALSE /\ kills' = kills + 1
      /\ request' = "none" /\ waiting' = {} /\ w' = Idle
      /\ UNCHANGED <<row, source, normalized, exports, original, dirs, stored, slog, sweep,
                     late, sweeps>>
  BY DEF ServerKilled, table, disk
<1>3. w'.pc = "idle" /\ \A j \in Jobs : w'.job # j
  BY <1>2, Values DEF PipelineAssumption
<1>4. /\ broke' \in [Jobs -> SUBSET Breaks]
      /\ \A j \in Jobs : broke'[j] = IF w.job = j THEN broke[j] \cup {"killed"} ELSE broke[j]
  <2>1. CASE w.job = NoJob
    BY <1>1, <2>1 DEF ServerKilled, Types, PipelineAssumption
  <2>2. CASE w.job # NoJob
    BY <1>1, <2>2 DEF ServerKilled, Types, Breaks
  <2> QED BY <2>1, <2>2
<1>5. Types'
  <2>1. kills' \in Nat
    BY <1>1, <1>2 DEF Types
  <2> QED BY <1>1, <1>2, <1>4, <2>1, Values DEF Types
<1>6. ASSUME NEW j \in Jobs PROVE JobInv(j)' /\ LogInv(j)'
  <2>1. CASE w.job = j
    <3>1. /\ row[j].status \in {"queued", "processing"} /\ row[j].err = NoError
          /\ row[j].status = "queued" => w.pc = "fail"
      BY <1>1, <1>3, <2>1, Values DEF RunInv, PipelineAssumption
    <3>2. broke'[j] = broke[j] \cup {"killed"} /\ JobInv(j) /\ LogInv(j)
      BY <1>4, <2>1 DEF Inv
    <3>3. JobInv(j)'
      BY <1>2, <1>3, <3>1, <3>2 DEF JobInv, Swept, Fresh
    <3>4. row[j].status = "queued" => slog[j].failed = 0
      BY <3>2, Values DEF JobInv, Fresh
    <3>5. StoredLog(j)'
      BY <1>2, <3>2 DEF LogInv, StoredLog, Killed, InOrder
    <3>6. LogInv(j)'
      BY <1>2, <3>1, <3>2, <3>4, <3>5 DEF LogInv
    <3> QED BY <3>3, <3>6
  <2>2. CASE w.job # j
    <3>1. Same(j) /\ JobInv(j) /\ LogInv(j)
      BY <1>2, <1>4, <2>2 DEF Same, Inv
    <3>2. JobInv(j)'
      BY <1>2, <1>3, <2>2, <3>1 DEF JobInv, Same, Fresh, Unbroken, Swept
    <3>3. StoredLog(j)'
      BY <1>2, <1>3, <2>2, <3>1 DEF LogInv, StoredLog, Same, Killed, InOrder
    <3>4. LogInv(j)'
      BY <1>2, <1>3, <2>2, <3>1, <3>3
         DEF LogInv, Same, InOrder, Told, CompleteLog, ExportRows, Main, Excused, Swept
    <3> QED BY <3>2, <3>4
  <2> QED BY <2>1, <2>2
<1>7. RunInv'
  BY <1>2, <1>3 DEF RunInv, Idle, NoLog, NoError
<1>8. ServerInv'
  <2>1. sweep'.at # NoJob => Swept(sweep.at)'
    BY <1>1, <1>2, <1>4 DEF ServerInv, Swept, Types, SweepType
  <2> QED BY <1>1, <1>2, <2>1 DEF ServerInv, Idle, NoLog, NoError
<1> QED BY <1>5, <1>6, <1>7, <1>8 DEF Inv

LEMMA RestartKeeps ==
  ASSUME Inv, PipelineAssumption, Restart
  PROVE  Inv'
<1>1. Types /\ ServerInv /\ RunInv
  BY DEF Inv
<1>2. /\ ~up /\ up' = TRUE /\ w = Idle /\ w' = Idle /\ request = "none" /\ waiting = {}
      /\ UNCHANGED <<source, normalized, exports, original, dirs, stored, slog, request,
                     waiting, w, sweep, broke, late, kills, sweeps>>
  BY <1>1 DEF Restart, ServerInv, disk, history
<1>3. w.pc = "idle" /\ \A j \in Jobs : w.job # j
  BY <1>2, Values DEF PipelineAssumption
<1>4. [status |-> "interrupted", err |-> RowStageError] \in RowType
  BY Values DEF RowType
<1>5. /\ row' \in [Jobs -> RowType]
      /\ \A j \in Jobs : row[j].status # "processing" => row'[j] = row[j]
      /\ \A j \in Jobs : row[j].status = "processing" =>
            row'[j].status = "interrupted" /\ row'[j].err = RowStageError
  <2> DEFINE recovered(j) == IF row[j].status # "processing" THEN row[j]
                             ELSE [status |-> "interrupted", err |-> RowStageError]
  <2>1. row' = [j \in Jobs |-> recovered(j)]
    BY DEF Restart
  <2>2. \A j \in Jobs : recovered(j) \in RowType
    BY <1>1, <1>4 DEF Types
  <2> HIDE DEF recovered
  <2>3. row' \in [Jobs -> RowType] /\ \A j \in Jobs : row'[j] = recovered(j)
    BY <2>1, <2>2
  <2> QED BY <2>3 DEF recovered
<1>6. Types'
  BY <1>1, <1>2, <1>5 DEF Types
<1>7. ASSUME NEW j \in Jobs PROVE JobInv(j)' /\ LogInv(j)'
  <2>1. JobInv(j) /\ LogInv(j)
    BY DEF Inv
  <2>2. StoredLog(j)'
    BY <1>2, <2>1 DEF LogInv, StoredLog, Killed, InOrder
  <2>3. CASE row[j].status = "processing"
    <3>1. row'[j].status = "interrupted" /\ row'[j].err # NoError
      BY <1>5, <2>3, Values
    <3>2. JobInv(j)'
      BY <1>2, <1>3, <2>1, <2>3, <3>1 DEF JobInv, Swept, Fresh
    <3>3. LogInv(j)'
      BY <1>2, <1>3, <2>1, <2>2, <3>1 DEF LogInv
    <3> QED BY <3>2, <3>3
  <2>4. CASE row[j].status # "processing"
    <3>1. row'[j] = row[j]
      BY <1>5, <2>4
    <3>2. Same(j)
      BY <1>2, <3>1 DEF Same
    <3>3. JobInv(j)'
      BY <1>2, <1>3, <2>1, <3>2 DEF JobInv, Same, Fresh, Unbroken, Swept
    <3>4. LogInv(j)'
      BY <1>2, <1>3, <2>1, <2>2, <2>4, <3>2
         DEF LogInv, Same, InOrder, Told, CompleteLog, ExportRows, Main, Excused, Swept
    <3> QED BY <3>3, <3>4
  <2> QED BY <2>3, <2>4
<1>8. RunInv'
  BY <1>2, <1>3 DEF RunInv, Idle, NoLog, NoError
<1>9. ServerInv'
  <2>1. \A j \in Jobs : row'[j].status # "absent" => row[j].status # "absent"
    BY <1>5
  <2>2. \A j \in Jobs : source[j] # NoJob => row'[source[j]].status \in Ended
    <3> SUFFICES ASSUME NEW j \in Jobs, source[j] # NoJob
                 PROVE  row'[source[j]].status \in Ended
      OBVIOUS
    <3>1. source[j] \in Jobs /\ row[source[j]].status \in Ended
      BY <1>1 DEF ServerInv, Types
    <3> QED BY <1>5, <3>1 DEF Ended
  <2>3. sweep'.at # NoJob => sweep'.at \in late' /\ Swept(sweep.at)'
    BY <1>1, <1>2 DEF ServerInv, Swept
  <2> QED BY <1>1, <1>2, <2>1, <2>2, <2>3 DEF ServerInv
<1> QED BY <1>6, <1>7, <1>8, <1>9 DEF Inv

(* The clean-up script reads, lists or leaves: no job is touched.          *)
LEMMA LooksOn ==
  ASSUME Inv, PipelineAssumption,
         UNCHANGED <<table, original, stored, slog, memory, w, broke, late, kills>>,
         dirs' \subseteq dirs, sweeps' \in Nat, sweep' \in SweepType,
         sweep'.pc = "list" => \A j \in Jobs : row[j].status # "absent" => j \in sweep'.ids \cup late,
         sweep'.victims \subseteq late,
         sweep'.at # NoJob => sweep'.at \in late /\ Swept(sweep'.at)
  PROVE  Inv'
<1>1. Types'
  BY DEF Inv, Types, table, memory
<1>2. ASSUME NEW j \in Jobs PROVE JobInv(j)' /\ LogInv(j)'
  <2>1. Same(j) /\ up' = up
    BY DEF Same, table, memory
  <2> QED BY <2>1, Frame DEF Inv
<1>3. RunInv'
  <2>1. Same(w.job) /\ up' = up
    BY DEF Same, table, memory
  <2> QED BY <2>1, RunFrame DEF Inv
<1>4. ServerInv'
  BY DEF Inv, ServerInv, Swept, table, memory, Idle, NoLog, NoError
<1> QED BY <1>1, <1>2, <1>3, <1>4 DEF Inv

LEMMA SweepReadsIdsKeeps ==
  ASSUME Inv, PipelineAssumption, SweepReadsIds
  PROVE  Inv'
<1>1. Types /\ ServerInv
  BY DEF Inv
<1>2. /\ sweep'.pc = "list" /\ sweep'.victims = {} /\ sweep'.at = NoJob
      /\ sweep'.ids = {j \in Jobs : row[j].status # "absent"}
      /\ sweep' \in SweepType
  BY DEF SweepReadsIds, SweepOver, SweepType
<1>3. sweeps' \in Nat
  BY <1>1 DEF SweepReadsIds, Types
<1> QED BY <1>2, <1>3, LooksOn DEF SweepReadsIds, disk

LEMMA SweepListsKeeps ==
  ASSUME Inv, PipelineAssumption, SweepLists
  PROVE  Inv'
<1>1. Types /\ ServerInv
  BY DEF Inv
<1>2. Orphans \subseteq late
  <2>1. \A j \in dirs : j \in Jobs /\ row[j].status # "absent"
    BY DEF Inv, Types, JobInv
  <2> QED BY <1>1, <2>1 DEF SweepLists, Orphans, ServerInv
<1>3. /\ sweep'.pc # "list" /\ sweep'.victims \subseteq Orphans /\ sweep' \in SweepType
      /\ sweep'.at \in {NoJob, sweep.at}
  BY <1>1, <1>2 DEF SweepLists, SweepOver, Types, SweepType
<1>4. sweeps' \in Nat
  BY <1>1 DEF SweepLists, Types, history
<1> QED BY <1>1, <1>2, <1>3, <1>4, LooksOn DEF SweepLists, ServerInv, disk, history

LEMMA SweepLeavesKeeps ==
  ASSUME Inv, PipelineAssumption, SweepLeaves
  PROVE  Inv'
<1>1. Types /\ ServerInv
  BY DEF Inv
<1>2. /\ sweep'.pc # "list" \/ (sweep'.pc = sweep.pc /\ sweep'.ids = sweep.ids)
      /\ sweep'.victims \subseteq sweep.victims /\ sweep' \in SweepType /\ sweep'.at = NoJob
  <2>1. sweep' = SweepOver \/ sweep' = [sweep EXCEPT !.at = NoJob, !.removed = 0]
    BY DEF SweepLeaves
  <2>2. CASE sweep' = SweepOver
    <3>1. SweepOver \in SweepType
      BY DEF SweepOver, SweepType
    <3>2. SweepOver.pc = "idle" /\ SweepOver.victims = {} /\ SweepOver.at = NoJob
      BY DEF SweepOver
    <3> QED BY <2>2, <3>1, <3>2
  <2>3. CASE sweep' = [sweep EXCEPT !.at = NoJob, !.removed = 0]
    <3>1. sweep \in SweepType
      BY <1>1 DEF Types
    <3>2. sweep' \in SweepType
      BY <2>3, <3>1 DEF SweepType
    <3>3. sweep'.pc = sweep.pc /\ sweep'.ids = sweep.ids /\ sweep'.victims = sweep.victims
          /\ sweep'.at = NoJob
      BY <2>3, <3>1 DEF SweepType
    <3> QED BY <3>2, <3>3
  <2> QED BY <2>1, <2>2, <2>3
<1>3. sweeps' \in Nat /\ dirs' \subseteq dirs
  BY <1>1 DEF SweepLeaves, Types, history
<1> QED BY <1>1, <1>2, <1>3, LooksOn DEF SweepLeaves, ServerInv, history

(* The script takes a directory: whatever happens to that job from now on, *)
(* it may be because of this.                                              *)
LEMMA SweepTakesKeeps ==
  ASSUME Inv, PipelineAssumption, NEW j \in Jobs, SweepTakes(j)
  PROVE  Inv'
<1>1. Types /\ ServerInv /\ RunInv /\ JobInv(j) /\ LogInv(j)
  BY DEF Inv
<1>2. /\ UNCHANGED <<row, source, normalized, exports, original, dirs, stored, slog, request,
                     waiting, up, w, late, kills, sweeps>>
      /\ sweep.pc = "remove" /\ j \in sweep.victims
  BY DEF SweepTakes, table, disk, memory
<1>3. /\ sweep' \in SweepType /\ sweep'.pc = "remove" /\ sweep'.at = j
      /\ sweep'.victims = sweep.victims \ {j}
  BY <1>1, <1>2 DEF SweepTakes, Types, SweepType
<1>4. /\ broke' \in [Jobs -> SUBSET Breaks] /\ broke'[j] = broke[j] \cup {"swept"}
      /\ \A k \in Jobs \ {j} : broke'[k] = broke[k]
  BY <1>1 DEF SweepTakes, Broke, Types, Breaks
<1>5. j \in late /\ Swept(j)'
  BY <1>1, <1>2, <1>4 DEF ServerInv, Swept
<1>6. Types'
  BY <1>1, <1>2, <1>3, <1>4 DEF Types
<1>7. \A k \in Jobs \ {j} : JobInv(k)' /\ LogInv(k)'
  <2> SUFFICES ASSUME NEW k \in Jobs \ {j} PROVE JobInv(k)' /\ LogInv(k)'
    OBVIOUS
  <2>1. Same(k)
    BY <1>2, <1>4 DEF Same
  <2> QED BY <1>2, <2>1, Frame DEF Inv
<1>8. JobInv(j)'
  BY <1>1, <1>2, <1>4, <1>5 DEF JobInv, Fresh, Unbroken
<1>9. LogInv(j)'
  <2>1. row[j].status = "failed" => Told(row[j].err, broke'[j])
    BY <1>1, <1>4, ToldSwept DEF LogInv
  <2>2. StoredLog(j)'
    BY <1>1, <1>2, <1>4 DEF LogInv, StoredLog, Killed, InOrder
  <2> QED BY <1>1, <1>2, <1>4, <1>5, <2>1, <2>2
          DEF LogInv, InOrder, Told, CompleteLog, ExportRows, Main, Excused
<1>10. RunInv'
  <2>1. CASE w.job # j
    <3>1. w.pc # "idle" => Same(w.job)
      BY <1>1, <1>2, <1>4, <2>1 DEF RunInv, Same
    <3> QED BY <1>1, <1>2, <3>1, RunFrame
  <2>2. CASE w.job = j
    <3>1. w.pc # "idle"
      BY <1>1, <2>2, Values DEF RunInv, PipelineAssumption
    <3>2. ASSUME w.pc \in {"launch", "child", "read"} PROVE ChildInv(j)'
      <4>1. ChildInv(j)
        BY <2>2, <3>1, <3>2, InRun
      <4>2. (Unbroken(j) => Unbroken(j)') /\ Fresh(j)' /\ (Killed(j) => Killed(j)')
        BY <1>2, <1>4, <4>1 DEF Unbroken, Fresh, Killed, ChildInv
      <4>3. Main(w.done)' \subseteq w'.made /\ InOrder(w.made)' /\ InOrder(w.work.names)'
        BY <1>2, <4>1 DEF ChildInv, Main, InOrder
      <4> QED BY <1>2, <1>4, <1>5, <4>1, <4>2, <4>3 DEF ChildInv, Log
    <3>3. ASSUME w.pc \notin {"launch", "child", "read"} PROVE StoreInv(j)'
      <4>1. StoreInv(j)
        BY <2>2, <3>1, <3>3, InRun
      <4>2. Told(w.err, broke[j]) => Told(w.err, broke'[j])
        BY <1>4, ToldSwept
      <4>3. \A l : Consistent(l, w.err, broke[j]) => Consistent(l, w.err, broke'[j])
        BY <1>4 DEF Consistent, Excused
      <4>4. w.pc = "fail" => Ready(j, "fail", slog[j])'
        BY <1>2, <1>4, <4>1 DEF StoreInv, Ready, Told, Consistent, Excused
      <4>5. w.pc \in {"log", "copy"} => Ready(j, w.next, w.log)'
        BY <1>2, <1>4, <1>5, <4>1, <4>2, <4>3
           DEF StoreInv, Ready, CompleteLog, Main, InOrder
      <4>6. w.pc \in {"store", "put", "commit"} => Ready(j, w.pc, w.log)'
        BY <1>2, <1>5, <4>1 DEF StoreInv, Ready, CompleteLog, Main, InOrder
      <4> HIDE DEF Ready
      <4> QED BY <1>2, <1>5, <4>1, <4>4, <4>5, <4>6 DEF StoreInv, InOrder
    <3> QED BY <1>1, <1>2, <2>2, <3>1, <3>2, <3>3 DEF RunInv, RunsInv
  <2> QED BY <2>1, <2>2
<1>11. ServerInv'
  BY <1>1, <1>2, <1>3, <1>5 DEF ServerInv, Idle, NoLog, NoError
<1> QED BY <1>6, <1>7, <1>8, <1>9, <1>10, <1>11 DEF Inv

(* A run whose workspace has been removed.                                 *)
Cleared(r, lost) == [r EXCEPT !.work = NoLog, !.files = {}, !.lost = lost]

LEMMA ClearedRun ==
  ASSUME NEW r \in RunType, NEW lost \in BOOLEAN
  PROVE  LET c == Cleared(r, lost) IN
         /\ c \in RunType
         /\ c.pc = r.pc /\ c.job = r.job /\ c.err = r.err /\ c.child = r.child
         /\ c.done = r.done /\ c.exit = r.exit /\ c.made = r.made /\ c.log = r.log
         /\ c.next = r.next /\ c.left = r.left
         /\ c.work = NoLog /\ c.files = {} /\ c.lost = lost
BY Values DEF Cleared, RunType

LEMMA SweepRemovesKeeps ==
  ASSUME Inv, PipelineAssumption, SweepRemoves
  PROVE  Inv'
<1>1. Types /\ ServerInv /\ RunInv
  BY DEF Inv
<1>2. PICK j \in Jobs : j = sweep.at
  BY <1>1 DEF SweepRemoves, Types, SweepType
<1>3. JobInv(j) /\ LogInv(j) /\ j \in late /\ Swept(j)
  BY <1>1, <1>2 DEF Inv, ServerInv, SweepRemoves
<1>4. /\ UNCHANGED <<row, source, normalized, exports, dirs, request, waiting, up, broke, late,
                     kills, sweeps>>
      /\ sweep' = [sweep EXCEPT !.removed = @ + 1]
  BY DEF SweepRemoves, table, memory, history
<1>5. /\ sweep' \in SweepType /\ sweep'.pc = sweep.pc /\ sweep'.at = sweep.at
      /\ sweep'.victims = sweep.victims /\ sweep'.ids = sweep.ids
  <2>1. sweep \in SweepType /\ sweep.removed + 1 \in Nat
    BY <1>1 DEF Types, SweepType
  <2> QED BY <1>4, <2>1 DEF SweepType
<1>6. PICK part : 
        /\ original' = (original /\ ~(part = "original" /\ j = First))
        /\ stored' = IF part = "artifacts" THEN [stored EXCEPT ![j] = {}] ELSE stored
        /\ slog' = IF part = "logs" THEN [slog EXCEPT ![j] = NoLog] ELSE slog
        /\ w' = IF part = "pipeline-work" /\ w.job = j
                THEN [w EXCEPT !.work = NoLog, !.files = {},
                               !.lost = w.pc \in {"launch", "child"}] ELSE w
  BY <1>2 DEF SweepRemoves
<1>7. /\ slog' \in [Jobs -> LogType] /\ stored' \in [Jobs -> SUBSET Artifacts]
      /\ slog'[j] \in {slog[j], NoLog} /\ stored'[j] \in {stored[j], {}}
      /\ \A k \in Jobs \ {j} : slog'[k] = slog[k] /\ stored'[k] = stored[k]
      /\ original \/ First \in late => original' \/ First \in late
      /\ original' \in BOOLEAN
  BY <1>1, <1>3, <1>6, Values DEF Types
<1>8. /\ w' \in RunType /\ w'.pc = w.pc /\ w'.job = w.job /\ w'.err = w.err
      /\ w'.child = w.child /\ w'.done = w.done /\ w'.exit = w.exit /\ w'.made = w.made
      /\ w'.log = w.log /\ w'.next = w.next /\ w'.left = w.left
      /\ w.job # j => w' = w
      /\ \/ w' = w
         \/ /\ w'.work = NoLog /\ w'.files = {} /\ w.job = j
            /\ w'.lost => w.pc \in {"launch", "child"}
  <2>1. w \in RunType
    BY <1>1 DEF Types
  <2>2. CASE w' = w
    BY <2>1, <2>2
  <2>3. CASE /\ w' = Cleared(w, w.pc \in {"launch", "child"})
             /\ w.job = j
    <3>1. PICK lost \in BOOLEAN : lost <=> w.pc \in {"launch", "child"}
      OBVIOUS
    <3>2. w' = Cleared(w, lost)
      BY <2>3, <3>1
    <3> QED BY <2>1, <2>3, <3>1, <3>2, ClearedRun
  <2> QED BY <1>6, <2>2, <2>3 DEF Cleared
<1>9. Types'
  BY <1>1, <1>4, <1>5, <1>7, <1>8 DEF Types
<1>10. \A k \in Jobs \ {j} : JobInv(k)' /\ LogInv(k)'
  <2> SUFFICES ASSUME NEW k \in Jobs \ {j} PROVE JobInv(k)' /\ LogInv(k)'
    OBVIOUS
  <2>1. Same(k)
    BY <1>4, <1>7 DEF Same
  <2>2. w' = w \/ (w.job # k /\ w'.job # k)
    BY <1>8
  <2> QED BY <1>4, <1>7, <2>1, <2>2, Frame DEF Inv
<1>11. JobInv(j)'
  BY <1>3, <1>4, <1>7, <1>8 DEF JobInv, Fresh, Unbroken, Swept
<1>12. StoredLog(j)'
  <2>1. CASE slog'[j] = NoLog
    BY <2>1, Values DEF StoredLog, InOrder
  <2>2. CASE slog'[j] = slog[j]
    BY <1>3, <1>4, <1>8, <2>2 DEF LogInv, StoredLog, Killed, InOrder
  <2> QED BY <1>7, <2>1, <2>2
<1>13. LogInv(j)'
  <2>1. Swept(j)'
    BY <1>3, <1>4 DEF Swept
  <2> QED BY <1>3, <1>4, <1>7, <1>8, <1>12, <2>1, Values
          DEF LogInv, InOrder, Told, CompleteLog, ExportRows, Main, Excused
<1>14. RunInv'
  <2>1. CASE w.job # j
    <3>1. w.pc # "idle" => Same(w.job)
      BY <1>1, <1>4, <1>7, <2>1 DEF RunInv, Same
    <3> QED BY <1>1, <1>4, <1>8, <2>1, <3>1, RunFrame
  <2>2. CASE w.job = j
    <3>1. w.pc # "idle"
      BY <1>1, <2>2, Values DEF RunInv, PipelineAssumption
    <3>2. Swept(j)'
      BY <1>3, <1>4 DEF Swept
    <3>3. ASSUME w.pc \in {"launch", "child", "read"} PROVE ChildInv(j)'
      <4>1. ChildInv(j)
        BY <2>2, <3>1, <3>3, InRun
      <4>2. Fresh(j)' /\ (Unbroken(j) => Unbroken(j)') /\ (Killed(j) => Killed(j)')
        BY <1>4, <1>7, <4>1 DEF ChildInv, Fresh, Unbroken, Killed
      <4>3. Main(w.done)' \subseteq w'.made /\ InOrder(w.made)'
        BY <1>8, <4>1 DEF ChildInv, Main, InOrder
      <4>4. CASE w' = w
        <5>1. InOrder(w.work.names)'
          BY <4>1, <4>4 DEF ChildInv, InOrder
        <5> QED BY <1>4, <3>2, <4>1, <4>2, <4>3, <4>4, <5>1 DEF ChildInv, Log
      <4>5. CASE w'.work = NoLog /\ (w'.lost => w.pc \in {"launch", "child"})
        <5>1. NoLog.failed = 0 /\ NoLog.is = "none" /\ NoLog.status = "none"
              /\ InOrder(w.work.names)'
          BY <4>5, Values DEF InOrder
        <5>2. w.pc = "launch" => Unbroken(j) /\ w.done = 0 /\ w.made = {}
          BY <4>1 DEF ChildInv
        <5>3. w.pc = "child" => w.child # "none" /\ (w.child = "running" => Unbroken(j))
          BY <4>1 DEF ChildInv
        <5>4. (w.pc = "child" /\ w.child = "completed") \/ (w.pc = "read" /\ w.exit = 0) =>
                w.done = 5 /\ Unbroken(j)
          BY <4>1 DEF ChildInv
        <5> QED BY <1>8, <3>2, <3>3, <4>2, <4>3, <4>5, <5>1, <5>2, <5>3, <5>4 DEF ChildInv
      <4> QED BY <1>8, <4>4, <4>5
    <3>4. ASSUME w.pc \notin {"launch", "child", "read"} PROVE StoreInv(j)'
      <4>1. StoreInv(j)
        BY <2>2, <3>1, <3>4, InRun
      <4>2. \A next, l : Ready(j, next, l) => Ready(j, next, l)'
        BY <1>4, <1>8, <3>2 DEF Ready, Told, Consistent, Excused, CompleteLog, Main, InOrder
      <4>3. w.pc = "fail" => Ready(j, "fail", NoLog)
        BY <4>1, Values DEF StoreInv, Ready, Consistent
      <4>4. w.pc = "fail" => Ready(j, "fail", slog'[j])
        BY <1>7, <4>1, <4>3 DEF StoreInv
      <4>5. w.pc = "fail" => Ready(j, "fail", slog[j])'
        BY <1>4, <1>8, <4>4 DEF Ready, Told, Consistent, Excused
      <4>6. w.pc \in {"log", "copy"} => Ready(j, w.next, w.log)'
        BY <1>4, <1>8, <3>2, <4>1
           DEF StoreInv, Ready, Told, Consistent, Excused, CompleteLog, Main, InOrder
      <4>7. w.pc \in {"store", "put", "commit"} => Ready(j, w.pc, w.log)'
        BY <1>4, <1>8, <3>2, <4>1
           DEF StoreInv, Ready, Told, Consistent, Excused, CompleteLog, Main, InOrder
      <4> HIDE DEF Ready
      <4> QED BY <1>7, <1>8, <3>2, <4>1, <4>5, <4>6, <4>7, Values DEF StoreInv, InOrder
    <3> QED BY <1>1, <1>4, <1>8, <2>2, <3>1, <3>3, <3>4 DEF RunInv, RunsInv
  <2> QED BY <2>1, <2>2
<1>15. ServerInv'
  <2>1. w = Idle => w' = Idle
    BY <1>8, Values DEF PipelineAssumption
  <2> QED BY <1>1, <1>4, <1>5, <2>1 DEF ServerInv, Swept, Idle, NoLog, NoError
<1> QED BY <1>9, <1>10, <1>11, <1>13, <1>14, <1>15 DEF Inv


(***************************************************************************)
(* The invariant of every behaviour.                                       *)
(***************************************************************************)
LEMMA InitInv ==
  ASSUME PipelineAssumption, Init
  PROVE  Inv
<1> USE DEF Init
<1>1. Types
  <2>1. row \in [Jobs -> RowType]
    BY Values
  <2>2. sweep \in SweepType
    BY DEF SweepOver, SweepType
  <2> QED BY <2>1, <2>2, Values DEF Types
<1>2. ServerInv
  BY Values DEF ServerInv, SweepOver
<1>3. RunInv
  BY Values DEF RunInv
<1>4. ASSUME NEW j \in Jobs PROVE JobInv(j) /\ LogInv(j)
  <2>1. /\ row[j].status = "absent" /\ row[j].err = NoError /\ broke[j] = {}
        /\ slog[j] = NoLog /\ stored[j] = {} /\ exports[j] = {}
    BY Values
  <2>2. JobInv(j)
    BY <2>1 DEF JobInv, Fresh, Unbroken, Swept
  <2>3. LogInv(j)
    BY <2>1, Values DEF LogInv, StoredLog, InOrder
  <2> QED BY <2>2, <2>3
<1> QED BY <1>1, <1>2, <1>3, <1>4 DEF Inv

LEMMA NextInv ==
  ASSUME PipelineAssumption, Inv, [Next]_vars
  PROVE  Inv'
<1>1. CASE UNCHANGED vars
  <2>1. UNCHANGED <<table, original, stored, slog, memory, w, broke, late, kills>>
        /\ sweep' = sweep /\ dirs' \subseteq dirs /\ sweeps' = sweeps
    BY <1>1 DEF vars, disk, history
  <2>2. /\ sweep \in SweepType /\ sweeps \in Nat /\ sweep.victims \subseteq late
        /\ sweep.pc = "list" => \A j \in Jobs : row[j].status # "absent" => j \in sweep.ids \cup late
        /\ sweep.at # NoJob => sweep.at \in late /\ Swept(sweep.at)
    BY DEF Inv, Types, ServerInv
  <2> QED BY <2>1, <2>2, LooksOn
<1>2. CASE \E j \in Jobs : Retry(j) \/ Start(j) \/ SweepTakes(j)
  BY <1>2, RetryKeeps, StartKeeps, SweepTakesKeeps
<1>3. CASE \/ Upload \/ StoreOriginal \/ Accept \/ ServerKilled \/ Restart
           \/ SweepReadsIds \/ SweepLists \/ SweepRemoves \/ SweepLeaves
  BY <1>3, UploadKeeps, StoreOriginalKeeps, AcceptKeeps, ServerKilledKeeps, RestartKeeps,
     SweepReadsIdsKeeps, SweepListsKeeps, SweepRemovesKeeps, SweepLeavesKeeps
<1>4. CASE \/ Launch \/ StageCompletes \/ StageRaises \/ LogCompleted \/ ChildLost
           \/ ChildExits \/ ChildKilled \/ Timeout \/ ReadLog
  BY <1>4, LaunchKeeps, StageCompletesKeeps, StageRaisesKeeps, LogCompletedKeeps,
     ChildLostKeeps, ChildExitsKeeps, ChildKilledKeeps, TimeoutKeeps, ReadLogKeeps
<1>5. CASE \/ StartCopy \/ CopyEnds \/ LogFails \/ ValidateArtifacts
           \/ StoreArtifacts \/ StoreFails \/ Relog \/ Commit \/ MarkFailed
  BY <1>5, StartCopyKeeps, CopyEndsKeeps, LogFailsKeeps, ValidateArtifactsKeeps,
     StoreArtifactsKeeps, StoreFailsKeeps, RelogKeeps, CommitKeeps, MarkFailedKeeps
<1> QED BY <1>1, <1>2, <1>3, <1>4, <1>5 DEF Next

LEMMA RunInvariant == Spec => []Inv
<1>1. Init => Inv
  BY InitInv, PipelineAssumption
<1>2. Inv /\ [Next]_vars => Inv'
  BY NextInv, PipelineAssumption
<1> QED BY <1>1, <1>2, PTL DEF Spec

(* Every variable holds the values the operations above can give it.       *)
THEOREM TypesHold == Spec => []TypeOK
<1>1. Inv => TypeOK
  BY DEF Inv, Types, TypeOK, RowType, LogType, RunType
<1> QED BY <1>1, RunInvariant, PTL

(* Whatever breaks, and in whatever order with kills, restarts and sweeps: *)
(* the code and the stage of a failed row name what broke.                 *)
THEOREM FailedRowsNameTheBreak == Spec => []FailureNamesTheBreak
<1>1. Inv => FailureNamesTheBreak
  <2> SUFFICES ASSUME Inv, NEW j \in Jobs, row[j].status = "failed"
               PROVE  FailureNamesTheBreak!(j)
    BY DEF FailureNamesTheBreak
  <2>1. Told(row[j].err, broke[j])
    BY DEF Inv, LogInv
  <2> QED BY <2>1 DEF Told, StatusError
<1> QED BY <1>1, RunInvariant, PTL

(* What the invariant says of a completed job.                             *)
LEMMA CompletedJob ==
  ASSUME Inv, NEW j \in Jobs, row[j].status = "completed"
  PROVE  /\ row[j].err = NoError /\ slog[j].is # "torn"
         /\ {"midi", "musicxml"} \subseteq exports[j]
         /\ exports[j] \subseteq {"midi", "musicxml", "pdf"}
         /\ "pdf" \in exports[j] => ExportPdf
         /\ slog[j].is = "whole" =>
              /\ PageLog(j) = slog[j] /\ CompleteLog(slog[j], TRUE)
              /\ exports[j] = ExportRows(slog[j].names)
              /\ slog[j].names \subseteq stored[j] \/ Swept(j)
         /\ slog[j].is # "whole" =>
              Swept(j) /\ PageLog(j).names = {} /\ PageLog(j).failed = 0
         /\ Swept(j) => j \in late
         /\ original \/ First \in late
BY Values DEF Inv, Types, JobInv, LogInv, PageLog

(* The page offers what the download routes serve, and the packet holds it.*)
LEMMA PageIsServed ==
  ASSUME NEW j \in Jobs, row[j].status = "completed",
         exports[j] \subseteq {"midi", "musicxml", "pdf"}
  PROVE  LET page == ResultPage(j)
         IN /\ page.exports = {type \in {"midi", "musicxml", "pdf"} : OpenExport(j, type) = "ok"}
            /\ page.audio = {kind \in AudioKinds : OpenReviewAudio(j, kind) = "ok"}
            /\ {ExportFile(type) : type \in page.exports} \subseteq BuildZip(j)
<1>1. CompletedResult(j) = "ok"
  BY DEF CompletedResult
<1>2. \A type \in {"midi", "musicxml", "pdf"} :
        OpenExport(j, type) = "ok" <=> ExportAvailable(j, type)
  BY <1>1 DEF OpenExport, ExportAvailable, ListedExport
<1>3. \A kind \in AudioKinds : OpenReviewAudio(j, kind) = "ok" <=> ReviewAudioShown(j, kind)
  BY <1>1 DEF OpenReviewAudio, ReviewAudioShown
<1>4. \A type \in {"midi", "musicxml", "pdf"} :
        ExportAvailable(j, type) => type \in exports[j] /\ IncludedInZip(j, type)
  BY DEF ExportAvailable, ListedExport, IncludedInZip, Intact, ExportFile
<1>5. /\ ResultPage(j).exports = {type \in {"midi", "musicxml", "pdf"} : ExportAvailable(j, type)}
      /\ ResultPage(j).audio = {kind \in AudioKinds : ReviewAudioShown(j, kind)}
  BY DEF ResultPage
<1>6. {ExportFile(type) : type \in ResultPage(j).exports} \subseteq BuildZip(j)
  <2>1. \A type \in ResultPage(j).exports : type \in exports[j] /\ IncludedInZip(j, type)
    BY <1>4, <1>5
  <2> QED BY <2>1 DEF BuildZip
<1> QED BY <1>2, <1>3, <1>5, <1>6

(* A stored log has both reports or none; and unless the job was swept the *)
(* files it names are stored, and no other.                                *)
LEMMA LoggedIsStored ==
  ASSUME Inv, NEW j \in Jobs, row[j].status = "completed"
  PROVE  /\ Validated(j) <=> "processed_midi" \in PageLog(j).names
         /\ "pdf" \in PageLog(j).names => Validated(j)
         /\ ~Swept(j) =>
              /\ Validated(j) <=> ExportAvailable(j, "musicxml")
              /\ "pdf" \in PageLog(j).names <=> ExportAvailable(j, "pdf")
<1>1. CASE slog[j].is = "whole"
  <2>1. /\ PageLog(j) = slog[j] /\ Main(5) \subseteq slog[j].names
        /\ exports[j] = ExportRows(slog[j].names) /\ ("pdf" \in exports[j] => ExportPdf)
        /\ slog[j].names \subseteq stored[j] \/ Swept(j)
    BY <1>1, CompletedJob DEF CompleteLog
  <2>2. {"processed_midi", "musicxml"} \subseteq Main(5)
    BY DEF Main
  <2>3. exports[j] # {} /\ "musicxml" \in exports[j]
        /\ ("pdf" \in exports[j] <=> "pdf" \in slog[j].names)
    BY <2>1 DEF ExportRows
  <2> QED BY <2>1, <2>2, <2>3
          DEF Validated, ValidationSummary, ExportAvailable, ListedExport, HasExportRow, Intact,
              ExportFile
<1>2. CASE slog[j].is # "whole"
  <2>1. PageLog(j).names = {} /\ Swept(j)
    BY <1>2, CompletedJob
  <2> QED BY <2>1 DEF Validated, ValidationSummary
<1> QED BY <1>1, <1>2

(* The packet gives each export the state the download route gives it.     *)
LEMMA PacketShowsExports ==
  ASSUME Inv, NEW j \in Jobs, row[j].status = "completed"
  PROVE  \A type \in {"midi", "musicxml", "pdf"} :
           /\ PacketExport(j, type) = "available" <=> ExportAvailable(j, type)
           /\ PacketExport(j, type) = "failed" <=> OpenExport(j, type) = "EXPORT_NOT_READY"
<1> SUFFICES ASSUME NEW type \in {"midi", "musicxml", "pdf"}
             PROVE  /\ PacketExport(j, type) = "available" <=> ExportAvailable(j, type)
                    /\ PacketExport(j, type) = "failed"
                          <=> OpenExport(j, type) = "EXPORT_NOT_READY"
  OBVIOUS
<1>1. CompletedResult(j) = "ok"
  BY DEF CompletedResult
<1>2. type \in exports[j] => HasExportRow(j, type)
  BY CompletedJob DEF HasExportRow
<1>3. IncludedInZip(j, type) <=> ExportAvailable(j, type)
  BY <1>2 DEF IncludedInZip, ExportAvailable, ListedExport, Intact, ExportFile
<1>4. PacketExport(j, type) = "available" <=> IncludedInZip(j, type)
  BY DEF PacketExport
<1>5. PacketExport(j, type) = "failed" <=> HasExportRow(j, type) /\ type \notin exports[j]
  BY DEF PacketExport, IncludedInZip
<1>6. OpenExport(j, type) = "EXPORT_NOT_READY" <=> HasExportRow(j, type) /\ type \notin exports[j]
  BY <1>1 DEF OpenExport
<1> QED BY <1>3, <1>4, <1>5, <1>6

(* The notes of the packet list what is there, call good what is there and *)
(* warn exactly when the page says that it has no verdict.                 *)
LEMMA NotesAreTrue ==
  ASSUME Inv, NEW j \in Jobs, row[j].status = "completed"
  PROVE  LET page == ResultPage(j)  packet == Packet(j)  notes == ReviewNotes(Packet(j))
         IN /\ notes.listed = page.exports
            /\ ~Swept(j) => notes.good = page.exports \ {"midi"}
            /\ \A type \in {"midi", "musicxml", "pdf"} :
                 packet.exports[type] = "failed" <=> OpenExport(j, type) = "EXPORT_NOT_READY"
            /\ ("validation_missing" \in notes.toCheck)
                 = ("quality_verdict_unavailable" \in UnknownLimitations(j))
            /\ ("validation_missing" \in notes.toCheck) = ("raw" \notin packet.seed)
            /\ ("pdf_optional" \in notes.toCheck) = ("pdf" \notin page.exports)
<1> DEFINE kinds == {"midi", "musicxml", "pdf"}
<1>1. ResultPage(j).exports = {type \in kinds : ExportAvailable(j, type)}
  BY DEF ResultPage
<1>2. /\ Packet(j).exports = [type \in kinds |-> PacketExport(j, type)]
      /\ Packet(j).validation = [type \in {"musicxml", "pdf"} |-> ValidationStatus(j, type)]
      /\ Packet(j).checklist = ReviewChecklist(j)
      /\ Packet(j).seed = ManualEvalSeed(j)
  BY DEF Packet
<1>3. /\ ReviewNotes(Packet(j)).listed
            = {type \in kinds : Packet(j).exports[type] = "available"}
      /\ ReviewNotes(Packet(j)).good
            = {type \in {"musicxml", "pdf"} :
                 Packet(j).validation[type] \in {"parseable", "openable"}}
      /\ ReviewNotes(Packet(j)).toCheck = ReviewChecklist(j)
  BY <1>2 DEF ReviewNotes
<1>4. ReviewNotes(Packet(j)).listed = ResultPage(j).exports
  BY <1>1, <1>2, <1>3, PacketShowsExports
<1>5. ~Swept(j) => ReviewNotes(Packet(j)).good = ResultPage(j).exports \ {"midi"}
  <2> SUFFICES ASSUME ~Swept(j)
               PROVE  ReviewNotes(Packet(j)).good = ResultPage(j).exports \ {"midi"}
    OBVIOUS
  <2>1. /\ ValidationStatus(j, "musicxml") \in {"parseable", "openable"} <=> Validated(j)
        /\ ValidationStatus(j, "pdf") \in {"parseable", "openable"}
              <=> Validated(j) /\ "pdf" \in PageLog(j).names
    BY DEF ValidationStatus
  <2>2. \A type \in {"musicxml", "pdf"} :
          ValidationStatus(j, type) \in {"parseable", "openable"} <=> ExportAvailable(j, type)
    BY <2>1, LoggedIsStored
  <2> QED BY <1>1, <1>2, <1>3, <2>2
<1>6. \A type \in kinds :
        Packet(j).exports[type] = "failed" <=> OpenExport(j, type) = "EXPORT_NOT_READY"
  BY <1>2, PacketShowsExports
<1>7. "validation_missing" \in ReviewChecklist(j) <=> ~Validated(j)
  BY DEF ReviewChecklist
<1>8. "pdf_optional" \in ReviewChecklist(j) <=> ~ExportAvailable(j, "pdf")
  BY PacketShowsExports DEF ReviewChecklist
<1>9. QualityVerdict(j) = "judged" <=> Validated(j)
  BY LoggedIsStored DEF QualityVerdict, MidiReport
<1>10. "quality_verdict_unavailable" \in UnknownLimitations(j) <=> QualityVerdict(j) # "judged"
  BY DEF UnknownLimitations
<1>11. "raw" \in Packet(j).seed <=> QualityVerdict(j) = "judged"
  BY <1>2 DEF ManualEvalSeed
<1>12. "pdf" \in ResultPage(j).exports <=> ExportAvailable(j, "pdf")
  BY <1>1
<1> QED BY <1>3, <1>4, <1>5, <1>6, <1>7, <1>8, <1>9, <1>10, <1>11, <1>12

(* A job whose directory no sweep took has all its files.                  *)
LEMMA NothingIsMissing ==
  ASSUME Inv, NEW j \in Jobs, row[j].status = "completed", ~Swept(j)
  PROVE  LET page == ResultPage(j)
         IN /\ page.exports = exports[j] /\ page.preview /\ page.chart
            /\ page.pipeline.verdict = "judged"
            /\ {"performance_midi", "musicxml", "processed_midi", "chart_events"}
                 \subseteq BuildZip(j)
            /\ "drums_stem" \in page.audio
<1>1. /\ Main(5) \subseteq stored[j] /\ Main(5) \subseteq PageLog(j).names
      /\ "pdf" \in exports[j] => "pdf" \in stored[j] /\ ExportPdf
      /\ {"midi", "musicxml"} \subseteq exports[j]
      /\ exports[j] \subseteq {"midi", "musicxml", "pdf"}
  <2>1. /\ slog[j].is = "whole" /\ slog[j].names \subseteq stored[j]
        /\ CompleteLog(slog[j], TRUE) /\ exports[j] = ExportRows(slog[j].names)
    BY CompletedJob
  <2>2. PageLog(j) = slog[j]
    BY <2>1 DEF PageLog
  <2>3. Main(5) \subseteq slog[j].names /\ ("pdf" \in slog[j].names => ExportPdf)
    BY <2>1 DEF CompleteLog, InOrder
  <2> QED BY <2>1, <2>2, <2>3 DEF ExportRows
<1>2. {"drums_stem", "processed_midi", "musicxml", "performance_midi", "chart_events"}
         \subseteq Main(5)
  BY DEF Main
<1>3. \A type \in exports[j] : ExportAvailable(j, type) /\ IncludedInZip(j, type)
  BY <1>1, <1>2 DEF ExportAvailable, ListedExport, HasExportRow, IncludedInZip, Intact, ExportFile
<1>4. ResultPage(j).exports = exports[j]
  <2>1. \A type \in {"midi", "musicxml", "pdf"} : ExportAvailable(j, type) <=> type \in exports[j]
    BY <1>3 DEF ExportAvailable, ListedExport
  <2> QED BY <1>1, <2>1 DEF ResultPage
<1>5. ResultPage(j).preview
  BY <1>1, <1>3 DEF ResultPage, PreviewShown
<1>6. ResultPage(j).chart
  BY <1>1, <1>2 DEF ResultPage, ChartShown, Intact
<1>7. ResultPage(j).pipeline.verdict = "judged"
  BY <1>1, <1>2 DEF ResultPage, PipelineSummary, QualityVerdict, MidiReport
<1>8. "drums_stem" \in ResultPage(j).audio
  BY <1>1, <1>2 DEF ResultPage, ReviewAudioShown, Intact, AudioKinds
<1>9. {"performance_midi", "musicxml", "processed_midi", "chart_events"} \subseteq BuildZip(j)
  <2>1. "midi" \in exports[j] /\ IncludedInZip(j, "midi") /\ ExportFile("midi") = "performance_midi"
    BY <1>1, <1>3 DEF ExportFile
  <2>2. /\ "musicxml" \in exports[j] /\ IncludedInZip(j, "musicxml")
        /\ ExportFile("musicxml") = "musicxml"
    BY <1>1, <1>3 DEF ExportFile
  <2>3. "performance_midi" \in BuildZip(j)
    BY <2>1 DEF BuildZip
  <2>4. "musicxml" \in BuildZip(j)
    BY <2>2 DEF BuildZip
  <2>5. {"processed_midi", "chart_events"} \subseteq BuildZip(j)
    BY <1>1, <1>2 DEF BuildZip
  <2> QED BY <2>3, <2>4, <2>5
<1> QED BY <1>4, <1>5, <1>6, <1>7, <1>8, <1>9

(* A completed job serves what its rows promise, on every route.           *)
THEOREM CompletedJobsAreServed == Spec => []CompletedIsServed
<1>1. Inv => CompletedIsServed
  <2> SUFFICES ASSUME Inv, NEW j \in Jobs, CompletedResult(j) = "ok"
               PROVE  CompletedIsServed!(j)
    BY DEF CompletedIsServed
  <2>1. row[j].status = "completed"
    BY DEF CompletedResult, Inv, Types, RowType
  <2>2. First \notin late => "original" \in ResultPage(j).audio
    BY <2>1, CompletedJob DEF ResultPage, ReviewAudioShown, Intact, AudioKinds
  <2>3. {"midi", "musicxml"} \subseteq exports[j]
        /\ exports[j] \subseteq {"midi", "musicxml", "pdf"} /\ (Swept(j) => j \in late)
    BY <2>1, CompletedJob
  <2> QED BY <2>1, <2>2, <2>3, PageIsServed, NotesAreTrue, NothingIsMissing DEF Swept
<1> QED BY <1>1, RunInvariant, PTL

(* The internal detail of a completed job names that job's own files.      *)
THEOREM DetailsNameOwnFiles == Spec => []OwnFilesInDetail
<1>1. Inv => OwnFilesInDetail
  <2> SUFFICES ASSUME Inv, NEW j \in Jobs, row[j].status = "completed", ~Swept(j)
               PROVE  OwnFilesInDetail!(j)
    BY DEF OwnFilesInDetail, Swept
  <2>1. slog[j].is = "whole" /\ slog[j].keys = TRUE /\ Main(5) \subseteq slog[j].names
    BY CompletedJob DEF CompleteLog
  <2>2. Required \cup {"performance_midi"} \subseteq slog[j].names
    BY <2>1 DEF Main, Required
  <2> QED BY <2>1, <2>2 DEF DetailAnswers, DetailKey
<1> QED BY <1>1, RunInvariant, PTL

(* What a page shows of a job: the score is readable only beside a verdict,*)
(* which is unknown only for a completed job that a sweep overlooked.      *)
LEMMA ShownWithVerdict ==
  ASSUME Inv, NEW j \in Jobs
  PROVE  /\ Validated(j) => QualityVerdict(j) = "judged"
         /\ QualityVerdict(j) = "unknown" => row[j].status = "completed" /\ j \in late
         /\ row[j].status = "completed" /\ ~Swept(j) => Validated(j)
<1>1. InOrder(PageLog(j).names)
  BY Values DEF Inv, LogInv, StoredLog, PageLog
<1>2. Validated(j) => MidiReport(PageLog(j))
  BY <1>1 DEF Validated, ValidationSummary, MidiReport, InOrder
<1>3. row[j].status = "completed" /\ ~Swept(j) => Validated(j)
  <2> SUFFICES ASSUME row[j].status = "completed", ~Swept(j)
               PROVE  Validated(j)
    OBVIOUS
  <2>1. Main(5) \subseteq PageLog(j).names
    BY CompletedJob DEF CompleteLog
  <2> QED BY <2>1 DEF Main, Validated, ValidationSummary
<1>4. QualityVerdict(j) = "unknown" => exports[j] # {} /\ ~MidiReport(PageLog(j))
  BY DEF QualityVerdict
<1>5. exports[j] # {} => row[j].status = "completed"
  BY DEF Inv, JobInv
<1>6. Swept(j) /\ row[j].status = "completed" => j \in late
  BY CompletedJob
<1> QED BY <1>2, <1>3, <1>4, <1>5, <1>6 DEF QualityVerdict

(* And so of the job that is shown beside a retry.                         *)
LEMMA PageBesides ==
  ASSUME Inv, NEW j \in Jobs
  PROVE  LET of == source[j]  beside == SourceResultSummary(j)
         IN /\ beside.status \in {"none"} \cup Ended
            /\ beside.musicxmlParseable => beside.verdict = "judged"
            /\ beside.verdict = "unknown" => beside.status = "completed" /\ of \in late
            /\ beside.status = "completed" /\ ~Swept(of) => beside.musicxmlParseable
<1>1. CASE source[j] = NoJob
  BY <1>1 DEF SourceResultSummary
<1>2. CASE source[j] # NoJob
  <2> DEFINE of == source[j]
  <2>1. of \in Jobs /\ row[of].status \in Ended
    BY <1>2 DEF Inv, Types, ServerInv
  <2>2. /\ SourceResultSummary(j).status = row[of].status
        /\ SourceResultSummary(j).verdict = QualityVerdict(of)
        /\ SourceResultSummary(j).musicxmlParseable = Validated(of)
    BY <1>2, <2>1 DEF SourceResultSummary, PipelineSummary, Ended
  <2> HIDE DEF of
  <2>3. /\ SourceResultSummary(j).status \in {"none"} \cup Ended
        /\ SourceResultSummary(j).musicxmlParseable => SourceResultSummary(j).verdict = "judged"
        /\ SourceResultSummary(j).verdict = "unknown" =>
             SourceResultSummary(j).status = "completed" /\ of \in late
        /\ SourceResultSummary(j).status = "completed" /\ ~Swept(of) =>
             SourceResultSummary(j).musicxmlParseable
    BY <2>1, <2>2, ShownWithVerdict
  <2> QED BY <2>3 DEF of
<1> QED BY <1>1, <1>2

(* The stored log never contradicts the row.                               *)
THEOREM LogsAgreeWithRows == Spec => []LogAgreesWithRow
<1>1. Inv => LogAgreesWithRow
  <2> SUFFICES ASSUME Inv, NEW j \in Jobs
               PROVE  LogAgreesWithRow!(j)
    BY DEF LogAgreesWithRow
  <2>1. LogInv(j) /\ JobInv(j)
    BY DEF Inv
  <2>2. ASSUME row[j].status = "completed"
        PROVE  /\ ~Swept(j) => PipelineSummary(j).status = "completed"
               /\ FailedStage(j) = "none"
    <3>1. PageLog(j).failed = 0 /\ row[j].err = NoError /\ NoError.stage = "none"
      BY <2>2, CompletedJob DEF CompleteLog, NoError
    <3>2. ~Swept(j) => PageLog(j).status = "completed"
      BY <2>2, CompletedJob DEF CompleteLog
    <3> QED BY <3>1, <3>2 DEF FailedStage, PipelineSummary
  <2>3. LET of == source[j]  beside == SourceResultSummary(j)
        IN /\ beside.status \in {"none"} \cup Ended
           /\ beside.musicxmlParseable => beside.verdict = "judged"
           /\ beside.verdict = "unknown" => beside.status = "completed" /\ of \in late
           /\ beside.status = "completed" /\ ~Swept(of) => beside.musicxmlParseable
    BY <2>1, PageBesides
  <2>4. ASSUME up, row[j].err = NoError, FailedStage(j) # "none"
        PROVE  w.job = j /\ w.pc = "fail" /\ w.err.stage = BackendStage[slog[j].failed]
    <3>1. slog[j].failed # 0
      BY <2>4, Values DEF FailedStage, PageLog, NoError
    <3> QED BY <2>1, <2>4, <3>1 DEF LogInv
  <2>5. row[j].status = "failed" /\ slog[j].status = "completed" => broke[j] \cap Excused # {}
    BY <2>1 DEF LogInv
  <2>6. /\ slog[j].status = "running" => "childkilled" \in broke[j]
        /\ slog[j].is = "torn" =>
             broke[j] \cap {"killed", "storage"} # {} \/ (w.job = j /\ w.pc = "copy")
    BY <2>1 DEF LogInv, StoredLog, Killed
  <2> QED BY <2>2, <2>3, <2>4, <2>5, <2>6 DEF Excused, Swept
<1> QED BY <1>1, RunInvariant, PTL

=============================================================================
