---------------------------- MODULE PipelineReads ----------------------------
(***************************************************************************)
(* What the server answers about the jobs of PipelineRun, and what must    *)
(* hold of it: the status and the list of jobs, the result page and its    *)
(* timeline, the downloads, the review packet, and the internal detail.    *)
(* Every answer is computed from the rows and the stored files at the time *)
(* of the request; each route checks them in its own way.                  *)
(*                                                                         *)
(* A directory has one writer, and a file is stored before the row that    *)
(* names it: a stored file is always the one whose checksum its row holds. *)
(* Candidates are left out: the backend never asks for them.               *)
(***************************************************************************)
EXTENDS PipelineRun

(* The codes of the error catalogue that tell the user to try again: those *)
(* a job of this model or a request about it can end in.                   *)
Retriable(code) ==
  code \in {"PIPELINE_FAILED", "WORKER_TIMEOUT", "JOB_NOT_COMPLETED", "EXPORT_NOT_READY"}

(* ArtifactIntegrityService.check, and its use for the audio of a page.    *)
Intact(j, a) == IF a = "original" THEN original ELSE a \in stored[j]

ExportFile(type) == CASE type = "midi" -> "performance_midi"
                      [] type = "musicxml" -> "musicxml"
                      [] type = "pdf" -> "pdf"

(* A completed job has a row for a PDF that was wanted and not made.       *)
HasExportRow(j, type) == exports[j] # {} /\ (type = "pdf" => ExportPdf)

(***************************************************************************)
(* The routes that answer about one job.                                   *)
(***************************************************************************)
CompletedResult(j) ==
  CASE row[j].status = "absent" -> "JOB_NOT_FOUND"
    [] row[j].status \notin {"absent", "completed"} -> "JOB_NOT_COMPLETED"
    [] row[j].status = "completed" -> "ok"

OpenExport(j, type) ==
  CASE CompletedResult(j) # "ok" -> CompletedResult(j)
    [] CompletedResult(j) = "ok" /\ ~HasExportRow(j, type) -> "EXPORT_NOT_FOUND"
    [] CompletedResult(j) = "ok" /\ HasExportRow(j, type) /\ type \notin exports[j]
         -> "EXPORT_NOT_READY"
    [] OTHER -> IF Intact(j, ExportFile(type)) THEN "ok" ELSE "EXPORT_NOT_FOUND"

OpenReviewAudio(j, kind) ==
  CASE CompletedResult(j) # "ok" -> CompletedResult(j)
    [] OTHER -> IF Intact(j, kind) THEN "ok" ELSE "EXPORT_NOT_FOUND"

StatusError(j) == [error |-> row[j].err, retriable |-> Retriable(row[j].err.code)]

(***************************************************************************)
(* The result page.                                                        *)
(***************************************************************************)
(* The list of jobs reads only the rows.                                   *)
ListedExport(j, type) == HasExportRow(j, type) /\ type \in exports[j]

ExportAvailable(j, type) == ListedExport(j, type) /\ Intact(j, ExportFile(type))

PreviewShown(j) == ExportAvailable(j, "musicxml")

AudioKinds == {"original", "drums_stem", "accompaniment_stem"}
ReviewAudioShown(j, kind) == Intact(j, kind)

(* The measures of the timeline and the events of the synthesized drums.   *)
ChartShown(j) == Intact(j, "chart_events")

(* The page forgives a log that is missing or torn and shows less.         *)
PageLog(j) == IF slog[j].is = "whole" THEN slog[j] ELSE NoLog

(* The log has the quality of the MIDI once the post-processing completed. *)
MidiReport(log) == "processed_midi" \in log.names

(* Such a log has a verdict; without it the rows of the job give counts    *)
(* but none.                                                               *)
QualityVerdict(j) ==
  CASE MidiReport(PageLog(j)) -> "judged"
    [] ~MidiReport(PageLog(j)) /\ exports[j] # {} -> "unknown"
    [] OTHER -> "none"

(* The validation is part of the report of the notation: the log has it    *)
(* once that stage completed.                                              *)
ValidationSummary(log) == "musicxml" \in log.names

Validated(j) == ValidationSummary(PageLog(j))

PipelineSummary(j) ==
  [status |-> PageLog(j).status,
   logAvailable |-> PageLog(j).is = "whole",
   artifacts |-> {type \in exports[j] : ExportAvailable(j, type)},
   verdict |-> QualityVerdict(j),
   musicxmlParseable |-> Validated(j)]

(* The limitation the page shows of a result without a verdict.            *)
UnknownLimitations(j) ==
  IF QualityVerdict(j) = "judged" THEN {} ELSE {"quality_verdict_unavailable"}

ResultPage(j) ==
  [exports |-> {type \in {"midi", "musicxml", "pdf"} : ExportAvailable(j, type)},
   preview |-> PreviewShown(j),
   audio |-> {kind \in AudioKinds : ReviewAudioShown(j, kind)},
   chart |-> ChartShown(j),
   pipeline |-> PipelineSummary(j)]

(* A retry is shown beside the job it repeats.                             *)
SourceResultSummary(j) ==
  LET empty(status) == [status |-> status, verdict |-> "none", musicxmlParseable |-> FALSE]
      of == source[j]
  IN IF of = NoJob THEN empty("none")
     ELSE IF row[of].status = "absent" THEN empty("missing")
     ELSE [status |-> row[of].status, verdict |-> PipelineSummary(of).verdict,
           musicxmlParseable |-> PipelineSummary(of).musicxmlParseable]

(***************************************************************************)
(* The review packet: its own check of the exports is that the file is     *)
(* there; the other files are added when they can be read.                 *)
(***************************************************************************)
IncludedInZip(j, type) == type \in exports[j] /\ ExportFile(type) \in stored[j]

PacketExport(j, type) ==
  CASE IncludedInZip(j, type) -> "available"
    [] type \in exports[j] /\ ~IncludedInZip(j, type) -> "unavailable"
    [] OTHER -> IF HasExportRow(j, type) THEN "failed" ELSE "none"

(* What the report of the notation says of its score and its print.        *)
ValidationStatus(j, type) ==
  CASE ~Validated(j) -> "not_reported"
    [] Validated(j) /\ type = "musicxml" -> "parseable"
    [] Validated(j) /\ type = "pdf" ->
         IF "pdf" \in PageLog(j).names THEN "openable" ELSE "optional_unavailable"

(* The checklist of the packet, but for the quality flags and warnings.    *)
ReviewChecklist(j) ==
  {"automated_quality_gate", "musicxml_validation"}
  \cup (IF PacketExport(j, "pdf") = "available" THEN {} ELSE {"pdf_optional"})
  \cup (IF Validated(j) THEN {} ELSE {"validation_missing"})

(* Which counts of events the packet has for a manual evaluation.          *)
ManualEvalSeed(j) ==
  CASE QualityVerdict(j) = "judged"  -> {"raw", "processed"}
    [] QualityVerdict(j) = "unknown" -> {"processed"}
    [] OTHER -> {}

Packet(j) ==
  [exports    |-> [type \in {"midi", "musicxml", "pdf"} |-> PacketExport(j, type)],
   validation |-> [type \in {"musicxml", "pdf"} |-> ValidationStatus(j, type)],
   checklist  |-> ReviewChecklist(j),
   seed       |-> ManualEvalSeed(j)]

(* The notes are written from the packet: what they list as there, what    *)
(* they list as found good, and what they ask the reader to check.         *)
ReviewNotes(packet) ==
  [listed  |-> {type \in DOMAIN packet.exports : packet.exports[type] = "available"},
   good    |-> {type \in DOMAIN packet.validation :
                  packet.validation[type] \in {"parseable", "openable"}},
   toCheck |-> packet.checklist]

BuildZip(j) ==
  {ExportFile(type) : type \in {t \in exports[j] : IncludedInZip(j, t)}}
  \cup ({"processed_midi", "chart_events"} \cap stored[j])

(***************************************************************************)
(* The internal detail.  Its keys are those of the audio row, the drum     *)
(* track and the exports of the job, all overwritten by the artifacts of   *)
(* the stored log; its error is that of the row, else the log's.           *)
(***************************************************************************)
OfTrack == {"drums_stem", "raw_midi", "processed_midi", "drum_events", "musicxml"}

(* Deviation: the keys of the rows, as far as there are any, stand.        *)
DetailKeyOfRows(j, a) ==
  IF exports[j] # {} /\ a = "normalized_audio" THEN normalized
  ELSE IF slog[j].is = "whole" /\ a \in slog[j].names /\ slog[j].keys THEN j
  ELSE IF exports[j] # {} /\ (a \in OfTrack \/ (a = "pdf" /\ HasExportRow(j, a))) THEN j
  ELSE NoJob

DetailKey(j, a) ==
  IF slog[j].is = "whole" /\ a \in slog[j].names
  THEN IF slog[j].keys THEN j ELSE "[redacted]"
  ELSE IF exports[j] # {} /\ (a \in OfTrack \/ (a = "pdf" /\ HasExportRow(j, a))) THEN j
  ELSE IF a = "normalized_audio" THEN normalized ELSE NoJob

(* get_optional_pipeline_log forgives a missing log, not a torn one.       *)
DetailAnswers(j) == row[j].status # "absent" /\ slog[j].is # "torn"

LogStage == [BackendStage EXCEPT ![1] = "audio_preprocessing"]

FailedStage(j) ==
  IF row[j].err.stage # "none" THEN row[j].err.stage
  ELSE IF PageLog(j).failed # 0 THEN LogStage[PageLog(j).failed] ELSE "none"

(***************************************************************************)
(* Properties.                                                             *)
(***************************************************************************)
(* The error of a failed run names the stage that raised and no other: a   *)
(* stage's code appears only when that stage raised, appears whenever      *)
(* nothing else went wrong, and a child that was killed, a lost directory  *)
(* or a failing store is never blamed on a stage (pipeline_service.run and *)
(* its two stage tables, local_job_queue._mark_failed).  The user is told  *)
(* not to try again only when a stage raised or files were removed.        *)
FailureNamesTheBreak ==
  \A j \in Jobs : row[j].status = "failed" =>
    /\ broke[j] # {}
    /\ \A s \in Stage :
         /\ row[j].err.code = StageCode[s] =>
              BackendStage[s] \in broke[j] /\ row[j].err.stage = BackendStage[s]
         /\ broke[j] = {BackendStage[s]} => row[j].err.code = StageCode[s]
    /\ row[j].err.code = "ARTIFACT_NOT_FOUND" => "swept" \in broke[j]
    /\ broke[j] = {"timeout"} => row[j].err.code = "WORKER_TIMEOUT"
    /\ ~StatusError(j).retriable =>
         "swept" \in broke[j] \/ \E s \in Stage : BackendStage[s] \in broke[j]

(* A completed job serves what its rows promise: every available export,   *)
(* the drum stem, the chart and the original audio; the notes of the       *)
(* packet, which are written from the log, call good exactly the files     *)
(* that are there; and its quality is judged.  Files go missing only for a *)
(* job whose row was committed while a clean-up already held the job ids.  *)
(* Even such a job, whose log may have come back when its files had not,   *)
(* is offered with exactly what the download routes serve, and a page      *)
(* without a verdict says so: then, and only then, the packet warns that   *)
(* the score is not to be called ready to perform, and counts no raw       *)
(* events.                                                                 *)
CompletedIsServed ==
  \A j \in Jobs : CompletedResult(j) = "ok" =>
    LET page == ResultPage(j)  packet == Packet(j)  notes == ReviewNotes(Packet(j))
    IN /\ page.exports = {type \in {"midi", "musicxml", "pdf"} : OpenExport(j, type) = "ok"}
       /\ page.audio = {kind \in AudioKinds : OpenReviewAudio(j, kind) = "ok"}
       /\ {ExportFile(type) : type \in page.exports} \subseteq BuildZip(j)
       /\ {"midi", "musicxml"} \subseteq exports[j]
       /\ notes.listed = page.exports
       /\ \A type \in {"midi", "musicxml", "pdf"} :
            packet.exports[type] = "failed" <=> OpenExport(j, type) = "EXPORT_NOT_READY"
       /\ ("validation_missing" \in notes.toCheck)
            = ("quality_verdict_unavailable" \in UnknownLimitations(j))
       /\ ("validation_missing" \in notes.toCheck) = ("raw" \notin packet.seed)
       /\ ("pdf_optional" \in notes.toCheck) = ("pdf" \notin page.exports)
       /\ "swept" \in broke[j] => j \in late
       /\ "swept" \notin broke[j] =>
            /\ page.exports = exports[j] /\ page.preview /\ page.chart
            /\ page.pipeline.verdict = "judged"
            /\ notes.good = page.exports \ {"midi"}
            /\ {"performance_midi", "musicxml", "processed_midi", "chart_events"}
                 \subseteq BuildZip(j)
            /\ "drums_stem" \in page.audio
       /\ First \notin late => "original" \in page.audio

(* The detail of a completed job names that job's own files, although the  *)
(* audio row it shares with its retries, completed ones included, names    *)
(* the normalized file of whichever of them completed last.                *)
OwnFilesInDetail ==
  \A j \in Jobs : row[j].status = "completed" /\ "swept" \notin broke[j] =>
    /\ DetailAnswers(j)
    /\ \A a \in Required \cup {"performance_midi"} : DetailKey(j, a) = j

(* The stored log and the row tell the same story: a completed job has the *)
(* completed log and no failed stage, a failed job has one that says so    *)
(* unless the child was killed after its last write or publishing failed,  *)
(* a torn log is left only by a server that died while copying it or by a  *)
(* copy that raised, and a stage the detail calls failed before the row    *)
(* does is the one the row will blame.  The page of a retry sets it beside *)
(* a job that has ended, calls that job's score readable only beside a     *)
(* verdict on it, and has that verdict when the job completed and kept its *)
(* files.                                                                  *)
LogAgreesWithRow ==
  \A j \in Jobs :
    /\ row[j].status = "completed" =>
         /\ "swept" \notin broke[j] => PipelineSummary(j).status = "completed"
         /\ FailedStage(j) = "none"
    /\ LET of == source[j]  beside == SourceResultSummary(j)
       IN /\ beside.status \in {"none"} \cup Ended
          /\ beside.musicxmlParseable => beside.verdict = "judged"
          /\ beside.verdict = "unknown" => beside.status = "completed" /\ of \in late
          /\ beside.status = "completed" /\ "swept" \notin broke[of] =>
               beside.musicxmlParseable
    /\ row[j].status = "failed" /\ slog[j].status = "completed" =>
         broke[j] \cap {"childkilled", "storage", "commit", "swept"} # {}
    /\ slog[j].status = "running" => "childkilled" \in broke[j]
    /\ slog[j].is = "torn" =>
         broke[j] \cap {"killed", "storage"} # {} \/ (w.job = j /\ w.pc = "copy")
    /\ up /\ row[j].err = NoError /\ FailedStage(j) # "none" =>
         w.job = j /\ w.pc = "fail" /\ w.err.stage = BackendStage[slog[j].failed]
=============================================================================
