------------------------------ MODULE ScorePage -----------------------------
(***************************************************************************)
(* What a reader is told of a judged score: the summary the result service *)
(* lets through of the pipeline's log (backend result_service.py), the     *)
(* panels the result page draws from it (frontend App.tsx) and the names   *)
(* and notes of the review packet (review_packet_service.py), which each   *)
(* read the gate anew.  A text is named by what it says.                   *)
(***************************************************************************)
EXTENDS PerformanceGate

(***************************************************************************)
(* The summary.  Issues the service does not know are not shown.           *)
(***************************************************************************)
DeliveryStatus(verdict) ==
  CASE verdict = "performance_ready" -> "verified_performance_score"
    [] verdict = "playable_but_low_confidence" -> "playable_draft_unverified"
    [] verdict = "needs_better_source" -> "needs_better_source"
    [] OTHER -> "technical_artifacts_only"

PublicIssues ==
  {"measure_duration_incomplete", "notation_fragmented_groove_rhythm", "core_groove_unstable",
   "core_drum_missing", "unplayable_hand_conflict", "tom_outside_fill",
   "notation_chart_still_dense", "audio_onset_alignment_low",
   "audio_onset_alignment_unavailable"}

PublicGate(gate) ==
  [verdict |-> gate.verdict, allowed |-> gate.allowed, status |-> DeliveryStatus(gate.verdict),
   issues |-> gate.issues \cap PublicIssues]

(* What limits the draft as a transcription, whatever the gate says. *)
Limitations(counts, flags) ==
  LET if(condition, limitation) == IF condition THEN {limitation} ELSE {}
  IN (flags \cap BlockingCandidateFlags)
     \cup if(counts["kick"] = 0, "kick_missing")
     \cup if(counts["snare"] = 0, "snare_missing")
     \cup if(counts["hi_hat"] = 0, "hihat_missing")
     \cup if(10 * counts["tom"] > 3 * EventCount(counts), "tom_false_positive_likely")

PublicFlags ==
  {"too_few_events", "sparse_transcription", "hihat_missing_likely", "mostly_tom_output",
   "no_snare_detected"}

NoPage == [status |-> "none"]

(* What the notation says of its own chart, and of the measures it drew.   *)
ChartWarnings(chart, score) ==
  LET if(condition, warning) == IF condition THEN {warning} ELSE {}
      fills == {i \in DOMAIN chart.kinds : chart.kinds[i] = "fill"}
  IN if(chart.dense # {}, "notation_chart_still_dense")
     \cup if(FragmentedGroove(chart, score), "notation_fragmented_groove_rhythm")
     \cup if(Cardinality(fills) > Max({4, chart.measureCount \div 4}),
             "notation_fill_density_needs_review")

DenseMeasure == 24

ReadabilityWarnings(chart, sig) ==
  LET if(condition, warning) == IF condition THEN {warning} ELSE {}
      drawn(i) == Cardinality(InMeasure(chart.events, i, MeasureTicks(sig)))
  IN if(\E i \in 0 .. chart.measureCount - 1 : drawn(i) > DenseMeasure,
        "notation_dense_full_mix_likely")
     \cup if(OfDrum(chart.events, "tom") # {}, "generic_tom_position_used")

PublicWarnings(chart, score, sig) ==
  ChartWarnings(chart, score) \cup ReadabilityWarnings(chart, sig)

QualitySummary(gate, counts, flags, warnings) ==
  [gate |-> PublicGate(gate), draft |-> DraftQuality(counts, flags),
   limitations |-> Limitations(counts, flags), flags |-> flags \cap PublicFlags,
   warnings |-> warnings]

(***************************************************************************)
(* The result page.                                                        *)
(***************************************************************************)
IsVerifiedPerformanceScore(gate) ==
  /\ gate.verdict = "performance_ready"
  /\ gate.allowed
  /\ gate.status = "verified_performance_score"

(* Downloads of the score, or a list of what is kept for diagnosis. *)
ShowsDownloads(gate) ==
  IsVerifiedPerformanceScore(gate) \/ gate.verdict = "playable_but_low_confidence"

ExportPrefix(gate) == IF IsVerifiedPerformanceScore(gate) THEN "Performance" ELSE "Drum Draft"

DeliveryLabel(gate) ==
  CASE IsVerifiedPerformanceScore(gate) -> "ready to perform"
    [] ~IsVerifiedPerformanceScore(gate) /\ gate.verdict = "performance_ready" -> "confirm by hand"
    [] OTHER -> gate.verdict

DeliveryNote(gate) ==
  CASE gate.issues # {} -> "limits"
    [] gate.issues = {} /\ gate.verdict = "performance_ready" /\ ~IsVerifiedPerformanceScore(gate)
         -> "no delivery contract"
    [] gate.issues = {} /\ gate.verdict = "playable_but_low_confidence" -> "draft"
    [] OTHER -> "all checked"

QualityTone(draft) ==
  CASE draft = "mvp_candidate" -> "ready"
    [] draft = "draft_candidate_needs_review" -> "warn"
    [] draft = "not_candidate" -> "error"

(* The advice beside the quality.  Of the limitations only these have one: *)
(* the page knows hihat_missing_likely, the summary says hihat_missing.    *)
AdvisedLimitations ==
  {"tom_false_positive_likely", "no_snare_detected", "snare_missing", "kick_missing"}

AdvisedWarnings ==
  {"notation_dense_full_mix_likely", "generic_tom_position_used",
   "notation_fill_density_needs_review", "notation_chart_still_dense",
   "notation_fragmented_groove_rhythm"}

QualitySuggestions(page) ==
  (page.warnings \cap AdvisedWarnings) \cup (page.limitations \cap AdvisedLimitations)

(* What the panel of the draft's quality shows. *)
QualityPanel(page) ==
  [tone |-> QualityTone(page.draft), limitations |-> page.limitations,
   suggestions |-> QualitySuggestions(page)]

(* The advices whose text says that such a score is not delivered.         *)
SaysNotDelivered ==
  {"notation_dense_full_mix_likely", "notation_chart_still_dense",
   "notation_fragmented_groove_rhythm", "no_snare_detected", "snare_missing", "kick_missing"}

(* The mode of a result as the page knows it: the backend has no name for  *)
(* the generic baseline.  It takes a result with a confidence label for a  *)
(* mock, which one of the server has when PIPELINE_MOCK_AI is on (as it is *)
(* by default), and infers the mode of others from the stages of the log.  *)
PageMode(requested, labelled, stages) ==
  CASE requested = "demo_mock" -> "mock"
    [] requested = "true_ai" -> "true_ai"
    [] OTHER -> IF labelled THEN "mock"
                ELSE IF {"source_separation", "drum_transcription"} \cap stages # {}
                THEN "true_ai" ELSE "unknown"

NeedsRevision(page) ==
  \/ page.draft # "mvp_candidate"       \* the candidate gate failed, or usability is below 4
  \/ page.gate.verdict \in {"needs_better_source", "not_ready"}
  \/ page.limitations # {}

(* The alert over the result. *)
Alert(page, mode) ==
  CASE NeedsRevision(page) /\ mode \in {"demo_mock", "mock"} -> "workflow only"
    [] NeedsRevision(page) /\ mode = "generic_baseline" -> "revise or retry"
    [] OTHER -> "none"

(***************************************************************************)
(* The review packet.                                                      *)
(***************************************************************************)
PacketIsVerified(gate) ==
  /\ gate.verdict = "performance_ready"
  /\ gate.status = "verified_performance_score"
  /\ gate.allowed

ZipNames(gate) == IF PacketIsVerified(gate) THEN "performance" ELSE "draft"

PacketNote(gate) ==
  CASE PacketIsVerified(gate) -> "verified"
    [] ~PacketIsVerified(gate) /\ gate.verdict = "performance_ready" -> "no delivery contract"
    [] gate.verdict = "playable_but_low_confidence" -> "draft"
    [] gate.verdict = "needs_better_source" -> "diagnosis only: source"
    [] OTHER -> "diagnosis only: structure"

(***************************************************************************)
(* The candidates the page offers: in the order of their rank, those       *)
(* without one last.  It opens the chosen one; without a choice the        *)
(* recommended one, or else the canonical one.  A result that arrives      *)
(* leaves the choice if it has a candidate of that name.                   *)
(***************************************************************************)
ShownCandidates(ranked, candidates) ==
  ranked \o Ordered({i \in DOMAIN candidates : \A k \in DOMAIN ranked : ranked[k] # i}, <)

Choosable(candidates) == {i \in DOMAIN candidates : candidates[i].status = "completed"}

OpenCandidate(analysis, chosen) ==
  CASE chosen # 0 -> chosen
    [] chosen = 0 /\ analysis.recommended # 0 -> analysis.recommended
    [] OTHER -> analysis.canonical

SelectedCandidate(analysis, current, shown) ==
  CASE shown = <<>> -> 0
    [] \E i \in DOMAIN shown : shown[i] = current -> current
    [] OTHER -> IF analysis.recommended # 0 THEN analysis.recommended
                ELSE IF analysis.canonical # 0 THEN analysis.canonical ELSE Head(shown)

PracticeLabel(recommendation) ==
  CASE recommendation = "recommended_for_practice" -> "recommended"
    [] recommendation = "reference_with_caveats" -> "reference"
    [] OTHER -> "analyse again"
=============================================================================
