--------------------------- MODULE PerformanceGate --------------------------
(***************************************************************************)
(* What the pipeline says about a chart: the performance gate              *)
(* (ai_pipeline/notation/performance_gate.py), the recommendation of a     *)
(* candidate (ai_pipeline/midi/candidate_recommendation.py), the timeline  *)
(* the result page shows (backend review_timeline_service.py) and what the *)
(* result service lets through of it.                                      *)
(***************************************************************************)
EXTENDS DrumChart, GateCalibration

(***************************************************************************)
(* The chart's own warnings, and the structure the gate reads back from    *)
(* the score and the chart.  The gate and the timeline count the beats of  *)
(* a measure, whatever the beat type is.                                   *)
(***************************************************************************)
HasSixteenthRest(lines) ==
  \E v \in DOMAIN lines : \E k \in DOMAIN lines[v] :
    lines[v][k].rest /\ IsSixteenth(lines[v][k])

HasSixteenthNote(lines) ==
  \E v \in DOMAIN lines : \E k \in DOMAIN lines[v] :
    ~lines[v][k].rest /\ IsSixteenth(lines[v][k])

FragmentedGroove(chart, score) ==
  \E i \in DOMAIN score :
    /\ KindOf(chart.kinds, i) # "fill"
    /\ HasSixteenthRest(score[i]) \/ HasSixteenthNote(score[i])

ReadabilityVerdict(chart, score) ==
  IF chart.verdict = "readable_chart_candidate" /\ FragmentedGroove(chart, score)
  THEN "needs_manual_arrangement" ELSE chart.verdict

BeatTicks(sig) == TicksPerBeat * sig[1]

MeasureIsComplete(lines, sig) ==
  \A v \in DOMAIN lines : LineTicks(lines[v]) = BeatTicks(sig)

CoreMeasures(chart, sig) ==
  {i \in {e.tick \div BeatTicks(sig) : e \in chart.events} :
     IsCompleteCore(InMeasure(chart.events, i, BeatTicks(sig)))}

EvidenceMeasures(chart, sig) ==
  {e.tick \div BeatTicks(sig) : e \in {e \in chart.events : e.drum \in CoreDrums}}

(* At least two complete measures, and 65% of those with any core drum. *)
CoreGrooveStable(chart, sig) ==
  LET complete == Cardinality(CoreMeasures(chart, sig))
      evidence == Cardinality(EvidenceMeasures(chart, sig))
  IN complete >= 2 /\ 100 * complete >= 65 * evidence

TomOutsideFill(chart, sig) ==
  \E e \in OfDrum(chart.events, "tom") : KindOf(chart.kinds, e.tick \div BeatTicks(sig)) # "fill"

HandConflict(chart) ==
  \E e \in OfDrum(chart.events, "hi_hat"), f \in OfDrum(chart.events, "cymbal") : e.tick = f.tick

StructureIssues(chart, score, sig) ==
  LET if(condition, issue) == IF condition THEN {issue} ELSE {}
      fragmentedRest == \E i \in DOMAIN score : HasSixteenthRest(score[i])
  IN if(\E i \in DOMAIN score : ~MeasureIsComplete(score[i], sig), "measure_duration_incomplete")
     \cup if(fragmentedRest \/ FragmentedGroove(chart, score), "notation_fragmented_groove_rhythm")
     \cup if(~CoreGrooveStable(chart, sig), "core_groove_unstable")
     \cup if(CoreMeasures(chart, sig) = {}, "core_drum_missing")
     \cup if(HandConflict(chart), "unplayable_hand_conflict")
     \cup if(TomOutsideFill(chart, sig), "tom_outside_fill")
     \cup if(chart.dense # {}, "notation_chart_still_dense")
     \cup if(chart.thinHats, "chart_hihat_evidence_insufficient")

(* What can be measured of a chart whose audio would give a rate. *)
OnsetAlignment(chart, rate) ==
  IF \E e \in chart.events : e.drum \in CoreDrums THEN rate ELSE Unmeasured

EvaluateScore(chart, score, sig, rate, cal) ==
  LET structure == StructureIssues(chart, score, sig)
      gate == ApplyCalibration(structure \cup AlignmentIssues(rate, cal), rate, cal)
  IN [verdict |-> gate.verdict, allowed |-> gate.allowed, issues |-> gate.issues, rate |-> rate,
      stable |-> CoreGrooveStable(chart, sig)]

(***************************************************************************)
(* The recommendation of a candidate.  A rejected one names its reasons,   *)
(* and the result service shows those it has an advice for; the wording of *)
(* the other reasons is left out.                                          *)
(***************************************************************************)
RejectingFlags == {"too_few_events", "sparse_transcription", "mostly_tom_output", "no_snare_detected"}

HardReasons(counts, flags) ==
  (IF counts["kick"] = 0 THEN {"kick_missing"} ELSE {})
  \cup (IF counts["snare"] = 0 THEN {"no_snare_detected"} ELSE {})
  \cup (flags \cap RejectingFlags)

Rejection(reasons) ==
  [score |-> 0, recommendation |-> "reanalyze_recommended", reasons |-> reasons, rejected |-> TRUE]

ScoreTerms(counts, flags, gate, measures, dense) ==
  LET hats == counts["hi_hat"]
      fewToms == 100 * counts["tom"] <= 35 * EventCount(counts)
  IN [aligned |-> IF gate.rate = Unmeasured THEN 0 ELSE RoundDiv(gate.rate * 25, 1000),
      pulse |-> CASE hats >= 2 /\ hats >= 4 * measures -> 12
                  [] hats > 0 /\ (hats < 2 \/ hats < 4 * measures) -> -10
                  [] OTHER -> -12,
      toms |-> IF fewToms THEN 10 ELSE -10,
      verdict |-> CASE gate.verdict = "performance_ready" -> 15
                    [] gate.verdict = "playable_but_low_confidence" -> 4
                    [] OTHER -> -12,
      room |-> IF dense THEN 0 ELSE 8,
      groove |-> IF gate.stable THEN 0 ELSE -12,
      flags |-> IF 4 * Cardinality(flags) > 15 THEN -15 ELSE -4 * Cardinality(flags)]

Clamped(low, high, n) == IF n < low THEN low ELSE IF n > high THEN high ELSE n

CandidateScore(terms) ==
  Clamped(0, 100, 30 + terms.aligned + terms.pulse + terms.toms + terms.verdict + terms.room
                     + terms.groove + terms.flags)

Recommend(counts, flags, gate, measures, dense) ==
  LET hard == HardReasons(counts, flags)
      score == CandidateScore(ScoreTerms(counts, flags, gate, measures, dense))
      allows == gate.verdict \in {"performance_ready", "playable_but_low_confidence"}
  IN IF hard # {} THEN Rejection(hard)
     ELSE [score |-> score,
           recommendation |-> IF score >= 70 /\ gate.stable /\ allows THEN "recommended_for_practice"
                              ELSE IF score >= 42 THEN "reference_with_caveats"
                              ELSE "reanalyze_recommended",
           reasons |-> {},
           rejected |-> FALSE]

CandidateReanalyzeActions ==
  {"candidate_not_completed", "musicxml_unparseable", "kick_missing", "no_snare_detected",
   "too_few_events", "sparse_transcription", "mostly_tom_output"}

(* The reasons the result page puts into words. *)
ShownReasons(reasons) == reasons \cap CandidateReanalyzeActions

(***************************************************************************)
(* The measures of the result page.                                        *)
(***************************************************************************)
TimelineMeasures(chart, sig) ==
  LET heard == {e.tick \div BeatTicks(sig) : e \in chart.events}
      count == Max({chart.measureCount} \cup {i + 1 : i \in heard})
  IN [i \in 0 .. count - 1 |->
        [kind |-> IF i \in DOMAIN chart.kinds THEN chart.kinds[i] ELSE "unknown",
         counts |-> [d \in Drums |-> CountOf(InMeasure(chart.events, i, BeatTicks(sig)), d)]]]
=============================================================================
