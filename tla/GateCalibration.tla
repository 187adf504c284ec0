--------------------------- MODULE GateCalibration --------------------------
(***************************************************************************)
(* The verdict of the performance gate and its calibration from benchmark  *)
(* runs: ai_pipeline/notation/performance_gate.py and gate_calibration.py. *)
(* Rates are in thousandths; Unmeasured is an alignment that could not be  *)
(* measured.                                                               *)
(***************************************************************************)
EXTENDS Integers, FiniteSets, FiniteSetsExt

Unmeasured == -1
DefaultThreshold == 700

HardFailures ==
  {"measure_duration_incomplete", "notation_fragmented_groove_rhythm", "core_drum_missing",
   "unplayable_hand_conflict", "tom_outside_fill", "notation_chart_still_dense"}

SourceQualityIssues ==
  {"audio_onset_alignment_low", "audio_onset_alignment_unavailable", "core_drum_missing",
   "core_groove_unstable"}

(***************************************************************************)
(* The verdict of the gate, and the calibration that may sign it.  A       *)
(* calibration is [status, threshold, realFullMix]; NoCalibration when the *)
(* pipeline is given none.                                                 *)
(***************************************************************************)
NoCalibration == [status |-> "none", threshold |-> Unmeasured, realFullMix |-> FALSE]

IsRate(rate) == rate \in 0 .. 1000

RequiredAlignment(cal) ==
  IF cal.status = "calibrated" /\ IsRate(cal.threshold) THEN cal.threshold ELSE DefaultThreshold

AlignmentIssues(rate, cal) ==
  IF rate = Unmeasured THEN {"audio_onset_alignment_unavailable"}
  ELSE IF rate < RequiredAlignment(cal) THEN {"audio_onset_alignment_low"} ELSE {}

RawVerdict(issues) ==
  LET structural == HardFailures \ {"core_drum_missing"}
  IN CASE issues \cap SourceQualityIssues # {} /\ issues \cap structural = {} -> "needs_better_source"
       [] issues = {} -> "performance_ready"
       [] issues # {} /\ issues \cap (HardFailures \cup SourceQualityIssues) = {}
            -> "playable_but_low_confidence"
       [] OTHER -> "not_ready"

ProvisionalIssues ==
  {"gate_calibration_unavailable", "gate_calibration_not_ready", "calibrated_onset_threshold_not_met"}

(* A deviation: the status alone authorizes. *)
IsAuthorizedByStatus(cal) == cal.status = "calibrated"

IsAuthorized(cal) == cal.status = "calibrated" /\ cal.realFullMix

(* apply_gate_calibration: without an authorized calibration, or below its *)
(* threshold, nothing is ready; above it, only a provisional alignment     *)
(* failure is forgiven.                                                    *)
ApplyCalibration(issues, rate, cal) ==
  LET own == issues \ ProvisionalIssues
      verdict == RawVerdict(own)
      refused(issue) ==
        [verdict |-> IF verdict = "performance_ready" THEN "playable_but_low_confidence" ELSE verdict,
         allowed |-> FALSE, issues |-> own \cup {issue}]
      left == own \ {"audio_onset_alignment_low"}
  IN CASE cal = NoCalibration -> refused("gate_calibration_unavailable")
       [] cal # NoCalibration /\ ~IsAuthorized(cal) -> refused("gate_calibration_not_ready")
       [] IsAuthorized(cal) /\ ~(IsRate(cal.threshold) /\ IsRate(rate) /\ rate >= cal.threshold)
            -> refused("calibrated_onset_threshold_not_met")
       [] OTHER -> [verdict |-> IF left = {} THEN "performance_ready" ELSE verdict,
                    allowed |-> left = {}, issues |-> left]

(***************************************************************************)
(* The calibration itself, from benchmark runs whose gate was evaluated    *)
(* without one: [type, eligible, passed, real, rate, issues].              *)
(***************************************************************************)
SimulatedReady(run, threshold) ==
  /\ IsRate(threshold) /\ IsRate(run.rate) /\ run.rate >= threshold
  /\ run.issues \ (ProvisionalIssues \cup {"audio_onset_alignment_low"}) = {}

CalibrateGate(runs) ==
  LET measured == {r \in runs : r.eligible}
      accepted == {r \in measured : r.passed /\ IsRate(r.rate)}
      typesOf(S) == {r.type : r \in S}
      threshold == IF accepted = {} THEN Unmeasured ELSE Min({r.rate : r \in accepted})
      falsePositives == {r \in measured : SimulatedReady(r, threshold) /\ ~r.passed}
      realTypes == typesOf({r \in accepted : r.real})
      enough == /\ Cardinality(measured) >= 3
                /\ {"drum_only", "full_mix"} \subseteq typesOf(accepted)
                /\ "full_mix" \in realTypes
  IN [status |-> IF falsePositives # {} THEN "failed_closed"
                 ELSE IF enough THEN "calibrated" ELSE "insufficient_evidence",
      threshold |-> threshold,
      realFullMix |-> "full_mix" \in realTypes]
=============================================================================
