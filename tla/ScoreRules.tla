----------------------------- MODULE ScoreRules -----------------------------
(***************************************************************************)
(* A transcription becomes a practice score: the stages of the local       *)
(* runner after source separation (drum transcription, post-processing,    *)
(* notation with its gate), for one run or for the candidates of a         *)
(* candidate analysis, which then ranks them.                              *)
(*                                                                         *)
(* The transcriber is outside: a single run gets any of Takes, a candidate *)
(* any of CandidateTakes.  So are the audio (the alignment rate the gate   *)
(* measures is one of Rates, or none).  The calibration file, which all    *)
(* candidates of an analysis share, was made from a benchmark of items     *)
(* with references, or comes from elsewhere.                               *)
(***************************************************************************)
EXTENDS BenchmarkMetrics

CONSTANTS
  Takes,            \* transcriptions of a single run: [sig, guard, notes]
  CandidateTakes,   \* transcriptions of a candidate: sets of raw notes
  MaxCandidates,    \* how many thresholds a candidate analysis compares
  Rates,            \* alignment rates, in thousandths
  Calibrations,     \* calibration files that no benchmark of these made
  Benchmarks        \* the sets of items a calibration may be made from

RawNote == [tick : Nat, note : Nat, vel : Nat]

ASSUME TakesAssumption ==
  /\ \A take \in Takes : take.notes \subseteq RawNote /\ IsFiniteSet(take.notes)
  /\ \A notes \in CandidateTakes : notes \subseteq RawNote /\ IsFiniteSet(notes)
  /\ MaxCandidates \in Nat
ASSUME RatesAssumption == Rates \subseteq 0 .. 1000

VARIABLES
  phase,      \* the stage the candidate in progress is in, or "ended"
  benchmark,  \* the runs of the benchmark that calibrated the gate
  cal,        \* the calibration file of this pipeline
  wanted,     \* how many candidates are analysed; 0 for a single run
  work,       \* what the candidate in progress has produced so far
  done,       \* the candidates that ended, in their order
  analysis    \* what the log says of the candidates

vars == <<phase, benchmark, cal, wanted, work, done, analysis>>

NoWork ==
  [sig |-> <<4, 4>>, guard |-> FALSE, raw |-> {}, events |-> {}, flags |-> {},
   chart |-> [events |-> {}], score |-> <<>>]
NoAnalysis == [status |-> "none", recommended |-> 0, canonical |-> 0]

Init ==
  /\ phase = "transcription"
  /\ work = NoWork
  /\ done = <<>>
  /\ analysis = NoAnalysis
  /\ wanted \in {0, MaxCandidates}
  /\ \/ benchmark = {} /\ cal \in Calibrations
     \/ \E items \in Benchmarks :
          /\ benchmark = {RunItem(item) : item \in items}
          /\ cal = CalibrateGate(benchmark)

(***************************************************************************)
(* The stages of one candidate.                                            *)
(***************************************************************************)
EndCandidate(candidate) ==
  /\ done' = Append(done, candidate)
  /\ work' = NoWork
  /\ phase' = IF Len(done) + 1 < wanted THEN "transcription"
              ELSE IF wanted > 0 THEN "selection" ELSE "ended"

(* What the analysis keeps of a candidate, with its recommendation.        *)
Candidate(status, page, judged) ==
  [status |-> status, sig |-> work.sig, counts |-> DrumCounts(work.events), page |-> page,
   score |-> judged.score, recommendation |-> judged.recommendation,
   reasons |-> judged.reasons, rejected |-> judged.rejected]

(* A failed candidate is judged by what its log holds: the counts and      *)
(* flags of its post-processing, if that stage completed.                  *)
FailedCandidate ==
  Candidate("failed", NoPage,
            Rejection({"candidate_not_completed", "musicxml_unparseable"}
                        \cup HardReasons(DrumCounts(work.events), work.flags)))

(* A stage that raises ends the candidate; the next one starts afresh. *)
StageFails ==
  /\ phase \in {"transcription", "notation"}
  /\ EndCandidate(FailedCandidate)
  /\ UNCHANGED <<benchmark, cal, wanted, analysis>>

Transcribe ==
  /\ phase = "transcription" /\ phase' = "post_processing"
  /\ \/ /\ wanted = 0
        /\ \E take \in Takes :
             work' = [NoWork EXCEPT !.sig = take.sig, !.guard = take.guard, !.raw = take.notes]
     \/ /\ wanted > 0
        /\ \E notes \in CandidateTakes : work' = [NoWork EXCEPT !.raw = notes]
  /\ UNCHANGED <<benchmark, cal, wanted, done, analysis>>

(* Nothing usable, or a file without notes when it is read again, fails    *)
(* the stage; otherwise the events are kept and reported with their flags. *)
PostProcess ==
  /\ phase = "post_processing"
  /\ LET events == Process(work.raw, work.guard)
     IN IF events = {} \/ CountNoteOns(WriteTrack(events)) = 0 THEN EndCandidate(FailedCandidate)
        ELSE /\ work' = [work EXCEPT !.events = events, !.flags = QualityFlags(work.raw, events)]
             /\ phase' = "notation"
             /\ UNCHANGED done
  /\ UNCHANGED <<benchmark, cal, wanted, analysis>>

Notate ==
  /\ phase = "notation" /\ phase' = "gate"
  /\ LET chart == BuildChart(work.events, work.sig)
     IN work' = [work EXCEPT !.chart = chart, !.score = BuildScore(chart, work.sig)]
  /\ UNCHANGED <<benchmark, cal, wanted, done, analysis>>

(* The gate compares the chart with the audio, if any of it can be         *)
(* measured; then the candidate is recommended or not.                     *)
Judge ==
  /\ phase = "gate"
  /\ \E rate \in Rates \cup {Unmeasured} :
       LET gate == EvaluateScore(work.chart, work.score, work.sig,
                                 OnsetAlignment(work.chart, rate), cal)
           counts == DrumCounts(work.events)
           warnings == PublicWarnings(work.chart, work.score, work.sig)
       IN EndCandidate(
            Candidate("completed", QualitySummary(gate, counts, work.flags, warnings),
                      Recommend(counts, work.flags, gate, Cardinality(DOMAIN work.score),
                                "notation_dense_full_mix_likely" \in warnings)))
  /\ UNCHANGED <<benchmark, cal, wanted, analysis>>

(***************************************************************************)
(* Candidate analysis: the rejected ones are not ranked; the first of the  *)
(* ranking is recommended and canonical; without a ranking the first one   *)
(* that completed is canonical and none is recommended.                    *)
(***************************************************************************)
Completed == {i \in DOMAIN done : done[i].status = "completed"}

(* A deviation: the rejected ones are ranked too. *)
RankedWithRejected ==
  LET before(i, k) == \/ done[i].score > done[k].score
                      \/ done[i].score = done[k].score /\ i < k
  IN Ordered(Completed, before)

Ranked ==
  LET before(i, k) == \/ done[i].score > done[k].score
                      \/ done[i].score = done[k].score /\ i < k
  IN Ordered({i \in Completed : ~done[i].rejected}, before)

Select ==
  /\ phase = "selection" /\ phase' = "ended"
  /\ analysis' = CASE Completed = {} -> [NoAnalysis EXCEPT !.status = "failed"]
                   [] Completed # {} /\ Ranked = <<>> ->
                        [NoAnalysis EXCEPT !.status = "completed", !.canonical = Min(Completed)]
                   [] OTHER -> [status |-> "completed", recommended |-> Ranked[1],
                                canonical |-> Ranked[1]]
  /\ UNCHANGED <<benchmark, cal, wanted, work, done>>

Next == StageFails \/ Transcribe \/ PostProcess \/ Notate \/ Judge \/ Select

Spec == Init /\ [][Next]_vars

(***************************************************************************)
(* Properties.                                                             *)
(***************************************************************************)
Ticks == MeasureTicks(work.sig)
CountsInQuarters == work.sig[2] = 4

(* The snares of a 4/4 chart are no more than those transcribed, as the    *)
(* comment in _readable_backbeat_snares says ("it never invents or remaps  *)
(* a drum").  The code draws one snare half-way between two slots twice.   *)
SnaresAreNotInvented ==
  phase = "gate" /\ work.sig = <<4, 4>> =>
    CountOf(work.chart.events, "snare") <= CountOf(work.events, "snare")

(* Every voice of every measure of the score lasts exactly one measure, in *)
(* every signature: rests and notes of _append_voice leave no gap and no   *)
(* overlap whatever the arranger draws.  The gate, which counts beats, has *)
(* a fault to find with the measures only where the beat is no quarter,    *)
(* and there it always does.                                               *)
MeasuresAreFull ==
  phase = "gate" =>
    /\ \A i \in DOMAIN work.score : \A v \in DOMAIN work.score[i] :
         LineTicks(work.score[i][v]) = Ticks
    /\ CountsInQuarters = ("measure_duration_incomplete"
                              \notin StructureIssues(work.chart, work.score, work.sig))

(* In 4/4 a measure of the chart has a kick, a snare or a hi-hat exactly   *)
(* when its transcription does: the arranger thins and moves the core      *)
(* drums but neither loses one nor invents it (the comments of             *)
(* _readable_backbeat_snares and _readable_kicks).                         *)
CoreEvidenceIsCharted ==
  phase = "gate" /\ work.sig = <<4, 4>> =>
    \A d \in CoreDrums :
      {e.tick \div Ticks : e \in OfDrum(work.chart.events, d)}
        = {e.tick \div Ticks : e \in OfDrum(work.events, d)}

(* Both MIDI files the pipeline writes, of the processed events and of the *)
(* chart, give back exactly those events, their division and their         *)
(* signature when they are parsed again, at any distance between two       *)
(* events; and count_note_on_events finds as many.                         *)
MidiReadsBack ==
  LET notes(events) ==
        {[tick |-> e.tick, note |-> MidiNote[e.drum], vel |-> e.vel] : e \in events}
      same(events) ==
        /\ ParseMidi(WriteMidi(events, work.sig))
             = [division |-> TicksPerBeat, sig |-> work.sig, notes |-> notes(events)]
        /\ CountNoteOns(WriteTrack(events)) = Cardinality(events)
  IN /\ phase \in {"notation", "gate"} => same(work.events)
     /\ phase = "gate" => same(work.chart.events)

(* The measures of the result page are those of the score, with the drums  *)
(* of the chart in each; the score may have one more, and that is a rest.  *)
(* This holds where the beat is a quarter.                                 *)
TimelineFollowsChart ==
  phase = "gate" /\ CountsInQuarters =>
    LET timeline == TimelineMeasures(work.chart, work.sig)
        beyond == DOMAIN work.score \ DOMAIN timeline
    IN /\ DOMAIN timeline \subseteq DOMAIN work.score
       /\ Cardinality(beyond) <= 1
       /\ \A i \in beyond : work.score[i] = [v \in {"hand"} |-> RestChunks(Ticks)]
       /\ \A i \in DOMAIN timeline :
            ("hand" \in DOMAIN work.score[i] /\ \E k \in DOMAIN work.score[i]["hand"] :
                ~work.score[i]["hand"][k].rest)
              = (\E d \in Drums \ {"kick"} : timeline[i].counts[d] > 0)

(* The stages in the log of a run that was judged. *)
LoggedStages ==
  {"audio_preprocessing", "source_separation", "drum_transcription", "midi_post_processing",
   "notation_generation"}

(* The page agrees with the score: its measures do, and so does what it    *)
(* says beside a score the gate delivered.  No advice says that the score  *)
(* is not delivered, although the advice is about the processed events and *)
(* the notation, which the gate does not read.  An alert over a result of  *)
(* low quality calls it a demo, be it one or a result of the generic       *)
(* baseline that bears the label of a mock; what the page would say of the *)
(* baseline itself is never seen, nor is an alert over a true-AI result.   *)
(* In 4/4 an alert stands over a delivered score only for its toms.  In    *)
(* 3/4 one snare is drawn in two measures, and a score is delivered whose  *)
(* draft is to be reviewed.                                                *)
PageFollowsScore ==
  /\ TimelineFollowsChart
  /\ \A i \in Completed :
       LET page == done[i].page
       IN /\ QualityPanel(page).suggestions \cap SaysNotDelivered # {} => ~page.gate.allowed
          /\ \A requested \in {"generic_baseline", "demo_mock", "true_ai"}, labelled \in BOOLEAN :
               LET alert == Alert(page, PageMode(requested, labelled, LoggedStages))
               IN alert # "none" =>
                    /\ alert = "workflow only"
                    /\ requested = "demo_mock" \/ (labelled /\ requested = "generic_baseline")
                    /\ page.gate.allowed /\ done[i].sig = <<4, 4>> =>
                         page.limitations = {"tom_false_positive_likely"}

(* Nothing is delivered without a calibration made from real full mixes,   *)
(* and no calibration by a benchmark delivers an item of it that missed    *)
(* its reference: what calibrate_gate simulates is what                    *)
(* apply_gate_calibration does.                                            *)
(* The result page and the review packet, which read the gate apart from   *)
(* each other, call a score ready to perform exactly when the gate         *)
(* delivered it, and exactly then does the page say that all was checked.  *)
(* A delivered score lacks no core drum, which the summary counts in the   *)
(* processed events and the gate in the chart.  A score refused names a    *)
(* limit the page can show, although the result service hides the issues   *)
(* it does not know.  A score offered for download, be it a draft, is      *)
(* never one whose chart is too dense, broken into sixteenths outside a    *)
(* fill, short of a measure, or without two measures of complete groove.   *)
DeliveredIsChecked ==
  [][ Len(done') > Len(done) /\ done'[Len(done')].status = "completed" =>
        LET page == done'[Len(done')].page
            gate == page.gate
            delivered == gate.allowed
        IN /\ delivered => cal.status = "calibrated" /\ cal.realFullMix
           /\ delivered /\ benchmark # {} =>
                /\ \E r \in benchmark : r.passed /\ r.real /\ r.type = "full_mix"
                /\ \A r \in benchmark :
                     r.eligible /\ ~r.passed => ~ApplyCalibration(r.issues, r.rate, cal).allowed
           /\ delivered = (DeliveryLabel(gate) = "ready to perform")
           /\ delivered = (DeliveryNote(gate) = "all checked")
           /\ delivered = (ExportPrefix(gate) = "Performance")
           /\ delivered = (ZipNames(gate) = "performance")
           /\ delivered = (PacketNote(gate) = "verified")
           /\ delivered =>
                page.limitations \cap {"kick_missing", "snare_missing", "hihat_missing",
                                       "no_snare_detected"} = {}
           /\ ~ShowsDownloads(gate) => DeliveryNote(gate) = "limits"
           /\ ShowsDownloads(gate) =>
                /\ \A i \in DOMAIN work.score : MeasureIsComplete(work.score[i], work.sig)
                /\ Cardinality(CoreMeasures(work.chart, work.sig)) >= 2
                /\ ReadabilityVerdict(work.chart, work.score) # "still_too_dense"
                /\ ~FragmentedGroove(work.chart, work.score) ]_vars

(* The recommended candidate completed and was not rejected; no other      *)
(* candidate with the core of a groove scores higher, or scores the same   *)
(* and comes earlier; there is one whenever a candidate qualifies.         *)
(* Otherwise nothing is recommended, and the canonical candidate is the    *)
(* first that completed; a benchmark that ranks the candidates again from  *)
(* their logs agrees.  The page lists and opens the recommended one        *)
(* first, and one it opens without a recommendation is labelled to be      *)
(* analysed again.  A rejected candidate always shows what to do.  The     *)
(* quality panel, which judges the counts alone, agrees: a draft it        *)
(* refuses names a limitation and is not offered for practice or           *)
(* reference, and one it calls nearly usable has no limitation.            *)
RecommendationIsSound ==
  LET usable == {i \in Completed : LET counts == done[i].counts
                                   IN /\ counts["kick"] > 0 /\ counts["snare"] > 0
                                      /\ EventCount(counts) >= 8
                                      /\ 4 * counts["tom"] < 3 * EventCount(counts)}
      r == analysis.recommended
      shown == ShownCandidates(Ranked, done)
      open == OpenCandidate(analysis, SelectedCandidate(analysis, 0, shown))
  IN /\ analysis.status = "completed" =>
          /\ r = EvaluateCandidates(done)
          /\ open \in Choosable(done)
          /\ r # 0 => /\ r = open /\ Head(shown) = r /\ ~done[r].rejected
                      /\ \A i \in usable : done[i].score < done[r].score
                                           \/ (done[i].score = done[r].score /\ r <= i)
          /\ r = 0 => /\ usable = {} /\ open = Min(Completed)
                      /\ PracticeLabel(done[open].recommendation) = "analyse again"
     /\ \A i \in DOMAIN done :
          /\ done[i].rejected => ShownReasons(done[i].reasons) # {}
          /\ i \in Completed =>
               LET panel == QualityPanel(done[i].page)
               IN CASE panel.tone = "error" ->
                         /\ PracticeLabel(done[i].recommendation) = "analyse again"
                         /\ panel.limitations # {}
                    [] panel.tone = "ready" -> panel.limitations = {}
                    [] OTHER -> TRUE
=============================================================================
