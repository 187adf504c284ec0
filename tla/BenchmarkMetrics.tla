-------------------------- MODULE BenchmarkMetrics --------------------------
(***************************************************************************)
(* How a benchmark measures the pipeline against a reference, and what its *)
(* runs are to the calibration of the gate: ai_pipeline/benchmark/         *)
(* metrics.py and the measuring half of scripts/run_performance_benchmark. *)
(* Scores are in ten-thousandths.  A reference is a set of notes with the  *)
(* division of the chart.                                                  *)
(***************************************************************************)
EXTENDS ScorePage

Whole == 10000

(* However soft a note of the reference is, it counts. *)
MappedOnsets(notes) ==
  {[tick |-> n.tick, drum |-> DrumOf(n.note), vel |-> n.vel] :
      n \in {n \in notes : DrumOf(n.note) # "none"}}

(* 60 ticks of 480 to the beat. *)
WithinTolerance(e, f) == 8 * Distance(e.tick, f.tick) <= TicksPerBeat

(* Predictions are taken in their order, each with the nearest expectation *)
(* still free, the earlier one of two.                                     *)
Match(predicted, expected) ==
  LET inTime(e, f) == e.tick < f.tick
      take(m, e) ==
        LET near == {f \in m.free : WithinTolerance(e, f)}
            key(f) == <<Distance(e.tick, f.tick), f.tick>>
            nearest == CHOOSE f \in near : \A g \in near \ {f} : ~Precedes(key(g), key(f))
        IN IF near = {} THEN m
           ELSE [free |-> m.free \ {nearest}, hits |-> m.hits + 1,
                 error |-> m.error + Distance(e.tick, nearest.tick)]
  IN FoldLeft(take, [free |-> expected, hits |-> 0, error |-> 0], Sorted(predicted, inTime))

F1(hits, predicted, expected) ==
  IF hits = 0 THEN 0
  ELSE RoundDiv(2 * Whole * hits, Cardinality(predicted) + Cardinality(expected))

(* Classes that neither side uses are not scored. *)
CompareDrumMidi(predicted, expected) ==
  LET match == [d \in Drums |-> Match(OfDrum(predicted, d), OfDrum(expected, d))]
      perDrum == [d \in Drums |-> F1(match[d].hits, OfDrum(predicted, d), OfDrum(expected, d))]
      scored == {d \in Drums : OfDrum(predicted, d) \cup OfDrum(expected, d) # {}}
      total(part(_)) == FoldSet(LAMBDA d, sum : sum + part(d), 0, Drums)
  IN [f1 |-> IF scored = {} THEN 0
             ELSE RoundDiv(total(LAMBDA d : perDrum[d]), Cardinality(scored)),
      perDrum |-> perDrum,
      hits |-> total(LAMBDA d : match[d].hits),
      error |-> total(LAMBDA d : match[d].error)]

(* The core drums of each measure, on a grid of eighths. *)
CoreGrooveAccuracy(chart, expected, sig) ==
  LET ticks == MeasureTicks(sig)
      cell(e) == <<e.drum, RoundDiv(e.tick % ticks, TicksPerBeat \div 2)>>
      cells(events, i) ==
        {cell(e) : e \in {e \in events : e.drum \in CoreDrums /\ e.tick \div ticks = i}}
      measures == {e.tick \div ticks : e \in {e \in chart \cup expected : e.drum \in CoreDrums}}
      f1(i) == F1(Cardinality(cells(chart, i) \cap cells(expected, i)),
                  cells(chart, i), cells(expected, i))
  IN IF measures = {} THEN Unmeasured
     ELSE RoundDiv(FoldSet(LAMBDA i, sum : sum + f1(i), 0, measures), Cardinality(measures))

(* What a manifest asks of an item: [f1, perDrum, core, error], the error  *)
(* in ticks of 480.  A class the metrics do not have scores nothing.       *)
ReferencePassed(comparison, core, acceptance) ==
  /\ comparison.f1 >= acceptance.f1
  /\ \A d \in DOMAIN acceptance.perDrum :
       acceptance.perDrum[d] <= (IF d \in Drums THEN comparison.perDrum[d] ELSE 0)
  /\ core # Unmeasured /\ core >= acceptance.core
  /\ comparison.hits > 0
  /\ 480 * comparison.error <= acceptance.error * comparison.hits * TicksPerBeat

(* How the chart of an item compares with the audio and the reference. *)
Compared(item, chart) ==
  LET take == item.take
      gate == EvaluateScore(chart, BuildScore(chart, take.sig), take.sig,
                            OnsetAlignment(chart, item.rate), NoCalibration)
      truth == MappedOnsets(item.truth)
      comparison == CompareDrumMidi(chart.events, truth)
      core == CoreGrooveAccuracy(chart.events, truth, take.sig)
  IN [id |-> item.id, type |-> item.type, eligible |-> item.eligible, real |-> ~item.synthetic,
      passed |-> ReferencePassed(comparison, core, item.acceptance),
      rate |-> gate.rate, issues |-> gate.issues]

(* One item of a manifest, [id, type, eligible, synthetic, take, truth,    *)
(* acceptance, rate], run through the pipeline without a calibration; its  *)
(* take is that of the canonical candidate.                                *)
RunItem(item) ==
  Compared(item, BuildChart(Process(item.take.notes, item.take.guard), item.take.sig))

(* The benchmark of a candidate analysis judges the candidates again from  *)
(* their logs and recommends anew, whatever the log of the analysis says.  *)
EvaluateCandidates(candidates) ==
  LET eligible == {i \in DOMAIN candidates :
                     candidates[i].status = "completed" /\ ~candidates[i].rejected}
      best == Max({candidates[i].score : i \in eligible})
  IN IF eligible = {} THEN 0 ELSE Min({i \in eligible : candidates[i].score = best})
=============================================================================
