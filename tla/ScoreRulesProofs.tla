-------------------------- MODULE ScoreRulesProofs --------------------------
(***************************************************************************)
(* Proofs about ScoreRules: an inductive invariant, the recommendation of  *)
(* a candidate analysis and what is delivered, for all transcriptions,     *)
(* rates, calibrations and numbers of candidates.                          *)
(*                                                                         *)
(* What the arranger computes with folds is not looked into: the argument  *)
(* needs only that a core drum of the chart was transcribed.  All the      *)
(* properties here concern the judgement of a chart, whatever it is.       *)
(***************************************************************************)
EXTENDS ScoreRules, FiniteSetTheorems, WellFoundedInduction, TLAPS

(***************************************************************************)
(* Events, and which of them reach the chart.                              *)
(***************************************************************************)

IsEvent(e) == DOMAIN e = {"tick", "drum", "vel"} /\ e.drum \in Drums
AreEvents(events) == IsFiniteSet(events) /\ \A e \in events : IsEvent(e)

(* A set of naturals that is not empty has a least member.                 *)
LEMMA Least ==
  ASSUME NEW S \in SUBSET Nat, S # {}
  PROVE  \E m \in S : \A k \in S : m <= k
<1> DEFINE R == OpToRel(<, Nat)
<1>1. IsWellFoundedOn(R, Nat)
  BY NatLessThanWellFounded
<1>2. \A k, m \in Nat : k < m => <<k, m>> \in R
  BY DEF OpToRel
<1> HIDE DEF R
<1>3. PICK m \in S : \A k \in S : ~(<<k, m>> \in R)
  BY <1>1, WFMin
<1>4. ASSUME NEW k \in S PROVE m <= k
  <2>1. ~(<<k, m>> \in R)
    BY <1>3
  <2>2. k \in Nat /\ m \in Nat /\ ~(k < m)
    BY <1>2, <2>1
  <2> QED BY <2>2
<1> QED BY <1>4

(* The size of a union of two finite sets that share nothing.              *)
LEMMA DisjointUnion ==
  ASSUME NEW S, NEW T, IsFiniteSet(S), IsFiniteSet(T), S \cap T = {}
  PROVE  /\ IsFiniteSet(S \cup T)
         /\ Cardinality(S \cup T) = Cardinality(S) + Cardinality(T)
<1>1. Cardinality(S \cup T) = Cardinality(S) + Cardinality(T) - Cardinality(S \cap T)
  BY FS_Union
<1>2. Cardinality(S) \in Nat /\ Cardinality(T) \in Nat
  BY FS_CardinalityType
<1>3. Cardinality(S \cap T) = 0
  BY FS_EmptySet
<1> QED BY <1>1, <1>2, <1>3, FS_Union

(* An event moved in time is an event of the same drum.                    *)
LEMMA Retimed ==
  ASSUME NEW e, IsEvent(e), NEW t
  PROVE  LET n == [e EXCEPT !.tick = t] IN IsEvent(n) /\ n.drum = e.drum
BY DEF IsEvent

(* The image of a finite set is finite.                                    *)
LEMMA FiniteImage ==
  ASSUME NEW S, IsFiniteSet(S), NEW f
  PROVE  IsFiniteSet({f[x] : x \in S})
<1> DEFINE T == {f[x] : x \in S}
           g == [x \in S |-> f[x]]
<1>1. g \in Surjection(S, T)
  BY DEF Surjection
<1> QED BY <1>1, FS_Surjection

(* Mapping the notes of a take (DrumOf) gives finitely many events of      *)
(* known drums.                                                            *)
LEMMA MappedAreEvents ==
  ASSUME NEW raw, IsFiniteSet(raw)
  PROVE  AreEvents(MapAndFilter(raw))
<1> DEFINE heard == {n \in raw : n.vel >= VelocityFloor /\ DrumOf(n.note) # "none"}
           f == [n \in heard |-> [tick |-> n.tick, drum |-> DrumOf(n.note), vel |-> n.vel]]
<1>1. IsFiniteSet(heard)
  BY FS_Subset
<1>2. MapAndFilter(raw) = {f[n] : n \in heard}
  BY DEF MapAndFilter
<1>3. IsFiniteSet(MapAndFilter(raw))
  <2> HIDE DEF heard, f
  <2> QED BY <1>1, <1>2, FiniteImage
<1>4. ASSUME NEW n \in heard PROVE IsEvent(f[n])
  BY DEF IsEvent, DrumOf, Drums
<1> QED BY <1>2, <1>3, <1>4 DEF AreEvents

(* So does drawing them to the grid.                                       *)
LEMMA QuantizedAreEvents ==
  ASSUME NEW events, AreEvents(events)
  PROVE  AreEvents(Quantize(events))
<1> DEFINE found == RoundDiv(TicksPerBeat, 4)
           grid == IF found > 1 THEN found ELSE 1
           f == [e \in events |-> [e EXCEPT !.tick = RoundDiv(e.tick, grid) * grid]]
<1>1. Quantize(events) = {f[e] : e \in events}
  BY DEF Quantize
<1>2. ASSUME NEW e \in events PROVE IsEvent(f[e])
  BY Retimed DEF AreEvents
<1>3. IsFiniteSet({f[e] : e \in events})
  <2> HIDE DEF f
  <2> QED BY FiniteImage DEF AreEvents
<1> QED BY <1>1, <1>2, <1>3 DEF AreEvents

(* What post-processing keeps of a take is a finite set of events.         *)
LEMMA ProcessedAreEvents ==
  ASSUME NEW raw, IsFiniteSet(raw), NEW guard
  PROVE  AreEvents(Process(raw, guard))
<1> DEFINE quantized == Quantize(MapAndFilter(raw))
           deduped == Dedupe(quantized)
<1>1. AreEvents(quantized)
  BY MappedAreEvents, QuantizedAreEvents
<1>2. deduped \subseteq quantized
  BY DEF Dedupe
<1>3. TomFilter(deduped) \subseteq deduped
  BY DEF TomFilter
<1>4. Process(raw, guard) \subseteq quantized
  BY <1>2, <1>3 DEF Process
<1> HIDE DEF quantized
<1> QED BY <1>1, <1>4, FS_Subset DEF AreEvents

(* The counts of the drums are naturals, zero exactly where nothing is     *)
(* heard, and add up to the number of events.                              *)
LEMMA Counts ==
  ASSUME NEW events, AreEvents(events)
  PROVE  /\ \A d \in Drums : /\ IsFiniteSet(OfDrum(events, d)) /\ CountOf(events, d) \in Nat
                             /\ CountOf(events, d) = 0 <=> OfDrum(events, d) = {}
         /\ Cardinality(events) \in Nat
         /\ EventCount(DrumCounts(events)) = Cardinality(events)
<1> DEFINE K == OfDrum(events, "kick")  S == OfDrum(events, "snare")
           H == OfDrum(events, "hi_hat")  T == OfDrum(events, "tom")  C == OfDrum(events, "cymbal")
<1>1. \A d \in Drums : IsFiniteSet(OfDrum(events, d))
  BY FS_Subset DEF AreEvents, OfDrum
<1>2. \A d \in Drums : CountOf(events, d) \in Nat /\ (CountOf(events, d) = 0 <=> OfDrum(events, d) = {})
  BY <1>1, FS_CardinalityType, FS_EmptySet DEF CountOf
<1>3. IsFiniteSet(events) /\ Cardinality(events) \in Nat
  BY FS_CardinalityType DEF AreEvents
<1>4. events = (((K \cup S) \cup H) \cup T) \cup C
  BY DEF AreEvents, IsEvent, Drums, OfDrum
<1>5. IsFiniteSet(K) /\ IsFiniteSet(S) /\ IsFiniteSet(H) /\ IsFiniteSet(T) /\ IsFiniteSet(C)
  BY <1>1 DEF Drums
<1>6. K \cap S = {} /\ (K \cup S) \cap H = {} /\ ((K \cup S) \cup H) \cap T = {}
      /\ (((K \cup S) \cup H) \cup T) \cap C = {}
  BY DEF OfDrum
<1>7. Cardinality(events)
        = Cardinality(K) + Cardinality(S) + Cardinality(H) + Cardinality(T) + Cardinality(C)
  <2> HIDE DEF K, S, H, T, C
  <2>1. IsFiniteSet(K \cup S) /\ Cardinality(K \cup S) = Cardinality(K) + Cardinality(S)
    BY <1>5, <1>6, DisjointUnion
  <2>2. IsFiniteSet((K \cup S) \cup H)
        /\ Cardinality((K \cup S) \cup H) = Cardinality(K \cup S) + Cardinality(H)
    BY <1>5, <1>6, <2>1, DisjointUnion
  <2>3. IsFiniteSet(((K \cup S) \cup H) \cup T)
        /\ Cardinality(((K \cup S) \cup H) \cup T) = Cardinality((K \cup S) \cup H) + Cardinality(T)
    BY <1>5, <1>6, <2>2, DisjointUnion
  <2>4. Cardinality((((K \cup S) \cup H) \cup T) \cup C)
          = Cardinality(((K \cup S) \cup H) \cup T) + Cardinality(C)
    BY <1>5, <1>6, <2>3, DisjointUnion
  <2> QED BY <1>4, <2>1, <2>2, <2>3, <2>4
<1>8. EventCount(DrumCounts(events)) = Cardinality(events)
  BY <1>2, <1>3, <1>7 DEF EventCount, DrumCounts, CountOf, Drums
<1> QED BY <1>1, <1>2, <1>3, <1>8

(* An event the arranger places is one of the drum it is placed as.        *)
LEMMA PlacedIsEvent ==
  ASSUME NEW e, NEW tick, NEW drum \in Drums
  PROVE  IsEvent(Placed(e, tick, drum)) /\ Placed(e, tick, drum).drum = drum
BY DEF Placed, IsEvent

(* Cutting events into measures keeps their drums.                         *)
LEMMA InMeasureOfDrum ==
  ASSUME NEW events, \A e \in events : IsEvent(e), NEW i, NEW ticks,
         NEW m \in InMeasure(events, i, ticks)
  PROVE  IsEvent(m) /\ OfDrum(events, m.drum) # {}
<1>1. PICK e \in events : m = [e EXCEPT !.tick = e.tick - i * ticks]
  BY DEF InMeasure
<1>2. IsEvent(m) /\ m.drum = e.drum
  BY <1>1, Retimed
<1> QED BY <1>2 DEF OfDrum

(* The groove of a measure draws a core drum only if its source has it:    *)
(* nothing is drawn of hats, snares or kicks that are not there.           *)
LEMMA GrooveFromSource ==
  ASSUME NEW source
  PROVE  /\ \A m \in HatPulse(OfDrum(source, "hi_hat")) :
              IsEvent(m) /\ m.drum = "hi_hat" /\ OfDrum(source, "hi_hat") # {}
         /\ \A m \in ReadableBackbeatSnares(OfDrum(source, "snare")) :
              IsEvent(m) /\ m.drum = "snare" /\ OfDrum(source, "snare") # {}
         /\ \A m \in ReadableKicks(OfDrum(source, "kick")) :
              IsEvent(m) /\ m.drum = "kick" /\ OfDrum(source, "kick") # {}
<1>0. {"hi_hat", "snare", "kick"} \subseteq Drums
  BY DEF Drums
<1>1. ASSUME NEW hats, NEW m \in HatPulse(hats)
      PROVE  IsEvent(m) /\ m.drum = "hi_hat" /\ hats # {}
  <2>1. hats # {} /\ \E e, tick : m = Placed(e, tick, "hi_hat")
    BY <1>1 DEF HatPulse
  <2> QED BY <1>0, <2>1, PlacedIsEvent
<1>2. ASSUME NEW snares, NEW m \in ReadableBackbeatSnares(snares)
      PROVE  IsEvent(m) /\ m.drum = "snare" /\ snares # {}
  <2>1. snares # {} /\ \E e, tick : m = Placed(e, tick, "snare")
    BY <1>2 DEF ReadableBackbeatSnares
  <2> QED BY <1>0, <2>1, PlacedIsEvent
<1>3. ASSUME NEW kicks, NEW m \in ReadableKicks(kicks)
      PROVE  IsEvent(m) /\ m.drum = "kick" /\ kicks # {}
  <2>1. kicks # {} /\ \E e, tick : m = Placed(e, tick, "kick")
    BY <1>3 DEF ReadableKicks
  <2> QED BY <1>0, <2>1, PlacedIsEvent
<1> QED BY <1>1, <1>2, <1>3

(* The same of a whole arranged measure, whatever its kind.                *)
LEMMA ArrangedFromSource ==
  ASSUME NEW source, NEW ticks, NEW previous,
         NEW m \in ArrangeMeasure(source, ticks, previous).events
  PROVE  IsEvent(m) /\ (m.drum \in CoreDrums => OfDrum(source, m.drum) # {})
<1> DEFINE fill == TomFill(OfDrum(source, "tom"), ticks, previous)
           hats == HatPulse(OfDrum(source, "hi_hat"))
           snares == ReadableBackbeatSnares(OfDrum(source, "snare"))
           kicks == ReadableKicks(OfDrum(source, "kick"))
           accent == CymbalAccent(OfDrum(source, "cymbal"))
<1>1. \A f \in fill : IsEvent(f) /\ f.drum = "tom"
  <2>1. \A f \in fill : \E e, tick : f = Placed(e, tick, "tom")
    BY DEF TomFill
  <2> QED BY <2>1, PlacedIsEvent DEF Drums
<1>2. \A f \in accent : IsEvent(f) /\ f.drum = "cymbal"
  BY PlacedIsEvent DEF Drums, CymbalAccent
<1>3. m \in hats \/ m \in snares \/ m \in kicks \/ m \in fill \/ m \in accent
  <2> DEFINE groove == hats \cup snares \cup kicks
  <2>1. ArrangeMeasure(source, ticks, previous)
          = CASE source = {} -> [kind |-> "rest", events |-> {}]
              [] fill # {} -> [kind |-> "fill", events |-> groove \cup fill]
              [] fill = {} /\ groove = {} /\ OfDrum(source, "cymbal") # {}
                   -> [kind |-> "break", events |-> accent]
              [] OTHER -> [kind |-> "groove", events |-> groove]
    BY DEF ArrangeMeasure
  <2> HIDE DEF hats, snares, kicks, fill, accent
  <2>2. ArrangeMeasure(source, ticks, previous).events \in {{}, groove \cup fill, accent, groove}
    <3>1. CASE source = {}
      BY <2>1, <3>1
    <3>2. CASE source # {} /\ fill # {}
      BY <2>1, <3>2
    <3>3. CASE source # {} /\ fill = {} /\ groove = {} /\ OfDrum(source, "cymbal") # {}
      BY <2>1, <3>3
    <3>4. CASE source # {} /\ fill = {} /\ ~(groove = {} /\ OfDrum(source, "cymbal") # {})
      BY <2>1, <3>4
    <3> QED BY <3>1, <3>2, <3>3, <3>4
  <2> QED BY <2>2
<1> QED BY <1>1, <1>2, <1>3, GrooveFromSource DEF CoreDrums

(* The same of the chart: a core drum in it was transcribed somewhere.     *)
LEMMA ChartedFromEvents ==
  ASSUME NEW events, \A e \in events : IsEvent(e), NEW sig,
         NEW c \in BuildChart(events, sig).events
  PROVE  IsEvent(c) /\ (c.drum \in CoreDrums => OfDrum(events, c.drum) # {})
<1> DEFINE ticks == MeasureTicks(sig)
           measures == Arrange(events, sig)
           kinds == [i \in DOMAIN measures |-> measures[i].kind]
           drawn == UNION {{[e EXCEPT !.tick = @ + i * ticks] : e \in measures[i].events} :
                              i \in DOMAIN measures}
<1>1. BuildChart(events, sig).events = NormalizeRhythm(drawn, kinds, ticks)
  BY DEF BuildChart, ChartOf
<1>2. PICK d \in drawn : \E tick : c = [d EXCEPT !.tick = tick]
  <2> HIDE DEF drawn, kinds, ticks
  <2> QED BY <1>1 DEF NormalizeRhythm
<1>3. PICK i \in DOMAIN measures : \E e \in measures[i].events : d = [e EXCEPT !.tick = @ + i * ticks]
  <2> HIDE DEF measures, ticks
  <2> QED BY <1>2
<1>4. PICK e \in measures[i].events : d = [e EXCEPT !.tick = @ + i * ticks]
  BY <1>3
<1>5. \E previous : measures[i] = ArrangeMeasure(InMeasure(events, i, ticks), ticks, previous)
  BY DEF Arrange
<1> HIDE DEF measures, ticks, drawn, kinds
<1>6. IsEvent(e) /\ (e.drum \in CoreDrums => OfDrum(InMeasure(events, i, ticks), e.drum) # {})
  BY <1>4, <1>5, ArrangedFromSource
<1>7. IsEvent(d) /\ d.drum = e.drum
  BY <1>4, <1>6, Retimed
<1>8. IsEvent(c) /\ c.drum = e.drum
  BY <1>2, <1>7, Retimed
<1>9. ASSUME e.drum \in CoreDrums PROVE OfDrum(events, e.drum) # {}
  <2>1. PICK m \in InMeasure(events, i, ticks) : m.drum = e.drum
    BY <1>6, <1>9 DEF OfDrum
  <2> QED BY <2>1, InMeasureOfDrum
<1> QED BY <1>8, <1>9

(* A chart with a complete measure, counted in any signature, has every    *)
(* core drum in its transcription.                                         *)
LEMMA CoreIsHeard ==
  ASSUME NEW events, \A e \in events : IsEvent(e), NEW sig, NEW sign,
         CoreMeasures(BuildChart(events, sig), sign) # {}, NEW d \in CoreDrums
  PROVE  OfDrum(events, d) # {}
<1> DEFINE chart == BuildChart(events, sig)
<1>1. PICK i \in CoreMeasures(chart, sign) : TRUE
  OBVIOUS
<1>2. PICK m \in InMeasure(chart.events, i, BeatTicks(sign)) : m.drum = d
  <2> HIDE DEF chart
  <2>1. IsCompleteCore(InMeasure(chart.events, i, BeatTicks(sign)))
    BY <1>1 DEF CoreMeasures
  <2> QED BY <2>1 DEF IsCompleteCore, OfDrum
<1>3. \A c \in chart.events : IsEvent(c)
  BY ChartedFromEvents
<1>4. PICK c \in chart.events : c.drum = d
  <2> HIDE DEF chart
  <2>1. OfDrum(chart.events, m.drum) # {}
    BY <1>3, InMeasureOfDrum
  <2> QED BY <1>2, <2>1 DEF OfDrum
<1> QED BY <1>4, ChartedFromEvents

(* What the issues of the structure say of the chart and the score.        *)
LEMMA Structure ==
  ASSUME NEW chart, NEW score, NEW sig
  PROVE  LET issues == StructureIssues(chart, score, sig)
         IN /\ "measure_duration_incomplete" \notin issues
                 => \A i \in DOMAIN score : MeasureIsComplete(score[i], sig)
            /\ "notation_fragmented_groove_rhythm" \notin issues => ~FragmentedGroove(chart, score)
            /\ "core_groove_unstable" \in issues <=> ~CoreGrooveStable(chart, sig)
            /\ "core_drum_missing" \in issues <=> CoreMeasures(chart, sig) = {}
            /\ "notation_chart_still_dense" \notin issues => chart.dense = {}
            /\ "audio_onset_alignment_low" \notin issues
BY DEF StructureIssues

Judged(gate) == gate.verdict \in {"performance_ready", "playable_but_low_confidence"}

(* Whatever the calibration: only a score without a fault is delivered, an *)
(* offered one has no fault but its alignment, and a refused one has an    *)
(* issue the page can show, if an alignment called low is below the        *)
(* threshold.                                                              *)
LEMMA GateVerdict ==
  ASSUME NEW issues, NEW rate, NEW c
  PROVE  LET gate == ApplyCalibration(issues, rate, c)
             faults == HardFailures \cup SourceQualityIssues
         IN /\ gate.allowed \in BOOLEAN
            /\ gate.allowed <=> gate.verdict = "performance_ready"
            /\ gate.allowed => /\ IsAuthorized(c) /\ c # NoCalibration
                               /\ gate.issues = {} /\ IsRate(rate) /\ IsRate(c.threshold)
                               /\ rate >= c.threshold
            /\ Judged(gate) => issues \cap (faults \ {"audio_onset_alignment_low"}) = {}
            /\ ~Judged(gate) => gate.verdict \in {"needs_better_source", "not_ready"}
            /\ /\ ~Judged(gate)
               /\ IsAuthorized(c) /\ IsRate(rate) /\ IsRate(c.threshold) /\ rate >= c.threshold
                    => "audio_onset_alignment_low" \notin issues
               => gate.issues \cap faults # {}
<1> DEFINE own == issues \ ProvisionalIssues
           verdict == RawVerdict(own)
           left == own \ {"audio_onset_alignment_low"}
           faults == HardFailures \cup SourceQualityIssues
           gate == ApplyCalibration(issues, rate, c)
           measured == IsRate(c.threshold) /\ IsRate(rate) /\ rate >= c.threshold
<1>1. faults \cap ProvisionalIssues = {}
  BY DEF HardFailures, SourceQualityIssues, ProvisionalIssues
<1>2. /\ verdict \in {"performance_ready", "playable_but_low_confidence",
                      "needs_better_source", "not_ready"}
      /\ verdict = "performance_ready" <=> own = {}
      /\ verdict \in {"performance_ready", "playable_but_low_confidence"} <=> own \cap faults = {}
  <2> HIDE DEF own
  <2> QED BY DEF RawVerdict, HardFailures, SourceQualityIssues
<1> HIDE DEF verdict, own, faults
<1>3. CASE IsAuthorized(c) /\ measured /\ c # NoCalibration
  <2>1. gate = [verdict |-> IF left = {} THEN "performance_ready" ELSE verdict,
                allowed |-> left = {}, issues |-> left]
    BY <1>3 DEF ApplyCalibration, own, verdict
  <2>2. own \cap faults = issues \cap faults
    BY <1>1 DEF own
  <2>3. left = {} => issues \cap (faults \ {"audio_onset_alignment_low"}) = {}
    BY <2>2
  <2>4. left # {} /\ own = {} => FALSE
    OBVIOUS
  <2>5. "audio_onset_alignment_low" \notin issues => left = own
    BY DEF own
  <2>6. gate.allowed = (left = {}) /\ gate.issues = left
        /\ gate.verdict = IF left = {} THEN "performance_ready" ELSE verdict
    BY <2>1
  <2> HIDE DEF gate
  <2>7. CASE left = {}
    <3>1. gate.allowed /\ gate.verdict = "performance_ready" /\ gate.issues = {}
      BY <2>6, <2>7
    <3> HIDE DEF left
    <3> QED BY <1>3, <2>3, <2>7, <3>1 DEF Judged, gate, faults, IsRate
  <2>8. CASE left # {}
    <3>1. own # {} /\ verdict # "performance_ready" /\ gate.verdict = verdict
      BY <1>2, <2>6, <2>8
    <3>2. Judged(gate) <=> issues \cap faults = {}
      BY <1>2, <2>2, <3>1 DEF Judged
    <3>3. "audio_onset_alignment_low" \notin issues => gate.issues \cap faults = issues \cap faults
      BY <2>2, <2>5, <2>6
    <3> HIDE DEF left
    <3>4. ~Judged(gate) => gate.verdict \in {"needs_better_source", "not_ready"}
      BY <1>2, <3>1 DEF Judged
    <3>5. ~gate.allowed /\ gate.verdict # "performance_ready"
      BY <2>6, <2>8, <3>1
    <3>6. gate.allowed \in BOOLEAN
      BY <2>6
    <3>7. Judged(gate) => issues \cap (faults \ {"audio_onset_alignment_low"}) = {}
      BY <3>2
    <3>8. ~Judged(gate) /\ "audio_onset_alignment_low" \notin issues => gate.issues \cap faults # {}
      BY <3>2, <3>3
    <3> QED BY <1>3, <3>4, <3>5, <3>6, <3>7, <3>8 DEF gate, faults
  <2> QED BY <2>7, <2>8
<1>4. CASE ~(IsAuthorized(c) /\ measured /\ c # NoCalibration)
  <2>1. \E issue :
          gate = [verdict |-> IF verdict = "performance_ready" THEN "playable_but_low_confidence"
                              ELSE verdict,
                  allowed |-> FALSE, issues |-> own \cup {issue}]
    <3> DEFINE refused(issue) ==
                 [verdict |-> IF verdict = "performance_ready" THEN "playable_but_low_confidence"
                              ELSE verdict,
                  allowed |-> FALSE, issues |-> own \cup {issue}]
    <3>1. ~IsAuthorized(NoCalibration)
      BY DEF IsAuthorized, NoCalibration
    <3>2. gate \in {refused("gate_calibration_unavailable"), refused("gate_calibration_not_ready"),
                    refused("calibrated_onset_threshold_not_met")}
      BY <1>4, <3>1 DEF ApplyCalibration, own, verdict
    <3> HIDE DEF refused, gate
    <3>3. \E issue : gate = refused(issue)
      BY <3>2
    <3> QED BY <3>3 DEF refused
  <2>2. own \cap faults = issues \cap faults
    BY <1>1 DEF own
  <2> HIDE DEF gate
  <2> QED BY <1>2, <2>1, <2>2 DEF Judged, faults, gate
<1> QED BY <1>3, <1>4

(* The flags of post-processing, as conditions on the counts.              *)
LEMMA FlagsOf ==
  ASSUME NEW raw, NEW events, AreEvents(events)
  PROVE  LET n == Cardinality(events)
             flags == QualityFlags(raw, events)
         IN /\ IsFiniteSet(flags)
            /\ "too_few_events" \in flags <=> n < 4
            /\ "sparse_transcription" \in flags <=> n \in 1 .. 7
            /\ "mostly_tom_output" \in flags <=> n >= 3 /\ 4 * CountOf(events, "tom") >= 3 * n
            /\ "no_snare_detected" \in flags <=> n >= 4 /\ CountOf(events, "snare") = 0
            /\ "no_usable_groove" \in flags
                 <=> n < 4 \/ CountOf(events, "kick") + CountOf(events, "snare") = 0
<1> DEFINE flags == QualityFlags(raw, events)
           names == << "too_few_events", "sparse_transcription", "hihat_missing_likely",
                       "no_snare_detected", "mostly_tom_output", "raw_tom_dominant",
                       "kick_snare_only", "missing_core_groove", "no_usable_groove" >>
<1>1. flags \subseteq {names[i] : i \in 1 .. 9}
  <2>1. {names[i] : i \in 1 .. 9}
          = {"too_few_events", "sparse_transcription", "hihat_missing_likely",
             "no_snare_detected", "mostly_tom_output", "raw_tom_dominant",
             "kick_snare_only", "missing_core_groove", "no_usable_groove"}
    OBVIOUS
  <2> HIDE DEF names
  <2> QED BY <2>1 DEF QualityFlags
<1>2. IsFiniteSet(flags)
  <2>1. IsFiniteSet({names[i] : i \in 1 .. 9})
    <3>1. IsFiniteSet(1 .. 9)
      <4>1. \A a, b \in Int : IsFiniteSet(a .. b)
        BY FS_Interval
      <4>2. 1 \in Int /\ 9 \in Int
        OBVIOUS
      <4> QED BY <4>1, <4>2, Zenon
    <3> HIDE DEF names
    <3> QED BY <3>1, FiniteImage
  <2> HIDE DEF flags, names
  <2> QED BY <1>1, <2>1, FS_Subset
<1> QED BY <1>2 DEF QualityFlags

(* The part of a score that its alignment earns is at most 25 of 100.      *)
LEMMA AlignedPart ==
  ASSUME NEW rate \in 0 .. 1000
  PROVE  RoundDiv(rate * 25, 1000) \in 0 .. 25
BY DEF RoundDiv

(* A recommendation: the score is a percentage, a candidate is rejected    *)
(* exactly for its hard reasons, and one without hats, groove or a verdict *)
(* is to be analysed again.                                                *)
LEMMA Recommendation ==
  ASSUME NEW counts, NEW flags, IsFiniteSet(flags), NEW gate, NEW measures, NEW dense,
         counts["hi_hat"] \in Nat,
         gate.rate \in (0 .. 1000) \cup {Unmeasured}
  PROVE  LET judged == Recommend(counts, flags, gate, measures, dense)
             hard == HardReasons(counts, flags)
         IN /\ judged.score \in 0 .. 100
            /\ judged.rejected \in BOOLEAN
            /\ judged.rejected <=> hard # {}
            /\ judged.rejected => /\ judged.recommendation = "reanalyze_recommended"
                                  /\ judged.reasons = hard
            /\ counts["hi_hat"] = 0 /\ ~gate.stable /\ ~Judged(gate)
                 => judged.recommendation = "reanalyze_recommended"
<1> DEFINE terms == ScoreTerms(counts, flags, gate, measures, dense)
           sum == 30 + terms.aligned + terms.pulse + terms.toms + terms.verdict + terms.room
                     + terms.groove + terms.flags
           score == CandidateScore(terms)
           hard == HardReasons(counts, flags)
           judged == Recommend(counts, flags, gate, measures, dense)
<1>1. /\ terms.aligned \in 0 .. 25 /\ terms.pulse \in {12, -10, -12} /\ terms.toms \in {10, -10}
      /\ terms.verdict \in {15, 4, -12} /\ terms.room \in {0, 8} /\ terms.groove \in {0, -12}
      /\ terms.flags \in Int /\ terms.flags <= 0
  <2>1. terms.aligned \in 0 .. 25
    <3>1. terms.aligned = IF gate.rate = Unmeasured THEN 0 ELSE RoundDiv(gate.rate * 25, 1000)
      BY DEF ScoreTerms
    <3> HIDE DEF terms
    <3>2. CASE gate.rate = Unmeasured
      BY <3>1, <3>2
    <3>3. CASE gate.rate # Unmeasured
      <4>1. gate.rate \in 0 .. 1000
        BY <3>3
      <4>2. RoundDiv(gate.rate * 25, 1000) \in 0 .. 25
        BY <4>1, AlignedPart
      <4> QED BY <3>1, <3>3, <4>2
    <3> QED BY <3>2, <3>3
  <2>2. Cardinality(flags) \in Nat
    BY FS_CardinalityType
  <2>3. terms.pulse \in {12, -10, -12}
    BY DEF ScoreTerms
  <2>4. terms.verdict \in {15, 4, -12}
    BY DEF ScoreTerms
  <2>5. terms.toms \in {10, -10} /\ terms.room \in {0, 8} /\ terms.groove \in {0, -12}
    BY DEF ScoreTerms
  <2>6. terms.flags \in Int /\ terms.flags <= 0
    BY <2>2 DEF ScoreTerms
  <2> QED BY <2>1, <2>3, <2>4, <2>5, <2>6
<1>2. counts["hi_hat"] = 0 /\ ~gate.stable /\ ~Judged(gate)
        => terms.pulse = -12 /\ terms.verdict = -12 /\ terms.groove = -12
  BY DEF ScoreTerms, Judged
<1> HIDE DEF terms
<1>3. score \in 0 .. 100
      /\ (counts["hi_hat"] = 0 /\ ~gate.stable /\ ~Judged(gate) => score < 42)
  <2>1. sum \in Int /\ (counts["hi_hat"] = 0 /\ ~gate.stable /\ ~Judged(gate) => sum <= 37)
    <3>1. /\ terms.aligned \in Int /\ terms.aligned <= 25 /\ terms.pulse \in Int
          /\ terms.toms \in Int /\ terms.toms <= 10 /\ terms.verdict \in Int
          /\ terms.room \in Int /\ terms.room <= 8 /\ terms.groove \in Int
          /\ terms.flags \in Int /\ terms.flags <= 0
      BY <1>1
    <3> QED BY <1>2, <3>1
  <2>2. score = Clamped(0, 100, sum)
    BY DEF CandidateScore
  <2> HIDE DEF sum, score
  <2> QED BY <2>1, <2>2 DEF Clamped
<1>4. judged = IF hard # {} THEN Rejection(hard)
               ELSE [score |-> score,
                     recommendation |-> IF score >= 70 /\ gate.stable /\ Judged(gate)
                                        THEN "recommended_for_practice"
                                        ELSE IF score >= 42 THEN "reference_with_caveats"
                                        ELSE "reanalyze_recommended",
                     reasons |-> {}, rejected |-> FALSE]
  BY DEF Recommend, terms, Judged
<1> HIDE DEF score, hard, judged
<1>5. CASE hard # {}
  BY <1>4, <1>5 DEF Rejection, judged, hard
<1>6. CASE hard = {}
  BY <1>3, <1>4, <1>6 DEF judged, hard
<1> QED BY <1>5, <1>6
(* The quality a log draws from the processed events, and the judgement of *)
(* the candidate by the same counts and flags.                             *)
QualityAgrees(counts, flags, recommendation) ==
  LET draft == DraftQuality(counts, flags)
      limits == Limitations(counts, flags)
  IN /\ QualityTone(draft) = "error" => recommendation = "reanalyze_recommended" /\ limits # {}
     /\ QualityTone(draft) = "ready" => limits = {}

Usable(counts) ==
  /\ counts["kick"] > 0 /\ counts["snare"] > 0
  /\ EventCount(counts) >= 8
  /\ 4 * counts["tom"] < 3 * EventCount(counts)

(* A hard reason always has an advice to show, and a candidate with the    *)
(* core of a groove has none.                                              *)
LEMMA HardReasonsOf ==
  ASSUME NEW raw, NEW events, AreEvents(events)
  PROVE  LET counts == DrumCounts(events)
             hard == HardReasons(counts, QualityFlags(raw, events))
         IN /\ hard \subseteq CandidateReanalyzeActions
            /\ Usable(counts) => hard = {}
            /\ EventCount(counts) < 4 \/ counts["kick"] = 0 \/ counts["snare"] = 0 => hard # {}
<1> DEFINE counts == DrumCounts(events)
           flags == QualityFlags(raw, events)
           hard == HardReasons(counts, flags)
           n == Cardinality(events)
<1>1. /\ \A d \in Drums : counts[d] = CountOf(events, d) /\ counts[d] \in Nat
      /\ EventCount(counts) = n /\ n \in Nat
  BY Counts DEF DrumCounts
<1>2. /\ "too_few_events" \in flags <=> n < 4
      /\ "sparse_transcription" \in flags <=> n \in 1 .. 7
      /\ "mostly_tom_output" \in flags <=> n >= 3 /\ 4 * counts["tom"] >= 3 * n
      /\ "no_snare_detected" \in flags <=> n >= 4 /\ counts["snare"] = 0
  BY <1>1, FlagsOf DEF Drums
<1>3. counts["kick"] \in Nat /\ counts["snare"] \in Nat /\ counts["tom"] \in Nat
  BY <1>1 DEF Drums
<1> HIDE DEF counts, flags, n
<1>4. hard \subseteq CandidateReanalyzeActions
  BY DEF HardReasons, RejectingFlags, CandidateReanalyzeActions
<1>5. ASSUME Usable(counts) PROVE hard = {}
  <2>1. counts["kick"] # 0 /\ counts["snare"] # 0
    BY <1>3, <1>5 DEF Usable
  <2>2. flags \cap RejectingFlags = {}
    BY <1>1, <1>2, <1>3, <1>5, <2>1 DEF Usable, RejectingFlags
  <2> QED BY <2>1, <2>2 DEF HardReasons
<1>6. EventCount(counts) < 4 \/ counts["kick"] = 0 \/ counts["snare"] = 0 => hard # {}
  BY <1>1, <1>2 DEF HardReasons, RejectingFlags
<1> QED BY <1>4, <1>5, <1>6 DEF hard, counts, flags

(* The quality panel, which judges the counts, agrees with a               *)
(* recommendation that rejects on hard reasons or missing hats.            *)
LEMMA QualityOfEvents ==
  ASSUME NEW raw, NEW events, AreEvents(events), NEW recommendation,
         LET counts == DrumCounts(events)
         IN HardReasons(counts, QualityFlags(raw, events)) # {} \/ counts["hi_hat"] = 0
              => recommendation = "reanalyze_recommended"
  PROVE  QualityAgrees(DrumCounts(events), QualityFlags(raw, events), recommendation)
<1> DEFINE counts == DrumCounts(events)
           flags == QualityFlags(raw, events)
           hard == HardReasons(counts, flags)
           n == Cardinality(events)
           blocking == flags \cap BlockingCandidateFlags
           draft == DraftQuality(counts, flags)
           limits == Limitations(counts, flags)
           passed == /\ EventCount(counts) >= 4
                     /\ \A d \in CoreDrums : counts[d] > 0
                     /\ blocking = {}
           score == DraftScore(passed, counts, blocking)
<1>1. /\ \A d \in Drums : counts[d] = CountOf(events, d) /\ counts[d] \in Nat
      /\ EventCount(counts) = n /\ n \in Nat
  BY Counts DEF DrumCounts
<1>2. /\ "too_few_events" \in flags <=> n < 4
      /\ "sparse_transcription" \in flags <=> n \in 1 .. 7
      /\ "mostly_tom_output" \in flags <=> n >= 3 /\ 4 * counts["tom"] >= 3 * n
      /\ "no_snare_detected" \in flags <=> n >= 4 /\ counts["snare"] = 0
      /\ "no_usable_groove" \in flags <=> n < 4 \/ counts["kick"] + counts["snare"] = 0
  BY <1>1, FlagsOf DEF Drums
<1>3. /\ counts["kick"] \in Nat /\ counts["snare"] \in Nat
      /\ counts["tom"] \in Nat /\ counts["hi_hat"] \in Nat
  BY <1>1 DEF Drums
<1>4. hard # {} \/ counts["hi_hat"] = 0 => recommendation = "reanalyze_recommended"
  OBVIOUS
<1>5. EventCount(counts) < 4 \/ counts["kick"] = 0 \/ counts["snare"] = 0 => hard # {}
  BY HardReasonsOf
<1>6. /\ draft = "not_candidate" <=> ~passed
      /\ draft = "mvp_candidate" => passed /\ score >= 4
  <2> HIDE DEF passed, score
  <2>1. draft = CASE passed /\ score >= 4 -> "mvp_candidate"
                  [] passed /\ score < 4 -> "draft_candidate_needs_review"
                  [] OTHER -> "not_candidate"
    BY DEF DraftQuality, passed, score
  <2>2. score \in {1, 2, 3, 4, 5}
    BY DEF score, DraftScore
  <2> HIDE DEF draft
  <2> QED BY <2>1, <2>2
<1>7. passed /\ score >= 4 => 10 * counts["tom"] <= 3 * EventCount(counts)
  <2> HIDE DEF counts, passed, blocking
  <2> QED BY <1>1, <1>3 DEF DraftScore
<1> HIDE DEF counts, flags, n, draft, score
<1>8. limits = {} <=> /\ blocking = {} /\ counts["kick"] # 0 /\ counts["snare"] # 0
                      /\ counts["hi_hat"] # 0
                      /\ ~(10 * counts["tom"] > 3 * EventCount(counts))
  BY DEF Limitations
<1>9. passed <=> /\ EventCount(counts) >= 4 /\ blocking = {}
                 /\ counts["kick"] # 0 /\ counts["snare"] # 0 /\ counts["hi_hat"] # 0
  BY <1>3 DEF CoreDrums
<1>10. blocking # {} => hard # {}
  <2>1. blocking # {} => flags \cap RejectingFlags # {} \/ counts["kick"] = 0
    BY <1>1, <1>2, <1>3 DEF BlockingCandidateFlags, RejectingFlags
  <2> QED BY <1>5, <2>1 DEF hard, HardReasons
<1>11. EventCount(counts) < 4 => blocking # {}
  BY <1>1, <1>2 DEF BlockingCandidateFlags
<1> HIDE DEF limits, hard, passed, blocking
<1>12. QualityTone(draft) = "error" => recommendation = "reanalyze_recommended" /\ limits # {}
  <2>1. ASSUME QualityTone(draft) = "error", draft = "not_candidate"
        PROVE  recommendation = "reanalyze_recommended" /\ limits # {}
    BY <1>1, <1>4, <1>5, <1>6, <1>8, <1>9, <1>10, <1>11, <2>1
  <2>2. draft \in {"mvp_candidate", "draft_candidate_needs_review", "not_candidate"}
    BY DEF draft, DraftQuality
  <2> QED BY <2>1, <2>2 DEF QualityTone
<1>13. QualityTone(draft) = "ready" => limits = {}
  <2>1. draft \in {"mvp_candidate", "draft_candidate_needs_review", "not_candidate"}
    BY DEF draft, DraftQuality
  <2>2. QualityTone(draft) = "ready" => draft = "mvp_candidate"
    BY <2>1 DEF QualityTone
  <2> QED BY <1>1, <1>3, <1>6, <1>7, <1>8, <1>9, <2>2
<1> QED BY <1>12, <1>13 DEF QualityAgrees, draft, limits, counts, flags
-----------------------------------------------------------------------------
(***************************************************************************)
(* The inductive invariant.                                                *)
(***************************************************************************)
WorkInv ==
  /\ phase \in {"transcription", "post_processing", "notation", "gate", "selection", "ended"}
  /\ DOMAIN work = {"sig", "guard", "raw", "events", "flags", "chart", "score"}
  /\ IsFiniteSet(work.raw) /\ AreEvents(work.events)
  /\ phase \in {"notation", "gate"} => work.flags = QualityFlags(work.raw, work.events)
  /\ phase = "gate" => work.chart = BuildChart(work.events, work.sig)

CandidateOk(c) ==
  /\ c.status \in {"completed", "failed"}
  /\ c.rejected => ShownReasons(c.reasons) # {}
  /\ c.status = "completed" =>
       /\ c.score \in 0 .. 100
       /\ c.rejected \in BOOLEAN
       /\ c.rejected => c.recommendation = "reanalyze_recommended"
       /\ Usable(c.counts) => ~c.rejected
       /\ QualityTone(c.page.draft) = "error"
            => c.recommendation = "reanalyze_recommended" /\ c.page.limitations # {}
       /\ QualityTone(c.page.draft) = "ready" => c.page.limitations = {}

DoneInv ==
  /\ \E T : done \in Seq(T)
  /\ \A i \in DOMAIN done : CandidateOk(done[i])

CalibrationInv == benchmark # {} => cal = CalibrateGate(benchmark)

AnalysisInv ==
  /\ phase # "ended" => analysis = NoAnalysis
  /\ analysis.status = "completed" =>
       /\ Completed # {}
       /\ Ranked = <<>> => analysis.recommended = 0 /\ analysis.canonical = Min(Completed)
       /\ Ranked # <<>> => analysis.recommended = Ranked[1] /\ analysis.canonical = Ranked[1]

Inv == WorkInv /\ DoneInv /\ CalibrationInv /\ AnalysisInv

(* The work a candidate starts with.                                       *)
LEMMA NoWorkOk ==
  /\ DOMAIN NoWork = {"sig", "guard", "raw", "events", "flags", "chart", "score"}
  /\ IsFiniteSet(NoWork.raw) /\ AreEvents(NoWork.events)
BY FS_EmptySet DEF NoWork, AreEvents

(* The invariant holds initially.                                          *)
LEMMA InitInv == Init => Inv
<1> SUFFICES ASSUME Init PROVE Inv
  OBVIOUS
<1>1. WorkInv
  BY NoWorkOk DEF Init, WorkInv
<1>2. DoneInv
  <2>1. done \in Seq({}) /\ DOMAIN done = {}
    BY DEF Init
  <2> QED BY <2>1 DEF DoneInv
<1>3. CalibrationInv
  BY DEF Init, CalibrationInv
<1>4. AnalysisInv
  BY DEF Init, AnalysisInv, NoAnalysis
<1> QED BY <1>1, <1>2, <1>3, <1>4 DEF Inv

(* The ranking depends on the candidates that ended alone.                 *)
LEMMA SameRanking ==
  ASSUME done' = done
  PROVE  Completed' = Completed /\ Ranked' = Ranked
BY DEF Completed, Ranked, Ordered

(* Ending a candidate that is judged by its own counts keeps the           *)
(* invariant.                                                              *)
LEMMA CandidateEnds ==
  ASSUME Inv, phase \notin {"selection", "ended"}, NEW c, CandidateOk(c), EndCandidate(c),
         UNCHANGED <<benchmark, cal, wanted, analysis>>
  PROVE  Inv'
<1>1. phase' \in {"transcription", "selection", "ended"} /\ work' = NoWork /\ done' = Append(done, c)
  BY DEF EndCandidate
<1>2. WorkInv'
  BY <1>1, NoWorkOk DEF WorkInv
<1>3. DoneInv'
  <2>1. PICK T : done \in Seq(T)
    BY DEF Inv, DoneInv
  <2>2. done' \in Seq(T \cup {c}) /\ DOMAIN done' = 1 .. Len(done) + 1
    BY <1>1, <2>1
  <2>3. ASSUME NEW i \in DOMAIN done' PROVE CandidateOk(done'[i])
    <3>1. CASE i = Len(done) + 1
      <4>1. done'[i] = c
        BY <1>1, <2>1, <3>1
      <4> QED BY <4>1
    <3>2. CASE i # Len(done) + 1
      <4>1. i \in DOMAIN done /\ done'[i] = done[i]
        BY <1>1, <2>1, <2>2, <3>2
      <4> QED BY <4>1 DEF Inv, DoneInv
    <3> QED BY <3>1, <3>2
  <2> QED BY <2>2, <2>3 DEF DoneInv
<1>4. CalibrationInv'
  BY DEF Inv, CalibrationInv
<1>5. AnalysisInv'
  <2>1. analysis' = NoAnalysis
    BY DEF Inv, WorkInv, AnalysisInv
  <2> QED BY <2>1 DEF AnalysisInv, NoAnalysis
<1> QED BY <1>2, <1>3, <1>4, <1>5 DEF Inv

(* A failed candidate is rejected with an advice to show.                  *)
LEMMA FailedIsOk == CandidateOk(FailedCandidate)
<1>1. FailedCandidate.status = "failed"
      /\ FailedCandidate.reasons = {"candidate_not_completed", "musicxml_unparseable"}
                    \cup HardReasons(DrumCounts(work.events), work.flags)
  BY DEF FailedCandidate, Candidate, Rejection
<1>2. ShownReasons(FailedCandidate.reasons) # {}
  BY <1>1 DEF ShownReasons, CandidateReanalyzeActions
<1> QED BY <1>1, <1>2 DEF CandidateOk

(* The gate of a candidate without hats finds no stable groove and passes  *)
(* no verdict that lets its score be offered.                              *)
LEMMA GateOfCandidate ==
  ASSUME NEW events, AreEvents(events), NEW sig, NEW score, NEW rate \in Rates \cup {Unmeasured},
         NEW c
  PROVE  LET chart == BuildChart(events, sig)
             aligned == OnsetAlignment(chart, rate)
             gate == EvaluateScore(chart, score, sig, aligned, c)
         IN /\ gate.rate = aligned /\ gate.rate \in (0 .. 1000) \cup {Unmeasured}
            /\ DrumCounts(events)["hi_hat"] = 0 => ~gate.stable /\ ~Judged(gate)
<1> DEFINE chart == BuildChart(events, sig)
           aligned == OnsetAlignment(chart, rate)
           gate == EvaluateScore(chart, score, sig, aligned, c)
           issues == StructureIssues(chart, score, sig) \cup AlignmentIssues(aligned, c)
           judged == ApplyCalibration(issues, aligned, c)
<1>1. gate.rate = aligned /\ gate.stable = CoreGrooveStable(chart, sig)
      /\ gate.verdict = judged.verdict
  BY DEF EvaluateScore
<1>2. aligned \in (0 .. 1000) \cup {Unmeasured}
  BY RatesAssumption DEF OnsetAlignment
<1>3. ASSUME DrumCounts(events)["hi_hat"] = 0
      PROVE  ~CoreGrooveStable(chart, sig) /\ ~Judged(judged)
  <2>1. OfDrum(events, "hi_hat") = {}
    BY <1>3, Counts DEF DrumCounts, Drums
  <2>2. CoreMeasures(chart, sig) = {}
    <3>1. ASSUME CoreMeasures(chart, sig) # {} PROVE OfDrum(events, "hi_hat") # {}
      <4>1. "hi_hat" \in CoreDrums /\ \A e \in events : IsEvent(e)
        BY DEF CoreDrums, AreEvents
      <4> QED BY <3>1, <4>1, CoreIsHeard
    <3> QED BY <2>1, <3>1
  <2>3. ~CoreGrooveStable(chart, sig)
    <3> HIDE DEF chart
    <3> QED BY <2>2, FS_EmptySet DEF CoreGrooveStable
  <2>4. "core_drum_missing" \in issues
    <3> HIDE DEF chart, aligned
    <3> QED BY <2>2, Structure
  <2>5. Judged(judged) => issues \cap ((HardFailures \cup SourceQualityIssues)
                                         \ {"audio_onset_alignment_low"}) = {}
    BY GateVerdict
  <2> HIDE DEF issues, judged, chart
  <2> QED BY <2>3, <2>4, <2>5 DEF HardFailures
<1>4. Judged(gate) <=> Judged(judged)
  BY <1>1 DEF Judged
<1> HIDE DEF gate, aligned, chart, judged, issues
<1> QED BY <1>1, <1>2, <1>3, <1>4 DEF gate, aligned, chart

(* What Judge appends: the candidate and the gate it was judged by. *)
JudgedCandidate(rate) ==
  LET gate == EvaluateScore(work.chart, work.score, work.sig,
                            OnsetAlignment(work.chart, rate), cal)
      counts == DrumCounts(work.events)
      warnings == PublicWarnings(work.chart, work.score, work.sig)
  IN Candidate("completed", QualitySummary(gate, counts, work.flags, warnings),
               Recommend(counts, work.flags, gate, Cardinality(DOMAIN work.score),
                         "notation_dense_full_mix_likely" \in warnings))

(* A candidate the gate judged agrees with its own counts.                 *)
LEMMA JudgedIsOk ==
  ASSUME WorkInv, phase = "gate", NEW rate \in Rates \cup {Unmeasured}
  PROVE  CandidateOk(JudgedCandidate(rate))
<1> DEFINE aligned == OnsetAlignment(work.chart, rate)
           gate == EvaluateScore(work.chart, work.score, work.sig, aligned, cal)
           counts == DrumCounts(work.events)
           warnings == PublicWarnings(work.chart, work.score, work.sig)
           measures == Cardinality(DOMAIN work.score)
           dense == "notation_dense_full_mix_likely" \in warnings
           judged == Recommend(counts, work.flags, gate, measures, dense)
           page == QualitySummary(gate, counts, work.flags, warnings)
           hard == HardReasons(counts, work.flags)
           c == JudgedCandidate(rate)
<1>1. /\ AreEvents(work.events) /\ work.flags = QualityFlags(work.raw, work.events)
      /\ work.chart = BuildChart(work.events, work.sig)
  BY DEF WorkInv
<1>2. /\ c.status = "completed" /\ c.counts = counts /\ c.page = page /\ c.score = judged.score
      /\ c.recommendation = judged.recommendation /\ c.reasons = judged.reasons
      /\ c.rejected = judged.rejected
  <2> HIDE DEF judged, page, counts
  <2> QED BY DEF JudgedCandidate, Candidate, judged, page, counts
<1>3. page.draft = DraftQuality(counts, work.flags)
      /\ page.limitations = Limitations(counts, work.flags)
  BY DEF QualitySummary
<1>4. gate.rate \in (0 .. 1000) \cup {Unmeasured}
      /\ (counts["hi_hat"] = 0 => ~gate.stable /\ ~Judged(gate))
  BY <1>1, GateOfCandidate
<1>5. counts["hi_hat"] \in Nat /\ IsFiniteSet(work.flags)
  BY <1>1, Counts, FlagsOf DEF DrumCounts, Drums
<1> HIDE DEF gate, counts, warnings, measures, dense
<1>6. /\ judged.score \in 0 .. 100
      /\ judged.rejected \in BOOLEAN
      /\ judged.rejected <=> hard # {}
      /\ judged.rejected => /\ judged.recommendation = "reanalyze_recommended"
                            /\ judged.reasons = hard
      /\ counts["hi_hat"] = 0 /\ ~gate.stable /\ ~Judged(gate)
           => judged.recommendation = "reanalyze_recommended"
  BY <1>4, <1>5, Recommendation
<1>7. hard \subseteq CandidateReanalyzeActions /\ (Usable(counts) => hard = {})
  BY <1>1, HardReasonsOf DEF counts
<1>8. QualityAgrees(counts, work.flags, judged.recommendation)
  <2>1. hard # {} \/ counts["hi_hat"] = 0 => judged.recommendation = "reanalyze_recommended"
    BY <1>4, <1>6
  <2> HIDE DEF judged
  <2> QED BY <1>1, <2>1, QualityOfEvents DEF counts, hard
<1> HIDE DEF judged, page, hard, c
<1>9. c.rejected => ShownReasons(c.reasons) # {}
  BY <1>2, <1>6, <1>7 DEF ShownReasons
<1>10. CandidateOk(c)
  BY <1>2, <1>3, <1>6, <1>7, <1>8, <1>9 DEF CandidateOk, QualityAgrees
<1> QED BY <1>10 DEF c

(* Every step keeps the invariant.                                         *)
LEMMA NextInv == Inv /\ [Next]_vars => Inv'
<1> SUFFICES ASSUME Inv, [Next]_vars PROVE Inv'
  OBVIOUS
<1> USE DEF Inv
<1>1. CASE StageFails
  <2>1. EndCandidate(FailedCandidate) /\ phase \notin {"selection", "ended"}
        /\ UNCHANGED <<benchmark, cal, wanted, analysis>>
    BY <1>1 DEF StageFails
  <2> QED BY <2>1, CandidateEnds, FailedIsOk
<1>2. CASE Transcribe
  <2>1. phase = "transcription" /\ phase' = "post_processing"
        /\ UNCHANGED <<benchmark, cal, wanted, done, analysis>>
    BY <1>2 DEF Transcribe
  <2>2. /\ DOMAIN work' = {"sig", "guard", "raw", "events", "flags", "chart", "score"}
        /\ IsFiniteSet(work'.raw) /\ work'.events = NoWork.events
    <3>1. CASE \E take \in Takes : work' = [NoWork EXCEPT !.sig = take.sig, !.guard = take.guard,
                                                          !.raw = take.notes]
      <4>1. PICK take \in Takes : work' = [NoWork EXCEPT !.sig = take.sig, !.guard = take.guard,
                                                        !.raw = take.notes]
        BY <3>1
      <4>2. IsFiniteSet(take.notes)
        BY TakesAssumption
      <4>3. work'.raw = take.notes /\ work'.events = NoWork.events /\ DOMAIN work' = DOMAIN NoWork
        BY <4>1 DEF NoWork
      <4> QED BY <4>2, <4>3, NoWorkOk
    <3>2. CASE \E notes \in CandidateTakes : work' = [NoWork EXCEPT !.raw = notes]
      <4>1. PICK notes \in CandidateTakes : work' = [NoWork EXCEPT !.raw = notes]
        BY <3>2
      <4> QED BY <4>1, NoWorkOk, TakesAssumption
    <3> QED BY <1>2, <3>1, <3>2 DEF Transcribe
  <2>3. WorkInv'
    BY <2>1, <2>2, NoWorkOk DEF WorkInv
  <2> QED BY <2>1, <2>3, SameRanking DEF DoneInv, CalibrationInv, AnalysisInv, NoAnalysis
<1>3. CASE PostProcess
  <2> DEFINE events == Process(work.raw, work.guard)
  <2>1. phase = "post_processing" /\ UNCHANGED <<benchmark, cal, wanted, analysis>>
        /\ \/ EndCandidate(FailedCandidate)
           \/ /\ work' = [work EXCEPT !.events = events, !.flags = QualityFlags(work.raw, events)]
              /\ phase' = "notation"
              /\ UNCHANGED done
    BY <1>3 DEF PostProcess
  <2>2. CASE EndCandidate(FailedCandidate)
    BY <2>1, <2>2, CandidateEnds, FailedIsOk
  <2>3. CASE /\ work' = [work EXCEPT !.events = events, !.flags = QualityFlags(work.raw, events)]
             /\ phase' = "notation"
             /\ UNCHANGED done
    <3>1. AreEvents(events)
      BY ProcessedAreEvents DEF WorkInv
    <3> HIDE DEF events
    <3>2. WorkInv'
      BY <2>1, <2>3, <3>1 DEF WorkInv
    <3> QED BY <2>1, <2>3, <3>2, SameRanking DEF DoneInv, CalibrationInv, AnalysisInv, NoAnalysis
  <2> QED BY <2>1, <2>2, <2>3
<1>4. CASE Notate
  <2>1. phase = "notation" /\ phase' = "gate" /\ UNCHANGED <<benchmark, cal, wanted, done, analysis>>
        /\ \E score : work' = [work EXCEPT !.chart = BuildChart(work.events, work.sig), !.score = score]
    BY <1>4 DEF Notate
  <2>2. WorkInv'
    BY <2>1 DEF WorkInv
  <2> QED BY <2>1, <2>2, SameRanking DEF DoneInv, CalibrationInv, AnalysisInv, NoAnalysis
<1>5. CASE Judge
  <2>1. phase = "gate" /\ UNCHANGED <<benchmark, cal, wanted, analysis>>
        /\ \E rate \in Rates \cup {Unmeasured} : EndCandidate(JudgedCandidate(rate))
    BY <1>5 DEF Judge, JudgedCandidate
  <2>2. PICK rate \in Rates \cup {Unmeasured} : EndCandidate(JudgedCandidate(rate))
    BY <2>1
  <2> QED BY <2>1, <2>2, JudgedIsOk, CandidateEnds
<1>6. CASE Select
  <2>1. phase = "selection" /\ phase' = "ended" /\ UNCHANGED <<benchmark, cal, wanted, work, done>>
    BY <1>6 DEF Select
  <2>2. \/ analysis'.status = "failed"
        \/ /\ analysis'.status = "completed" /\ Completed # {}
           /\ Ranked = <<>> => analysis'.recommended = 0 /\ analysis'.canonical = Min(Completed)
           /\ Ranked # <<>> => analysis'.recommended = Ranked[1] /\ analysis'.canonical = Ranked[1]
    <3>1. analysis' = CASE Completed = {} -> [NoAnalysis EXCEPT !.status = "failed"]
                       [] Completed # {} /\ Ranked = <<>> ->
                            [NoAnalysis EXCEPT !.status = "completed", !.canonical = Min(Completed)]
                       [] OTHER -> [status |-> "completed", recommended |-> Ranked[1],
                                    canonical |-> Ranked[1]]
      BY <1>6 DEF Select
    <3>2. CASE Completed = {}
      BY <3>1, <3>2 DEF NoAnalysis
    <3>3. CASE Completed # {} /\ Ranked = <<>>
      BY <3>1, <3>3 DEF NoAnalysis
    <3>4. CASE Completed # {} /\ Ranked # <<>>
      BY <3>1, <3>4 DEF NoAnalysis
    <3> QED BY <3>2, <3>3, <3>4
  <2>3. WorkInv' /\ DoneInv' /\ CalibrationInv'
    BY <2>1 DEF WorkInv, DoneInv, CalibrationInv
  <2>4. AnalysisInv'
    BY <2>1, <2>2, SameRanking DEF AnalysisInv
  <2> QED BY <2>3, <2>4
<1>7. CASE UNCHANGED vars
  <2>1. UNCHANGED <<phase, benchmark, cal, wanted, work, done, analysis>>
    BY <1>7 DEF vars
  <2>2. WorkInv' /\ DoneInv' /\ CalibrationInv'
    BY <2>1 DEF WorkInv, DoneInv, CalibrationInv
  <2>3. AnalysisInv'
    BY <2>1, SameRanking DEF AnalysisInv
  <2> QED BY <2>2, <2>3
<1> QED BY <1>1, <1>2, <1>3, <1>4, <1>5, <1>6, <1>7 DEF Next

(* In every state: the work of a candidate is consistent with its events,  *)
(* every candidate that ended is judged by its own counts, the calibration *)
(* stays the one of its benchmark and the analysis names the first of the  *)
(* ranking.                                                                *)
THEOREM JudgementsFollowTheLogs == Spec => []Inv
<1>1. Init => Inv
  BY InitInv
<1>2. Inv /\ [Next]_vars => Inv'
  BY NextInv
<1> QED BY <1>1, <1>2, PTL DEF Spec
-----------------------------------------------------------------------------
(***************************************************************************)
(* The ranking.                                                            *)
(***************************************************************************)
Eligible == {i \in Completed : ~done[i].rejected}

Before(i, k) ==
  done[i].score > done[k].score \/ (done[i].score = done[k].score /\ i < k)

IsFirst(r) == r \in Eligible /\ \A i \in Eligible : ~Before(i, r)

(* The candidates a ranking takes are indices of those that ended, with    *)
(* percentages for scores.                                                 *)
LEMMA DoneIndices ==
  ASSUME DoneInv
  PROVE  /\ DOMAIN done \subseteq Nat \ {0} /\ IsFiniteSet(DOMAIN done)
         /\ Completed \subseteq DOMAIN done /\ Eligible \subseteq Completed
         /\ IsFiniteSet(Completed) /\ IsFiniteSet(Eligible)
         /\ \A i \in Eligible : done[i].score \in 0 .. 100
<1>1. PICK T : done \in Seq(T)
  BY DEF DoneInv
<1>2. DOMAIN done = 1 .. Len(done) /\ Len(done) \in Nat
  BY <1>1
<1>3. IsFiniteSet(DOMAIN done)
  <2>1. \A n \in Nat : IsFiniteSet(1 .. n)
    BY FS_Interval
  <2> QED BY <1>2, <2>1
<1>4. Completed \subseteq DOMAIN done /\ Eligible \subseteq Completed
  BY DEF Completed, Eligible
<1>5. IsFiniteSet(Completed) /\ IsFiniteSet(Eligible)
  BY <1>3, <1>4, FS_Subset
<1>6. ASSUME NEW i \in Eligible PROVE done[i].score \in 0 .. 100
  BY <1>4, <1>6 DEF DoneInv, CandidateOk, Eligible, Completed
<1> QED BY <1>2, <1>3, <1>4, <1>5, <1>6

(* A candidate that is eligible implies a first one.                       *)
LEMMA FirstExists ==
  ASSUME DoneInv, Eligible # {}
  PROVE  \E r : IsFirst(r)
<1>1. Eligible \subseteq Nat /\ \A i \in Eligible : done[i].score \in 0 .. 100
  BY DoneIndices
<1>2. PICK low \in {100 - done[i].score : i \in Eligible} :
        \A k \in {100 - done[i].score : i \in Eligible} : low <= k
  <2>1. {100 - done[i].score : i \in Eligible} \subseteq Nat
    BY <1>1
  <2> DEFINE S == {100 - done[i].score : i \in Eligible}
  <2>2. S # {}
    OBVIOUS
  <2> HIDE DEF S
  <2> QED BY <2>1, <2>2, Least DEF S
<1> DEFINE best == {i \in Eligible : 100 - done[i].score = low}
<1>3. best # {} /\ best \subseteq Nat
  BY <1>1
<1>4. PICK r \in best : \A k \in best : r <= k
  <2> HIDE DEF best
  <2> QED BY <1>3, Least
<1>5. ASSUME NEW i \in Eligible, Before(i, r) PROVE FALSE
  <2>1. r \in Eligible /\ 100 - done[r].score = low /\ low <= 100 - done[i].score
    BY <1>2
  <2>2. done[i].score \in 0 .. 100 /\ done[r].score \in 0 .. 100 /\ i \in Nat /\ r \in Nat
    BY <1>1, <2>1
  <2>3. done[i].score > done[r].score \/ (done[i].score = done[r].score /\ i < r)
    BY <1>5 DEF Before
  <2>4. ~(done[i].score > done[r].score)
    <3> DEFINE a == done[i].score  b == done[r].score
    <3>1. a \in Int /\ b \in Int /\ 100 - b = low /\ low <= 100 - a
      BY <2>1, <2>2
    <3> HIDE DEF a, b
    <3>2. ~(a > b)
      BY <3>1
    <3> QED BY <3>2 DEF a, b
  <2>5. i \in best /\ i < r
    BY <2>1, <2>3, <2>4
  <2>6. r <= i
    BY <1>4, <2>5
  <2> QED BY <2>2, <2>5, <2>6
<1>6. IsFirst(r)
  BY <1>5 DEF IsFirst
<1> QED BY <1>6

(* There is only one first.                                                *)
LEMMA FirstIsUnique ==
  ASSUME DoneInv, NEW r, NEW s, IsFirst(r), IsFirst(s)
  PROVE  r = s
<1>1. r \in Nat /\ s \in Nat /\ done[r].score \in 0 .. 100 /\ done[s].score \in 0 .. 100
  BY DoneIndices DEF IsFirst
<1>2. ~Before(r, s) /\ ~Before(s, r)
  BY DEF IsFirst
<1> DEFINE a == done[r].score  b == done[s].score
<1>3. ~(a > b) /\ ~(b > a) /\ (a = b => ~(r < s) /\ ~(s < r))
  BY <1>2 DEF Before
<1>4. a \in Int /\ b \in Int
  BY <1>1
<1> HIDE DEF a, b
<1> QED BY <1>1, <1>3, <1>4

(* The ranking starts with it, and is empty only if nothing is eligible.   *)
LEMMA FirstOfRanked ==
  ASSUME DoneInv
  PROVE  /\ Ranked = <<>> <=> Eligible = {}
         /\ Ranked # <<>> => IsFirst(Ranked[1]) /\ Len(Ranked) \in Nat /\ Len(Ranked) >= 1
         /\ Ranked = [n \in 1 .. Cardinality(Eligible) |-> Ranked[n]]
<1> DEFINE behind(x) == {y \in Eligible : Before(y, x)}
           N == Cardinality(Eligible)
<1>1. Ranked = [n \in 1 .. N |-> CHOOSE x \in Eligible : Cardinality(behind(x)) = n - 1]
  BY DEF Ranked, Ordered, Eligible, Before
<1>2. N \in Nat /\ (N = 0 <=> Eligible = {})
  BY DoneIndices, FS_CardinalityType, FS_EmptySet
<1>3. DOMAIN Ranked = 1 .. N /\ Len(Ranked) = N
  BY <1>1, <1>2
<1>4. Ranked = <<>> <=> Eligible = {}
  BY <1>1, <1>2, <1>3
<1>5. ASSUME Eligible # {} PROVE IsFirst(Ranked[1])
  <2>1. PICK r : IsFirst(r)
    BY <1>5, FirstExists
  <2>2. \A x : IsFiniteSet(behind(x)) /\ (Cardinality(behind(x)) = 0 <=> behind(x) = {})
    <3>1. ASSUME NEW x PROVE IsFiniteSet(behind(x))
      BY DoneIndices, FS_Subset
    <3> HIDE DEF behind
    <3> QED BY <3>1, FS_EmptySet
  <2>3. r \in Eligible /\ Cardinality(behind(r)) = 0
    BY <2>1, <2>2 DEF IsFirst
  <2>4. Ranked[1] = CHOOSE x \in Eligible : Cardinality(behind(x)) = 1 - 1
    <3>1. 1 \in 1 .. N
      BY <1>2, <1>5
    <3> HIDE DEF behind, N
    <3> QED BY <1>1, <3>1
  <2>5. Ranked[1] \in Eligible /\ Cardinality(behind(Ranked[1])) = 0
    <3> HIDE DEF behind
    <3> QED BY <2>3, <2>4
  <2>6. behind(Ranked[1]) = {}
    BY <2>2, <2>5
  <2> QED BY <2>5, <2>6 DEF IsFirst
<1> HIDE DEF N, behind
<1> QED BY <1>1, <1>2, <1>3, <1>4, <1>5 DEF N

(* The benchmark, which ranks again from the logs, finds the head of the   *)
(* ranking.                                                                *)
LEMMA Reevaluated ==
  ASSUME DoneInv
  PROVE  /\ Eligible = {} => EvaluateCandidates(done) = 0
         /\ \A r : IsFirst(r) => EvaluateCandidates(done) = r
<1> DEFINE scores == {done[i].score : i \in Eligible}
           best == Max(scores)
           top == {i \in Eligible : done[i].score = best}
<1>1. EvaluateCandidates(done) = IF Eligible = {} THEN 0 ELSE Min(top)
  BY DEF EvaluateCandidates, Eligible, Completed
<1>2. ASSUME NEW r, IsFirst(r) PROVE EvaluateCandidates(done) = r
  <2>1. r \in Eligible /\ Eligible \subseteq Nat /\ \A i \in Eligible : done[i].score \in 0 .. 100
    BY <1>2, DoneIndices DEF IsFirst
  <2>2. \A i \in Eligible : ~(done[i].score > done[r].score)
                            /\ (done[i].score = done[r].score => ~(i < r))
    BY <1>2 DEF IsFirst, Before
  <2>3. scores \subseteq Int /\ done[r].score \in scores
        /\ \A x \in scores : done[r].score >= x
    <3>1. ASSUME NEW i \in Eligible PROVE done[i].score \in Int /\ done[r].score >= done[i].score
      <4> DEFINE a == done[i].score  b == done[r].score
      <4>1. a \in Int /\ b \in Int /\ ~(a > b)
        BY <2>1, <2>2
      <4> HIDE DEF a, b
      <4>2. b >= a
        BY <4>1
      <4> QED BY <4>1, <4>2 DEF a, b
    <3> QED BY <2>1, <3>1
  <2>4. best = done[r].score
    <3> HIDE DEF scores
    <3>1. best \in scores /\ \A x \in scores : best >= x
      BY <2>3 DEF Max
    <3>2. best \in Int /\ done[r].score \in Int /\ best >= done[r].score /\ done[r].score >= best
      BY <2>3, <3>1
    <3> HIDE DEF best
    <3> DEFINE b == done[r].score
    <3>3. b \in Int /\ best >= b /\ b >= best
      BY <3>2
    <3> HIDE DEF b
    <3>4. best = b
      BY <3>2, <3>3
    <3> QED BY <3>4 DEF b
  <2>5. r \in top /\ top \subseteq Nat /\ \A i \in top : r <= i
    <3>1. \A i \in top : i \in Eligible /\ done[i].score = done[r].score
      BY <2>4
    <3>2. \A i \in top : i \in Nat /\ ~(i < r)
      BY <2>1, <2>2, <3>1
    <3>3. r \in top
      BY <2>1, <2>4
    <3> HIDE DEF top
    <3> QED BY <2>1, <3>2, <3>3
  <2> HIDE DEF top
  <2>6. Min(top) \in top /\ \A i \in top : Min(top) <= i
    BY <2>5 DEF Min
  <2>7. Min(top) = r
    <3>1. Min(top) \in Nat /\ r \in Nat /\ Min(top) <= r /\ r <= Min(top)
      BY <2>5, <2>6
    <3> QED BY <3>1
  <2> QED BY <1>1, <2>1, <2>7
<1> QED BY <1>1, <1>2

(* The page, which sorts in its own way, lists the same one first.         *)
LEMMA HeadOfShown ==
  ASSUME DoneInv, Eligible # {}
  PROVE  Head(ShownCandidates(Ranked, done)) = Ranked[1]
<1> DEFINE S == {i \in DOMAIN done : \A k \in DOMAIN Ranked : Ranked[k] # i}
           N == Cardinality(S)
           rest == Ordered(S, <)
<1>1. N \in Nat
  BY DoneIndices, FS_Subset, FS_CardinalityType
<1>2. rest = [n \in 1 .. N |-> rest[n]]
  <2>1. rest = [n \in 1 .. N |-> CHOOSE x \in S : Cardinality({y \in S : y < x}) = n - 1]
    BY DEF Ordered
  <2>2. \E f : rest = [n \in 1 .. N |-> f[n]]
    BY <2>1
  <2> HIDE DEF rest, N
  <2> QED BY <2>2
<1>3. Ranked = [n \in 1 .. Cardinality(Eligible) |-> Ranked[n]] /\ Ranked # <<>>
      /\ Cardinality(Eligible) \in Nat /\ Cardinality(Eligible) >= 1
  BY FirstOfRanked, DoneIndices, FS_CardinalityType, FS_EmptySet
<1>4. ShownCandidates(Ranked, done) = Ranked \o rest
  BY DEF ShownCandidates
<1> HIDE DEF S, N, rest
<1>5. ASSUME NEW f, NEW n \in Nat, f = [i \in 1 .. n |-> f[i]]
      PROVE  f \in Seq({f[i] : i \in 1 .. n}) /\ Len(f) = n
  BY <1>5
<1>6. PICK T : Ranked \in Seq(T) /\ Len(Ranked) >= 1
  BY <1>3, <1>5
<1>7. PICK U : rest \in Seq(U)
  BY <1>1, <1>2, <1>5
<1>8. Ranked \in Seq(T \cup U) /\ rest \in Seq(T \cup U)
  BY <1>6, <1>7
<1>9. (Ranked \o rest)[1] = Ranked[1] /\ Ranked \o rest # <<>>
  BY <1>6, <1>8
<1>10. Head(Ranked \o rest) = (Ranked \o rest)[1]
  BY <1>8, <1>9
<1> QED BY <1>4, <1>9, <1>10

(* The first candidate that completed, where there is one.                 *)
LEMMA FirstCompleted ==
  ASSUME DoneInv, Completed # {}
  PROVE  Min(Completed) \in Completed
<1>1. Completed \in SUBSET Nat
  BY DoneIndices
<1>2. PICK m \in Completed : \A k \in Completed : m <= k
  BY <1>1, Least
<1> QED BY <1>2 DEF Min

(* On a fresh page the recommended candidate is open, or the canonical     *)
(* one.                                                                    *)
LEMMA OpensTheRecommended ==
  ASSUME NEW a, NEW shown, a.recommended # 0 \/ a.canonical # 0
  PROVE  OpenCandidate(a, SelectedCandidate(a, 0, shown))
           = IF a.recommended # 0 THEN a.recommended ELSE a.canonical
BY DEF OpenCandidate, SelectedCandidate

(* The recommendation is sound in every state of the invariant.            *)
LEMMA SoundRecommendation == Inv => RecommendationIsSound
<1> SUFFICES ASSUME Inv PROVE RecommendationIsSound
  OBVIOUS
<1>0. DoneInv /\ AnalysisInv
  BY DEF Inv
<1> DEFINE usable == {i \in Completed : LET counts == done[i].counts
                                        IN /\ counts["kick"] > 0 /\ counts["snare"] > 0
                                           /\ EventCount(counts) >= 8
                                           /\ 4 * counts["tom"] < 3 * EventCount(counts)}
           r == analysis.recommended
           shown == ShownCandidates(Ranked, done)
           open == OpenCandidate(analysis, SelectedCandidate(analysis, 0, shown))
<1>1. usable \subseteq Eligible
  <2>1. ASSUME NEW i \in usable PROVE i \in Eligible
    <3>1. i \in Completed /\ Usable(done[i].counts)
      BY <2>1 DEF Usable
    <3>2. i \in DOMAIN done /\ done[i].status = "completed"
      BY <3>1 DEF Completed
    <3>3. ~done[i].rejected
      BY <1>0, <3>1, <3>2 DEF DoneInv, CandidateOk
    <3> QED BY <3>1, <3>3 DEF Eligible
  <2> QED BY <2>1
<1>2. Choosable(done) = Completed
  BY DEF Choosable, Completed
<1>3. \A i \in Completed : i # 0 /\ i \in DOMAIN done /\ done[i].status = "completed"
  BY <1>0, DoneIndices DEF Completed
<1>4. ASSUME analysis.status = "completed", Ranked # <<>>
      PROVE  /\ r = EvaluateCandidates(done) /\ open \in Choosable(done) /\ r # 0
             /\ r = open /\ Head(shown) = r /\ ~done[r].rejected
             /\ \A i \in usable : done[i].score < done[r].score
                                  \/ (done[i].score = done[r].score /\ r <= i)
  <2>1. r = Ranked[1] /\ IsFirst(r) /\ Eligible # {}
    BY <1>0, <1>4, FirstOfRanked DEF AnalysisInv
  <2>2. r \in Completed /\ r # 0 /\ ~done[r].rejected
    BY <1>3, <2>1 DEF IsFirst, Eligible
  <2>3. r = EvaluateCandidates(done)
    BY <1>0, <2>1, Reevaluated
  <2>4. Head(shown) = r
    BY <1>0, <2>1, HeadOfShown
  <2>5. open = r
    <3> HIDE DEF shown
    <3> QED BY <2>2, OpensTheRecommended
  <2>6. ASSUME NEW i \in usable
        PROVE  done[i].score < done[r].score \/ (done[i].score = done[r].score /\ r <= i)
    <3>1. i \in Eligible /\ r \in Eligible
      BY <1>1, <2>1 DEF IsFirst
    <3>2. i \in Nat /\ r \in Nat /\ done[i].score \in 0 .. 100 /\ done[r].score \in 0 .. 100
      BY <1>0, <3>1, DoneIndices
    <3>3. ~(done[i].score > done[r].score) /\ (done[i].score = done[r].score => ~(i < r))
      BY <2>1, <3>1 DEF IsFirst, Before
    <3> DEFINE a == done[i].score  b == done[r].score
    <3>4. a \in Int /\ b \in Int /\ ~(a > b) /\ (a = b => ~(i < r))
      BY <3>2, <3>3
    <3> HIDE DEF a, b
    <3>5. a < b \/ (a = b /\ r <= i)
      BY <3>2, <3>4
    <3> QED BY <3>5 DEF a, b
  <2> HIDE DEF shown, open, usable
  <2> QED BY <1>2, <2>2, <2>3, <2>4, <2>5, <2>6
<1>5. ASSUME analysis.status = "completed", Ranked = <<>>
      PROVE  /\ r = EvaluateCandidates(done) /\ open \in Choosable(done) /\ r = 0
             /\ usable = {} /\ open = Min(Completed)
             /\ PracticeLabel(done[open].recommendation) = "analyse again"
  <2>1. Eligible = {} /\ r = 0 /\ analysis.canonical = Min(Completed) /\ Completed # {}
    BY <1>0, <1>5, FirstOfRanked DEF AnalysisInv
  <2>2. Min(Completed) \in Completed
    BY <1>0, <2>1, FirstCompleted
  <2>3. analysis.canonical # 0
    BY <1>3, <2>1, <2>2
  <2>4. open = Min(Completed)
    <3> HIDE DEF shown
    <3> QED BY <2>1, <2>3, OpensTheRecommended
  <2> HIDE DEF open, shown, usable
  <2>5. open \in DOMAIN done /\ done[open].status = "completed" /\ open \notin Eligible
    BY <1>3, <2>1, <2>2, <2>4
  <2>6. done[open].rejected
    BY <2>1, <2>2, <2>4 DEF Eligible
  <2>7. done[open].recommendation = "reanalyze_recommended"
    BY <1>0, <2>5, <2>6 DEF DoneInv, CandidateOk
  <2>8. PracticeLabel(done[open].recommendation) = "analyse again"
    BY <2>7 DEF PracticeLabel
  <2>9. r = EvaluateCandidates(done)
    BY <1>0, <2>1, Reevaluated
  <2> QED BY <1>1, <1>2, <2>1, <2>2, <2>4, <2>8, <2>9
<1>6. ASSUME NEW i \in DOMAIN done
      PROVE  /\ done[i].rejected => ShownReasons(done[i].reasons) # {}
             /\ i \in Completed =>
                  LET panel == QualityPanel(done[i].page)
                  IN CASE panel.tone = "error" ->
                            /\ PracticeLabel(done[i].recommendation) = "analyse again"
                            /\ panel.limitations # {}
                       [] panel.tone = "ready" -> panel.limitations = {}
                       [] OTHER -> TRUE
  <2> DEFINE page == done[i].page
  <2>1. QualityPanel(page).tone = QualityTone(page.draft)
        /\ QualityPanel(page).limitations = page.limitations
    BY DEF QualityPanel
  <2>2. CandidateOk(done[i])
    BY <1>0 DEF DoneInv
  <2>3. i \in Completed => done[i].status = "completed"
    BY DEF Completed
  <2>4. done[i].recommendation = "reanalyze_recommended"
          => PracticeLabel(done[i].recommendation) = "analyse again"
    BY DEF PracticeLabel
  <2> QED BY <2>1, <2>2, <2>3, <2>4 DEF CandidateOk
<1>7. analysis.status = "completed" =>
          /\ r = EvaluateCandidates(done)
          /\ open \in Choosable(done)
          /\ r # 0 => /\ r = open /\ Head(shown) = r /\ ~done[r].rejected
                      /\ \A i \in usable : done[i].score < done[r].score
                                           \/ (done[i].score = done[r].score /\ r <= i)
          /\ r = 0 => /\ usable = {} /\ open = Min(Completed)
                      /\ PracticeLabel(done[open].recommendation) = "analyse again"
  <2> HIDE DEF open, shown, usable
  <2> QED BY <1>4, <1>5
<1> QED BY <1>6, <1>7 DEF RecommendationIsSound

(* The recommended candidate is the best of those that qualify and the one *)
(* a page opens and lists first; what the page says of a candidate agrees  *)
(* with its judgement (evaluate_candidate_recommendation, the ranking of   *)
(* _run_candidate_analysis, CandidateAnalysisPanel), for any number of     *)
(* candidates and any transcriptions.                                      *)
THEOREM TheBestIsRecommended == Spec => []RecommendationIsSound
<1>1. Inv => RecommendationIsSound
  BY SoundRecommendation
<1> QED BY <1>1, JudgementsFollowTheLogs, PTL
-----------------------------------------------------------------------------
(***************************************************************************)
(* Delivery.                                                               *)
(***************************************************************************)
LEMMA CalibratedOnRealMixes ==
  ASSUME NEW runs, CalibrateGate(runs).realFullMix
  PROVE  \E r \in runs : r.passed /\ r.real /\ r.type = "full_mix"
BY DEF CalibrateGate

(* A calibration made from runs delivers none of them that missed its      *)
(* reference: apply_gate_calibration allows no more than calibrate_gate    *)
(* simulated.                                                              *)
LEMMA CalibrationMissesNone ==
  ASSUME NEW runs, NEW r \in runs, r.eligible, ~r.passed,
         CalibrateGate(runs).status = "calibrated"
  PROVE  ~ApplyCalibration(r.issues, r.rate, CalibrateGate(runs)).allowed
<1> DEFINE c == CalibrateGate(runs)
<1>1. ~SimulatedReady(r, c.threshold)
  BY DEF CalibrateGate
<1> HIDE DEF c
<1>2. SUFFICES ASSUME ApplyCalibration(r.issues, r.rate, c).allowed PROVE FALSE
  BY DEF c
<1>3. IsAuthorized(c) /\ c # NoCalibration /\ IsRate(r.rate) /\ IsRate(c.threshold)
      /\ r.rate >= c.threshold
  BY <1>2, GateVerdict
<1>4. r.issues \ (ProvisionalIssues \cup {"audio_onset_alignment_low"}) = {}
  BY <1>2, <1>3 DEF ApplyCalibration
<1> QED BY <1>1, <1>3, <1>4 DEF SimulatedReady

(* An alignment that reaches an authorized threshold is not called low.    *)
LEMMA NoAlignmentIssueAbove ==
  ASSUME NEW rate, NEW c, IsAuthorized(c), IsRate(rate), IsRate(c.threshold), rate >= c.threshold
  PROVE  AlignmentIssues(rate, c) = {}
<1> DEFINE t == c.threshold
<1>1. rate # Unmeasured /\ ~(rate < c.threshold)
  <2>1. rate \in Int /\ t \in Int /\ 0 <= rate /\ t <= rate
    BY DEF IsRate
  <2> HIDE DEF t
  <2>2. rate # Unmeasured /\ ~(rate < t)
    BY <2>1 DEF Unmeasured
  <2> QED BY <2>2 DEF t
<1>2. RequiredAlignment(c) = c.threshold
  BY DEF RequiredAlignment, IsAuthorized
<1> QED BY <1>1, <1>2 DEF AlignmentIssues

(* What the page and the packet make of a verdict. *)
LEMMA PageOfVerdict ==
  ASSUME NEW issues, NEW allowed \in BOOLEAN,
         NEW verdict \in {"performance_ready", "playable_but_low_confidence",
                          "needs_better_source", "not_ready"},
         allowed <=> verdict = "performance_ready",
         allowed => issues = {},
         verdict \in {"needs_better_source", "not_ready"} => issues \cap PublicIssues # {}
  PROVE  LET gate == PublicGate([verdict |-> verdict, allowed |-> allowed, issues |-> issues])
         IN /\ allowed = (DeliveryLabel(gate) = "ready to perform")
            /\ allowed = (DeliveryNote(gate) = "all checked")
            /\ allowed = (ExportPrefix(gate) = "Performance")
            /\ allowed = (ZipNames(gate) = "performance")
            /\ allowed = (PacketNote(gate) = "verified")
            /\ ~ShowsDownloads(gate) => DeliveryNote(gate) = "limits"
            /\ ShowsDownloads(gate) <=> verdict \in {"performance_ready", "playable_but_low_confidence"}
<1> DEFINE gate == PublicGate([verdict |-> verdict, allowed |-> allowed, issues |-> issues])
           shown == issues \cap PublicIssues
<1>1. gate.verdict = verdict /\ gate.allowed = allowed /\ gate.issues = shown
      /\ gate.status = DeliveryStatus(verdict)
  BY DEF PublicGate
<1>2. verdict = "performance_ready" => gate.status = "verified_performance_score"
  BY <1>1 DEF DeliveryStatus
<1> HIDE DEF gate
<1>3. allowed <=> IsVerifiedPerformanceScore(gate)
  BY <1>1, <1>2 DEF IsVerifiedPerformanceScore
<1>4. allowed <=> PacketIsVerified(gate)
  BY <1>1, <1>2 DEF PacketIsVerified
<1> HIDE DEF shown
<1>5. allowed => shown = {}
  BY DEF shown
<1>6. verdict \in {"needs_better_source", "not_ready"} => shown # {}
  BY DEF shown
<1>7. allowed <=> DeliveryLabel(gate) = "ready to perform"
  BY <1>1, <1>3 DEF DeliveryLabel
<1>8. allowed <=> DeliveryNote(gate) = "all checked"
  BY <1>1, <1>3, <1>5, <1>6 DEF DeliveryNote
<1>9. (allowed <=> ExportPrefix(gate) = "Performance") /\ (allowed <=> ZipNames(gate) = "performance")
  BY <1>3, <1>4 DEF ExportPrefix, ZipNames
<1>10. allowed <=> PacketNote(gate) = "verified"
  BY <1>1, <1>4 DEF PacketNote
<1>11. ShowsDownloads(gate) <=> verdict \in {"performance_ready", "playable_but_low_confidence"}
  BY <1>1, <1>3 DEF ShowsDownloads
<1>12. ~ShowsDownloads(gate) => DeliveryNote(gate) = "limits"
  BY <1>1, <1>6, <1>11 DEF DeliveryNote
<1>13. \A b \in BOOLEAN : (allowed <=> b) => allowed = b
  OBVIOUS
<1> QED BY <1>7, <1>8, <1>9, <1>10, <1>11, <1>12, <1>13 DEF gate

(* What DeliveredIsChecked says of a page, at the gate. *)
Delivery(page) ==
  LET gate == page.gate
      delivered == gate.allowed
  IN /\ delivered => cal.status = "calibrated" /\ cal.realFullMix
     /\ delivered /\ benchmark # {} =>
          /\ \E r \in benchmark : r.passed /\ r.real /\ r.type = "full_mix"
          /\ \A r \in benchmark :
               r.eligible /\ ~r.passed => ~ApplyCalibration(r.issues, r.rate, cal).allowed
     /\ delivered = (DeliveryLabel(gate) = "ready to perform")
     /\ delivered = (DeliveryNote(gate) = "all checked")
     /\ delivered = (ExportPrefix(gate) = "Performance")
     /\ delivered = (ZipNames(gate) = "performance")
     /\ delivered = (PacketNote(gate) = "verified")
     /\ delivered =>
          page.limitations \cap {"kick_missing", "snare_missing", "hihat_missing",
                                 "no_snare_detected"} = {}
     /\ ~ShowsDownloads(gate) => DeliveryNote(gate) = "limits"
     /\ ShowsDownloads(gate) =>
          /\ \A i \in DOMAIN work.score : MeasureIsComplete(work.score[i], work.sig)
          /\ Cardinality(CoreMeasures(work.chart, work.sig)) >= 2
          /\ ReadabilityVerdict(work.chart, work.score) # "still_too_dense"
          /\ ~FragmentedGroove(work.chart, work.score)

(* A chart without a dense measure is not called too dense.                *)
LEMMA NotTooDense ==
  ASSUME NEW events, NEW sig, NEW score, BuildChart(events, sig).dense = {}
  PROVE  ReadabilityVerdict(BuildChart(events, sig), score) # "still_too_dense"
<1> DEFINE chart == BuildChart(events, sig)
<1>1. chart.verdict # "still_too_dense"
  BY DEF BuildChart, ChartOf
<1> HIDE DEF chart
<1>2. ReadabilityVerdict(chart, score) # "still_too_dense"
  BY <1>1 DEF ReadabilityVerdict
<1> QED BY <1>2 DEF chart

(* A draft whose core drums are all heard has no limit that says one is    *)
(* missing.                                                                *)
LEMMA NothingMissing ==
  ASSUME NEW raw, NEW events, AreEvents(events),
         \A d \in CoreDrums : OfDrum(events, d) # {}
  PROVE  Limitations(DrumCounts(events), QualityFlags(raw, events))
           \cap {"kick_missing", "snare_missing", "hihat_missing", "no_snare_detected"} = {}
<1> DEFINE counts == DrumCounts(events)
           flags == QualityFlags(raw, events)
<1>1. counts["kick"] # 0 /\ counts["snare"] # 0 /\ counts["hi_hat"] # 0
  <2>1. \A d \in CoreDrums : d \in Drums /\ CountOf(events, d) # 0
    BY Counts DEF CoreDrums, Drums
  <2> QED BY <2>1 DEF DrumCounts, CoreDrums, Drums
<1>2. "no_snare_detected" \notin flags
  <2>1. CountOf(events, "snare") # 0
    BY Counts DEF CoreDrums, Drums
  <2> HIDE DEF flags
  <2> QED BY <2>1, FlagsOf DEF flags
<1> HIDE DEF counts, flags
<1>3. Limitations(counts, flags)
        \cap {"kick_missing", "snare_missing", "hihat_missing", "no_snare_detected"} = {}
  BY <1>1, <1>2 DEF Limitations, BlockingCandidateFlags
<1> QED BY <1>3 DEF counts, flags

(* What the gate judged is delivered as the property says.                 *)
LEMMA JudgedIsDelivered ==
  ASSUME WorkInv, CalibrationInv, phase = "gate", NEW rate \in Rates \cup {Unmeasured}
  PROVE  Delivery(JudgedCandidate(rate).page)
<1> DEFINE aligned == OnsetAlignment(work.chart, rate)
           structure == StructureIssues(work.chart, work.score, work.sig)
           issues == structure \cup AlignmentIssues(aligned, cal)
           judged == ApplyCalibration(issues, aligned, cal)
           faults == HardFailures \cup SourceQualityIssues
           page == JudgedCandidate(rate).page
           gate == page.gate
           public == PublicGate([verdict |-> judged.verdict, allowed |-> judged.allowed,
                                 issues |-> judged.issues])
           missing == {"kick_missing", "snare_missing", "hihat_missing", "no_snare_detected"}
<1>1. /\ AreEvents(work.events) /\ work.flags = QualityFlags(work.raw, work.events)
      /\ work.chart = BuildChart(work.events, work.sig)
  BY DEF WorkInv
<1>2. /\ page.limitations = Limitations(DrumCounts(work.events), work.flags)
      /\ gate = public
  <2>1. page = QualitySummary(EvaluateScore(work.chart, work.score, work.sig, aligned, cal),
                              DrumCounts(work.events), work.flags,
                              PublicWarnings(work.chart, work.score, work.sig))
    BY DEF JudgedCandidate, Candidate
  <2> HIDE DEF page
  <2> QED BY <2>1 DEF QualitySummary, EvaluateScore, PublicGate
<1>3. "audio_onset_alignment_low" \notin structure
  BY Structure
<1>4. IsAuthorized(cal) /\ IsRate(aligned) /\ IsRate(cal.threshold) /\ aligned >= cal.threshold
        => "audio_onset_alignment_low" \notin issues
  <2> HIDE DEF structure, aligned
  <2> QED BY <1>3, NoAlignmentIssueAbove
<1> HIDE DEF structure, aligned
<1>5. /\ judged.allowed \in BOOLEAN
      /\ judged.allowed <=> judged.verdict = "performance_ready"
      /\ judged.allowed => /\ IsAuthorized(cal) /\ judged.issues = {}
      /\ Judged(judged) => issues \cap (faults \ {"audio_onset_alignment_low"}) = {}
      /\ ~Judged(judged) => judged.verdict \in {"needs_better_source", "not_ready"}
      /\ ~Judged(judged) => judged.issues \cap faults # {}
  <2> HIDE DEF issues
  <2> QED BY <1>4, GateVerdict
<1>6. faults \subseteq PublicIssues
  BY DEF HardFailures, SourceQualityIssues, PublicIssues
<1>7. /\ judged.allowed = (DeliveryLabel(public) = "ready to perform")
      /\ judged.allowed = (DeliveryNote(public) = "all checked")
      /\ judged.allowed = (ExportPrefix(public) = "Performance")
      /\ judged.allowed = (ZipNames(public) = "performance")
      /\ judged.allowed = (PacketNote(public) = "verified")
      /\ ~ShowsDownloads(public) => DeliveryNote(public) = "limits"
      /\ ShowsDownloads(public) <=> Judged(judged)
      /\ public.allowed = judged.allowed
  <2>1. judged.verdict \in {"performance_ready", "playable_but_low_confidence",
                            "needs_better_source", "not_ready"}
    <3> HIDE DEF judged, issues, faults
    <3> QED BY <1>5 DEF Judged
  <2>2. judged.verdict \in {"needs_better_source", "not_ready"} => judged.issues \cap PublicIssues # {}
    <3> HIDE DEF judged, issues, faults
    <3> QED BY <1>5, <1>6 DEF Judged
  <2>3. public.allowed = judged.allowed
    BY DEF PublicGate
  <2>4. (judged.allowed => judged.issues = {})
        /\ (Judged(judged) <=> judged.verdict \in {"performance_ready", "playable_but_low_confidence"})
    BY <1>5 DEF Judged
  <2> DEFINE verdict == judged.verdict
             allowed == judged.allowed
             found == judged.issues
  <2> HIDE DEF judged, issues, faults
  <2>5. allowed \in BOOLEAN /\ (allowed <=> verdict = "performance_ready") /\ (allowed => found = {})
        /\ verdict \in {"performance_ready", "playable_but_low_confidence",
                         "needs_better_source", "not_ready"}
        /\ (verdict \in {"needs_better_source", "not_ready"} => found \cap PublicIssues # {})
    BY <1>5, <2>1, <2>2, <2>4
  <2>6. public = PublicGate([verdict |-> verdict, allowed |-> allowed, issues |-> found])
    OBVIOUS
  <2> HIDE DEF public, verdict, allowed, found
  <2>7. /\ allowed = (DeliveryLabel(public) = "ready to perform")
        /\ allowed = (DeliveryNote(public) = "all checked")
        /\ allowed = (ExportPrefix(public) = "Performance")
        /\ allowed = (ZipNames(public) = "performance")
        /\ allowed = (PacketNote(public) = "verified")
        /\ ~ShowsDownloads(public) => DeliveryNote(public) = "limits"
        /\ ShowsDownloads(public)
             <=> verdict \in {"performance_ready", "playable_but_low_confidence"}
    <3> DEFINE g == PublicGate([verdict |-> verdict, allowed |-> allowed, issues |-> found])
    <3>1. /\ allowed = (DeliveryLabel(g) = "ready to perform")
          /\ allowed = (DeliveryNote(g) = "all checked")
          /\ allowed = (ExportPrefix(g) = "Performance")
          /\ allowed = (ZipNames(g) = "performance")
          /\ allowed = (PacketNote(g) = "verified")
          /\ ~ShowsDownloads(g) => DeliveryNote(g) = "limits"
          /\ ShowsDownloads(g)
               <=> verdict \in {"performance_ready", "playable_but_low_confidence"}
      BY <2>5, PageOfVerdict
    <3>2. public = g
      BY <2>6
    <3> HIDE DEF g
    <3> QED BY <3>1, <3>2
  <2> QED BY <2>3, <2>4, <2>7 DEF verdict, allowed
<1> HIDE DEF judged
<1>8. ASSUME Judged(judged)
      PROVE  /\ \A i \in DOMAIN work.score : MeasureIsComplete(work.score[i], work.sig)
             /\ Cardinality(CoreMeasures(work.chart, work.sig)) >= 2
             /\ CoreMeasures(work.chart, work.sig) # {}
             /\ ReadabilityVerdict(work.chart, work.score) # "still_too_dense"
             /\ ~FragmentedGroove(work.chart, work.score)
  <2>1. structure \cap {"measure_duration_incomplete", "notation_fragmented_groove_rhythm",
                        "core_groove_unstable", "core_drum_missing", "notation_chart_still_dense"}
          = {}
    BY <1>5, <1>8 DEF HardFailures, SourceQualityIssues
  <2>2. /\ \A i \in DOMAIN work.score : MeasureIsComplete(work.score[i], work.sig)
        /\ CoreGrooveStable(work.chart, work.sig)
        /\ CoreMeasures(work.chart, work.sig) # {}
        /\ work.chart.dense = {}
        /\ ~FragmentedGroove(work.chart, work.score)
    BY <2>1, Structure DEF structure
  <2>3. Cardinality(CoreMeasures(work.chart, work.sig)) >= 2
    BY <2>2 DEF CoreGrooveStable
  <2>4. ReadabilityVerdict(work.chart, work.score) # "still_too_dense"
    BY <1>1, <2>2, NotTooDense
  <2> QED BY <2>2, <2>3, <2>4
<1>9. judged.allowed => Judged(judged)
  BY <1>5 DEF Judged
<1>10. judged.allowed => page.limitations \cap missing = {}
  <2> SUFFICES ASSUME judged.allowed PROVE page.limitations \cap missing = {}
    OBVIOUS
  <2>1. \A d \in CoreDrums : OfDrum(work.events, d) # {}
    <3>1. CoreMeasures(BuildChart(work.events, work.sig), work.sig) # {}
      BY <1>1, <1>8, <1>9
    <3>2. \A e \in work.events : IsEvent(e)
      BY <1>1 DEF AreEvents
    <3> QED BY <3>1, <3>2, CoreIsHeard
  <2>2. Limitations(DrumCounts(work.events), QualityFlags(work.raw, work.events)) \cap missing = {}
    BY <1>1, <2>1, NothingMissing
  <2> QED BY <1>1, <1>2, <2>2
<1>11. judged.allowed => cal.status = "calibrated" /\ cal.realFullMix
  BY <1>5 DEF IsAuthorized
<1>12. judged.allowed /\ benchmark # {} =>
         /\ \E r \in benchmark : r.passed /\ r.real /\ r.type = "full_mix"
         /\ \A r \in benchmark :
              r.eligible /\ ~r.passed => ~ApplyCalibration(r.issues, r.rate, cal).allowed
  <2> SUFFICES ASSUME judged.allowed, benchmark # {}
               PROVE  /\ \E r \in benchmark : r.passed /\ r.real /\ r.type = "full_mix"
                      /\ \A r \in benchmark :
                           r.eligible /\ ~r.passed => ~ApplyCalibration(r.issues, r.rate, cal).allowed
    OBVIOUS
  <2>1. cal = CalibrateGate(benchmark) /\ cal.status = "calibrated" /\ cal.realFullMix
    BY <1>11 DEF CalibrationInv
  <2>2. \E r \in benchmark : r.passed /\ r.real /\ r.type = "full_mix"
    BY <2>1, CalibratedOnRealMixes
  <2>3. ASSUME NEW r \in benchmark, r.eligible, ~r.passed
        PROVE  ~ApplyCalibration(r.issues, r.rate, cal).allowed
    BY <2>1, <2>3, CalibrationMissesNone
  <2> QED BY <2>2, <2>3
<1> HIDE DEF issues, faults, public, page
<1>13. Delivery(page)
  BY <1>2, <1>7, <1>8, <1>9, <1>10, <1>11, <1>12 DEF Delivery, missing
<1> QED BY <1>13 DEF page

(* Only a judgement adds a candidate that completed, and it is delivered   *)
(* as the property says.                                                   *)
LEMMA DeliveryStep ==
  Inv /\ [Next]_vars
    => [Len(done') > Len(done) /\ done'[Len(done')].status = "completed"
          => Delivery(done'[Len(done')].page)]_vars
<1> SUFFICES ASSUME Inv, Next, Len(done') > Len(done), done'[Len(done')].status = "completed"
             PROVE  Delivery(done'[Len(done')].page)
  BY DEF vars
<1>1. PICK T : done \in Seq(T)
  BY DEF Inv, DoneInv
<1>2. \A c : EndCandidate(c) => done'[Len(done')] = c
  BY <1>1 DEF EndCandidate
<1>3. FailedCandidate.status # "completed"
  BY DEF FailedCandidate, Candidate
<1>4. CASE StageFails
  BY <1>2, <1>3, <1>4 DEF StageFails
<1>5. CASE PostProcess
  <2>1. EndCandidate(FailedCandidate)
    BY <1>1, <1>5 DEF PostProcess
  <2> QED BY <1>2, <1>3, <2>1
<1>6. CASE Transcribe \/ Notate \/ Select
  <2>1. done' = done
    BY <1>6 DEF Transcribe, Notate, Select
  <2> QED BY <1>1, <2>1
<1>7. CASE Judge
  <2>1. phase = "gate" /\ \E rate \in Rates \cup {Unmeasured} : EndCandidate(JudgedCandidate(rate))
    BY <1>7 DEF Judge, JudgedCandidate
  <2>2. PICK rate \in Rates \cup {Unmeasured} : EndCandidate(JudgedCandidate(rate))
    BY <2>1
  <2> QED BY <1>2, <2>1, <2>2, JudgedIsDelivered DEF Inv
<1> QED BY <1>4, <1>5, <1>6, <1>7 DEF Next

(* Whatever was transcribed, measured and calibrated: a delivered score    *)
(* was checked against a calibration made from real full mixes that        *)
(* delivers nothing its benchmark missed, the page and the packet say so   *)
(* alike, it lacks no core drum, and no score that is offered has a        *)
(* structural fault (performance_gate.py, gate_calibration.py,             *)
(* result_service.py, App.tsx, review_packet_service.py).                  *)
THEOREM DeliveryFollowsTheGate == Spec => DeliveredIsChecked
<1>1. Inv /\ [Next]_vars
        => [Len(done') > Len(done) /\ done'[Len(done')].status = "completed"
              => Delivery(done'[Len(done')].page)]_vars
  BY DeliveryStep
<1> QED BY <1>1, JudgementsFollowTheLogs, PTL DEF Spec, DeliveredIsChecked, Delivery
=============================================================================
