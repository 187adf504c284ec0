----------------------------- MODULE DrumChart ------------------------------
(***************************************************************************)
(* The readable drum chart (readable_drum_chart_v3, the mode the pipeline  *)
(* uses) and the MusicXML score engraved from it:                          *)
(* ai_pipeline/notation/musicxml.py.  A chart is a set of events; a score  *)
(* is abstracted to the notes and rests of each voice of each measure, in  *)
(* order, with their durations.  A signature is <<beats, beat type>>.      *)
(***************************************************************************)
EXTENDS DrumMidi

Eighth == TicksPerBeat \div 2
Sixteenth == TicksPerBeat \div 4
MaxOnsets == 8               \* max_chart_events_per_measure

MeasureTicks(sig) == (TicksPerBeat * sig[1] * 4) \div sig[2]

(* The events of a measure, at their ticks within it. *)
InMeasure(events, i, ticks) ==
  {[e EXCEPT !.tick = e.tick - i * ticks] :
      e \in {e \in events : e.tick \div ticks = i}}

Placed(e, tick, drum) == [tick |-> tick, drum |-> drum, vel |-> e.vel]

(* The event nearest to a tick, if one lies within the window: the louder  *)
(* of two at the same distance, then the earlier.                          *)
Nearest(events, tick, window) ==
  LET near == {e \in events : Distance(e.tick, tick) <= window}
      key(e) == <<Distance(e.tick, tick), -e.vel, e.tick>>
  IN {e \in near : \A f \in near \ {e} : Precedes(key(e), key(f))}

QuantizedSlots(events) ==
  LET slot(e) == RoundDiv(2 * e.tick, TicksPerBeat)
  IN {IF slot(e) < 7 THEN slot(e) ELSE 7 : e \in events}

NearestEighth(tick) ==
  LET slot == RoundDiv(tick, Eighth) IN (IF slot < 7 THEN slot ELSE 7) * Eighth

(***************************************************************************)
(* One measure: a hat pulse, the backbeat, up to four kicks, a tom fill.   *)
(***************************************************************************)
HatPulse(hats) ==
  LET slots == QuantizedSlots(hats)
      grid == IF Cardinality(slots) >= 5 THEN 0 .. 7 ELSE {0, 2, 4, 6}
      template == CHOOSE e \in hats : \A f \in hats \ {e} :
                    Precedes(<<-e.vel, e.tick>>, <<-f.vel, f.tick>>)
      at(slot) == (slot * TicksPerBeat) \div 2
      near(slot) == Nearest(hats, at(slot), TicksPerBeat \div 3)
      source(slot) == CHOOSE e \in hats :
                        e \in near(slot) \/ (near(slot) = {} /\ e = template)
  IN IF hats = {} THEN {} ELSE {Placed(source(s), at(s), "hi_hat") : s \in grid}

(* Adds the candidates in their order, each at its nearest eighth, until   *)
(* the limit is reached; a slot is taken once.                             *)
FillUp(placed, candidates, limit) ==
  LET add(chosen, e) ==
        IF Cardinality(chosen) >= limit \/ \E c \in chosen : c.tick = NearestEighth(e.tick)
        THEN chosen
        ELSE chosen \cup {Placed(e, NearestEighth(e.tick), e.drum)}
  IN FoldLeft(add, placed, candidates)

BackbeatDistance(tick) ==
  Min({Distance(tick, TicksPerBeat), Distance(tick, 3 * TicksPerBeat)})

(* A deviation: only what is near a backbeat is drawn. *)
StrictBackbeatSnares(snares) ==
  UNION {{Placed(e, b, "snare") : e \in Nearest(snares, b, TicksPerBeat \div 2)} :
            b \in {TicksPerBeat, 3 * TicksPerBeat}}

ReadableBackbeatSnares(snares) ==
  LET backbeat == {TicksPerBeat, 3 * TicksPerBeat}
      placed == UNION {{Placed(e, b, "snare") : e \in Nearest(snares, b, TicksPerBeat \div 2)} :
                          b \in backbeat}
      key(e) == <<BackbeatDistance(e.tick), -e.vel, e.tick>>
      order(a, b) == Precedes(key(a), key(b))
  IN IF snares = {} THEN {}
     ELSE {Placed(p, p.tick, "snare") : p \in FillUp(placed, Sorted(snares, order), 2)}

(* Grid slots in order, each source used once; then the loudest; then the  *)
(* downbeat, the beats and the rest, of which the first four stay.         *)
ReadableKicks(kicks) ==
  LET grid == [i \in 1 .. 8 |-> ((i - 1) * TicksPerBeat) \div 2]
      place(acc, tick) ==
        LET near == Nearest(kicks, tick, TicksPerBeat \div 3) \ acc.used
        IN [used |-> acc.used \cup near,
            placed |-> acc.placed \cup {Placed(e, tick, "kick") : e \in near}]
      onGrid == FoldLeft(place, [used |-> {}, placed |-> {}], grid).placed
      loudest(a, b) == Precedes(<<-a.vel, a.tick>>, <<-b.vel, b.tick>>)
      priority(e) == <<IF e.tick = 0 THEN 0 ELSE 1,
                       IF e.tick % TicksPerBeat = 0 THEN 0 ELSE 1, e.tick>>
      order(a, b) == Precedes(priority(a), priority(b))
      ranked == Sorted(FillUp(onGrid, Sorted(kicks, loudest), 4), order)
  IN IF kicks = {} THEN {}
     ELSE {Placed(ranked[i], ranked[i].tick, "kick") : i \in DOMAIN ranked \cap 1 .. 4}

(* The last run of three or more sixteenths of the measure's last two      *)
(* beats, if toms were quiet before it; its last four slots are drawn.     *)
TomFill(toms, ticks, previousTomSlots) ==
  LET start == IF ticks > 2 * TicksPerBeat THEN ticks - 2 * TicksPerBeat ELSE 0
      tail == {e \in toms : e.tick >= start}
      slots == {RoundDiv(e.tick, Sixteenth) : e \in tail}
      runEnds == {s \in slots : s + 1 \notin slots /\ {s - 1, s - 2} \subseteq slots}
      last == Max(runEnds)
      drawn == {s \in last - 3 .. last : s .. last \subseteq slots}
  IN IF runEnds = {} \/ previousTomSlots > 1 \/ Cardinality(QuantizedSlots(toms \ tail)) > 1
     THEN {}
     ELSE UNION {{Placed(e, s * Sixteenth, "tom") :
                    e \in Nearest(tail, s * Sixteenth, Sixteenth \div 2)} : s \in drawn}

(* The cymbal of a break, on the downbeat. *)
CymbalAccent(cymbals) ==
  {Placed(e, 0, "cymbal") : e \in Nearest(cymbals, 0, TicksPerBeat \div 3)}

ArrangeMeasure(source, ticks, previousTomSlots) ==
  LET of(d) == OfDrum(source, d)
      fill == TomFill(of("tom"), ticks, previousTomSlots)
      groove == HatPulse(of("hi_hat")) \cup ReadableBackbeatSnares(of("snare"))
                  \cup ReadableKicks(of("kick"))
      accent == CymbalAccent(of("cymbal"))
  IN CASE source = {} -> [kind |-> "rest", events |-> {}]
       [] fill # {} -> [kind |-> "fill", events |-> groove \cup fill]
       [] fill = {} /\ groove = {} /\ of("cymbal") # {} -> [kind |-> "break", events |-> accent]
       [] OTHER -> [kind |-> "groove", events |-> groove]

(***************************************************************************)
(* The chart: its measures, its events on the readable grid, its verdict.  *)
(***************************************************************************)
MeasureCount(events, ticks) == Max({0} \cup {e.tick : e \in events}) \div ticks + 1

Arrange(events, sig) ==
  LET ticks == MeasureTicks(sig)
      source(i) == InMeasure(events, i, ticks)
      previous(i) == IF i = 0 THEN 0
                     ELSE Cardinality(QuantizedSlots(OfDrum(source(i - 1), "tom")))
  IN [i \in 0 .. MeasureCount(events, ticks) - 1 |->
        ArrangeMeasure(source(i), ticks, previous(i))]

KindOf(kinds, i) == IF i \in DOMAIN kinds THEN kinds[i] ELSE "groove"

(* The tick an event is drawn at: sixteenths for the toms and snares of a  *)
(* fill's last two beats, eighths for everything else.                     *)
ReadableTick(e, kinds, ticks) ==
  LET i == e.tick \div ticks
      local == e.tick % ticks
      unit == IF /\ KindOf(kinds, i) = "fill" /\ e.drum \in {"tom", "snare"}
                 /\ local >= ticks - 2 * TicksPerBeat
              THEN Sixteenth ELSE Eighth
  IN i * ticks + Min({ticks - unit, RoundDiv(local, unit) * unit})

(* Of two events drawn at one place the louder stays, then the nearer. *)
NormalizeRhythm(events, kinds, ticks) ==
  LET at(e) == ReadableTick(e, kinds, ticks)
      key(e) == <<-e.vel, Distance(e.tick, at(e))>>
      rivals(e) == {f \in events : f.drum = e.drum /\ at(f) = at(e)}
  IN {[e EXCEPT !.tick = at(e)] :
        e \in {e \in events : \A f \in rivals(e) : ~Precedes(key(f), key(e))}}

OnsetCount(events, i, ticks) == Cardinality({e.tick : e \in InMeasure(events, i, ticks)})

IsCompleteCore(events) == \A d \in CoreDrums : OfDrum(events, d) # {}

(* How much evidence of a hat pulse a measure has: none at 0, enough at 3. *)
HatEvidence(events) == Cardinality(QuantizedSlots(OfDrum(events, "hi_hat")))

(* The arranged measures as one chart with its verdict: chart_events.json. *)
ChartOf(events, measures, ticks) ==
  LET kinds == [i \in DOMAIN measures |-> measures[i].kind]
      drawn == UNION {{[e EXCEPT !.tick = @ + i * ticks] : e \in measures[i].events} :
                         i \in DOMAIN measures}
      chart == NormalizeRhythm(drawn, kinds, ticks)
      grooves == {i \in DOMAIN measures : kinds[i] = "groove"}
      source(i) == InMeasure(events, i, ticks)
      incomplete == {i \in grooves : /\ ~IsCompleteCore(measures[i].events)
                                     /\ \E e \in source(i) : e.drum \in {"kick", "snare"}}
      thinHats == {i \in grooves : IsCompleteCore(measures[i].events)
                                   /\ HatEvidence(source(i)) < 3}
                    \cup {i \in incomplete : HatEvidence(source(i)) = 0}
      dense == {i \in {e.tick \div ticks : e \in chart} : OnsetCount(chart, i, ticks) > MaxOnsets}
  IN [events |-> chart,
      kinds |-> kinds,
      measureCount |-> Cardinality(DOMAIN measures),
      dense |-> dense,
      thinHats |-> thinHats # {},
      verdict |-> IF dense # {} THEN "still_too_dense"
                  ELSE IF incomplete # {} \/ thinHats # {} THEN "needs_manual_arrangement"
                  ELSE "readable_chart_candidate"]

(* _build_chart_events in the mode the pipeline uses. *)
BuildChart(events, sig) == ChartOf(events, Arrange(events, sig), MeasureTicks(sig))

(***************************************************************************)
(* The engraved score.                                                     *)
(***************************************************************************)
VoiceOf(drum) == IF drum = "kick" THEN "foot" ELSE "hand"

(* A rest as the longest notatable values that fit, then what is left. *)
RestChunks(duration) ==
  LET units == <<4 * TicksPerBeat, 2 * TicksPerBeat, TicksPerBeat, Eighth, Sixteenth>>
      take(acc, unit) ==
        [left |-> acc.left % unit,
         out |-> acc.out \o [i \in 1 .. acc.left \div unit |-> [rest |-> TRUE, ticks |-> unit]]]
      greedy == FoldLeft(take, [left |-> duration, out |-> <<>>], units)
  IN IF greedy.left = 0 THEN greedy.out
     ELSE Append(greedy.out, [rest |-> TRUE, ticks |-> greedy.left])

IsSixteenth(item) == item.ticks < Eighth

(* A deviation: a note lasts its full value, whatever follows it. *)
NoteTicksOverlapping(tick, next, drums, kind, ticks, hatPulse) ==
  Min({IF "hi_hat" \in drums THEN hatPulse ELSE TicksPerBeat, ticks - tick})

NoteTicks(tick, next, drums, kind, ticks, hatPulse) ==
  LET most == CASE /\ kind = "fill" /\ tick >= ticks - 2 * TicksPerBeat
                   /\ {"tom", "snare"} \cap drums # {} -> Sixteenth
                [] OTHER -> IF "hi_hat" \in drums THEN hatPulse ELSE TicksPerBeat
      gap == Max({Sixteenth, next - tick})
  IN Min({most, ticks - tick, gap})

(* _append_voice: each tick once (the other notes of a chord carry no      *)
(* time), with rests between and at the end.                               *)
VoiceLine(events, kind, ticks) ==
  LET onsets == Sorted({e.tick : e \in events}, <)
      drumsAt(tick) == {e.drum : e \in {e \in events : e.tick = tick}}
      hats == Cardinality({e.tick : e \in OfDrum(events, "hi_hat")})
      hatPulse == IF hats >= 5 THEN Eighth ELSE TicksPerBeat
      next(i) == IF i < Len(onsets) THEN onsets[i + 1] ELSE ticks
      note(i) == NoteTicks(onsets[i], next(i), drumsAt(onsets[i]), kind, ticks, hatPulse)
      rest(from, to) == IF to > from THEN RestChunks(to - from) ELSE <<>>
      step(acc, i) ==
        [cursor |-> Max({acc.cursor, onsets[i] + note(i)}),
         out |-> acc.out \o rest(acc.cursor, onsets[i])
                   \o <<[rest |-> FALSE, ticks |-> note(i)]>>]
      line == FoldLeft(step, [cursor |-> 0, out |-> <<>>], [i \in DOMAIN onsets |-> i])
  IN line.out \o rest(line.cursor, ticks)

(* The voices of a measure; one without notes has the hands rest. *)
MeasureLines(chart, i, ticks) ==
  LET local == InMeasure(chart.events, i, ticks)
      voice(v) == {e \in local : VoiceOf(e.drum) = v}
      line(v) == VoiceLine(voice(v), KindOf(chart.kinds, i), ticks)
      sounding == {v \in {"hand", "foot"} : voice(v) # {}}
  IN IF sounding = {} THEN [v \in {"hand"} |-> RestChunks(ticks)]
     ELSE [v \in sounding |-> line(v)]

(* A deviation: the score ends with its last event. *)
BuildScoreToLastEvent(chart, sig) ==
  LET ticks == MeasureTicks(sig)
      last == Max({0} \cup {e.tick : e \in chart.events})
  IN [i \in 0 .. last \div ticks |-> MeasureLines(chart, i, ticks)]

(* The score ends a beat after its last event, or with the chart. *)
BuildScore(chart, sig) ==
  LET ticks == MeasureTicks(sig)
      last == Max({0} \cup {e.tick : e \in chart.events}) + TicksPerBeat
      count == Max({chart.measureCount, (last + ticks - 1) \div ticks})
  IN [i \in 0 .. count - 1 |-> MeasureLines(chart, i, ticks)]

LineTicks(line) == FoldLeft(LAMBDA sum, item : sum + item.ticks, 0, line)
=============================================================================
