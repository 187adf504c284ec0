---------------------------- MODULE MCScoreRules ----------------------------
(***************************************************************************)
(* The transcriptions the runs of ScoreRules compare.  A groove is a line  *)
(* of hats, snares and kicks, given in sixteenths and repeated in the      *)
(* first two measures; toms and a cymbal stand in the second; one more hit *)
(* may fall anywhere in three measures, on or off the grid.                *)
(***************************************************************************)
EXTENDS ScoreRules

At(sixteenths, note, vel) == {[tick |-> s * Sixteenth, note |-> note, vel |-> vel] : s \in sixteenths}
Later(notes, measures) == {[n EXCEPT !.tick = @ + measures * 4 * TicksPerBeat] : n \in notes}

HatLines == {{}, {0, 4, 8, 12}, {0, 2, 4, 6, 8, 10, 12, 14}, {5, 6}}
SnareLines == {{}, {4, 12}, {6}}
KickLines == {{}, {0, 8}, {0, 3, 7, 10, 14}}
TomLines == {{}, {13, 14, 15}, {9, 10, 11, 12, 13}, {2, 5, 13, 14, 15}}
CymbalLines == {{}, {0}}

Groove(hats, snares, kicks) ==
  LET one == At(hats, 42, 80) \cup At(snares, 38, 100) \cup At(kicks, 36, 100)
  IN one \cup Later(one, 1)

Grooves == {Groove(h, s, k) : h \in HatLines, s \in SnareLines, k \in KickLines}
Endings == {Later(At(t, 45, 90) \cup At(c, 49, 90), 1) : t \in TomLines, c \in CymbalLines}

Hit(tick, note, vel) == [tick |-> tick, note |-> note, vel |-> vel]
OneMore ==
  {Hit(s * Sixteenth + off, note, 90) :
     s \in {7, 33}, off \in {0, Sixteenth \div 2}, note \in {36, 40, 46, 49}}

(* Nine measures, a fill in every other one. *)
ManyFills ==
  UNION {Later(At({0, 4, 8, 12}, 42, 80) \cup At({4, 12}, 38, 100) \cup At({0, 8}, 36, 100), i) :
           i \in 0 .. 8}
  \cup UNION {Later(At({13, 14, 15}, 45, 90), i) : i \in {0, 2, 4, 6, 8}}

(* Two measures of 3/4 whose only snare lies between beats of the first,    *)
(* nearer to a fourth beat that the measure does not have.                 *)
LateSnare == At({0, 4, 8, 12, 16, 20}, 42, 80) \cup At({10}, 38, 100) \cup At({0, 12}, 36, 100)

Take(sig, guard, notes) == [sig |-> sig, guard |-> guard, notes |-> notes]

MCTakes ==
  {Take(<<4, 4>>, FALSE, g \cup e) : g \in Grooves, e \in Endings}
  \cup {Take(<<4, 4>>, FALSE, g \cup {n}) : g \in Grooves, n \in OneMore}
  \cup {Take(<<4, 4>>, TRUE, g \cup e) :
            g \in {Groove({0, 4, 8, 12}, {4, 12}, k) : k \in KickLines}, e \in Endings}
  \cup {Take(sig, FALSE, g) : g \in Grooves, sig \in {<<3, 4>>, <<6, 8>>, <<7, 16>>}}
  \cup {Take(<<4, 4>>, FALSE, g \cup Later(At(8 .. 15, 45, 90), 2)) : g \in Grooves}
  \cup {Take(<<4, 4>>, FALSE, ManyFills), Take(<<3, 4>>, FALSE, LateSnare)}
  \cup {Take(<<4, 4>>, FALSE, {Hit(t, 38, 100), Hit(128 * Sixteenth, 36, 100)}) : t \in {0, Sixteenth}}

MCCandidateTakes ==
  LET full == Groove({0, 2, 4, 6, 8, 10, 12, 14}, {4, 12}, {0, 8})
  IN {{}, full,
      full \cup Later(At({13, 14, 15}, 45, 90), 1),
      Groove({}, {4, 12}, {0, 8}),
      Groove({0, 4, 8, 12}, {}, {0, 8}),
      At({0, 1, 2, 3, 5, 6, 7, 9}, 45, 90) \cup At({0}, 36, 100) \cup At({4}, 38, 100)}

MCRates == {600, 900}

(***************************************************************************)
(* Calibrations by hand: none, and one of synthetic mixes only.  The       *)
(* benchmarks play the same groove: a drum track and a real full mix that  *)
(* were transcribed well, a synthetic mix, and items whose snares are      *)
(* elsewhere, which miss their reference though the gate finds no fault    *)
(* with the chart.                                                         *)
(***************************************************************************)
MCCalibrations == {NoCalibration, [status |-> "calibrated", threshold |-> 500, realFullMix |-> FALSE]}

Played == Groove({0, 2, 4, 6, 8, 10, 12, 14}, {4, 12}, {0, 8})
Elsewhere == Groove({0, 2, 4, 6, 8, 10, 12, 14}, {6, 14}, {0, 8})

Item(id, type, synthetic, truth, rate) ==
  [id |-> id, type |-> type, eligible |-> TRUE, synthetic |-> synthetic,
   take |-> Take(<<4, 4>>, FALSE, Played), truth |-> truth, rate |-> rate,
   acceptance |-> [f1 |-> 8000, perDrum |-> [d \in CoreDrums |-> 7500], core |-> 8000, error |-> 30]]

DrumTrack == Item("drums", "drum_only", FALSE, Played, 900)
FullMix(rate) == Item("mix", "full_mix", FALSE, {[n EXCEPT !.tick = @ + 20] : n \in Played}, rate)
SyntheticMix == Item("synthetic", "full_mix", TRUE, Played, 900)
Missed(rate) == Item("missed", "full_mix", FALSE, Elsewhere, rate)

MCBenchmarks ==
  {{DrumTrack, FullMix(800), Missed(700)},      \* calibrated
   {DrumTrack, FullMix(600), SyntheticMix},     \* below the default of the gate
   {DrumTrack, FullMix(600), Missed(650)},      \* failed closed
   {DrumTrack, SyntheticMix, Missed(700)}}      \* not enough
=============================================================================
