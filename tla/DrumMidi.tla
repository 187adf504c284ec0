------------------------------ MODULE DrumMidi ------------------------------
(***************************************************************************)
(* From the notes of a raw MIDI file to the processed drum events, and the *)
(* numbers the pipeline draws from them: ai_pipeline/midi.  A raw note is  *)
(* [tick, note, vel]; a drum event is [tick, drum, vel].  Collections are  *)
(* sets wherever the code's lists hold no equal elements; the sort order   *)
(* of a list is stated where the code depends on it.                       *)
(*                                                                         *)
(* The bytes of a MIDI file are abstracted to its track: one element per   *)
(* channel event, whose delta time is kept as the variable-length quantity *)
(* that is written.                                                        *)
(***************************************************************************)
EXTENDS Integers, Sequences, FiniteSets, SequencesExt, FiniteSetsExt

CONSTANT TicksPerBeat      \* the division of the raw MIDI file

ASSUME DivisionAssumption == TicksPerBeat \in 4 .. 32767

Drums == {"kick", "snare", "hi_hat", "tom", "cymbal"}
CoreDrums == {"kick", "snare", "hi_hat"}

(* MidiPostProcessConfig and write_drum_midi: the defaults in use. *)
VelocityFloor == 1
DedupeWindow == 30
CoreOverlapWindow == 60
NoteLength == 120

Distance(a, b) == IF a < b THEN b - a ELSE a - b

(* Python's round(a / b): the nearest integer, the even one of two. *)
RoundDiv(a, b) ==
  LET q == a \div b
      twice == 2 * (a % b)
  IN IF twice < b \/ (twice = b /\ q % 2 = 0) THEN q ELSE q + 1

(* Tuples of integers in the order in which Python compares them. *)
Precedes(a, b) ==
  \E i \in DOMAIN a : a[i] < b[i] /\ \A j \in 1 .. i - 1 : a[j] = b[j]

(* A set as the sequence in which a list of its elements is sorted. *)
Sorted(S, Before(_, _)) == SortSeq(FoldSet(LAMBDA x, seq : Append(seq, x), <<>>, S), Before)

(* The same of a few elements: the n-th has n - 1 before it. *)
Ordered(S, Before(_, _)) ==
  [n \in 1 .. Cardinality(S) |->
     CHOOSE x \in S : Cardinality({y \in S : Before(y, x)}) = n - 1]

(***************************************************************************)
(* Mapping, quantisation, de-duplication.                                  *)
(***************************************************************************)
DrumOf(note) ==
  CASE note \in {35, 36} -> "kick"
    [] note \in 37 .. 40 -> "snare"
    [] note \in {42, 44, 46} -> "hi_hat"
    [] note \in {41, 43, 45, 47, 48, 50} -> "tom"
    [] note \in {49, 51, 52, 55, 57, 59} -> "cymbal"
    [] OTHER -> "none"

MidiNote == [kick |-> 36, snare |-> 38, hi_hat |-> 42, tom |-> 45, cymbal |-> 49]

MapAndFilter(raw) ==
  {[tick |-> n.tick, drum |-> DrumOf(n.note), vel |-> n.vel] :
      n \in {n \in raw : n.vel >= VelocityFloor /\ DrumOf(n.note) # "none"}}

Quantize(events) ==
  LET found == RoundDiv(TicksPerBeat, 4)
      grid == IF found > 1 THEN found ELSE 1
  IN {[e EXCEPT !.tick = RoundDiv(e.tick, grid) * grid] : e \in events}

(* One drum at a time, by tick and the louder first: a hit within the      *)
(* window of the last one kept is dropped, or replaces it if it is louder. *)
DedupeDrum(events) ==
  LET order(a, b) == Precedes(<<a.tick, -a.vel>>, <<b.tick, -b.vel>>)
      keep(kept, e) ==
        IF kept = <<>> \/ e.tick - Last(kept).tick > DedupeWindow THEN Append(kept, e)
        ELSE IF e.vel > Last(kept).vel THEN [kept EXCEPT ![Len(kept)] = e]
        ELSE kept
  IN Range(FoldLeft(keep, <<>>, Sorted(events, order)))

OfDrum(events, drum) == {e \in events : e.drum = drum}

Dedupe(events) ==
  LET kept == [d \in Drums |-> DedupeDrum(OfDrum(events, d))]
  IN {e \in events : e \in kept[e.drum]}

(***************************************************************************)
(* The filter for false toms ("tom_guard_v1"): while toms are more than    *)
(* 30% of the events, the ones closest to a core drum go first, and only   *)
(* those within the overlap window of one.                                 *)
(***************************************************************************)
CountOf(events, drum) == Cardinality(OfDrum(events, drum))

CoreDistance(e, core) == Min({Distance(e.tick, c.tick) : c \in core})

TomFilter(events) ==
  LET toms == CountOf(events, "tom")
      all == Cardinality(events)
      core == UNION {OfDrum(events, d) : d \in CoreDrums}
      withinTarget(dropped) == 10 * (toms - dropped) <= 3 * (all - dropped)
      needed == Min({n \in 0 .. toms : n = toms \/ withinTarget(n)})
      key(e) == <<CoreDistance(e, core), e.vel, e.tick>>
      order(a, b) == Precedes(key(a), key(b))
      droppable == Sorted(
        {e \in OfDrum(events, "tom") : CoreDistance(e, core) <= CoreOverlapWindow}, order)
  IN IF \E d \in CoreDrums : CountOf(events, d) = 0 THEN events
     ELSE events \ {droppable[i] : i \in DOMAIN droppable \cap 1 .. needed}

(* MidiPostProcessor.process; nothing left is NoUsableDrumEventsError. *)
Process(raw, tomGuard) ==
  LET deduped == Dedupe(Quantize(MapAndFilter(raw)))
  IN IF tomGuard THEN TomFilter(deduped) ELSE deduped

(***************************************************************************)
(* Quality: the flags of a draft and the verdict on it.                    *)
(***************************************************************************)
QualityFlags(raw, events) ==
  LET n == Cardinality(events)
      kicks == CountOf(events, "kick")
      snares == CountOf(events, "snare")
      hats == CountOf(events, "hi_hat")
      toms == CountOf(events, "tom")
      rawToms == Cardinality({r \in raw : DrumOf(r.note) = "tom"})
      present == {d \in CoreDrums : CountOf(events, d) > 0}
      if(condition, flag) == IF condition THEN {flag} ELSE {}
  IN if(n < 4, "too_few_events")
     \cup if(n \in 1 .. 7, "sparse_transcription")
     \cup if(n >= 4 /\ hats = 0, "hihat_missing_likely")
     \cup if(n >= 4 /\ snares = 0, "no_snare_detected")
     \cup if(n >= 3 /\ 4 * toms >= 3 * n, "mostly_tom_output")
     \cup if(Cardinality(raw) >= 3 /\ 4 * rawToms >= 3 * Cardinality(raw), "raw_tom_dominant")
     \cup if(present = {"kick", "snare"} /\ n = kicks + snares, "kick_snare_only")
     \cup if(n >= 4 /\ Cardinality(present) < 2, "missing_core_groove")
     \cup if(n < 4 \/ kicks + snares = 0, "no_usable_groove")

BlockingCandidateFlags ==
  {"no_usable_groove", "sparse_transcription", "too_few_events", "mostly_tom_output",
   "no_snare_detected"}

DrumCounts(events) == [d \in Drums |-> CountOf(events, d)]

EventCount(counts) ==
  counts["kick"] + counts["snare"] + counts["hi_hat"] + counts["tom"] + counts["cymbal"]

DraftScore(passed, counts, blocking) ==
  LET enough(snares, hats, tenths) ==
        /\ counts["snare"] >= snares /\ counts["hi_hat"] >= hats
        /\ 10 * counts["tom"] <= tenths * EventCount(counts)
  IN CASE passed /\ enough(3, 4, 2) -> 5
       [] passed /\ ~enough(3, 4, 2) /\ enough(2, 2, 3) -> 4
       [] passed /\ ~enough(2, 2, 3) -> 3
       [] ~passed /\ {"no_usable_groove", "too_few_events"} \cap blocking = {} -> 2
       [] OTHER -> 1

(* evaluate_drum_draft_quality, for a score that is there and readable. *)
DraftQuality(counts, flags) ==
  LET blocking == flags \cap BlockingCandidateFlags
      passed == /\ EventCount(counts) >= 4
                /\ \A d \in CoreDrums : counts[d] > 0
                /\ blocking = {}
      score == DraftScore(passed, counts, blocking)
  IN CASE passed /\ score >= 4 -> "mvp_candidate"
       [] passed /\ score < 4 -> "draft_candidate_needs_review"
       [] OTHER -> "not_candidate"

(***************************************************************************)
(* Writing and reading a MIDI track.                                       *)
(***************************************************************************)
(* What one, two, three and four groups of seven bits can hold. *)
GroupLimit == <<128, 16384, 2097152, 268435456>>

(* A deviation: one group too few at its limit. *)
WriteVlqShort(value) ==
  LET n == Min({n \in 1 .. 4 : value <= GroupLimit[n]})
      group(i) == IF i = n THEN value ELSE value \div GroupLimit[n - i]
  IN [i \in 1 .. n |-> (group(i) % 128) + (IF i < n THEN 128 ELSE 0)]

(* Groups of seven bits, the highest first, all but the last marked. *)
WriteVlq(value) ==
  LET n == Min({n \in 1 .. 4 : value < GroupLimit[n]})
      group(i) == IF i = n THEN value ELSE value \div GroupLimit[n - i]
  IN [i \in 1 .. n |-> (group(i) % 128) + (IF i < n THEN 128 ELSE 0)]

(* The quantity at the head of a byte string, and how many bytes it took. *)
ReadVlq(bytes) ==
  LET n == CHOOSE n \in DOMAIN bytes :
             bytes[n] < 128 /\ \A i \in 1 .. n - 1 : bytes[i] >= 128
      add(value, byte) == value * 128 + (byte % 128)
  IN [value |-> FoldLeft(add, 0, SubSeq(bytes, 1, n)), length |-> n]

(* write_drum_midi: a note-on and a note-off NoteLength later for every    *)
(* event; at one tick the offs come first.                                 *)
WriteTrack(events) ==
  LET moment(e, on) == [tick |-> IF on THEN e.tick ELSE e.tick + NoteLength,
                        on |-> on, note |-> MidiNote[e.drum],
                        vel |-> IF on THEN e.vel ELSE 0]
      moments == {moment(e, on) : e \in events, on \in BOOLEAN}
      key(m) == <<m.tick, IF m.on THEN 1 ELSE 0, m.note>>
      order(a, b) == Precedes(key(a), key(b))
      sorted == Sorted(moments, order)
  IN [i \in DOMAIN sorted |->
        [delta |-> WriteVlq(sorted[i].tick - (IF i = 1 THEN 0 ELSE sorted[i - 1].tick)),
         on |-> sorted[i].on, note |-> sorted[i].note, vel |-> sorted[i].vel]]

(* _parse_track: the note-ons of the track at their absolute ticks. *)
ParseTrack(track) ==
  LET step(acc, m) ==
        LET tick == acc.tick + ReadVlq(m.delta).value
        IN [tick |-> tick,
            notes |-> acc.notes \cup
              (IF m.on /\ m.vel > 0 THEN {[tick |-> tick, note |-> m.note, vel |-> m.vel]}
               ELSE {})]
  IN FoldLeft(step, [tick |-> 0, notes |-> {}], track).notes

(* The denominator of the signature, halved until nothing is left of it. *)
Halvings(denominator) == CHOOSE n \in 0 .. 7 : denominator \in 2 ^ n .. 2 ^ (n + 1) - 1

WriteMidi(events, sig) ==
  [division |-> TicksPerBeat, sig |-> <<sig[1], Halvings(sig[2])>>,
   tracks |-> <<WriteTrack(events)>>]

ParseMidi(file) ==
  [division |-> file.division, sig |-> <<file.sig[1], 2 ^ file.sig[2]>>,
   notes |-> UNION {ParseTrack(file.tracks[i]) : i \in DOMAIN file.tracks}]

(* count_note_on_events, the second reader of the same file. *)
CountNoteOns(track) ==
  Cardinality({i \in DOMAIN track : track[i].on /\ track[i].vel > 0})
=============================================================================
