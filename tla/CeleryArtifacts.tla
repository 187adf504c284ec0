-------------------------- MODULE CeleryArtifacts ---------------------------
(***************************************************************************)
(* What the runs of CeleryHistory leave behind: the files under the job's  *)
(* directory, which no rollback takes back and every run writes again, and *)
(* the rows of the drum track and of the exports, which its transaction    *)
(* inserts where it finds none.                                            *)
(*                                                                         *)
(* A file is written in place: a run that ends while it writes one leaves  *)
(* it torn.                                                                *)
(***************************************************************************)
EXTENDS CeleryHistory

CONSTANT Followed   (* bound: the artifacts whose files are followed       *)

VARIABLES
  whole,     (* whole[j]: those of job j that are stored and whole          *)
  rows,      (* rows[j][k]: how many committed rows of kind k the job has   *)
  inserted,  (* inserted[w]: the kinds w's open transaction has inserted    *)
  cutLater   (* jobs with rows one of whose later runs was cut off         *)

avars == <<whole, rows, inserted, cutLater>>
allVars == <<hvars, avars>>

Artifacts ==
  {"normalized_audio", "drums_stem", "raw_midi", "drum_events", "processed_midi",
   "musicxml", "pdf"}

Kinds == {"drum_track", "midi", "musicxml", "pdf"}

ASSUME FollowedAssumption == Followed \subseteq Artifacts

(* The artifacts that a row names.                                         *)
Named ==
  [drum_track |-> {"drums_stem", "raw_midi", "drum_events", "processed_midi"},
   midi |-> {"processed_midi"}, musicxml |-> {"musicxml"}, pdf |-> {"pdf"}]

(* What each stage writes, one file after the other.                       *)
StageWrites ==
  [preprocessing        |-> <<{"normalized_audio"}>>,
   source_separation    |-> <<{"drums_stem"}>>,
   stem_validation      |-> <<>>,
   drum_transcription   |-> <<{"raw_midi"}, {"drum_events"}>>,
   midi_post_processing |-> <<{"processed_midi"}>>,
   notation_generation  |-> <<{"musicxml"}>>,
   pdf_export           |-> <<{"pdf"}>>]

ATypeOK ==
  /\ whole \in [Jobs -> SUBSET Followed]
  /\ rows \in [Jobs -> [Kinds -> Nat]]
  /\ inserted \in [Workers -> SUBSET Kinds]
  /\ cutLater \subseteq Jobs

AInit ==
  /\ HInit
  /\ whole = [j \in Jobs |-> {}]
  /\ rows = [j \in Jobs |-> [k \in Kinds |-> 0]]
  /\ inserted = [w \in Workers |-> {}]
  /\ cutLater = {}

-----------------------------------------------------------------------------
(* Deviation: what is there is not looked for.                             *)
AnyKind(j) == Kinds

(* _drum_track_exists and _export_exists: the rows the job lacks; nobody   *)
(* else inserts rows of a job whose row is locked.                         *)
MissingKinds(j) == {k \in Kinds : rows[j][k] = 0}

(* What the task writes where it is: the output of its stage, or the files *)
(* of the exports without a row, which are read and stored once more.      *)
Writes(w) ==
  LET again(k) == IF k \in MissingKinds(task[w].job) THEN Named[k] ELSE {}
  IN CASE At(w, "stage")  -> StageWrites[task[w].view.stage]
       [] At(w, "finish") -> <<again("midi"), again("musicxml"), again("pdf")>>
       [] OTHER           -> <<>>

Output(w) == UNION {Writes(w)[i] : i \in 1..Len(Writes(w))}

(* put_bytes, for the first n of them.                                     *)
Stored(w, n) ==
  whole[task[w].job] \cup (Followed \cap UNION {Writes(w)[i] : i \in 1..n})

StoreAll(w) == whole' = [whole EXCEPT ![task[w].job] = Stored(w, Len(Writes(w)))]

(* The run ends before, between or within its writes.                      *)
CutOff(w) ==
  /\ \/ StoreAll(w)
     \/ \E n \in 1..Len(Writes(w)) : \E torn \in {{}, Writes(w)[n]} :
          whole' = [whole EXCEPT ![task[w].job] = Stored(w, n - 1) \ torn]
  /\ cutLater' = IF Output(w) # {} /\ MissingKinds(task[w].job) # Kinds
            THEN cutLater \cup {task[w].job} ELSE cutLater

(* An insertion is kept as long as the transaction that holds the row.     *)
OfOpenTransactions ==
  [w \in Workers |-> IF \E j \in Jobs : lock'[j] = w THEN inserted[w] ELSE {}]

(* _write_mock_metadata.                                                   *)
WriteMetadata(w) ==
  /\ StoreAll(w)
  /\ inserted' = [inserted EXCEPT ![w] = MissingKinds(task[w].job)]
  /\ UNCHANGED <<rows, cutLater>>

CommitRows(w) ==
  /\ rows' = [rows EXCEPT ![task[w].job] =
       [k \in Kinds |-> IF k \in inserted[w] THEN @[k] + 1 ELSE @[k]]]
  /\ inserted' = OfOpenTransactions
  /\ UNCHANGED <<whole, cutLater>>

(* A step that touches neither files nor tables.                           *)
Elsewhere == inserted' = OfOpenTransactions /\ UNCHANGED <<whole, rows, cutLater>>

ARunStep(w) ==
  \/ Stage(w) /\ StoreAll(w) /\ UNCHANGED <<rows, inserted, cutLater>>
  \/ Finish(w) /\ WriteMetadata(w)
  \/ Commit(w) /\ CommitRows(w)
  \/ /\ \/ Load(w) \/ Claim(w) \/ Report(w)
        \/ Handle(w) \/ MarkFailedRead(w) \/ MarkFailedWrite(w)
     /\ Elsewhere

ATaskFault(w) ==
  \/ /\ StageFails(w) \/ Timeout(w) \/ Crash(w)
     /\ CutOff(w)
     /\ inserted' = OfOpenTransactions /\ UNCHANGED rows
  \/ (CommitFails(w) \/ LogFails(w)) /\ Elsewhere

ANext ==
  /\ \/ \E j \in Jobs : (ApiStep(j) \/ Redeliver(j)) /\ Elsewhere
     \/ \E w \in Workers, j \in Jobs : Receive(w, j) /\ Elsewhere
     \/ \E w \in Workers : ARunStep(w) \/ ATaskFault(w)
  /\ died' = died \cup {j \in Jobs : DiesNow(j)}

ASpec == AInit /\ [][ANext]_allVars /\ Fairness

-----------------------------------------------------------------------------
(* Every fault.  However often a message was delivered and a run repeated, *)
(* a job has at most one drum track and one export of each type; a job     *)
(* shown as completed has them all, and the files that they name are whole *)
(* unless a run that was delivered twice was cut off over them.            *)
PublishedOnce ==
  \A j \in Jobs : \A k \in Kinds :
    /\ rows[j][k] \in {0, 1}
    /\ row[j].status = "completed" =>
         /\ rows[j][k] = 1
         /\ j \notin cutLater => Named[k] \cap Followed \subseteq whole[j]
=============================================================================
