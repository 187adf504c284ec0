---------------------------- MODULE ReleaseChain ----------------------------
(***************************************************************************)
(* The sign-off of a release candidate: the release gate that runs every   *)
(* deterministic check, the evidence that summarises a gate report and     *)
(* looks at the repository once more, and the pilot that runs both and     *)
(* writes a bundle for handoff, which a validator accepts or rejects.      *)
(*                                                                         *)
(* Invocations share the working tree and the files they write; meanwhile  *)
(* a developer edits the tree, and invocations overlap or are killed.  A   *)
(* step here is one command of the gate or one file that is written.       *)
(***************************************************************************)
EXTENDS Integers, Sequences, FiniteSets

CONSTANTS
  Invocations,  (* the commands that may be started                         *)
  None,         (* no invocation                                            *)
  Plans,        (* what may be started: the script and its options          *)
  Worlds,       (* the states of the working tree that edits lead to        *)
  Commands,     (* bound: the commands of the gate that are considered      *)
  MaxEdits,     (* bound: how many edits                                    *)
  MaxActive,    (* bound: how many invocations run at once                  *)
  Faults        (* what may go wrong                                   *)

Scripts == {"gate", "evidence", "pilot"}
Options == {"skip_build", "skip_browser", "true_ai", "saved_report"}

(* The commands of the gate, in their order.                               *)
AllSteps == <<"backend_targeted", "pipeline_fast", "local_setup", "frontend_test",
              "frontend_lint", "manual_eval_gate", "cleanup_dry_run",
              "frontend_build", "browser_smoke",
              "pipeline_true_ai_opt_in", "backend_true_ai_opt_in">>

ASSUME ReleaseAssumption ==
  /\ Plans \subseteq [script : Scripts, options : SUBSET Options]
  /\ MaxEdits \in Nat /\ MaxActive \in Nat
  /\ None \notin Invocations
  /\ Commands \subseteq {AllSteps[i] : i \in DOMAIN AllSteps}
  (* The pilot starts the gate with every check; it can only add true AI.  *)
  /\ \A plan \in Plans : plan.script = "pilot" => plan.options \subseteq {"true_ai"}
  /\ Faults \subseteq {"kill", "gate", "evidence"}

VARIABLES
  world,      (* what the checks see of the working tree and the machine    *)
  generated,  (* the generated directories that exist in the tree           *)
  disk,       (* the files the scripts write, outside the repository        *)
  run,        (* run[p]: the invocation p                                   *)
  edits

vars == <<world, generated, disk, run, edits>>

-----------------------------------------------------------------------------
(* What the checks find.  A world records the tests and tools that fail    *)
(* now, what is missing for a local start, files that must not be          *)
(* committed, the rows of the manual evaluation and conflict markers.      *)

(* check_artifact_hygiene: entries of git status, generated directories.   *)
Hygiene(w, g) == IF w.offender \/ g # {} THEN "failed" ELSE "passed"

(* check_local_setup without the ports.                                    *)
Setup(w, g) ==
  IF w.missing \cap {"venvs", "backend_import", "node_modules"} # {}
     \/ Hygiene(w, g) = "failed" THEN "failed"
  ELSE IF "chromium" \in w.missing THEN "warning" ELSE "passed"

(* One row of a manual evaluation: a blocked row has no scores, a          *)
(* completed one names its report and its artifact.                        *)
RowIsValid(r) ==
  /\ IF r.blocked THEN ~r.scored ELSE r.refs
  /\ ~r.unsafe

(* check_manual_eval_gate                                                  *)
ManualEval(w) ==
  IF w.header /\ \A r \in w.rows : RowIsValid(r) THEN "passed" ELSE "failed"

(* A row with an unsafe token among those whose fields the evidence shows. *)
UnsafeRow(w) == \E r \in w.rows : r.unsafe

-----------------------------------------------------------------------------
(* The gate.                                                               *)

Skipped(options) ==
  (IF "skip_build" \in options THEN {"frontend_build"} ELSE {})
  \cup (IF "skip_browser" \in options THEN {"browser_smoke"} ELSE {})
  \cup (IF "true_ai" \in options THEN {}
        ELSE {"pipeline_true_ai_opt_in", "backend_true_ai_opt_in"})

Due(options) == Commands \ Skipped(options)

(* The checks of a release that is signed off.                             *)
Deterministic == Due({})

(* s comes before t in the gate.                                           *)
Before(s, t) ==
  \E i, j \in DOMAIN AllSteps : i < j /\ AllSteps[i] = s /\ AllSteps[j] = t

(* The outcome of a command; cleanup_storage always succeeds.              *)
Succeeds(s, w, g) ==
  CASE s = "local_setup"      -> Setup(w, g) # "failed"
    [] s = "manual_eval_gate" -> ManualEval(w) = "passed"
    [] s = "cleanup_dry_run"  -> TRUE
    [] OTHER -> /\ s \notin w.failing
                /\ s = "browser_smoke" => "chromium" \notin w.missing

(* What the builds and the browser leave behind.                           *)
Leaves(s) ==
  CASE s = "frontend_build" -> {"frontend/dist"}
    [] s = "browser_smoke"  -> {"test-results", "playwright-report"}
    [] OTHER -> {}

Absent == [by |-> None, status |-> "absent", passed |-> {},
           hygiene |-> "absent", browser |-> "absent", manual |-> "absent",
           setup |-> "absent", of |-> None]

(* A file whose writer was killed: not JSON.                               *)
Torn == [Absent EXCEPT !.status = "torn"]

(* _command_status                                                         *)
CommandStatus(s, ran, passed) ==
  IF s \notin ran THEN "not_run" ELSE IF s \in passed THEN "passed" ELSE "failed"

Report(p, status, options, ran, passed, hygiene) ==
  [ by |-> p, status |-> status, passed |-> passed, hygiene |-> hygiene,
    browser |-> IF "skip_browser" \in options /\ ran # {}
                THEN "skipped_developer_shortcut"
                ELSE CommandStatus("browser_smoke", ran, passed),
    manual |-> CommandStatus("manual_eval_gate", ran, passed),
    setup |-> CommandStatus("local_setup", ran, passed),
    of |-> p ]

Idle == [script |-> "none", options |-> {}, pc |-> "idle", passed |-> {},
         setup |-> "absent", gate |-> Absent, read |-> Absent, evidence |-> Absent,
         manifest |-> "absent",
         struck |-> {}]

Bundle == {"gate", "evidence", "notes", "manifest", "handoff"}
Files == {"saved"} \cup Bundle

TypeOK ==
  /\ world \in Worlds
  /\ generated \subseteq {"frontend/dist", "test-results", "playwright-report"}
  /\ DOMAIN disk = Files
  /\ DOMAIN run = Invocations
  /\ \A p \in Invocations : DOMAIN run[p] = DOMAIN Idle
  /\ edits \in 0..MaxEdits

Active == {p \in Invocations : run[p].pc \notin {"idle", "done"}}
Pilots == {p \in Active : run[p].script = "pilot"}

At(p, pc) == run[p].pc = pc
Goto(p, pc) == run' = [run EXCEPT ![p].pc = pc]

(* What the properties remember of an invocation that has ended.           *)
Ended(r, struck) ==
  [Idle EXCEPT !.script = r.script, !.pc = "done", !.gate = r.gate,
     !.evidence = r.evidence, !.manifest = r.manifest, !.struck = struck]

End(p) == run' = [run EXCEPT ![p] = Ended(@, @.struck)]

Init ==
  /\ world \in Worlds
  /\ generated = {}
  /\ disk = [f \in Files |-> Absent]
  /\ run = [p \in Invocations |-> Idle]
  /\ edits = 0

(* A developer edits the tree or repairs it.                               *)
Edit ==
  /\ edits < MaxEdits
  /\ edits' = edits + 1
  /\ world' \in Worlds \ {world}
  /\ UNCHANGED <<generated, disk, run>>

(* Pilots that run at the same time write the same bundle.                 *)
Overlapping(p, plan) == IF plan.script = "pilot" THEN Pilots ELSE {}

(* The state in which a script begins, while others are at work.           *)
Started(plan, others) ==
  [Idle EXCEPT !.script = plan.script, !.options = plan.options,
     !.struck = IF others # {} THEN {"overlap"} ELSE {},
     !.pc = CASE plan.script = "pilot" -> "setup"
              [] plan.script = "evidence" /\ "saved_report" \in plan.options -> "read"
              [] OTHER -> "clean"]

Start(p) ==
  /\ At(p, "idle")
  /\ Cardinality(Active) < MaxActive
  /\ \E plan \in Plans :
       LET others == Overlapping(p, plan) IN
       run' = [q \in Invocations |->
         IF q = p THEN Started(plan, others)
         ELSE IF q \in others THEN [run[q] EXCEPT !.struck = @ \cup {"overlap"}]
         ELSE run[q]]
  /\ UNCHANGED <<world, generated, disk, edits>>

(* The pilot checks the local setup before the gate cleans up.             *)
CheckSetup(p) ==
  /\ At(p, "setup")
  /\ run' = [run EXCEPT ![p].setup = Setup(world, generated), ![p].pc = "clean"]
  /\ UNCHANGED <<world, generated, disk, edits>>

(* Where the report of the gate goes.                                      *)
AfterGate(p) ==
  CASE run[p].script = "pilot" -> "report"
    [] run[p].script = "gate"  -> "save"
    [] OTHER                   -> "judge"

(* cleanup_generated_artifacts, then the hygiene of what is left.          *)
BeginGate(p) ==
  /\ At(p, "clean")
  /\ generated' = {}
  /\ IF Hygiene(world, {}) = "passed" THEN Goto(p, "steps")
     ELSE run' = [run EXCEPT
            ![p].gate = Report(p, "failed", run[p].options, {}, {}, "failed"),
            ![p].pc = AfterGate(p)]
  /\ UNCHANGED <<world, disk, edits>>

(* The commands that are still to run; they run in their order.            *)
Left(p) == Due(run[p].options) \ run[p].passed

(* One command.  The first one that fails ends the gate; a true-AI command *)
(* that fails leaves the verdict to the end.                               *)
GateStep(p) ==
  /\ At(p, "steps")
  /\ \E s \in Left(p) :
       LET r == run[p] IN
       /\ \A t \in Left(p) : ~Before(t, s)
       /\ IF Succeeds(s, world, generated)
          THEN /\ run' = [run EXCEPT ![p].passed = @ \cup {s}]
               /\ generated' = generated \cup Leaves(s)
          ELSE IF s \in Deterministic
          THEN /\ generated' = {}
               /\ run' = [run EXCEPT
                    ![p].gate = Report(p, "failed", r.options, r.passed \cup {s},
                                       r.passed, Hygiene(world, {})),
                    ![p].pc = AfterGate(p)]
          ELSE /\ Goto(p, "verdict")
               /\ UNCHANGED generated
  /\ UNCHANGED <<world, disk, edits>>

(* The last clean-up, the hygiene after it and the verdict; the redaction  *)
(* of the report passes, as every line of it was redacted before.          *)
EndGate(p) ==
  LET r == run[p]
      verdict == IF Hygiene(world, {}) = "passed" /\ ~At(p, "verdict")
                 THEN "passed" ELSE "failed" IN
  /\ At(p, "verdict") \/ (At(p, "steps") /\ Left(p) = {})
  /\ generated' = {}
  /\ run' = [run EXCEPT
       ![p].gate = Report(p, verdict, r.options, r.passed, r.passed, Hygiene(world, {})),
       ![p].pc = AfterGate(p)]
  /\ UNCHANGED <<world, disk, edits>>

(* run_v1_release_gate.py --output                                         *)
SaveReport(p) ==
  /\ At(p, "save")
  /\ disk' = [disk EXCEPT !["saved"] = run[p].gate]
  /\ End(p)
  /\ UNCHANGED <<world, generated, edits>>

-----------------------------------------------------------------------------
(* The evidence.                                                           *)

(* Deviation: the evidence command is given no report of the pilot.        *)
ReportFileSaved(p) == "saved"

(* The report that an evidence command is given.                           *)
ReportFile(p) == IF run[p].script = "pilot" THEN "gate" ELSE "saved"

(* When the evidence command ends, a pilot goes on to look for its file.   *)
EndEvidence(p) == IF run[p].script = "pilot" THEN Goto(p, "collect") ELSE End(p)

(* The gate report that was named; a file that does not parse raises.      *)
ReadReport(p) ==
  LET report == disk[ReportFile(p)] IN
  /\ At(p, "read")
  /\ IF report.status \in {"absent", "torn"} THEN EndEvidence(p)
     ELSE run' = [run EXCEPT ![p].read = report, ![p].pc = "judge"]
  /\ UNCHANGED <<world, generated, disk, edits>>

(* Deviation: the steps of the report are not looked at.                   *)
EvidencePassesBare(gate, w, g) ==
  gate.status = "passed" /\ ManualEval(w) = "passed" /\ Hygiene(w, g) = "passed"

(* _overall_status of the evidence.  A clean-up and a reset are dry runs.  *)
EvidencePasses(gate, w, g) ==
  /\ Hygiene(w, g) = "passed"
  /\ gate.status = "passed"
  /\ gate.setup = "passed"
  /\ "backend_targeted" \in gate.passed
  /\ ManualEval(w) = "passed"
  /\ gate.browser = "passed"
  /\ ~UnsafeRow(w)

(* build_release_evidence: the report with what is found in the tree now.  *)
Summary(p, gate, w, g) ==
  [gate EXCEPT !.by = p, !.of = gate.by,
     !.status = IF EvidencePasses(gate, w, g) THEN "passed" ELSE "failed",
     !.manual = IF UnsafeRow(w) THEN "unsafe" ELSE ManualEval(w),
     !.hygiene = Hygiene(w, g)]

JudgeEvidence(p) ==
  LET gate == IF run[p].read = Absent THEN run[p].gate ELSE run[p].read IN
  /\ At(p, "judge")
  /\ run' = [run EXCEPT
       ![p].evidence = Summary(p, gate, world, generated),
       ![p].pc = "write"]
  /\ UNCHANGED <<world, generated, disk, edits>>

(* The evidence of a pilot goes to its bundle, another one beside it.      *)
WriteEvidence(p) ==
  /\ At(p, "write")
  /\ disk' = IF run[p].script = "pilot"
             THEN [disk EXCEPT !["evidence"] = run[p].evidence] ELSE disk
  /\ Goto(p, "notes")
  /\ UNCHANGED <<world, generated, edits>>

(* Deviation: notes that are there are kept.                               *)
WriteNotesOnce(p) ==
  /\ At(p, "notes")
  /\ disk' = IF run[p].script = "pilot" /\ disk["notes"].status = "absent"
             THEN [disk EXCEPT !["notes"] = run[p].evidence] ELSE disk
  /\ EndEvidence(p)
  /\ UNCHANGED <<world, generated, edits>>

(* render_markdown raises on an unsafe reference: no notes are written.    *)
WriteNotes(p) ==
  /\ At(p, "notes")
  /\ disk' = IF run[p].script = "pilot" /\ run[p].evidence.manual # "unsafe"
             THEN [disk EXCEPT !["notes"] = run[p].evidence] ELSE disk
  /\ EndEvidence(p)
  /\ UNCHANGED <<world, generated, edits>>

(* A command that dies: out of memory, no space, an exception.  The gate   *)
(* of a pilot leaves its generated files; its report is only a failure.    *)
Failure(p) == [Absent EXCEPT !.by = p, !.status = "failed"]

GateDies(p) ==
  /\ "gate" \in Faults
  /\ run[p].script = "pilot" /\ run[p].pc \in {"clean", "steps", "verdict"}
  /\ run' = [run EXCEPT ![p].gate = Failure(p), ![p].pc = "report"]
  /\ UNCHANGED <<world, generated, disk, edits>>

EvidenceDies(p) ==
  /\ "evidence" \in Faults
  /\ run[p].script = "pilot" /\ run[p].pc \in {"read", "judge", "write", "notes"}
  /\ run' = [run EXCEPT ![p].struck = @ \cup {"evidence"}, ![p].pc = "collect"]
  /\ UNCHANGED <<world, generated, disk, edits>>

-----------------------------------------------------------------------------
(* The pilot.                                                              *)

(* The bundle gets the gate report, whatever it says; the evidence command *)
(* is given that file.                                                     *)
BundleReport(p) ==
  /\ At(p, "report")
  /\ disk' = [disk EXCEPT !["gate"] = run[p].gate]
  /\ Goto(p, "read")
  /\ UNCHANGED <<world, generated, edits>>

(* The evidence file is taken as it lies there, and written back; one that *)
(* does not parse is a failure.                                            *)
Collect(p) ==
  LET found == disk["evidence"]
      read == IF found.status \in {"absent", "torn"} THEN Failure(p) ELSE found IN
  /\ At(p, "collect")
  /\ disk' = IF found.status = "absent" THEN disk ELSE [disk EXCEPT !["evidence"] = read]
  /\ run' = [run EXCEPT ![p].evidence = read, ![p].pc = "manifest"]
  /\ UNCHANGED <<world, generated, edits>>

(* _overall_status of the pilot; git status always succeeds, and so does   *)
(* the redaction of what was redacted before.                              *)
ManifestPasses(r, w) ==
  /\ ~w.conflict
  /\ r.setup \in {"passed", "warning"}
  /\ r.gate.status = "passed"
  /\ r.evidence.status = "passed"
  /\ r.gate.hygiene = "passed"
  /\ r.gate.manual = "passed"
  /\ r.gate.browser = "passed"

(* git diff --check, the manifest and the handoff notes.                   *)
WriteManifest(p) ==
  LET verdict == IF ManifestPasses(run[p], world) THEN "passed" ELSE "failed" IN
  /\ At(p, "manifest")
  /\ disk' = [disk EXCEPT !["manifest"] =
        [Absent EXCEPT !.by = p, !.status = verdict,
           !.browser = IF run[p].gate.browser = "absent"
                       THEN run[p].evidence.browser ELSE run[p].gate.browser]]
  /\ run' = [run EXCEPT ![p].manifest = verdict, ![p].pc = "handoff"]
  /\ UNCHANGED <<world, generated, edits>>

WriteHandoff(p) ==
  /\ At(p, "handoff")
  /\ disk' = [disk EXCEPT !["handoff"] = [disk["manifest"] EXCEPT !.by = p]]
  /\ End(p)
  /\ UNCHANGED <<world, generated, edits>>

(* check_v1_rc_handoff: both verdicts are valid; files that are there and  *)
(* parse; a manifest without any true-AI status, from a gate that died, is *)
(* not.  Nothing compares the files.                                       *)
HandoffAccepted ==
  /\ disk["manifest"].status \in {"passed", "failed"}
  /\ disk["manifest"].browser # "absent"
  /\ \A f \in {"handoff", "notes"} : disk[f].status # "absent"
  /\ \A f \in {"gate", "evidence"} : disk[f].status \notin {"absent", "torn"}

(* The file that a step writes.                                            *)
Written(p) ==
  CASE At(p, "report")   -> {"gate"}
    [] At(p, "save")     -> {"saved"}
    [] At(p, "manifest") -> {"manifest"}
    [] At(p, "handoff")  -> {"handoff"}
    [] At(p, "write") /\ run[p].script = "pilot" -> {"evidence"}
    [] At(p, "notes") /\ run[p].script = "pilot" -> {"notes"}
    [] OTHER -> {}

(* An invocation is killed with its children; a file may be left torn.     *)
Kill(p) ==
  /\ "kill" \in Faults
  /\ p \in Active
  /\ disk' \in {disk} \cup {[disk EXCEPT ![f] = [Torn EXCEPT !.by = p]] : f \in Written(p)}
  /\ run' = [run EXCEPT ![p] = Ended(@, @.struck \cup {"kill"})]
  /\ UNCHANGED <<world, generated, edits>>

-----------------------------------------------------------------------------
Work(p) ==
  \/ CheckSetup(p) \/ BeginGate(p) \/ GateStep(p) \/ EndGate(p) \/ SaveReport(p)
  \/ ReadReport(p) \/ JudgeEvidence(p) \/ WriteEvidence(p) \/ WriteNotes(p)
  \/ BundleReport(p) \/ Collect(p) \/ WriteManifest(p) \/ WriteHandoff(p)

Next ==
  \/ Edit
  \/ \E p \in Invocations :
       Start(p) \/ Work(p) \/ GateDies(p) \/ EvidenceDies(p) \/ Kill(p)

Spec == Init /\ [][Next]_vars

-----------------------------------------------------------------------------
(* A sign-off is earned: when a pilot says passed, or an evidence command  *)
(* does, the gate behind it ran every deterministic command and each one   *)
(* succeeded, whatever was edited, killed or overlapped.  The front-end    *)
(* build is the exception: a report made with --skip-build does not show.  *)
SignOffIsEarned ==
  \A p \in Invocations :
    LET r == run[p] IN
    /\ r.manifest = "passed" =>
         Deterministic \subseteq r.gate.passed /\ r.gate.by = p
    /\ r.evidence.status = "passed" =>
         Deterministic \ {"frontend_build"} \subseteq r.evidence.passed

(* The evidence behind a passed manifest was made by that pilot from its   *)
(* own gate report, unless its evidence command died or another pilot      *)
(* wrote to the bundle meanwhile.                                          *)
EvidenceIsOfTheRun ==
  \A p \in Invocations :
    run[p].manifest = "passed" /\ run[p].struck \cap {"evidence", "overlap"} = {} =>
      run[p].evidence.by = p /\ run[p].evidence.of = p

(* A bundle that the validator accepts and whose manifest says passed is   *)
(* the work of one pilot, unless a pilot that wrote to it was killed, had  *)
(* its evidence command die, or overlapped with another.                   *)
BundleIsOneRun ==
  Pilots = {} /\ HandoffAccepted /\ disk["manifest"].status = "passed" =>
    \/ \A f \in Bundle : disk[f].by = disk["manifest"].by
    \/ \E f \in Bundle : disk[f].by # None /\ run[disk[f].by].struck # {}
=============================================================================
