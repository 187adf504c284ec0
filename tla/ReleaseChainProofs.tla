------------------------- MODULE ReleaseChainProofs -------------------------
(***************************************************************************)
(* Theorems about ReleaseChain, for any number of invocations, plans and   *)
(* states of the tree and for every set of admitted faults.                *)
(***************************************************************************)
EXTENDS ReleaseChain, TLAPS

-----------------------------------------------------------------------------
(* The inductive invariant.                                                *)

Statuses == {"absent", "torn", "not_run", "skipped_developer_shortcut", "warning",
             "passed", "failed", "unsafe"}

Places == {"idle", "setup", "clean", "steps", "verdict", "report", "save", "read", "judge",
           "write", "notes", "collect", "manifest", "handoff", "done"}

Interference == {"overlap", "evidence", "kill"}

Writers == Invocations \cup {None}

File == [by : Writers, status : Statuses, passed : SUBSET Commands, hygiene : Statuses,
         browser : Statuses, manual : Statuses, setup : Statuses, of : Writers]

Run == [script : Scripts \cup {"none"}, options : SUBSET Options, pc : Places,
        passed : SUBSET Commands, setup : Statuses, gate : File, read : File,
        evidence : File, manifest : Statuses, struck : SUBSET Interference]

Generated == {"frontend/dist", "test-results", "playwright-report"}

Types ==
  /\ world \in Worlds /\ generated \subseteq Generated
  /\ disk \in [Files -> File] /\ run \in [Invocations -> Run]

(* What a gate report claims was done: its verdict does not cover a build  *)
(* or a browser that was skipped, its browser status shows the latter.     *)
ReportIsSound(g) ==
  /\ g.status = "passed" => Deterministic \ {"frontend_build", "browser_smoke"} \subseteq g.passed
  /\ g.browser = "passed" => "browser_smoke" \in g.passed

(* So was what evidence claims, which is never passed over an unsafe row.  *)
SummaryIsSound(e) ==
  e.status = "passed" =>
    Deterministic \ {"frontend_build"} \subseteq e.passed /\ e.manual # "unsafe"

FilesAreSound(d) ==
  /\ ReportIsSound(d["saved"]) /\ ReportIsSound(d["gate"]) /\ SummaryIsSound(d["evidence"])
  /\ d["manifest"].status = "passed" => d["manifest"].by # None

(* Whoever wrote a file has started.                                       *)
WritersStarted == \A f \in Files : disk[f].by # None => run[disk[f].by].pc # "idle"

(* What an invocation p may have become: r.                                *)
Sound(p, r) ==
  /\ r.pc = "idle" => r = Idle
  /\ r.pc \in {"setup", "report", "collect", "manifest", "handoff"} => r.script = "pilot"
  /\ r.pc = "save" => r.script = "gate"
  /\ r.script = "pilot" => r.options \subseteq {"true_ai"}
  /\ ReportIsSound(r.gate) /\ ReportIsSound(r.read) /\ SummaryIsSound(r.evidence)
  /\ r.gate.status = "passed" =>
       /\ r.gate.by = p
       /\ r.script = "pilot" => Deterministic \cap {"frontend_build"} \subseteq r.gate.passed
  /\ r.pc \in {"report", "save"} => r.gate.by = p
  /\ r.pc = "report" => r.gate.status \in {"passed", "failed"}
  /\ r.pc \in {"write", "notes"} => r.evidence.by = p
  /\ r.manifest # "absent" => r.script = "pilot" /\ r.pc \in {"handoff", "done"}
  /\ r.manifest = "passed" => r.gate.status = "passed" /\ r.gate.browser = "passed"

(* Pilots that run at the same time know of each other.                    *)
OverlapIsStruck == \A p, q \in Pilots : p # q => "overlap" \in run[p].struck

(* A pilot that nothing interfered with, and what it finds in the files d: *)
(* at each place what it wrote itself.                                     *)
Undisturbed(r) == r.script = "pilot" /\ r.struck \cap {"evidence", "overlap"} = {}

Made(x, p) == x.by = p /\ x.of = p

NotesOf(p, e, d) == e.manual = "unsafe" \/ d["notes"].by = p

OnCourse(p, r, d) ==
  /\ r.pc \in {"read", "judge", "write", "notes", "collect", "manifest", "handoff"} =>
       d["gate"].by = p
  /\ r.pc = "read" => d["gate"].status \in {"passed", "failed"}
  /\ r.pc = "judge" => r.read.by = p
  /\ r.pc \in {"write", "notes"} =>
       Made(r.evidence, p) /\ r.evidence.status \in {"passed", "failed"}
  /\ r.pc = "notes" => d["evidence"] = r.evidence
  /\ r.pc = "collect" =>
       /\ Made(d["evidence"], p) /\ d["evidence"].status \in {"passed", "failed"}
       /\ NotesOf(p, d["evidence"], d)
  /\ r.pc \in {"manifest", "handoff"} =>
       d["evidence"].by = p /\ NotesOf(p, r.evidence, d)
  /\ r.pc = "manifest" \/ r.manifest # "absent" => Made(r.evidence, p)
  /\ r.pc = "handoff" => d["manifest"].by = p

(* Beside a passed manifest of an unstruck pilot lie its own files, those  *)
(* of a pilot that is at work and those of one that was struck.            *)
OfAnother(f) ==
  disk[f].by # None /\ (run[disk[f].by].struck # {} \/ disk[f].by \in Pilots)

BundleInv ==
  LET m == disk["manifest"].by IN
  disk["manifest"].status = "passed" /\ run[m].struck = {} =>
    /\ run[m].script = "pilot"
    /\ \A f \in Bundle :
         \/ disk[f].by = m
         \/ f = "handoff" /\ run[m].pc = "handoff"
         \/ OfAnother(f)

Inv ==
  /\ Types
  /\ FilesAreSound(disk) /\ WritersStarted /\ OverlapIsStruck /\ BundleInv
  /\ \A p \in Invocations :
       Sound(p, run[p]) /\ (Undisturbed(run[p]) => OnCourse(p, run[p], disk))

-----------------------------------------------------------------------------
(* What the operators build.                                               *)

LEMMA BlankFile ==
  /\ Absent \in File /\ Absent.by = None /\ Absent.status = "absent"
  /\ Absent.browser = "absent" /\ Absent.manual = "absent"
BY DEF Absent, File, Statuses, Writers

LEMMA BlankRun == Idle \in Run /\ Idle.pc = "idle" /\ Idle.struck = {}
BY BlankFile DEF Idle, Run, Places, Statuses, Interference

LEMMA FailureFile ==
  ASSUME NEW p \in Invocations, NEW x, x = Failure(p)
  PROVE  /\ x \in File /\ x.by = p /\ x.status = "failed"
         /\ x.browser = "absent" /\ x.manual = "absent"
BY DEF Failure, Absent, File, Statuses, Writers

LEMMA TornFile ==
  ASSUME NEW p \in Invocations, NEW x, x = [Torn EXCEPT !.by = p]
  PROVE  x \in File /\ x.by = p /\ x.status = "torn" /\ x.browser = "absent"
BY DEF Torn, Absent, File, Statuses, Writers

LEMMA HygieneStatus == \A w, g : Hygiene(w, g) \in {"passed", "failed"}
BY DEF Hygiene

LEMMA SetupStatus == \A w, g : Setup(w, g) \in Statuses
BY DEF Setup, Statuses

LEMMA ManualStatus == \A w : ManualEval(w) \in {"passed", "failed"}
BY DEF ManualEval

(* A report is a file of its writer; its browser passed only in fact.      *)
LEMMA ReportFacts ==
  ASSUME NEW p \in Invocations, NEW status \in {"passed", "failed"}, NEW options,
         NEW ran, NEW passed \in SUBSET Commands, NEW hygiene \in {"passed", "failed"},
         NEW x, x = Report(p, status, options, ran, passed, hygiene)
  PROVE  /\ x \in File /\ x.by = p /\ x.status = status /\ x.passed = passed
         /\ x.browser = "passed" => "browser_smoke" \in passed
<1>1. \A s : CommandStatus(s, ran, passed) \in Statuses
  BY DEF CommandStatus, Statuses
<1>2. CommandStatus("browser_smoke", ran, passed) = "passed" => "browser_smoke" \in passed
  BY DEF CommandStatus
<1>3. /\ x.by = p /\ x.status = status /\ x.passed = passed
      /\ x.browser \in {"skipped_developer_shortcut",
                        CommandStatus("browser_smoke", ran, passed)}
  BY DEF Report
<1>4. x \in File
  BY <1>1 DEF Report, File, Statuses, Writers
<1> QED BY <1>2, <1>3, <1>4

(* What a run without a shortcut must do, and what any run must do.        *)
LEMMA DueFacts ==
  ASSUME NEW options
  PROVE  /\ Deterministic \ {"frontend_build", "browser_smoke"} \subseteq Due(options)
         /\ options \subseteq {"true_ai"} => Deterministic \subseteq Due(options)
BY DEF Deterministic, Due, Skipped
-----------------------------------------------------------------------------
(* Initially.                                                              *)

LEMMA InitInv == Init => Inv
<1> SUFFICES ASSUME Init PROVE Inv
  OBVIOUS
<1> USE DEF Init
<1>1. Types
  BY BlankFile, BlankRun DEF Types
<1>2. \A f \in Files : disk[f].status = "absent" /\ disk[f].by = None /\ disk[f].browser = "absent"
  BY BlankFile
<1>3. \A p \in Invocations : run[p] = Idle
  OBVIOUS
<1>4. FilesAreSound(disk) /\ WritersStarted
  BY <1>2 DEF FilesAreSound, ReportIsSound, SummaryIsSound, WritersStarted, Files, Bundle
<1>5. Pilots = {}
  BY <1>3, BlankRun DEF Pilots, Active
<1>6. OverlapIsStruck /\ BundleInv
  BY <1>2, <1>5 DEF OverlapIsStruck, BundleInv, Files, Bundle
<1>7. \A p \in Invocations : Sound(p, Idle) /\ ~Undisturbed(Idle)
  BY DEF Sound, Undisturbed, Idle, Absent, ReportIsSound, SummaryIsSound
<1> QED BY <1>1, <1>3, <1>4, <1>6, <1>7 DEF Inv

-----------------------------------------------------------------------------
(* A step of one invocation.                                               *)

(* p becomes r and the files become d: p goes on or ends, and what it      *)
(* writes is its own; only pilots write to the bundle.                     *)
Advances(p, r, d) ==
  /\ run[p].pc \notin {"idle", "done"} /\ r.pc # "idle"
  /\ r.script = run[p].script /\ run[p].struck \subseteq r.struck
  /\ r.pc = "done" => r.struck # {} \/ run[p].pc = "handoff" \/ r.script # "pilot"
  /\ \A f \in Files : d[f] = disk[f] \/ d[f].by = p
  /\ r.script # "pilot" => \A f \in Bundle : d[f] = disk[f]
  /\ run[p].pc = "handoff" => d["handoff"].by = p \/ r.struck # {}

(* A manifest that says passed is written when the rest is written.        *)
Closes(p, r, d) ==
  \/ d["manifest"] = disk["manifest"]
  \/ d["manifest"].status # "passed"
  \/ /\ d["manifest"].by = p /\ r.script = "pilot" /\ r.pc = "handoff"
     /\ r.struck = {} => \A f \in Bundle \ {"handoff"} : d[f].by = p

Becomes(p, r, d) ==
  /\ world' = world /\ generated' \subseteq Generated
  /\ disk' = d /\ run' = [run EXCEPT ![p] = r]
  /\ Advances(p, r, d) /\ Closes(p, r, d)
  /\ FilesAreSound(d) /\ Sound(p, r)
  /\ Undisturbed(r) => OnCourse(p, r, d)

(* Such a step preserves the invariant.                                    *)
LEMMA BecomesKeeps ==
  ASSUME Inv, NEW p \in Invocations, NEW r \in Run, NEW d \in [Files -> File],
         Becomes(p, r, d)
  PROVE  Inv'
<1>1. /\ run \in [Invocations -> Run] /\ disk \in [Files -> File] /\ world \in Worlds
      /\ generated' \subseteq Generated /\ world' = world
  BY DEF Inv, Types, Becomes
<1>2. /\ run' \in [Invocations -> Run] /\ disk' = d
      /\ run'[p] = r /\ \A q \in Invocations \ {p} : run'[q] = run[q]
  BY <1>1 DEF Becomes
<1>3. Advances(p, r, d)
  BY DEF Becomes
<1>4. Pilots' \subseteq Pilots /\ \A q \in Pilots \ {p} : q \in Pilots'
  BY <1>2, <1>3 DEF Advances, Pilots, Active
<1>5. \A q \in Invocations : run[q].struck \subseteq run'[q].struck
  BY <1>2, <1>3 DEF Advances
<1>6. Types'
  BY <1>1, <1>2 DEF Types
<1>7. FilesAreSound(d)
  BY DEF Becomes
<1>8. WritersStarted'
  <2> SUFFICES ASSUME NEW f \in Files, d[f].by # None
               PROVE  run'[d[f].by].pc # "idle"
    BY <1>2 DEF WritersStarted
  <2>1. d[f].by \in Invocations
    BY DEF File, Writers
  <2>2. d[f].by = p \/ run[d[f].by].pc # "idle"
    BY <1>3 DEF Inv, WritersStarted, Advances
  <2> QED BY <1>2, <1>3, <2>1, <2>2 DEF Advances
<1>9. OverlapIsStruck'
  BY <1>4, <1>5 DEF Inv, OverlapIsStruck, Pilots, Active
<1>10. ASSUME NEW q \in Invocations \ {p}, Undisturbed(run[q]) PROVE OnCourse(q, run[q], d)
  <2>1. OnCourse(q, run[q], disk)
    BY <1>10 DEF Inv
  <2>2. CASE run[q].pc \in {"idle", "done"}
    BY <2>1, <2>2 DEF OnCourse
  <2>3. CASE run[q].pc \notin {"idle", "done"}
    <3>1. q \in Pilots
      BY <1>10, <2>3 DEF Undisturbed, Pilots, Active
    <3>2. p \notin Pilots
      BY <1>10, <3>1 DEF Inv, OverlapIsStruck, Undisturbed
    <3>3. r.script # "pilot"
      BY <1>3, <3>2 DEF Advances, Pilots, Active
    <3>4. \A f \in Bundle : d[f] = disk[f]
      BY <1>3, <3>3 DEF Advances
    <3> QED BY <2>1, <3>4 DEF OnCourse, NotesOf, Bundle
  <2> QED BY <2>2, <2>3
<1>11. BundleInv'
  <2>1. CASE d["manifest"] = disk["manifest"]
    <3> DEFINE m == d["manifest"].by
    <3>1. SUFFICES ASSUME d["manifest"].status = "passed", run'[m].struck = {}
                   PROVE  /\ run'[m].script = "pilot"
                          /\ \A f \in Bundle :
                               \/ d[f].by = m
                               \/ f = "handoff" /\ run'[m].pc = "handoff"
                               \/ OfAnother(f)'
      BY <1>2 DEF BundleInv, OfAnother
    <3>2. m \in Invocations
      BY <1>7, <3>1 DEF FilesAreSound, File, Writers, Files, Bundle
    <3>3. m = disk["manifest"].by
      BY <2>1
    <3> HIDE DEF m
    <3>4. run[m].struck = {}
      BY <1>5, <3>1, <3>2
    <3>5. /\ run[m].script = "pilot"
          /\ \A f \in Bundle :
               \/ disk[f].by = m
               \/ f = "handoff" /\ run[m].pc = "handoff"
               \/ OfAnother(f)
      BY <2>1, <3>1, <3>3, <3>4 DEF Inv, BundleInv
    <3>6. run'[m].script = "pilot"
      BY <1>2, <1>3, <3>2, <3>5 DEF Advances
    (* Where p is still at work or was struck, its files are of another;   *)
    (* where it ended unstruck, the manifest is its own.                   *)
    <3>7. p \in Pilots => run'[p].struck # {} \/ p \in Pilots' \/ p = m
      <4> SUFFICES ASSUME p \in Pilots, r.struck = {}, r.pc = "done" PROVE p = m
        BY <1>2, <1>3, <1>4 DEF Advances, Pilots, Active
      <4>1. run[p].pc = "handoff" /\ Undisturbed(run[p])
        BY <1>3 DEF Advances, Pilots, Undisturbed
      <4> QED BY <3>3, <4>1 DEF Inv, OnCourse
    <3>8. ASSUME NEW f \in Bundle
          PROVE  \/ d[f].by = m
                 \/ f = "handoff" /\ run'[m].pc = "handoff"
                 \/ OfAnother(f)'
      <4>1. CASE d[f].by = p /\ p \in Pilots
        BY ReleaseAssumption, <1>2, <3>7, <4>1 DEF OfAnother
      <4>2. CASE d[f] = disk[f] /\ f = "handoff" /\ run[m].pc = "handoff"
        BY <1>2, <1>3, <3>1, <3>2, <4>2 DEF Advances
      <4>3. CASE d[f] = disk[f] /\ OfAnother(f)
        <5>1. disk[f].by \in Invocations
          BY <1>1, <4>3 DEF OfAnother, File, Writers, Files
        <5> QED BY <1>2, <1>4, <1>5, <3>7, <4>3, <5>1 DEF OfAnother
      <4>4. d[f] = disk[f] \/ (d[f].by = p /\ p \in Pilots)
        BY <1>3 DEF Advances, Files, Pilots, Active
      <4> QED BY <3>5, <4>1, <4>2, <4>3, <4>4
    <3> QED BY <3>6, <3>8
  <2>2. CASE d["manifest"].status # "passed"
    BY <1>2, <2>2 DEF BundleInv
  <2>3. CASE /\ d["manifest"].by = p /\ r.script = "pilot" /\ r.pc = "handoff"
             /\ r.struck = {} => \A f \in Bundle \ {"handoff"} : d[f].by = p
    BY <1>2, <2>3 DEF BundleInv
  <2> QED BY <2>1, <2>2, <2>3 DEF Becomes, Closes
<1>12. \A q \in Invocations :
         Sound(q, run'[q]) /\ (Undisturbed(run'[q]) => OnCourse(q, run'[q], d))
  BY <1>2, <1>10 DEF Inv, Becomes
<1>13. FilesAreSound(disk')
  BY <1>2, <1>7
<1> QED BY <1>2, <1>6, <1>8, <1>9, <1>11, <1>12, <1>13
        DEF Inv, FilesAreSound, ReportIsSound, SummaryIsSound, Sound, Undisturbed, OnCourse,
            NotesOf, Made
-----------------------------------------------------------------------------
(* An invocation starts.  A pilot strikes the pilots it finds, and itself. *)

LEMMA FreshRun ==
  ASSUME NEW p \in Invocations, NEW plan \in Plans, NEW others, NEW n,
         n = Started(plan, others)
  PROVE  /\ n \in Run /\ n.script = plan.script /\ Sound(p, n)
         /\ n.pc \in {"setup", "read", "clean"}
         /\ others # {} => "overlap" \in n.struck
         /\ n.script = "pilot" => \A d : OnCourse(p, n, d)
<1>1. /\ plan.script \in Scripts /\ plan.options \in SUBSET Options
      /\ plan.script = "pilot" => plan.options \subseteq {"true_ai"}
  BY ReleaseAssumption
<1>2. /\ n.script = plan.script /\ n.options = plan.options
      /\ n.struck = IF others # {} THEN {"overlap"} ELSE {}
      /\ n.pc \in {"setup", "read", "clean"}
      /\ n.pc = "setup" <=> n.script = "pilot"
      /\ n.gate = Absent /\ n.read = Absent /\ n.evidence = Absent
      /\ n.manifest = "absent"
  BY DEF Started, Idle
<1>3. n \in Run
  BY <1>1, <1>2, BlankRun DEF Started, Run, Places, Interference
<1>4. Sound(p, n)
  BY <1>1, <1>2, BlankFile DEF Sound, ReportIsSound, SummaryIsSound
<1>5. n.script = "pilot" => \A d : OnCourse(p, n, d)
  BY <1>2 DEF OnCourse
<1>6. /\ n.script = plan.script /\ n.pc \in {"setup", "read", "clean"}
      /\ others # {} => "overlap" \in n.struck
  BY <1>2
<1> QED BY <1>3, <1>4, <1>5, <1>6

(* A strike changes nothing else.                                          *)
LEMMA StruckRun ==
  ASSUME NEW q \in Invocations, NEW r \in Run, Sound(q, r), r.pc # "idle",
         NEW n, n = [r EXCEPT !.struck = @ \cup {"overlap"}]
  PROVE  /\ n \in Run /\ n.script = r.script /\ n.pc = r.pc
         /\ n.struck = r.struck \cup {"overlap"} /\ Sound(q, n)
<1>1. /\ n.script = r.script /\ n.options = r.options /\ n.pc = r.pc
      /\ n.gate = r.gate /\ n.read = r.read /\ n.evidence = r.evidence
      /\ n.manifest = r.manifest /\ n.struck = r.struck \cup {"overlap"}
  BY DEF Run
<1>2. n \in Run
  BY DEF Run, Interference
<1>3. Sound(q, n)
  BY <1>1 DEF Sound
<1> QED BY <1>1, <1>2, <1>3

LEMMA StartKeeps ==
  ASSUME Inv, NEW p \in Invocations, Start(p)
  PROVE  Inv'
<1>1. PICK plan \in Plans :
        run' = [q \in Invocations |->
          IF q = p THEN Started(plan, Overlapping(p, plan))
          ELSE IF q \in Overlapping(p, plan)
               THEN [run[q] EXCEPT !.struck = @ \cup {"overlap"}]
          ELSE run[q]]
  BY DEF Start
<1> DEFINE others == Overlapping(p, plan)
<1>2. /\ disk' = disk /\ world' = world /\ generated' = generated /\ run[p].pc = "idle"
  BY DEF Start, At
<1>3. run \in [Invocations -> Run] /\ disk \in [Files -> File]
  BY DEF Inv, Types
<1>4. others \subseteq Pilots /\ (plan.script = "pilot" => others = Pilots)
  BY DEF Overlapping
<1>5. p \notin Pilots
  BY <1>2 DEF Pilots, Active
<1>6. /\ run'[p] \in Run /\ run'[p].script = plan.script /\ Sound(p, run'[p])
      /\ run'[p].pc \in {"setup", "read", "clean"}
      /\ others # {} => "overlap" \in run'[p].struck
      /\ run'[p].script = "pilot" => OnCourse(p, run'[p], disk)
  BY <1>1, FreshRun
<1>7. \A q \in others :
        /\ run'[q] \in Run /\ run'[q].script = run[q].script /\ run'[q].pc = run[q].pc
        /\ run'[q].struck = run[q].struck \cup {"overlap"} /\ Sound(q, run'[q])
  <2> SUFFICES ASSUME NEW q \in others
               PROVE  /\ run'[q] \in Run /\ run'[q].script = run[q].script
                      /\ run'[q].pc = run[q].pc
                      /\ run'[q].struck = run[q].struck \cup {"overlap"} /\ Sound(q, run'[q])
    OBVIOUS
  <2>1. q \in Invocations /\ run[q].pc # "idle" /\ q # p
    BY <1>4, <1>5 DEF Pilots, Active
  <2>2. run'[q] = [run[q] EXCEPT !.struck = @ \cup {"overlap"}]
    BY <1>1, <2>1
  <2>3. run[q] \in Run /\ Sound(q, run[q])
    BY <1>3, <2>1 DEF Inv
  <2> QED BY <2>1, <2>2, <2>3, StruckRun
<1>8. \A q \in Invocations : q # p /\ q \notin others => run'[q] = run[q]
  BY <1>1
<1> HIDE DEF others
<1>9. \A q \in Invocations \ {p} :
        /\ run'[q].script = run[q].script /\ run'[q].pc = run[q].pc
        /\ run[q].struck \subseteq run'[q].struck
  BY <1>7, <1>8
<1>10. Types'
  <2>1. run' = [q \in Invocations |-> run'[q]]
    BY <1>1
  <2> QED BY <1>2, <1>3, <1>6, <1>7, <1>8, <2>1 DEF Inv, Types
<1>11. FilesAreSound(disk')
  BY <1>2 DEF Inv
<1>12. WritersStarted'
  <2> SUFFICES ASSUME NEW f \in Files, disk[f].by # None PROVE run'[disk[f].by].pc # "idle"
    BY <1>2 DEF WritersStarted
  <2>1. disk[f].by \in Invocations /\ run[disk[f].by].pc # "idle"
    BY <1>3 DEF Inv, WritersStarted, File, Writers
  <2> QED BY <1>2, <1>9, <2>1
<1>13. OverlapIsStruck'
  <2>1. \A q \in Invocations \ {p} : q \in Pilots' <=> q \in Pilots
    BY <1>9 DEF Pilots, Active
  <2>2. CASE run'[p].script = "pilot"
    <3>1. others = Pilots
      BY <1>4, <1>6, <2>2
    <3> QED BY <1>6, <1>7, <2>1, <3>1 DEF OverlapIsStruck, Pilots, Active
  <2>3. CASE run'[p].script # "pilot"
    BY <1>9, <2>1, <2>3 DEF Inv, OverlapIsStruck, Pilots, Active
  <2> QED BY <2>2, <2>3
<1>14. BundleInv'
  <2> DEFINE m == disk["manifest"].by
  <2> SUFFICES ASSUME disk["manifest"].status = "passed", run'[m].struck = {}
               PROVE  /\ run'[m].script = "pilot"
                      /\ \A f \in Bundle :
                           \/ disk[f].by = m
                           \/ f = "handoff" /\ run'[m].pc = "handoff"
                           \/ OfAnother(f)'
    BY <1>2 DEF BundleInv, OfAnother
  <2>1. m \in Invocations /\ m # p
    BY <1>2, <1>3 DEF Inv, FilesAreSound, WritersStarted, File, Writers, Files, Bundle
  <2>2. /\ run[m].struck = {} /\ run'[m].script = run[m].script /\ run'[m].pc = run[m].pc
    BY <1>9, <2>1
  <2>3. /\ run[m].script = "pilot"
        /\ \A f \in Bundle :
             \/ disk[f].by = m
             \/ f = "handoff" /\ run[m].pc = "handoff"
             \/ OfAnother(f)
    BY <2>2 DEF Inv, BundleInv
  <2>4. ASSUME NEW f \in Bundle, OfAnother(f) PROVE OfAnother(f)'
    <3>1. disk[f].by \in Invocations \ {p}
      BY <1>2, <1>3, <2>4 DEF Inv, WritersStarted, OfAnother, File, Writers, Files
    <3> QED BY <1>2, <1>9, <2>4, <3>1 DEF OfAnother, Pilots, Active
  <2> QED BY <2>2, <2>3, <2>4
<1>15. ASSUME NEW q \in Invocations
       PROVE  Sound(q, run'[q]) /\ (Undisturbed(run'[q]) => OnCourse(q, run'[q], disk'))
  <2>1. CASE q = p
    BY <1>2, <1>6, <2>1 DEF Undisturbed
  <2>2. CASE q \in others
    BY <1>7, <2>2 DEF Undisturbed
  <2>3. CASE q # p /\ q \notin others
    BY <1>2, <1>8, <2>3 DEF Inv
  <2> QED BY <2>1, <2>2, <2>3
<1> QED BY <1>10, <1>11, <1>12, <1>13, <1>14, <1>15
        DEF Inv, FilesAreSound, ReportIsSound, SummaryIsSound, Sound, Undisturbed, OnCourse,
            NotesOf, Made
-----------------------------------------------------------------------------
(* A step that writes no file.                                             *)

LEMMA QuietKeeps ==
  ASSUME Inv, NEW p \in Invocations, NEW r \in Run,
         run' = [run EXCEPT ![p] = r], disk' = disk, world' = world,
         generated' \subseteq Generated,
         run[p].pc \notin {"idle", "done", "handoff"}, r.pc # "idle",
         r.script = run[p].script, run[p].struck \subseteq r.struck,
         r.pc = "done" => r.struck # {} \/ r.script # "pilot",
         Sound(p, r), Undisturbed(r) => OnCourse(p, r, disk)
  PROVE  Inv'
<1>1. disk \in [Files -> File] /\ FilesAreSound(disk)
  BY DEF Inv, Types
<1>2. Advances(p, r, disk) /\ Closes(p, r, disk)
  BY DEF Advances, Closes
<1>3. Becomes(p, r, disk)
  BY <1>1, <1>2 DEF Becomes
<1> QED BY <1>1, <1>3, BecomesKeeps

(* What is known of an invocation when it takes a step.                    *)
LEMMA KnownRun ==
  ASSUME Inv, NEW p \in Invocations
  PROVE  /\ run[p] \in Run /\ run \in [Invocations -> Run] /\ disk \in [Files -> File]
         /\ Sound(p, run[p]) /\ (Undisturbed(run[p]) => OnCourse(p, run[p], disk))
         /\ generated \subseteq Generated
         /\ run[p].pc \notin {"handoff", "done"} => run[p].manifest = "absent"
BY DEF Inv, Types, Sound

(* Before the gate reports, a pilot needs nothing of the bundle.           *)
LEMMA EarlyOnCourse ==
  ASSUME NEW p, NEW r, NEW d, r.manifest = "absent",
         r.pc \in {"setup", "clean", "steps", "verdict", "report"}
  PROVE  OnCourse(p, r, d)
BY DEF OnCourse

LEMMA CheckSetupKeeps ==
  ASSUME Inv, NEW p \in Invocations, CheckSetup(p)
  PROVE  Inv'
<1> DEFINE r == [run[p] EXCEPT !.setup = Setup(world, generated), !.pc = "clean"]
<1>1. /\ run' = [run EXCEPT ![p] = r] /\ run[p].pc = "setup"
      /\ UNCHANGED <<world, generated, disk>>
  BY KnownRun DEF CheckSetup, At
<1>2. /\ r.script = run[p].script /\ r.options = run[p].options /\ r.pc = "clean"
      /\ r.gate = run[p].gate /\ r.read = run[p].read /\ r.evidence = run[p].evidence
      /\ r.manifest = run[p].manifest /\ r.struck = run[p].struck
  BY KnownRun DEF Run
<1>3. r \in Run
  BY KnownRun, SetupStatus DEF Run, Places
<1> HIDE DEF r
<1>4. Sound(p, r)
  BY KnownRun, <1>1, <1>2 DEF Sound
<1>5. OnCourse(p, r, disk)
  BY KnownRun, EarlyOnCourse, <1>1, <1>2
<1> QED BY KnownRun, QuietKeeps, <1>1, <1>2, <1>3, <1>4, <1>5

-----------------------------------------------------------------------------
(* The gate goes on, or reports.                                           *)

LEMMA GoesOn ==
  ASSUME Inv, NEW p \in Invocations, NEW pc \in {"steps", "verdict"},
         run[p].pc \in {"clean", "steps"}, Goto(p, pc), disk' = disk, world' = world,
         generated' \subseteq Generated
  PROVE  Inv'
<1> DEFINE r == [run[p] EXCEPT !.pc = pc]
<1>1. run' = [run EXCEPT ![p] = r]
  BY KnownRun DEF Goto
<1>2. /\ r.script = run[p].script /\ r.options = run[p].options /\ r.pc = pc
      /\ r.gate = run[p].gate /\ r.read = run[p].read /\ r.evidence = run[p].evidence
      /\ r.manifest = run[p].manifest /\ r.struck = run[p].struck
  BY KnownRun DEF Run
<1>3. r \in Run
  BY KnownRun DEF Run, Places
<1> HIDE DEF r
<1>4. Sound(p, r)
  BY KnownRun, <1>2 DEF Sound
<1>5. OnCourse(p, r, disk)
  BY KnownRun, EarlyOnCourse, <1>2
<1> QED BY KnownRun, QuietKeeps, <1>1, <1>2, <1>3, <1>4, <1>5

LEMMA AfterGateFacts ==
  ASSUME NEW p
  PROVE  /\ AfterGate(p) \in {"report", "save", "judge"}
         /\ AfterGate(p) = "report" <=> run[p].script = "pilot"
         /\ AfterGate(p) = "save" <=> run[p].script = "gate"
BY DEF AfterGate

LEMMA GateReports ==
  ASSUME Inv, NEW p \in Invocations, NEW x \in File,
         run[p].pc \in {"clean", "steps", "verdict"},
         x.by = p, x.status \in {"passed", "failed"}, ReportIsSound(x),
         x.status = "passed" /\ run[p].script = "pilot" =>
           Deterministic \cap {"frontend_build"} \subseteq x.passed,
         run' = [run EXCEPT ![p].gate = x, ![p].pc = AfterGate(p)],
         disk' = disk, world' = world, generated' \subseteq Generated
  PROVE  Inv'
<1> DEFINE r == [run[p] EXCEPT !.gate = x, !.pc = AfterGate(p)]
<1>1. run' = [run EXCEPT ![p] = r]
  BY KnownRun
<1>2. /\ r.script = run[p].script /\ r.options = run[p].options /\ r.pc = AfterGate(p)
      /\ r.gate = x /\ r.read = run[p].read /\ r.evidence = run[p].evidence
      /\ r.manifest = run[p].manifest /\ r.struck = run[p].struck
  BY KnownRun DEF Run
<1>3. r \in Run
  BY KnownRun, AfterGateFacts DEF Run, Places
<1> HIDE DEF r
<1>4. Sound(p, r)
  BY KnownRun, AfterGateFacts, <1>2 DEF Sound
<1>5. Undisturbed(r) => OnCourse(p, r, disk)
  BY KnownRun, AfterGateFacts, EarlyOnCourse, <1>2 DEF Undisturbed
<1>6. r.pc \notin {"idle", "done"}
  BY AfterGateFacts, <1>2
<1> QED BY KnownRun, QuietKeeps, <1>1, <1>2, <1>3, <1>4, <1>5, <1>6

LEMMA BeginGateKeeps ==
  ASSUME Inv, NEW p \in Invocations, BeginGate(p)
  PROVE  Inv'
<1>1. run[p].pc = "clean" /\ generated' \subseteq Generated /\ UNCHANGED <<world, disk>>
  BY DEF BeginGate, At
<1>2. CASE Hygiene(world, {}) = "passed"
  BY <1>1, <1>2, GoesOn DEF BeginGate
<1>3. CASE Hygiene(world, {}) # "passed"
  <2> DEFINE x == Report(p, "failed", run[p].options, {}, {}, "failed")
  <2>1. /\ x \in File /\ x.by = p /\ x.status = "failed" /\ x.passed = {}
        /\ x.browser # "passed"
    BY ReportFacts
  <2>2. run' = [run EXCEPT ![p].gate = x, ![p].pc = AfterGate(p)]
    BY <1>3 DEF BeginGate
  <2> HIDE DEF x
  <2>3. ReportIsSound(x)
    BY <2>1 DEF ReportIsSound
  <2> QED BY <1>1, <2>1, <2>2, <2>3, GateReports
<1> QED BY <1>2, <1>3

LEMMA GateStepKeeps ==
  ASSUME Inv, NEW p \in Invocations, GateStep(p)
  PROVE  Inv'
<1>1. run[p].pc = "steps" /\ UNCHANGED <<world, disk>>
  BY DEF GateStep, At
<1>2. PICK s \in Left(p) :
        IF Succeeds(s, world, generated)
        THEN /\ run' = [run EXCEPT ![p].passed = @ \cup {s}]
             /\ generated' = generated \cup Leaves(s)
        ELSE IF s \in Deterministic
        THEN /\ generated' = {}
             /\ run' = [run EXCEPT
                  ![p].gate = Report(p, "failed", run[p].options, run[p].passed \cup {s},
                                     run[p].passed, Hygiene(world, {})),
                  ![p].pc = AfterGate(p)]
        ELSE Goto(p, "verdict") /\ UNCHANGED generated
  BY DEF GateStep
<1>3. s \in Commands
  BY DEF Left, Due
<1>4. CASE Succeeds(s, world, generated)
  <2> DEFINE r == [run[p] EXCEPT !.passed = @ \cup {s}]
  <2>1. run' = [run EXCEPT ![p] = r]
    BY KnownRun, <1>2, <1>4
  <2>2. generated' \subseteq Generated
    BY KnownRun, <1>2, <1>4 DEF Leaves, Generated
  <2>3. /\ r.script = run[p].script /\ r.options = run[p].options /\ r.pc = "steps"
        /\ r.gate = run[p].gate /\ r.read = run[p].read /\ r.evidence = run[p].evidence
        /\ r.manifest = run[p].manifest /\ r.struck = run[p].struck
    BY KnownRun, <1>1 DEF Run
  <2>4. r \in Run
    BY KnownRun, <1>3 DEF Run
  <2> HIDE DEF r
  <2>5. Sound(p, r)
    BY KnownRun, <1>1, <2>3 DEF Sound
  <2>6. OnCourse(p, r, disk)
    BY KnownRun, EarlyOnCourse, <1>1, <2>3
  <2> QED BY KnownRun, QuietKeeps, <1>1, <2>1, <2>2, <2>3, <2>4, <2>5, <2>6
<1>5. CASE ~Succeeds(s, world, generated) /\ s \in Deterministic
  <2> DEFINE x == Report(p, "failed", run[p].options, run[p].passed \cup {s},
                         run[p].passed, Hygiene(world, {}))
  <2>1. run[p].passed \in SUBSET Commands
    BY KnownRun DEF Run
  <2>2. /\ x \in File /\ x.by = p /\ x.status = "failed"
        /\ x.browser = "passed" => "browser_smoke" \in x.passed
    BY <2>1, ReportFacts, HygieneStatus
  <2>3. run' = [run EXCEPT ![p].gate = x, ![p].pc = AfterGate(p)] /\ generated' \subseteq Generated
    BY <1>2, <1>5
  <2> HIDE DEF x
  <2>4. ReportIsSound(x)
    BY <2>2 DEF ReportIsSound
  <2> QED BY <1>1, <2>2, <2>3, <2>4, GateReports
<1>6. CASE ~Succeeds(s, world, generated) /\ s \notin Deterministic
  BY <1>1, <1>2, <1>6, KnownRun, GoesOn
<1> QED BY <1>4, <1>5, <1>6

(* All that was due has passed, where the verdict is passed.               *)
LEMMA EndGateKeeps ==
  ASSUME Inv, NEW p \in Invocations, EndGate(p)
  PROVE  Inv'
<1> DEFINE verdict == IF Hygiene(world, {}) = "passed" /\ run[p].pc # "verdict"
                      THEN "passed" ELSE "failed"
           x == Report(p, verdict, run[p].options, run[p].passed, run[p].passed,
                       Hygiene(world, {}))
<1>1. /\ run[p].pc \in {"steps", "verdict"} /\ UNCHANGED <<world, disk>>
      /\ run[p].pc = "steps" => Left(p) = {}
      /\ generated' \subseteq Generated
      /\ run' = [run EXCEPT ![p].gate = x, ![p].pc = AfterGate(p)]
  BY DEF EndGate, At
<1>2. verdict \in {"passed", "failed"} /\ (verdict = "passed" => run[p].pc # "verdict")
  OBVIOUS
<1>3. run[p].passed \in SUBSET Commands
  BY KnownRun DEF Run
<1> HIDE DEF verdict
<1>4. /\ x \in File /\ x.by = p /\ x.status = verdict /\ x.passed = run[p].passed
      /\ x.browser = "passed" => "browser_smoke" \in x.passed
  BY <1>2, <1>3, ReportFacts, HygieneStatus
<1> HIDE DEF x
<1>5. x.status = "passed" => Due(run[p].options) \subseteq x.passed
  BY <1>1, <1>2, <1>4 DEF Left
<1>6. ReportIsSound(x)
  BY <1>4, <1>5, DueFacts DEF ReportIsSound
<1>7. run[p].script = "pilot" => run[p].options \subseteq {"true_ai"}
  BY KnownRun DEF Sound
<1>8. x.status = "passed" /\ run[p].script = "pilot" =>
        Deterministic \cap {"frontend_build"} \subseteq x.passed
  BY <1>5, <1>7, DueFacts
<1> QED BY <1>1, <1>2, <1>4, <1>6, <1>8, GateReports

LEMMA GateDiesKeeps ==
  ASSUME Inv, NEW p \in Invocations, GateDies(p)
  PROVE  Inv'
<1> DEFINE x == Failure(p)
<1>1. /\ run[p].pc \in {"clean", "steps", "verdict"} /\ run[p].script = "pilot"
      /\ UNCHANGED <<world, generated, disk>>
      /\ run' = [run EXCEPT ![p].gate = x, ![p].pc = "report"]
  BY DEF GateDies
<1>2. AfterGate(p) = "report"
  BY <1>1, AfterGateFacts
<1>3. x \in File /\ x.by = p /\ x.status = "failed" /\ x.browser = "absent"
  BY FailureFile
<1> HIDE DEF x
<1>4. ReportIsSound(x)
  BY <1>3 DEF ReportIsSound
<1>5. run' = [run EXCEPT ![p].gate = x, ![p].pc = AfterGate(p)]
  BY <1>1, <1>2
<1> QED BY <1>1, <1>3, <1>4, <1>5, KnownRun, GateReports
-----------------------------------------------------------------------------
(* An invocation ends, killed or not.                                      *)

LEMMA EndedRun ==
  ASSUME NEW p \in Invocations, NEW q \in Run, NEW d, Sound(p, q), q.pc # "idle",
         q.manifest # "absent" => q.pc \in {"handoff", "done"},
         NEW struck \in SUBSET Interference, q.struck \subseteq struck,
         Undisturbed(q) => OnCourse(p, q, disk),
         NEW r, r = Ended(q, struck)
  PROVE  /\ r \in Run /\ r.script = q.script /\ r.pc = "done" /\ r.struck = struck
         /\ Sound(p, r)
         /\ Undisturbed(r) => OnCourse(p, r, d)
<1>1. /\ r.script = q.script /\ r.options = {} /\ r.pc = "done" /\ r.gate = q.gate
      /\ r.read = Absent /\ r.evidence = q.evidence /\ r.manifest = q.manifest
      /\ r.struck = struck
  BY DEF Ended, Idle
<1>2. r \in Run
  BY BlankRun DEF Ended, Run, Places
<1>3. ReportIsSound(Absent)
  BY BlankFile DEF ReportIsSound
<1>4. Sound(p, r)
  BY <1>1, <1>3 DEF Sound
<1>5. ASSUME Undisturbed(r) PROVE OnCourse(p, r, d)
  <2>1. Undisturbed(q)
    BY <1>1, <1>5 DEF Undisturbed
  <2>2. r.manifest # "absent" => Made(r.evidence, p)
    BY <1>1, <2>1 DEF OnCourse
  <2> QED BY <1>1, <2>2 DEF OnCourse
<1> QED BY <1>1, <1>2, <1>4, <1>5

(* One that is no pilot ends without a file of the bundle.                 *)
LEMMA EndKeeps ==
  ASSUME Inv, NEW p \in Invocations, End(p), disk' = disk, world' = world,
         generated' = generated, run[p].pc \notin {"idle", "done", "handoff"},
         run[p].script # "pilot"
  PROVE  Inv'
<1> DEFINE r == Ended(run[p], run[p].struck)
<1>1. run' = [run EXCEPT ![p] = r]
  BY KnownRun DEF End
<1>2. run[p].struck \in SUBSET Interference
  BY KnownRun DEF Run
<1>3. /\ r \in Run /\ r.script = run[p].script /\ r.pc = "done" /\ r.struck = run[p].struck
      /\ Sound(p, r) /\ (Undisturbed(r) => OnCourse(p, r, disk))
  BY <1>2, KnownRun, EndedRun
<1> HIDE DEF r
<1> QED BY KnownRun, QuietKeeps, <1>1, <1>3

LEMMA SaveReportKeeps ==
  ASSUME Inv, NEW p \in Invocations, SaveReport(p)
  PROVE  Inv'
<1> DEFINE r == Ended(run[p], run[p].struck)
           d == [disk EXCEPT !["saved"] = run[p].gate]
<1>1. /\ run' = [run EXCEPT ![p] = r] /\ disk' = d /\ run[p].pc = "save"
      /\ UNCHANGED <<world, generated>>
  BY KnownRun DEF SaveReport, At, End
<1>2. run[p].struck \in SUBSET Interference
  BY KnownRun DEF Run
<1>3. /\ r \in Run /\ r.script = run[p].script /\ r.pc = "done" /\ r.struck = run[p].struck
      /\ Sound(p, r) /\ (Undisturbed(r) => OnCourse(p, r, d))
  BY <1>1, <1>2, KnownRun, EndedRun
<1>4. /\ run[p].gate \in File /\ run[p].gate.by = p /\ ReportIsSound(run[p].gate)
      /\ run[p].script = "gate"
  BY <1>1, KnownRun DEF Sound, Run
<1>5. /\ d \in [Files -> File] /\ d["saved"] = run[p].gate
      /\ \A f \in Bundle : d[f] = disk[f]
  BY <1>4, KnownRun DEF Files, Bundle
<1> HIDE DEF r, d
<1>6. FilesAreSound(d)
  BY <1>4, <1>5 DEF Inv, FilesAreSound, Bundle
<1>7. Advances(p, r, d) /\ Closes(p, r, d)
  BY <1>1, <1>3, <1>4, <1>5 DEF Advances, Closes, Files, Bundle
<1>8. Becomes(p, r, d)
  BY <1>1, <1>3, <1>6, <1>7, KnownRun DEF Becomes
<1> QED BY <1>3, <1>5, <1>8, BecomesKeeps

-----------------------------------------------------------------------------
(* The evidence.                                                           *)

(* A pilot goes on to collect the evidence, if it must.                    *)
LEMMA GoesToCollect ==
  ASSUME Inv, NEW p \in Invocations, NEW struck \in SUBSET Interference,
         run[p].pc \in {"read", "judge", "write", "notes"}, run[p].script = "pilot",
         run[p].struck \subseteq struck,
         "overlap" \in struck \/ "evidence" \in struck,
         run' = [run EXCEPT ![p].struck = struck, ![p].pc = "collect"],
         disk' = disk, world' = world, generated' = generated
  PROVE  Inv'
<1> DEFINE r == [run[p] EXCEPT !.struck = struck, !.pc = "collect"]
<1>1. run' = [run EXCEPT ![p] = r]
  BY KnownRun
<1>2. /\ r.script = run[p].script /\ r.options = run[p].options /\ r.pc = "collect"
      /\ r.gate = run[p].gate /\ r.read = run[p].read /\ r.evidence = run[p].evidence
      /\ r.manifest = run[p].manifest /\ r.struck = struck
  BY KnownRun DEF Run
<1>3. r \in Run
  BY KnownRun DEF Run, Places
<1> HIDE DEF r
<1>4. Sound(p, r)
  BY KnownRun, <1>2 DEF Sound
<1>5. ~Undisturbed(r)
  BY <1>2 DEF Undisturbed
<1> QED BY KnownRun, QuietKeeps, <1>1, <1>2, <1>3, <1>4, <1>5

LEMMA EvidenceDiesKeeps ==
  ASSUME Inv, NEW p \in Invocations, EvidenceDies(p)
  PROVE  Inv'
<1> DEFINE struck == run[p].struck \cup {"evidence"}
<1>1. struck \in SUBSET Interference
  BY KnownRun DEF Run, Interference
<1>2. /\ run[p].pc \in {"read", "judge", "write", "notes"} /\ run[p].script = "pilot"
      /\ UNCHANGED <<world, generated, disk>>
      /\ run' = [run EXCEPT ![p].struck = struck, ![p].pc = "collect"]
  BY KnownRun DEF EvidenceDies
<1>3. run[p].struck \subseteq struck /\ "evidence" \in struck
  OBVIOUS
<1> HIDE DEF struck
<1> QED BY <1>1, <1>2, <1>3, GoesToCollect

LEMMA ReadReportKeeps ==
  ASSUME Inv, NEW p \in Invocations, ReadReport(p)
  PROVE  Inv'
<1> DEFINE report == disk[ReportFile(p)]
<1>1. run[p].pc = "read" /\ UNCHANGED <<world, generated, disk>>
  BY DEF ReadReport, At
<1>2. ReportFile(p) \in {"gate", "saved"} /\ (run[p].script = "pilot" => ReportFile(p) = "gate")
  BY DEF ReportFile
<1>3. report \in File /\ ReportIsSound(report)
  BY KnownRun, <1>2 DEF Inv, FilesAreSound, Files, Bundle
<1>4. CASE report.status \in {"absent", "torn"}
  <2>1. EndEvidence(p)
    BY <1>4 DEF ReadReport
  <2>2. CASE run[p].script # "pilot"
    BY <1>1, <2>1, <2>2, EndKeeps DEF EndEvidence
  <2>3. CASE run[p].script = "pilot"
    (* What it wrote is gone: another pilot took its place.                *)
    <3>1. ~Undisturbed(run[p])
      BY KnownRun, <1>1, <1>2, <1>4, <2>3 DEF OnCourse
    <3>2. "overlap" \in run[p].struck \/ "evidence" \in run[p].struck
      BY <2>3, <3>1 DEF Undisturbed
    <3>3. run[p].struck \in SUBSET Interference
      BY KnownRun DEF Run
    <3>4. run' = [run EXCEPT ![p].pc = "collect"]
      BY <2>1, <2>3 DEF EndEvidence, Goto
    <3>5. run' = [run EXCEPT ![p].struck = run[p].struck, ![p].pc = "collect"]
      <4>1. [run[p] EXCEPT !.pc = "collect"]
              = [run[p] EXCEPT !.struck = run[p].struck, !.pc = "collect"]
        BY KnownRun DEF Run
      <4> QED BY KnownRun, <3>4, <4>1
    <3> QED BY <1>1, <2>3, <3>2, <3>3, <3>5, GoesToCollect
  <2> QED BY <2>2, <2>3
<1>5. CASE report.status \notin {"absent", "torn"}
  <2> DEFINE r == [run[p] EXCEPT !.read = report, !.pc = "judge"]
  <2>1. run' = [run EXCEPT ![p] = r]
    BY KnownRun, <1>5 DEF ReadReport
  <2>2. /\ r.script = run[p].script /\ r.options = run[p].options /\ r.pc = "judge"
        /\ r.gate = run[p].gate /\ r.read = report /\ r.evidence = run[p].evidence
        /\ r.manifest = run[p].manifest /\ r.struck = run[p].struck
    BY KnownRun DEF Run
  <2>3. r \in Run
    BY KnownRun, <1>3 DEF Run, Places
  <2>4. Undisturbed(run[p]) => report.by = p /\ disk["gate"].by = p
    BY KnownRun, <1>1, <1>2 DEF OnCourse, Undisturbed
  <2> HIDE DEF r, report
  <2>5. Sound(p, r)
    BY KnownRun, <1>1, <1>3, <2>2 DEF Sound
  <2>6. Undisturbed(r) => OnCourse(p, r, disk)
    BY KnownRun, <1>1, <2>2, <2>4 DEF OnCourse, Undisturbed
  <2> QED BY KnownRun, QuietKeeps, <1>1, <2>1, <2>2, <2>3, <2>5, <2>6
<1> QED BY <1>4, <1>5

(* What the evidence is made of.                                           *)
LEMMA EvidenceFacts ==
  ASSUME NEW p \in Invocations, NEW gate \in File, NEW w, NEW g, ReportIsSound(gate), NEW e,
         e = Summary(p, gate, w, g)
  PROVE  /\ e \in File /\ e.by = p /\ e.of = gate.by /\ e.status \in {"passed", "failed"}
         /\ SummaryIsSound(e)
<1>1. /\ e.by = p /\ e.of = gate.by /\ e.passed = gate.passed
      /\ e.status = IF EvidencePasses(gate, w, g) THEN "passed" ELSE "failed"
      /\ e.manual = IF UnsafeRow(w) THEN "unsafe" ELSE ManualEval(w)
  BY DEF Summary, File
<1>2. e \in File
  BY HygieneStatus, ManualStatus DEF Summary, File, Statuses, Writers
<1>3. e.status = "passed" =>
        gate.status = "passed" /\ gate.browser = "passed" /\ ~UnsafeRow(w)
  BY <1>1 DEF EvidencePasses
<1>4. ~UnsafeRow(w) => e.manual # "unsafe"
  BY <1>1, ManualStatus
<1>5. SummaryIsSound(e)
  BY <1>1, <1>3, <1>4 DEF SummaryIsSound, ReportIsSound
<1> QED BY <1>1, <1>2, <1>5

LEMMA JudgeEvidenceKeeps ==
  ASSUME Inv, NEW p \in Invocations, JudgeEvidence(p)
  PROVE  Inv'
<1> DEFINE gate == IF run[p].read = Absent THEN run[p].gate ELSE run[p].read
           e == Summary(p, gate, world, generated)
           r == [run[p] EXCEPT !.evidence = e, !.pc = "write"]
<1>1. /\ run[p].pc = "judge" /\ UNCHANGED <<world, generated, disk>>
      /\ run' = [run EXCEPT ![p].evidence = e, ![p].pc = "write"]
  BY DEF JudgeEvidence, At
<1>2. gate \in File /\ ReportIsSound(gate)
  BY KnownRun DEF Run, Sound
<1>3. Undisturbed(run[p]) => gate.by = p
  BY KnownRun, <1>1, BlankFile, ReleaseAssumption DEF OnCourse
<1> HIDE DEF gate
<1>4. /\ e \in File /\ e.by = p /\ e.of = gate.by /\ e.status \in {"passed", "failed"}
      /\ SummaryIsSound(e)
  BY <1>2, EvidenceFacts
<1> HIDE DEF e
<1>5. run' = [run EXCEPT ![p] = r]
  BY <1>1, KnownRun
<1>6. /\ r.script = run[p].script /\ r.options = run[p].options /\ r.pc = "write"
      /\ r.gate = run[p].gate /\ r.read = run[p].read /\ r.evidence = e
      /\ r.manifest = run[p].manifest /\ r.struck = run[p].struck
  BY KnownRun DEF Run
<1>7. r \in Run
  BY KnownRun, <1>4 DEF Run, Places
<1> HIDE DEF r
<1>8. Sound(p, r)
  BY KnownRun, <1>1, <1>4, <1>6 DEF Sound
<1>9. Undisturbed(r) => Undisturbed(run[p])
  BY <1>6 DEF Undisturbed
<1>10. Undisturbed(r) => OnCourse(p, r, disk)
  BY KnownRun, <1>1, <1>3, <1>4, <1>6, <1>9 DEF OnCourse, Made
<1> QED BY KnownRun, QuietKeeps, <1>1, <1>5, <1>6, <1>7, <1>8, <1>10
-----------------------------------------------------------------------------
(* A pilot writes to its bundle.                                           *)

LEMMA BundleKeeps ==
  ASSUME Inv, NEW p \in Invocations, NEW r \in Run,
         NEW f \in {"gate", "evidence", "notes"}, NEW x \in File, NEW d,
         d = [disk EXCEPT ![f] = x], x.by = p \/ x = disk[f],
         f = "gate" => ReportIsSound(x), f = "evidence" => SummaryIsSound(x),
         run' = [run EXCEPT ![p] = r], disk' = d, world' = world, generated' = generated,
         run[p].pc \notin {"idle", "done", "handoff"}, r.pc \notin {"idle", "done"},
         run[p].script = "pilot", r.script = "pilot", r.struck = run[p].struck,
         Sound(p, r), Undisturbed(r) => OnCourse(p, r, d)
  PROVE  Inv'
<1>1. /\ d \in [Files -> File] /\ d[f] = x
      /\ \A g \in Files \ {f} : d[g] = disk[g]
  BY KnownRun DEF Files, Bundle
<1>2. FilesAreSound(d)
  BY <1>1 DEF Inv, FilesAreSound, Files, Bundle
<1>3. Advances(p, r, d) /\ Closes(p, r, d)
  BY <1>1 DEF Advances, Closes, Files, Bundle
<1>4. Becomes(p, r, d)
  BY <1>2, <1>3, KnownRun DEF Becomes
<1> QED BY <1>1, <1>4, BecomesKeeps

(* An invocation that only goes to another place.                          *)
LEMMA MovedRun ==
  ASSUME NEW q \in Run, NEW pc \in Places, NEW r, r = [q EXCEPT !.pc = pc]
  PROVE  /\ r \in Run /\ r.pc = pc
         /\ r.script = q.script /\ r.options = q.options /\ r.gate = q.gate
         /\ r.read = q.read /\ r.evidence = q.evidence
         /\ r.manifest = q.manifest /\ r.struck = q.struck
BY DEF Run

LEMMA BundleReportKeeps ==
  ASSUME Inv, NEW p \in Invocations, BundleReport(p)
  PROVE  Inv'
<1> DEFINE r == [run[p] EXCEPT !.pc = "read"]
           x == run[p].gate
           d == [disk EXCEPT !["gate"] = x]
<1>1. /\ run[p].pc = "report" /\ disk' = d /\ run' = [run EXCEPT ![p] = r]
      /\ UNCHANGED <<world, generated>>
  BY KnownRun DEF BundleReport, At, Goto
<1>2. /\ r \in Run /\ r.pc = "read"
      /\ r.script = run[p].script /\ r.options = run[p].options /\ r.gate = run[p].gate
      /\ r.read = run[p].read /\ r.evidence = run[p].evidence
      /\ r.manifest = run[p].manifest /\ r.struck = run[p].struck
  BY KnownRun, MovedRun DEF Places
<1>3. /\ x \in File /\ x.by = p /\ ReportIsSound(x) /\ run[p].script = "pilot"
      /\ x.status \in {"passed", "failed"}
  BY KnownRun, <1>1 DEF Sound, Run
<1>4. d["gate"] = x
  BY KnownRun DEF Files, Bundle
<1> HIDE DEF r, x, d
<1>5. Sound(p, r)
  BY KnownRun, <1>1, <1>2 DEF Sound
<1>6. OnCourse(p, r, d)
  BY KnownRun, <1>1, <1>2, <1>3, <1>4 DEF OnCourse
<1> QED BY BundleKeeps, <1>1, <1>2, <1>3, <1>5, <1>6 DEF d

LEMMA WriteEvidenceKeeps ==
  ASSUME Inv, NEW p \in Invocations, WriteEvidence(p)
  PROVE  Inv'
<1> DEFINE r == [run[p] EXCEPT !.pc = "notes"]
           x == run[p].evidence
           d == [disk EXCEPT !["evidence"] = x]
<1>1. /\ run[p].pc = "write" /\ run' = [run EXCEPT ![p] = r]
      /\ disk' = IF run[p].script = "pilot" THEN d ELSE disk
      /\ UNCHANGED <<world, generated>>
  BY KnownRun DEF WriteEvidence, At, Goto
<1>2. /\ r \in Run /\ r.pc = "notes"
      /\ r.script = run[p].script /\ r.options = run[p].options /\ r.gate = run[p].gate
      /\ r.read = run[p].read /\ r.evidence = run[p].evidence
      /\ r.manifest = run[p].manifest /\ r.struck = run[p].struck
  BY KnownRun, MovedRun DEF Places
<1>3. x \in File /\ x.by = p /\ SummaryIsSound(x) /\ x = r.evidence
  BY KnownRun, <1>1, <1>2 DEF Sound, Run
<1>4. d["evidence"] = x /\ \A f \in Files \ {"evidence"} : d[f] = disk[f]
  BY KnownRun DEF Files, Bundle
<1> HIDE DEF r, x, d
<1>5. Sound(p, r)
  BY KnownRun, <1>1, <1>2 DEF Sound
<1>6. CASE run[p].script = "pilot"
  <2>1. Undisturbed(r) => OnCourse(p, run[p], disk)
    BY KnownRun, <1>2 DEF Undisturbed
  <2>2. Undisturbed(r) => OnCourse(p, r, d)
    BY KnownRun, <1>1, <1>2, <1>3, <1>4, <2>1 DEF OnCourse, Files, Bundle
  <2> QED BY BundleKeeps, <1>1, <1>2, <1>3, <1>5, <1>6, <2>2 DEF d
<1>7. CASE run[p].script # "pilot"
  BY KnownRun, QuietKeeps, <1>1, <1>2, <1>5, <1>7 DEF Undisturbed
<1> QED BY <1>6, <1>7

LEMMA WriteNotesKeeps ==
  ASSUME Inv, NEW p \in Invocations, WriteNotes(p)
  PROVE  Inv'
<1>1. run[p].pc = "notes" /\ UNCHANGED <<world, generated>> /\ EndEvidence(p)
  BY DEF WriteNotes, At
<1>2. CASE run[p].script # "pilot"
  BY <1>1, <1>2, EndKeeps DEF WriteNotes, EndEvidence
<1>3. CASE run[p].script = "pilot"
  <2> DEFINE r == [run[p] EXCEPT !.pc = "collect"]
             x == IF run[p].evidence.manual # "unsafe" THEN run[p].evidence ELSE disk["notes"]
             d == [disk EXCEPT !["notes"] = x]
  <2>1. run' = [run EXCEPT ![p] = r]
    BY KnownRun, <1>1, <1>3 DEF EndEvidence, Goto
  <2>2. disk' = d
    BY KnownRun, <1>3 DEF WriteNotes, Files, Bundle
  <2>3. /\ r \in Run /\ r.pc = "collect"
        /\ r.script = run[p].script /\ r.options = run[p].options /\ r.gate = run[p].gate
        /\ r.read = run[p].read /\ r.evidence = run[p].evidence
        /\ r.manifest = run[p].manifest /\ r.struck = run[p].struck
    BY KnownRun, MovedRun DEF Places
  <2>4. run[p].evidence \in File /\ run[p].evidence.by = p
    BY KnownRun, <1>1 DEF Sound, Run
  <2>5. /\ x \in File /\ (x.by = p \/ x = disk["notes"])
        /\ run[p].evidence.manual # "unsafe" => x.by = p
    BY KnownRun, <2>4 DEF Files, Bundle
  <2>6. d["notes"] = x /\ \A f \in Files \ {"notes"} : d[f] = disk[f]
    BY KnownRun DEF Files, Bundle
  <2> HIDE DEF r, x, d
  <2>7. Sound(p, r)
    BY KnownRun, <1>1, <1>3, <2>3 DEF Sound
  <2>8. Undisturbed(r) => OnCourse(p, run[p], disk)
    BY KnownRun, <2>3 DEF Undisturbed
  <2>9. Undisturbed(r) => OnCourse(p, r, d)
    BY KnownRun, <1>1, <2>3, <2>5, <2>6, <2>8 DEF OnCourse, Made, NotesOf, Files, Bundle
  <2> QED BY BundleKeeps, <1>1, <1>3, <2>1, <2>2, <2>3, <2>5, <2>7, <2>9 DEF d
<1> QED BY <1>2, <1>3

(* The pilot takes the evidence that lies there.                           *)
LEMMA CollectKeeps ==
  ASSUME Inv, NEW p \in Invocations, Collect(p)
  PROVE  Inv'
<1> DEFINE found == disk["evidence"]
           e == IF found.status \in {"absent", "torn"} THEN Failure(p) ELSE found
           x == IF found.status = "absent" THEN found ELSE e
           d == [disk EXCEPT !["evidence"] = x]
           r == [run[p] EXCEPT !.evidence = e, !.pc = "manifest"]
<1>1. /\ run[p].pc = "collect" /\ UNCHANGED <<world, generated>>
      /\ run' = [run EXCEPT ![p] = r]
  BY KnownRun DEF Collect, At
<1>2. disk' = d
  BY KnownRun DEF Collect, Files, Bundle
<1>3. found \in File /\ SummaryIsSound(found)
  BY KnownRun DEF Inv, FilesAreSound, Files, Bundle
<1>4. /\ Failure(p) \in File /\ Failure(p).by = p /\ SummaryIsSound(Failure(p))
  BY FailureFile DEF SummaryIsSound
<1>5. /\ e \in File /\ SummaryIsSound(e) /\ (e.by = p \/ e = found)
      /\ x \in File /\ SummaryIsSound(x) /\ (x.by = p \/ x = found)
      /\ found.status \in {"passed", "failed"} => e = found /\ x = found
  BY <1>3, <1>4
<1>6. /\ r.script = run[p].script /\ r.options = run[p].options /\ r.pc = "manifest"
      /\ r.gate = run[p].gate /\ r.read = run[p].read /\ r.evidence = e
      /\ r.manifest = run[p].manifest /\ r.struck = run[p].struck
  BY KnownRun DEF Run
<1>7. r \in Run
  BY KnownRun, <1>5 DEF Run, Places
<1>8. d["evidence"] = x /\ \A f \in Files \ {"evidence"} : d[f] = disk[f]
  BY KnownRun DEF Files, Bundle
<1>9. run[p].script = "pilot"
  BY KnownRun, <1>1 DEF Sound
<1>10. ASSUME Undisturbed(r)
       PROVE  /\ disk["gate"].by = p /\ Made(found, p) /\ NotesOf(p, found, disk)
              /\ e = found /\ x = found
  <2>1. OnCourse(p, run[p], disk)
    BY KnownRun, <1>6, <1>10 DEF Undisturbed
  <2> QED BY <1>1, <1>5, <2>1 DEF OnCourse
<1> HIDE DEF r, x, d, e, found
<1>11. Sound(p, r)
  BY KnownRun, <1>1, <1>5, <1>6 DEF Sound
<1>12. Undisturbed(r) => OnCourse(p, r, d)
  BY KnownRun, <1>1, <1>6, <1>8, <1>10 DEF OnCourse, Made, NotesOf, Files, Bundle
<1>13. x.by = p \/ x = disk["evidence"]
  BY <1>5 DEF found
<1> QED BY BundleKeeps, <1>1, <1>2, <1>5, <1>6, <1>7, <1>9, <1>11, <1>12, <1>13 DEF d
(* A manifest says passed beside the pilot's own report, evidence, notes.  *)
LEMMA WriteManifestKeeps ==
  ASSUME Inv, NEW p \in Invocations, WriteManifest(p)
  PROVE  Inv'
<1> DEFINE verdict == IF ManifestPasses(run[p], world) THEN "passed" ELSE "failed"
           browser == IF run[p].gate.browser = "absent"
                      THEN run[p].evidence.browser ELSE run[p].gate.browser
           x == [Absent EXCEPT !.by = p, !.status = verdict, !.browser = browser]
           d == [disk EXCEPT !["manifest"] = x]
           r == [run[p] EXCEPT !.manifest = verdict, !.pc = "handoff"]
<1>1. /\ run[p].pc = "manifest" /\ UNCHANGED <<world, generated>>
      /\ run' = [run EXCEPT ![p] = r] /\ disk' = d
  BY KnownRun DEF WriteManifest, At
<1>2. /\ verdict \in {"passed", "failed"}
      /\ verdict = "passed" =>
           /\ run[p].gate.status = "passed" /\ run[p].gate.browser = "passed"
           /\ run[p].evidence.status = "passed"
  BY DEF ManifestPasses
<1>3. browser \in Statuses
  BY KnownRun DEF Run, File
<1> HIDE DEF verdict, browser
<1>4. x \in File /\ x.by = p /\ x.status = verdict
  BY <1>2, <1>3 DEF Absent, File, Statuses, Writers
<1>5. /\ r.script = run[p].script /\ r.options = run[p].options /\ r.pc = "handoff"
      /\ r.gate = run[p].gate /\ r.read = run[p].read /\ r.evidence = run[p].evidence
      /\ r.manifest = verdict /\ r.struck = run[p].struck
  BY KnownRun DEF Run
<1>6. r \in Run
  BY KnownRun, <1>2 DEF Run, Places, Statuses
<1>7. /\ d \in [Files -> File] /\ d["manifest"] = x
      /\ \A f \in Files \ {"manifest"} : d[f] = disk[f]
  BY KnownRun, <1>4 DEF Files, Bundle
<1> HIDE DEF x, d, r
<1>8. run[p].script = "pilot" /\ SummaryIsSound(run[p].evidence)
  BY KnownRun, <1>1 DEF Sound
<1>9. Sound(p, r)
  BY KnownRun, <1>1, <1>2, <1>5, <1>8 DEF Sound
<1>10. Undisturbed(r) => OnCourse(p, run[p], disk)
  BY KnownRun, <1>5 DEF Undisturbed
<1>11. Undisturbed(r) => OnCourse(p, r, d)
  BY <1>1, <1>4, <1>5, <1>7, <1>10 DEF OnCourse, NotesOf, Files, Bundle
<1>12. FilesAreSound(d)
  BY <1>4, <1>7, ReleaseAssumption DEF Inv, FilesAreSound, Files, Bundle
<1>13. Advances(p, r, d)
  BY <1>1, <1>4, <1>5, <1>7, <1>8 DEF Advances, Files, Bundle
<1>14. Closes(p, r, d)
  <2> SUFFICES ASSUME verdict = "passed", r.struck = {}
               PROVE  \A f \in Bundle \ {"handoff"} : d[f].by = p
    BY <1>4, <1>5, <1>7, <1>8 DEF Closes
  <2>1. OnCourse(p, run[p], disk)
    BY <1>5, <1>8, <1>10 DEF Undisturbed
  <2>2. run[p].evidence.manual # "unsafe"
    BY <1>2, <1>8 DEF SummaryIsSound
  <2>3. disk["gate"].by = p /\ disk["evidence"].by = p /\ disk["notes"].by = p
    BY <1>1, <2>1, <2>2 DEF OnCourse, NotesOf
  <2> QED BY <1>4, <1>7, <2>3 DEF Files, Bundle
<1>15. Becomes(p, r, d)
  BY <1>1, <1>9, <1>11, <1>12, <1>13, <1>14, KnownRun DEF Becomes
<1> QED BY <1>6, <1>7, <1>15, BecomesKeeps

LEMMA WriteHandoffKeeps ==
  ASSUME Inv, NEW p \in Invocations, WriteHandoff(p)
  PROVE  Inv'
<1> DEFINE r == Ended(run[p], run[p].struck)
           x == [disk["manifest"] EXCEPT !.by = p]
           d == [disk EXCEPT !["handoff"] = x]
<1>1. /\ run' = [run EXCEPT ![p] = r] /\ disk' = d /\ run[p].pc = "handoff"
      /\ UNCHANGED <<world, generated>>
  BY KnownRun DEF WriteHandoff, At, End
<1>2. run[p].struck \in SUBSET Interference
  BY KnownRun DEF Run
<1>3. run[p].manifest # "absent" => run[p].pc \in {"handoff", "done"}
  BY KnownRun DEF Sound
<1>4. /\ r \in Run /\ r.script = run[p].script /\ r.pc = "done" /\ r.struck = run[p].struck
      /\ Sound(p, r) /\ (Undisturbed(r) => OnCourse(p, r, d))
  BY <1>1, <1>2, <1>3, KnownRun, EndedRun
<1>5. x \in File /\ x.by = p
  BY KnownRun DEF File, Writers, Files, Bundle
<1>6. /\ d \in [Files -> File] /\ d["handoff"] = x
      /\ \A f \in Files \ {"handoff"} : d[f] = disk[f]
  BY KnownRun, <1>5 DEF Files, Bundle
<1>7. run[p].script = "pilot"
  BY KnownRun, <1>1 DEF Sound
<1> HIDE DEF r, x, d
<1>8. FilesAreSound(d)
  BY <1>6 DEF Inv, FilesAreSound, Files, Bundle
<1>9. Advances(p, r, d) /\ Closes(p, r, d)
  BY <1>1, <1>4, <1>5, <1>6, <1>7 DEF Advances, Closes, Files, Bundle
<1>10. Becomes(p, r, d)
  BY <1>1, <1>4, <1>8, <1>9, KnownRun DEF Becomes
<1> QED BY <1>4, <1>6, <1>10, BecomesKeeps

(* A kill may tear the file that is being written.                         *)
LEMMA KillKeeps ==
  ASSUME Inv, NEW p \in Invocations, Kill(p)
  PROVE  Inv'
<1> DEFINE struck == run[p].struck \cup {"kill"}
           r == Ended(run[p], struck)
<1>1. /\ run' = [run EXCEPT ![p] = r] /\ run[p].pc \notin {"idle", "done"}
      /\ UNCHANGED <<world, generated>>
      /\ disk' = disk \/ \E f \in Written(p) : disk' = [disk EXCEPT ![f] = [Torn EXCEPT !.by = p]]
  BY KnownRun DEF Kill, Active
<1>2. struck \in SUBSET Interference /\ run[p].struck \subseteq struck /\ struck # {}
  BY KnownRun DEF Run, Interference
<1> HIDE DEF struck
<1>3. run[p].manifest # "absent" => run[p].pc \in {"handoff", "done"}
  BY KnownRun DEF Sound
<1>4. /\ r \in Run /\ r.script = run[p].script /\ r.pc = "done" /\ r.struck = struck
      /\ Sound(p, r) /\ \A d : Undisturbed(r) => OnCourse(p, r, d)
  BY <1>1, <1>2, <1>3, KnownRun, EndedRun
<1> HIDE DEF r
<1>5. ASSUME NEW d \in [Files -> File], disk' = d, FilesAreSound(d),
             d["manifest"] = disk["manifest"] \/ d["manifest"].status # "passed",
             \A f \in Files : d[f] = disk[f] \/ d[f].by = p,
             run[p].script # "pilot" => \A f \in Bundle : d[f] = disk[f]
      PROVE  Inv'
  <2>1. Advances(p, r, d) /\ Closes(p, r, d)
    BY <1>1, <1>2, <1>4, <1>5 DEF Advances, Closes
  <2>2. Becomes(p, r, d)
    BY <1>1, <1>4, <1>5, <2>1, KnownRun DEF Becomes
  <2> QED BY <1>4, <2>2, BecomesKeeps
<1>6. CASE disk' = disk
  BY <1>5, <1>6, KnownRun DEF Inv
<1>7. ASSUME NEW f \in Written(p), disk' = [disk EXCEPT ![f] = [Torn EXCEPT !.by = p]]
      PROVE  Inv'
  <2> DEFINE x == [Torn EXCEPT !.by = p]
             d == [disk EXCEPT ![f] = x]
  <2>1. f \in Files /\ (f \in Bundle => run[p].script = "pilot")
    BY KnownRun DEF Written, At, Sound, Files, Bundle
  <2>2. x \in File /\ x.by = p /\ x.status = "torn" /\ x.browser = "absent"
    BY TornFile
  <2> HIDE DEF x
  <2>3. /\ d \in [Files -> File] /\ d[f] = x
        /\ \A g \in Files \ {f} : d[g] = disk[g]
    BY KnownRun, <2>1, <2>2
  <2>4. disk' = d
    BY <1>7 DEF x
  <2> HIDE DEF d
  <2>5. FilesAreSound(d)
    BY <2>2, <2>3 DEF Inv, FilesAreSound, ReportIsSound, SummaryIsSound, Files, Bundle
  <2>6. d["manifest"] = disk["manifest"] \/ d["manifest"].status # "passed"
    BY <2>2, <2>3 DEF Files, Bundle
  <2>7. \A g \in Files : d[g] = disk[g] \/ d[g].by = p
    BY <2>2, <2>3
  <2>8. run[p].script # "pilot" => \A g \in Bundle : d[g] = disk[g]
    BY <2>1, <2>3 DEF Files
  <2> QED BY <1>5, <2>3, <2>4, <2>5, <2>6, <2>7, <2>8
<1> QED BY <1>1, <1>6, <1>7

-----------------------------------------------------------------------------
(* The invariant and what follows from it.                                 *)

LEMMA RestKeeps ==
  ASSUME Inv, Edit \/ UNCHANGED vars
  PROVE  Inv'
<1>1. disk' = disk /\ run' = run /\ generated' = generated /\ world' \in Worlds
  BY DEF Edit, vars, Inv, Types
<1> QED BY <1>1 DEF Inv, Types, FilesAreSound, ReportIsSound, SummaryIsSound,
             WritersStarted, OverlapIsStruck, BundleInv, OfAnother, Pilots, Active,
             Sound, Undisturbed, OnCourse, NotesOf, Made

LEMMA StepKeeps == Inv /\ [Next]_vars => Inv'
<1> SUFFICES ASSUME Inv, [Next]_vars PROVE Inv'
  OBVIOUS
<1>1. CASE Edit \/ UNCHANGED vars
  BY <1>1, RestKeeps
<1>2. ASSUME NEW p \in Invocations, Start(p) \/ GateDies(p) \/ EvidenceDies(p) \/ Kill(p)
      PROVE  Inv'
  BY <1>2, StartKeeps, GateDiesKeeps, EvidenceDiesKeeps, KillKeeps
<1>3. ASSUME NEW p \in Invocations, Work(p) PROVE Inv'
  BY <1>3, CheckSetupKeeps, BeginGateKeeps, GateStepKeeps, EndGateKeeps, SaveReportKeeps,
     ReadReportKeeps, JudgeEvidenceKeeps, WriteEvidenceKeeps, WriteNotesKeeps,
     BundleReportKeeps, CollectKeeps, WriteManifestKeeps, WriteHandoffKeeps DEF Work
<1> QED BY <1>1, <1>2, <1>3 DEF Next

LEMMA Invariance == Spec => []Inv
<1> QED BY InitInv, StepKeeps, PTL DEF Spec

(* What a pilot or an evidence command signs off was checked: the gate     *)
(* behind it (run_v1_release_gate.py) ran every deterministic command, and *)
(* each one succeeded; only the front-end build may hide behind a report   *)
(* that was saved before.                                                  *)
THEOREM SignOffsAreEarned == Spec => []SignOffIsEarned
<1>1. Inv => SignOffIsEarned
  <2> SUFFICES ASSUME Inv, NEW p \in Invocations
               PROVE  /\ run[p].manifest = "passed" =>
                           Deterministic \subseteq run[p].gate.passed /\ run[p].gate.by = p
                      /\ run[p].evidence.status = "passed" =>
                           Deterministic \ {"frontend_build"} \subseteq run[p].evidence.passed
    BY DEF SignOffIsEarned
  <2> QED BY KnownRun DEF Sound, ReportIsSound, SummaryIsSound
<1> QED BY <1>1, Invariance, PTL

(* The evidence behind a passed manifest (run_v1_rc_pilot.py) was made by  *)
(* that pilot from its own gate report, unless its evidence command died   *)
(* or another pilot wrote to the bundle meanwhile.                         *)
THEOREM EvidenceIsOwn == Spec => []EvidenceIsOfTheRun
<1>1. Inv => EvidenceIsOfTheRun
  <2> SUFFICES ASSUME Inv, NEW p \in Invocations, run[p].manifest = "passed",
                      run[p].struck \cap {"evidence", "overlap"} = {}
               PROVE  run[p].evidence.by = p /\ run[p].evidence.of = p
    BY DEF EvidenceIsOfTheRun
  <2>1. Undisturbed(run[p])
    BY KnownRun DEF Sound, Undisturbed
  <2> QED BY <2>1, KnownRun DEF OnCourse, Made
<1> QED BY <1>1, Invariance, PTL

(* A bundle that check_v1_rc_handoff.py accepts and whose manifest says    *)
(* passed is the work of one pilot, unless a pilot that wrote to it was    *)
(* killed, lost its evidence command or overlapped with another.           *)
THEOREM BundlesAreOneRun == Spec => []BundleIsOneRun
<1>1. Inv => BundleIsOneRun
  <2> SUFFICES ASSUME Inv, Pilots = {}, disk["manifest"].status = "passed",
                      ~\A f \in Bundle : disk[f].by = disk["manifest"].by
               PROVE  \E f \in Bundle : disk[f].by # None /\ run[disk[f].by].struck # {}
    BY DEF BundleIsOneRun
  <2> DEFINE m == disk["manifest"].by
  <2>1. m \in Invocations /\ m # None
    BY ReleaseAssumption DEF Inv, Types, FilesAreSound, File, Writers, Files, Bundle
  <2>2. CASE run[m].struck # {}
    BY <2>1, <2>2 DEF Bundle
  <2>3. CASE run[m].struck = {}
    <3>1. /\ run[m].script = "pilot"
          /\ \A f \in Bundle :
               disk[f].by = m \/ (f = "handoff" /\ run[m].pc = "handoff") \/ OfAnother(f)
      BY <2>3 DEF Inv, BundleInv
    <3>2. run[m].pc # "handoff"
      BY <2>1, <3>1 DEF Pilots, Active
    <3> QED BY <3>1, <3>2 DEF OfAnother
  <2> QED BY <2>2, <2>3
<1> QED BY <1>1, Invariance, PTL
=============================================================================
