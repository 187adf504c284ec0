---------------------- MODULE PerformanceBenchmarkProofs ----------------------
(***************************************************************************)
(* Proofs about PerformanceBenchmark, for any number of invocations,       *)
(* directories, items, kills and failing files.                            *)
(***************************************************************************)
EXTENDS PerformanceBenchmark, TLAPS

Phases ==
  {"off", "gate", "marks", "reserve", "refused", "items", "pipeline", "orphan", "report",
   "consume", "release", "ended"}

Invocation ==
  [pc : Phases, profile : Profiles, split : Splits, out : Dirs \cup {None},
   evidence : Dirs \cup {None}, resume : BOOLEAN, version : Nat, hashed : Nat,
   after : SUBSET Invocations, left : SUBSET Items, item : Items \cup {None},
   todo : SUBSET Candidates, ok : SUBSET Candidates,
   measured : SUBSET (Items \cup {None}), compared : BOOLEAN]

Report ==
  [split : Splits \cup {"none"}, profile : Profiles, version : Nat, improved : BOOLEAN]

Log ==
  [by : Invocations \cup {None}, profile : Profiles, completed : BOOLEAN,
   ok : SUBSET Candidates]

TypeOK ==
  /\ inv \in [Invocations -> Invocation]
  /\ manifest \in Nat
  /\ report \in [Dirs -> Report]
  /\ reserved \in [Dirs -> Invocations \cup {None}]
  /\ consumed \subseteq Dirs \cup {None}
  /\ log \in [Dirs -> [Items -> Log]]
  /\ files \in [Dirs -> [Items -> [Candidates -> Invocations \cup {None}]]]
  /\ spent \in [Dirs -> SUBSET Invocations]
  /\ unmarked \subseteq Invocations
  /\ broken \subseteq Invocations
  /\ unlogged \subseteq Invocations \X (Items \cup {None})
  /\ improved \subseteq [items : Nat, named : Nat]

(* An invocation that has shown its evidence and reserves it or holds it. *)
Claims(p) == At(p, "reserve") \/ Holds(p)

(* One whose evidence was compared with the manifest, until it reports.    *)
Shown(p) == At(p, "marks") \/ At(p, "reserve") \/ Measuring(p)

(* A reservation belongs to the invocation that holds the evidence, or to  *)
(* one that something stopped.                                             *)
ReservationInv ==
  /\ \A p \in Invocations :
       inv[p].pc \in {"marks", "reserve", "consume", "release"} => Gated(p)
  /\ \A p \in Invocations : At(p, "marks") \/ Claims(p) => inv[p].evidence \in Dirs
  /\ \A p \in Invocations : Holds(p) => reserved[inv[p].evidence] = p
  /\ \A p \in Invocations : \A d \in Dirs :
       reserved[d] = p => p \in broken \/ (Holds(p) /\ inv[p].evidence = d)

(* A report that counts as evidence has the name of an improvement, and so *)
(* has every invocation that has shown one.                                *)
Named(version, improvements) == \E r \in improvements : r.named = version

EarnedInv ==
  /\ \A d \in Dirs : report[d].split = "development" /\ report[d].improved
                       => Named(report[d].version, improved)
  /\ \A p \in Invocations : Shown(p) => Named(inv[p].hashed, improved)

(* Earlier invocations have ended; that does not change.                   *)
AfterInv ==
  \A p \in Invocations : \A q \in inv[p].after : q \in Invocations /\ At(q, "ended")

(* The account of the evidence: who has spent it marks it, or leaves its   *)
(* reservation beside it for ever, unless a table could not be written.    *)
Accounted(q, d) ==
  /\ inv[q].pc # "ended" => Gated(q) /\ inv[q].evidence = d
  /\ inv[q].pc = "release" => d \in consumed
  /\ d \in consumed \/ reserved[d] = q

SpentInv ==
  /\ \A d \in Dirs, q \in Invocations :
       q \in spent[d] => /\ inv[q].pc \in {"consume", "release", "ended"}
                         /\ q \notin unmarked => Accounted(q, d)
  /\ \A p \in Invocations :
       At(p, "consume") => /\ Gated(p) /\ p \in spent[inv[p].evidence]
                           /\ p \notin unmarked
  /\ \A d \in Dirs : d \in consumed => spent[d] # {}
  /\ \A q \in unmarked : inv[q].pc \in {"release", "ended"}

(* Who claims evidence finds, of the earlier invocations that have spent   *)
(* it, at most one whose reservation nobody will take away.                *)
OnceInv ==
  \A p, q \in Invocations : \A d \in Dirs :
    q \in spent[d] /\ q \notin unmarked /\ q \in inv[p].after /\ Claims(p) /\ inv[p].evidence = d
      => At(p, "reserve") /\ reserved[d] = q

Inv ==
  /\ TypeOK /\ ReservationInv /\ EarnedInv
  /\ AfterInv /\ SpentInv /\ OnceInv /\ EvidenceIsSpentOnce

-----------------------------------------------------------------------------
(* Types. *)

LEMMA TypeInit == Init => TypeOK
  BY DEF Init, TypeOK, Off, NoReport, NoLog, Invocation, Report, Log, Profiles, Splits, Phases

(* The updates of an invocation.                                           *)
LEMMA SetPc ==
  ASSUME NEW r \in Invocation, NEW pc \in Phases
  PROVE  [r EXCEPT !.pc = pc] \in Invocation
  BY DEF Invocation

LEMMA SetEnded ==
  ASSUME NEW r \in Invocation
  PROVE  [Off EXCEPT !.pc = "ended", !.after = r.after] \in Invocation
  BY DEF Invocation, Off, Phases, Profiles, Splits

LEMMA SetItem ==
  ASSUME NEW r \in Invocation, NEW i \in Items \cup {None}
  PROVE  /\ Unmeasured(r, i) \in Invocation
         /\ \A h \in Nat, pc \in Phases :
              [r EXCEPT !.pc = pc, !.hashed = h] \in Invocation
         /\ \A written : Measured(r, i, written) \in Invocation
         /\ i \in Items => [r EXCEPT !.pc = "pipeline", !.item = i, !.ok = {},
                                    !.todo = CandidatesOf(r.profile)] \in Invocation
<1>1. Unmeasured(r, i) \in Invocation
  BY DEF Invocation, Unmeasured, Phases
<1>2. \A written : Measured(r, i, written) \in Invocation
  BY <1>1 DEF Invocation, Unmeasured, Measured, Phases
<1>3. CandidatesOf(r.profile) \subseteq Candidates
  BY DEF CandidatesOf, Candidates
<1>4. i \in Items => [r EXCEPT !.pc = "pipeline", !.item = i, !.ok = {},
                             !.todo = CandidatesOf(r.profile)] \in Invocation
  BY <1>3 DEF Invocation, Phases
<1>5. \A h \in Nat, pc \in Phases : [r EXCEPT !.pc = pc, !.hashed = h] \in Invocation
  BY DEF Invocation
<1> QED BY <1>1, <1>2, <1>4, <1>5

LEMMA SetCandidate ==
  ASSUME NEW r \in Invocation, NEW c \in Candidates
  PROVE  /\ [r EXCEPT !.todo = @ \ {c}] \in Invocation
         /\ [r EXCEPT !.todo = @ \ {c}, !.ok = @ \cup {c}] \in Invocation
  BY DEF Invocation

(* A step of an invocation changes its own state only. *)
LEMMA StepUpdates ==
  ASSUME TypeOK, NEW p \in Invocations, Step(p)
  PROVE  \E r \in Invocation : inv' = [inv EXCEPT ![p] = r]
<1> USE BenchmarkAssumption
<1> DEFINE me == inv[p]
<1>0. me \in Invocation
  BY DEF TypeOK
<1>1. ASSUME NEW plan \in Plans, Start(p, plan)
      PROVE  \E r \in Invocation : inv' = [inv EXCEPT ![p] = r]
  <2> DEFINE r == [Off EXCEPT !.pc = "gate", !.profile = plan.profile, !.split = plan.split,
                     !.out = plan.out, !.evidence = plan.evidence, !.resume = plan.resume,
                     !.version = manifest, !.left = ItemsOf(plan.split),
                     !.after = {q \in Invocations : At(q, "ended")}]
  <2>1. /\ plan.profile \in Profiles /\ plan.split \in Splits /\ plan.out \in Dirs
        /\ plan.evidence \in Dirs \cup {None} /\ plan.resume \in BOOLEAN
    BY DEF Plan
  <2>2. ItemsOf(plan.split) \subseteq Items
    BY DEF ItemsOf, Items
  <2>3. r \in Invocation
    BY <2>1, <2>2 DEF TypeOK, Off, Invocation, Phases
  <2>4. inv' = [inv EXCEPT ![p] = r]
    BY <1>1 DEF Start
  <2> QED BY <2>3, <2>4
<1>2. ASSUME NEW pc \in Phases, Goto(p, pc)
      PROVE  \E r \in Invocation : inv' = [inv EXCEPT ![p] = r]
  <2>1. inv' = [inv EXCEPT ![p] = [me EXCEPT !.pc = pc]]
    BY <1>2 DEF Goto, TypeOK
  <2> QED BY <1>0, <2>1, SetPc
<1>3. CASE End(p)
  BY <1>0, <1>3, SetEnded DEF End
<1>4. ASSUME NEW i \in Items, SkipItem(p, i) \/ ReuseItem(p, i) \/ StartItem(p, i)
      PROVE  \E r \in Invocation : inv' = [inv EXCEPT ![p] = r]
  <2>1. CASE SkipItem(p, i)
    BY <1>0, <2>1, SetItem DEF SkipItem
  <2>2. CASE ReuseItem(p, i)
    BY <1>0, <2>2, SetItem DEF ReuseItem
  <2>3. CASE StartItem(p, i)
    <3>1. inv' = [inv EXCEPT ![p] = [me EXCEPT !.pc = "pipeline", !.item = i, !.ok = {},
                                               !.todo = CandidatesOf(me.profile)]]
      BY <2>3 DEF StartItem, TypeOK
    <3> QED BY <1>0, <3>1, SetItem
  <2> QED BY <1>4, <2>1, <2>2, <2>3
<1>5. CASE SharedStageFails(p) \/ EndPipeline(p) \/ PipelineDies(p)
  <2>1. me.item \in Items \cup {None}
    BY <1>0 DEF Invocation
  <2>2. \E r \in Invocation : Return(p, r)
    BY <1>0, <1>5, <2>1, SetItem DEF SharedStageFails, EndPipeline, PipelineDies
  <2> QED BY <1>3, <2>2 DEF Return
<1>6. ASSUME NEW c \in Candidates, RunCandidate(p, c)
      PROVE  \E r \in Invocation : inv' = [inv EXCEPT ![p] = r]
  <2>1. \/ inv' = [inv EXCEPT ![p] = [me EXCEPT !.todo = @ \ {c}]]
        \/ inv' = [inv EXCEPT ![p] = [me EXCEPT !.todo = @ \ {c}, !.ok = @ \cup {c}]]
    BY <1>6 DEF RunCandidate, TypeOK
  <2> QED BY <1>0, <2>1, SetCandidate
<1>7. CASE CheckEvidence(p) \/ HashManifest(p)
  <2>1. CASE Goto(p, "items") \/ Goto(p, "refused")
    BY <1>2, <2>1 DEF Phases
  <2>2. ASSUME NEW pc \in {"marks", "report"},
               inv' = [inv EXCEPT ![p].pc = pc, ![p].hashed = manifest]
        PROVE  \E r \in Invocation : inv' = [inv EXCEPT ![p] = r]
    <3>1. inv' = [inv EXCEPT ![p] = [me EXCEPT !.pc = pc, !.hashed = manifest]]
      BY <2>2 DEF TypeOK
    <3>2. manifest \in Nat /\ pc \in Phases
      BY DEF TypeOK, Phases
    <3>3. [me EXCEPT !.pc = pc, !.hashed = manifest] \in Invocation
      BY <1>0, <3>2, SetItem
    <3> QED BY <3>1, <3>3
  <2> QED BY <1>7, <2>1, <2>2 DEF CheckEvidence, HashManifest
<1>8. CASE CheckMarks(p) \/ Reserve(p) \/ Consume(p)
  BY <1>2, <1>8 DEF CheckMarks, Reserve, Consume, Phases
<1>9. CASE WriteReport(p) \/ TableFails(p) \/ Raise(p)
  BY <1>2, <1>3, <1>9 DEF WriteReport, TableFails, Raise, ThenRelease, Phases
<1>10. CASE Refuse(p) \/ Release(p) \/ FinalizeFails(p) \/ Kill(p)
  BY <1>2, <1>3, <1>10 DEF Refuse, Release, FinalizeFails, Kill, Phases
<1> QED
  BY <1>1, <1>4, <1>5, <1>6, <1>7, <1>8, <1>9, <1>10 DEF Step

LEMMA TypeStep ==
  ASSUME TypeOK, [Next]_vars
  PROVE  TypeOK'
<1> USE BenchmarkAssumption
<1>1. CASE UNCHANGED vars
  BY <1>1 DEF TypeOK, vars, shared, history
<1>2. CASE EditManifest
  BY <1>2 DEF EditManifest, TypeOK, shared, history
<1>3. ASSUME NEW p \in Invocations, Step(p)
      PROVE  TypeOK'
  <2> DEFINE me == inv[p]
  <2>0. me \in Invocation
    BY DEF TypeOK
  <2>1. inv' \in [Invocations -> Invocation]
    BY <1>3, StepUpdates DEF TypeOK
  <2>2. manifest' \in Nat
    BY <1>3
    DEF Step, Start, CheckEvidence, CheckMarks, Reserve, Refuse, SkipItem, ReuseItem,
        StartItem, SharedStageFails, EndPipeline, PipelineDies, RunCandidate, HashManifest,
        WriteReport, TableFails, Raise, Consume, Release, FinalizeFails, Kill, ReportTorn,
        TypeOK
  <2>3. report' \in [Dirs -> Report] /\ improved' \subseteq [items : Nat, named : Nat]
    <3>1. ReportOf(me) \in Report /\ NoReport \in Report
      BY <2>0 DEF ReportOf, NoReport, Report, Invocation, Profiles, Splits
    <3>2. Improvement(me) \in [items : Nat, named : Nat]
      BY <2>0 DEF Invocation, Improvement
    <3>3. CASE ReportWritten(p)
      <4>1. \E better \in BOOLEAN :
              report' = [report EXCEPT ![me.out] = IF better THEN ReportOf(me) ELSE NoReport]
        BY <2>0, <3>3 DEF ReportWritten, Invocation
      <4>2. report' \in [Dirs -> Report]
        BY <3>1, <4>1 DEF TypeOK
      <4>3. improved' \subseteq improved \cup {Improvement(me)}
        BY <3>3 DEF ReportWritten
      <4> QED BY <3>2, <4>2, <4>3 DEF TypeOK
    <3>4. CASE Refuse(p) \/ ReportTorn(p)
      <4>1. \E d : report' = [report EXCEPT ![d] = NoReport]
        BY <3>4 DEF Refuse, ReportTorn
      <4>2. report' \in [Dirs -> Report]
        BY <3>1, <4>1 DEF TypeOK
      <4>3. UNCHANGED improved
        BY <3>4 DEF Refuse, ReportTorn, history
      <4> QED BY <4>2, <4>3 DEF TypeOK
    <3>5. CASE UNCHANGED <<report, improved>>
      BY <3>5 DEF TypeOK
    <3> QED
      BY <1>3, <3>3, <3>4, <3>5
      DEF Step, Start, CheckEvidence, CheckMarks, Reserve, SkipItem, ReuseItem, StartItem,
          SharedStageFails, EndPipeline, PipelineDies, RunCandidate, HashManifest,
          WriteReport, TableFails, Raise, Consume, Release, FinalizeFails, Kill, shared,
          history
  <2>4. reserved' \in [Dirs -> Invocations \cup {None}]
    <3>1. CASE Reserve(p) \/ Release(p)
      BY <3>1 DEF Reserve, Release, TypeOK
    <3>2. CASE UNCHANGED reserved
      BY <3>2 DEF TypeOK
    <3> QED
      BY <1>3, <3>1, <3>2
      DEF Step, Start, CheckEvidence, CheckMarks, Refuse, SkipItem, ReuseItem, StartItem,
          SharedStageFails, EndPipeline, PipelineDies, RunCandidate, HashManifest,
          WriteReport, TableFails, Raise, Consume, FinalizeFails, Kill, shared
  <2>5. consumed' \subseteq Dirs \cup {None}
    <3>1. me.evidence \in Dirs \cup {None}
      BY <2>0 DEF Invocation
    <3> QED
      BY <1>3, <3>1
      DEF Step, Start, CheckEvidence, CheckMarks, Reserve, Refuse, SkipItem, ReuseItem,
          StartItem, SharedStageFails, EndPipeline, PipelineDies, RunCandidate,
          HashManifest, WriteReport, TableFails, Raise, Consume, Release, FinalizeFails,
          Kill, shared, TypeOK
  <2>6. log' \in [Dirs -> [Items -> Log]]
    <3>1. CASE WriteLog(p)
      <4>1. \A by \in Invocations, profile \in Profiles, completed \in BOOLEAN,
              ok \in SUBSET Candidates :
              [by |-> by, profile |-> profile, completed |-> completed, ok |-> ok] \in Log
        BY DEF Log
      <4>2. NoLog \in Log
        BY DEF NoLog, Log, Profiles
      <4>3. me.profile \in Profiles /\ me.ok \in SUBSET Candidates
        BY <2>0 DEF Invocation
      <4> DEFINE entry == IF me.ok = {} THEN NoLog
                          ELSE [by |-> p, profile |-> me.profile, completed |-> TRUE, ok |-> me.ok]
      <4>4. entry \in Log
        BY <4>1, <4>2, <4>3
      <4>5. log' = [log EXCEPT ![me.out][me.item] = entry]
        BY <3>1 DEF WriteLog, LogIs
      <4> HIDE DEF entry
      <4> QED BY <4>4, <4>5 DEF TypeOK
    <3>2. CASE UNCHANGED log
      BY <3>2 DEF TypeOK
    <3>3. CASE LogIs(p, NoLog)
      <4>1. NoLog \in Log
        BY DEF NoLog, Log, Profiles
      <4> QED BY <3>3, <4>1 DEF LogIs, TypeOK
    <3> QED
      BY <1>3, <3>1, <3>2, <3>3
      DEF Step, Start, CheckEvidence, CheckMarks, Reserve, Refuse, SkipItem, ReuseItem,
          StartItem, SharedStageFails, EndPipeline, PipelineDies, RunCandidate,
          HashManifest, WriteReport, TableFails, Raise, Consume, Release, FinalizeFails,
          Kill, shared
  <2>7. files' \in [Dirs -> [Items -> [Candidates -> Invocations \cup {None}]]]
    <3>1. ASSUME NEW c \in Candidates, RunCandidate(p, c)
          PROVE  files' \in [Dirs -> [Items -> [Candidates -> Invocations \cup {None}]]]
      <4>1. \/ files' = [files EXCEPT ![me.out][me.item][c] = p]
            \/ UNCHANGED files
        BY <3>1 DEF RunCandidate
      <4>2. ASSUME files' = [files EXCEPT ![me.out][me.item][c] = p], NEW d \in Dirs
            PROVE  files'[d] \in [Items -> [Candidates -> Invocations \cup {None}]]
        <5> DEFINE old == files[d][me.item]
        <5>1. files[d] \in [Items -> [Candidates -> Invocations \cup {None}]]
          BY DEF TypeOK
        <5>2. me.item \in Items => [old EXCEPT ![c] = p] \in [Candidates -> Invocations \cup {None}]
          BY <5>1
        <5>3. files'[d] \in {files[d], [files[d] EXCEPT ![me.item] = [old EXCEPT ![c] = p]]}
          BY <4>2 DEF TypeOK
        <5> HIDE DEF old
        <5> QED BY <5>1, <5>2, <5>3
      <4>3. files' = [files EXCEPT ![me.out][me.item][c] = p]
              => files' = [d \in Dirs |-> files'[d]]
        BY DEF TypeOK
      <4> QED BY <4>1, <4>2, <4>3 DEF TypeOK
    <3>2. CASE UNCHANGED files
      BY <3>2 DEF TypeOK
    <3> QED
      BY <1>3, <3>1, <3>2
      DEF Step, Start, CheckEvidence, CheckMarks, Reserve, Refuse, SkipItem, ReuseItem,
          StartItem, SharedStageFails, EndPipeline, PipelineDies, HashManifest,
          WriteReport, TableFails, Raise, Consume, Release, FinalizeFails, Kill, shared
  <2>8. spent' \in [Dirs -> SUBSET Invocations]
    <3>1. CASE Spent(p)
      BY <3>1 DEF Spent, TypeOK
    <3>2. CASE UNCHANGED spent
      BY <3>2 DEF TypeOK
    <3> QED
      BY <1>3, <3>1, <3>2
      DEF Step, Start, CheckEvidence, CheckMarks, Reserve, Refuse, SkipItem, ReuseItem,
          StartItem, SharedStageFails, EndPipeline, PipelineDies, RunCandidate,
          HashManifest, WriteReport, TableFails, Raise, Consume, Release, FinalizeFails,
          Kill, shared, history
  <2>9. /\ broken' \subseteq Invocations /\ unmarked' \subseteq Invocations
        /\ unlogged' \subseteq Invocations \X (Items \cup {None})
    <3>1. broken' \in {broken, broken \cup {p}} /\ unmarked' \in {unmarked, unmarked \cup {p}}
      BY <1>3
      DEF Step, Start, CheckEvidence, CheckMarks, Reserve, Refuse, SkipItem, ReuseItem,
          StartItem, SharedStageFails, EndPipeline, PipelineDies, RunCandidate,
          HashManifest, WriteReport, TableFails, Raise, Consume, Release, FinalizeFails,
          Kill, shared, history
    <3>2. unlogged' \in {unlogged, unlogged \cup {<<p, me.item>>}}
      BY <1>3
      DEF Step, Start, CheckEvidence, CheckMarks, Reserve, Refuse, SkipItem, ReuseItem,
          StartItem, SharedStageFails, EndPipeline, PipelineDies, RunCandidate,
          HashManifest, WriteReport, TableFails, Raise, Consume, Release, FinalizeFails,
          Kill, shared, history
    <3>3. me.item \in Items \cup {None}
      BY <2>0 DEF Invocation
    <3> QED BY <3>1, <3>2, <3>3 DEF TypeOK
  <2> QED BY <2>1, <2>2, <2>3, <2>4, <2>5, <2>6, <2>7, <2>8, <2>9 DEF TypeOK
<1> QED BY <1>1, <1>2, <1>3 DEF Next

-----------------------------------------------------------------------------
(* What a step means to the account of the evidence. *)

Others(p) == \A q \in Invocations : q # p => inv'[q] = inv[q]

Moved(p, pc) ==
  /\ Others(p)
  /\ inv'[p].pc = pc
  /\ inv'[p].profile = inv[p].profile
  /\ inv'[p].split = inv[p].split
  /\ inv'[p].evidence = inv[p].evidence
  /\ inv'[p].version = inv[p].version
  /\ inv'[p].after = inv[p].after

SameHash(p) == inv'[p].hashed = inv[p].hashed

Ended(p) == Others(p) /\ inv'[p].pc = "ended" /\ inv'[p].after = inv[p].after

Started(p) ==
  /\ At(p, "off")
  /\ Others(p)
  /\ inv'[p].pc = "gate"
  /\ inv'[p].after = {q \in Invocations : At(q, "ended")}
  /\ UNCHANGED <<report, reserved, consumed, history>>

Checked(p) ==
  LET e == inv[p].evidence IN
  /\ At(p, "gate")
  /\ \/ Moved(p, "items") /\ ~Gated(p)
     \/ Moved(p, "refused")
     \/ /\ Moved(p, "marks")
        /\ Gated(p)
        /\ e \in Dirs
        /\ report[e].split = "development" /\ report[e].improved
        /\ report[e].version = inv'[p].hashed
  /\ UNCHANGED <<report, reserved, consumed, history>>

SawMarks(p) ==
  /\ At(p, "marks")
  /\ SameHash(p)
  /\ \/ Moved(p, "refused")
     \/ Moved(p, "reserve") /\ inv[p].evidence \notin consumed
  /\ UNCHANGED <<report, reserved, consumed, history>>

TookReservation(p) ==
  LET e == inv[p].evidence IN
  /\ At(p, "reserve")
  /\ Moved(p, "items") /\ SameHash(p)
  /\ reserved[e] = None
  /\ reserved' = [reserved EXCEPT ![e] = p]
  /\ UNCHANGED <<report, consumed, history>>

MissedReservation(p) ==
  LET e == inv[p].evidence IN
  /\ At(p, "reserve")
  /\ Moved(p, "refused")
  /\ \/ UNCHANGED <<reserved, broken>>
     \/ /\ reserved[e] = None
        /\ reserved' = reserved \/ reserved' = [reserved EXCEPT ![e] = p]
        /\ broken' = broken \cup {p}
  /\ UNCHANGED <<report, consumed, spent, unmarked, improved>>

WasRefused(p) ==
  /\ At(p, "refused")
  /\ Ended(p)
  /\ report' = [report EXCEPT ![inv[p].out] = NoReport]
  /\ UNCHANGED <<reserved, consumed, history>>

Worked(p) ==
  /\ \/ /\ inv[p].pc \in {"items", "pipeline"}
        /\ \/ SameHash(p) /\ (Moved(p, "items") \/ Moved(p, "pipeline"))
           \/ Moved(p, "report")
     \/ At(p, "orphan") /\ (Moved(p, "orphan") \/ Ended(p))
  /\ UNCHANGED <<report, reserved, consumed, spent, unmarked, broken, improved>>

WroteReport(p) ==
  \/ UNCHANGED <<report, improved>>
  \/ ReportWritten(p)
  \/ ReportTorn(p)

Reported(p) ==
  LET e == inv[p].evidence
      spends == At(p, "report") /\ Gated(p) /\ spent' = [spent EXCEPT ![e] = @ \cup {p}]
  IN
  /\ inv[p].pc \in {"items", "report"}
  /\ \/ Moved(p, "consume") /\ spends /\ UNCHANGED unmarked
     \/ Moved(p, "release") /\ spends /\ unmarked' = unmarked \cup {p}
     \/ Moved(p, "release") /\ Gated(p) /\ UNCHANGED <<spent, unmarked>>
     \/ Ended(p) /\ ~Gated(p) /\ UNCHANGED <<spent, unmarked>>
  /\ WroteReport(p)
  /\ UNCHANGED <<reserved, consumed, broken>>

MarkedConsumed(p) ==
  /\ At(p, "consume")
  /\ Moved(p, "release")
  /\ consumed' = consumed \cup {inv[p].evidence}
  /\ UNCHANGED <<report, reserved, history>>

Released(p) ==
  /\ At(p, "release")
  /\ Ended(p)
  /\ reserved' = [reserved EXCEPT ![inv[p].evidence] = None]
  /\ UNCHANGED <<report, consumed, history>>

WasStopped(p) ==
  /\ Active(p)
  /\ Ended(p) \/ (At(p, "pipeline") /\ Moved(p, "orphan"))
  /\ broken' = broken \cup {p}
  /\ WroteReport(p)
  /\ UNCHANGED <<reserved, consumed, spent, unmarked>>

LEMMA Effects ==
  ASSUME TypeOK, NEW p \in Invocations, Step(p)
  PROVE  \/ Started(p) \/ Checked(p) \/ SawMarks(p) \/ TookReservation(p) \/ MissedReservation(p)
         \/ WasRefused(p) \/ Worked(p) \/ Reported(p) \/ MarkedConsumed(p)
         \/ Released(p) \/ WasStopped(p)
<1> USE BenchmarkAssumption
<1> DEFINE me == inv[p]
<1>0. me \in Invocation
  BY DEF TypeOK
<1>1. ASSUME NEW pc, Goto(p, pc)
      PROVE  Moved(p, pc) /\ SameHash(p)
  BY <1>0, <1>1 DEF Goto, Moved, SameHash, Others, TypeOK, Invocation
<1>2. ASSUME End(p)
      PROVE  Ended(p)
  BY <1>0, <1>2 DEF End, Ended, Others, Off, TypeOK, Invocation
<1>3. ASSUME NEW plan \in Plans, Start(p, plan)
      PROVE  Started(p)
  BY <1>3 DEF Start, Started, Others, Off, TypeOK, shared, history
<1>4. ASSUME NEW pc, inv' = [inv EXCEPT ![p].pc = pc, ![p].hashed = manifest]
      PROVE  Moved(p, pc) /\ inv'[p].hashed = manifest
  BY <1>0, <1>4 DEF Moved, Others, TypeOK, Invocation
<1>5. CASE CheckEvidence(p)
  <2>1. me.evidence \in Dirs \cup {None}
    BY <1>0 DEF Invocation
  <2>2. CASE (Goto(p, "items") /\ ~Gated(p)) \/ Goto(p, "refused")
    BY <1>1, <1>5, <2>2 DEF CheckEvidence, Checked, shared, history
  <2>3. CASE /\ Gated(p) /\ me.evidence # None /\ IsEvidence(report[me.evidence], p)
             /\ inv' = [inv EXCEPT ![p].pc = "marks", ![p].hashed = manifest]
    BY <1>4, <1>5, <2>1, <2>3 DEF CheckEvidence, Checked, IsEvidence, shared, history
  <2> QED BY <1>5, <2>2, <2>3 DEF CheckEvidence
<1>6. CASE CheckMarks(p)
  BY <1>1, <1>6 DEF CheckMarks, SawMarks, shared, history
<1>7. CASE Reserve(p)
  BY <1>1, <1>7 DEF Reserve, TookReservation, MissedReservation, history
<1>8. CASE Refuse(p)
  BY <1>2, <1>8 DEF Refuse, WasRefused, history
<1>9. ASSUME NEW i,
             \/ inv' = [inv EXCEPT ![p] = Unmeasured(inv[p], i)]
             \/ \E written : inv' = [inv EXCEPT ![p] = Measured(inv[p], i, written)]
      PROVE  Moved(p, "items") /\ SameHash(p)
  <2>1. CASE inv' = [inv EXCEPT ![p] = Unmeasured(me, i)]
    <3>1. inv'[p] = Unmeasured(me, i) /\ Others(p)
      BY <2>1 DEF Others, TypeOK
    <3> QED BY <1>0, <3>1 DEF Unmeasured, Moved, SameHash, Invocation
  <2>2. ASSUME NEW written, inv' = [inv EXCEPT ![p] = Measured(me, i, written)]
        PROVE  Moved(p, "items") /\ SameHash(p)
    <3>1. inv'[p] = Measured(me, i, written) /\ Others(p)
      BY <2>2 DEF Others, TypeOK
    <3> QED BY <1>0, <3>1 DEF Measured, Unmeasured, Moved, SameHash, Invocation
  <2> QED BY <1>9, <2>1, <2>2
<1>10. ASSUME NEW i \in Items, SkipItem(p, i) \/ ReuseItem(p, i)
       PROVE  Worked(p)
  BY <1>9, <1>10 DEF SkipItem, ReuseItem, Worked, At, shared, history
<1>11. ASSUME NEW i \in Items, StartItem(p, i)
       PROVE  Worked(p)
  <2>1. Moved(p, "pipeline") /\ SameHash(p)
    BY <1>0, <1>11 DEF StartItem, Moved, SameHash, Others, TypeOK, Invocation
  <2> QED BY <1>11, <2>1 DEF StartItem, Worked, At, shared, history
<1>12. CASE SharedStageFails(p) \/ EndPipeline(p) \/ PipelineDies(p)
  <2>1. CASE At(p, "orphan")
    <3>1. End(p)
      BY <1>12, <2>1 DEF SharedStageFails, EndPipeline, PipelineDies, Return
    <3> QED
      BY <1>2, <1>12, <2>1, <3>1
      DEF SharedStageFails, EndPipeline, PipelineDies, Worked, history
  <2>2. CASE At(p, "pipeline")
    <3>1. \/ inv' = [inv EXCEPT ![p] = Unmeasured(inv[p], me.item)]
          \/ \E written : inv' = [inv EXCEPT ![p] = Measured(inv[p], me.item, written)]
      BY <1>12, <2>2 DEF SharedStageFails, EndPipeline, PipelineDies, Return, At
    <3>2. Moved(p, "items") /\ SameHash(p)
      BY <1>9, <3>1
    <3> QED
      BY <1>12, <2>2, <3>2
      DEF SharedStageFails, EndPipeline, PipelineDies, Worked, At, history
  <2> QED BY <1>12, <2>1, <2>2 DEF SharedStageFails, EndPipeline, PipelineDies, Runs
<1>13. ASSUME NEW c \in Candidates, RunCandidate(p, c)
       PROVE  Worked(p)
  <2>1. Moved(p, inv[p].pc) /\ SameHash(p)
    BY <1>0, <1>13 DEF RunCandidate, Moved, SameHash, Others, TypeOK, Invocation
  <2> QED BY <1>13, <2>1 DEF RunCandidate, Runs, Worked, At, history
<1>14. CASE HashManifest(p)
  BY <1>4, <1>14 DEF HashManifest, Worked, At, shared, history
<1>15. CASE WriteReport(p) \/ TableFails(p)
  <2>1. CASE Gated(p)
    BY <1>1, <1>15, <2>1
    DEF WriteReport, TableFails, ThenRelease, Spends, Spent, Reported, WroteReport, At
  <2>2. CASE ~Gated(p)
    BY <1>2, <1>15, <2>2
    DEF WriteReport, TableFails, ThenRelease, Spends, Spent, Reported, WroteReport, At
  <2> QED BY <2>1, <2>2
<1>16. CASE Raise(p)
  BY <1>1, <1>2, <1>16 DEF Raise, ThenRelease, Reported, WroteReport, At
<1>17. CASE Consume(p)
  BY <1>1, <1>17 DEF Consume, MarkedConsumed, history
<1>18. CASE Release(p)
  BY <1>2, <1>18 DEF Release, Released, history
<1>19. CASE FinalizeFails(p) \/ Kill(p)
  BY <1>1, <1>2, <1>19
  DEF FinalizeFails, Kill, WasStopped, WroteReport, Active, At, shared
<1> QED
  BY <1>3, <1>5, <1>6, <1>7, <1>8, <1>10, <1>11, <1>12, <1>13, <1>14, <1>15, <1>16, <1>17,
     <1>18, <1>19
  DEF Step

-----------------------------------------------------------------------------
(* The invariant. *)

LEMMA InvInit == Init => Inv
<1>1. Init => TypeOK
  BY TypeInit
<1>2. Init => /\ \A p \in Invocations : inv[p].pc = "off" /\ inv[p].after = {}
              /\ \A d \in Dirs : reserved[d] = None /\ spent[d] = {} /\ ~report[d].improved
              /\ consumed = {} /\ unmarked = {}
  BY DEF Init, Off, NoReport
<1> QED
  BY <1>1, <1>2, BenchmarkAssumption
  DEF Inv, ReservationInv, EarnedInv, AfterInv, SpentInv, OnceInv, EvidenceIsSpentOnce, Claims,
      Holds, Shown, Measuring, At

LEMMA ReservationStep ==
  ASSUME TypeOK, ReservationInv, NEW p \in Invocations, Step(p)
  PROVE  ReservationInv'
<1> USE BenchmarkAssumption
<1> USE DEF ReservationInv, Claims, Holds, At, Gated, Moved, Others, Ended
<1>1. CASE Started(p)
  BY <1>1 DEF Started, history
<1>2. CASE Checked(p) \/ SawMarks(p)
  BY <1>2 DEF Checked, SawMarks, history
<1>3. CASE TookReservation(p)
  <2> DEFINE e == inv[p].evidence
  <2>1. e \in Dirs /\ reserved[e] = None
    BY <1>3 DEF TookReservation
  <2>2. reserved'[e] = p /\ \A d \in Dirs : d # e => reserved'[d] = reserved[d]
    BY <1>3, <2>1 DEF TookReservation, TypeOK
  <2>3. \A q \in Invocations : Holds(q) => inv[q].evidence # e
    BY <2>1
  <2>4. inv'[p].pc = "items" /\ Gated(p)' /\ inv'[p].evidence = e /\ UNCHANGED broken
    BY <1>3 DEF TookReservation, history
  <2>5. \A q \in Invocations : q # p => inv'[q] = inv[q]
    BY <1>3 DEF TookReservation
  <2>6. Holds(p)'
    BY <2>4
  <2>7. \A q \in Invocations : q # p => Holds(q)' = Holds(q) /\ Claims(q)' = Claims(q)
    BY <2>5
  <2>8. \A q \in Invocations :
          inv'[q].pc \in {"marks", "reserve", "consume", "release"} => Gated(q)'
    BY <2>4, <2>5
  <2>12. \A q \in Invocations : At(q, "marks")' => At(q, "marks") /\ inv'[q] = inv[q]
    BY <2>4, <2>5
  <2> HIDE DEF e, Holds, Claims, At, Gated
  <2>9. \A q \in Invocations : At(q, "marks")' \/ Claims(q)' => inv'[q].evidence \in Dirs
    BY <2>1, <2>4, <2>5, <2>7, <2>12 DEF Holds
  <2>10. \A q \in Invocations : Holds(q)' => reserved'[inv'[q].evidence] = q
    <3>1. ASSUME NEW q \in Invocations, q # p, Holds(q)
          PROVE  reserved'[inv[q].evidence] = q
      BY <2>2, <2>3, <3>1 DEF Claims
    <3> QED BY <2>2, <2>4, <2>5, <2>7, <3>1
  <2>11. \A q \in Invocations : \A d \in Dirs :
           reserved'[d] = q => q \in broken' \/ (Holds(q)' /\ inv'[q].evidence = d)
    <3>1. ASSUME NEW q \in Invocations, NEW d \in Dirs, reserved'[d] = q
          PROVE  q \in broken' \/ (Holds(q)' /\ inv'[q].evidence = d)
      <4>1. CASE d = e
        BY <2>2, <2>4, <2>6, <3>1, <4>1
      <4>2. CASE d # e /\ q # p
        BY <2>2, <2>4, <2>5, <2>7, <3>1, <4>2
      <4>3. CASE d # e /\ q = p
        <5>1. p \in broken \/ Holds(p)
          BY <2>2, <3>1, <4>3
        <5>2. ~Holds(p)
          BY <1>3 DEF TookReservation, Holds, At
        <5> QED BY <2>4, <4>3, <5>1, <5>2
      <4> QED BY <4>1, <4>2, <4>3
    <3> QED BY <3>1
  <2> QED BY <2>8, <2>9, <2>10, <2>11
<1>4. CASE MissedReservation(p)
  <2> DEFINE e == inv[p].evidence
  <2>1. e \in Dirs /\ inv'[p].pc = "refused" /\ At(p, "reserve")
    BY <1>4 DEF MissedReservation
  <2>2. \A q \in Invocations : q # p => inv'[q] = inv[q]
    BY <1>4 DEF MissedReservation
  <2>3. CASE UNCHANGED <<reserved, broken>>
    BY <2>1, <2>2, <2>3
  <2>4. CASE reserved[e] = None /\ broken' = broken \cup {p} /\ reserved' = reserved
    BY <2>1, <2>2, <2>4
  <2>5. CASE /\ reserved[e] = None /\ broken' = broken \cup {p}
             /\ reserved' = [reserved EXCEPT ![e] = p]
    <3>1. reserved'[e] = p /\ \A d \in Dirs : d # e => reserved'[d] = reserved[d]
      BY <2>1, <2>5 DEF TypeOK
    <3>2. \A q \in Invocations : Holds(q) => inv[q].evidence # e
      BY <2>5
    <3> HIDE DEF e
    <3> QED BY <2>1, <2>2, <2>5, <3>1, <3>2
  <2> QED BY <1>4, <2>3, <2>4, <2>5 DEF MissedReservation
<1>5. CASE WasRefused(p)
  BY <1>5 DEF WasRefused, history
<1>6. CASE Worked(p)
  BY <1>6 DEF Worked, history
<1>7. CASE Reported(p)
  BY <1>7 DEF Reported
<1>8. CASE MarkedConsumed(p)
  BY <1>8 DEF MarkedConsumed, history
<1>9. CASE Released(p)
  <2> DEFINE e == inv[p].evidence
  <2>1. /\ At(p, "release") /\ inv'[p].pc = "ended" /\ UNCHANGED broken
        /\ \A q \in Invocations : q # p => inv'[q] = inv[q]
    BY <1>9 DEF Released, history
  <2>2. e \in Dirs /\ reserved[e] = p
    BY <2>1
  <2>3. reserved'[e] = None /\ \A d \in Dirs : d # e => reserved'[d] = reserved[d]
    BY <1>9, <2>2 DEF Released, TypeOK
  <2>4. \A q \in Invocations : q # p /\ Holds(q) => inv[q].evidence # e
    BY <2>2
  <2> HIDE DEF e
  <2> QED BY <2>1, <2>2, <2>3, <2>4
<1>10. CASE WasStopped(p)
  BY <1>10 DEF WasStopped
<1> QED
  BY <1>1, <1>2, <1>3, <1>4, <1>5, <1>6, <1>7, <1>8, <1>9, <1>10, Effects

LEMMA EarnedStep ==
  ASSUME TypeOK, ReservationInv, EarnedInv, NEW p \in Invocations, Step(p)
  PROVE  EarnedInv'
<1> USE DEF Shown, Measuring, At, Gated, Moved, SameHash, Others, Ended
<1>1. ASSUME UNCHANGED <<report, improved>>,
             \A q \in Invocations : Shown(q)' => Named(inv'[q].hashed, improved)
      PROVE  EarnedInv'
  BY <1>1 DEF EarnedInv, Named
<1>2. ASSUME \/ ~Shown(p)'
             \/ Shown(p) /\ SameHash(p),
             Others(p)
      PROVE  \A q \in Invocations : Shown(q)' => Named(inv'[q].hashed, improved)
  BY <1>2 DEF EarnedInv
<1>3. ASSUME NEW w, Named(w, improved), improved \subseteq improved'
      PROVE  Named(w, improved')
  BY <1>3 DEF Named
<1>4. CASE Started(p)
  BY <1>1, <1>2, <1>4 DEF Started, history
<1>5. CASE Checked(p)
  <2>1. \A q \in Invocations : Shown(q)' => Named(inv'[q].hashed, improved)
    <3>1. CASE Moved(p, "marks")
      BY <1>5, <3>1 DEF Checked, EarnedInv
    <3>2. CASE ~Moved(p, "marks")
      BY <1>2, <1>5, <3>2 DEF Checked
    <3> QED BY <3>1, <3>2
  <2> QED BY <1>1, <1>5, <2>1 DEF Checked, history
<1>6. CASE SawMarks(p) \/ TookReservation(p)
  BY <1>1, <1>2, <1>6 DEF SawMarks, TookReservation, history
<1>7. CASE MissedReservation(p)
  BY <1>1, <1>2, <1>7 DEF MissedReservation
<1>8. CASE WasRefused(p)
  <2>1. \A q \in Invocations : Shown(q)' => Named(inv'[q].hashed, improved)
    BY <1>2, <1>8 DEF WasRefused
  <2>2. \A d \in Dirs : report'[d] = report[d] \/ report'[d] = NoReport
    BY <1>8 DEF WasRefused, TypeOK
  <2> QED BY <1>8, <2>1, <2>2 DEF WasRefused, EarnedInv, Named, NoReport, history
<1>9. CASE Worked(p)
  BY <1>1, <1>2, <1>9 DEF Worked
<1>10. ASSUME WroteReport(p)
       PROVE  /\ improved \subseteq improved'
              /\ \A d \in Dirs : report'[d].split = "development" /\ report'[d].improved
                                  => Named(report'[d].version, improved')
  <2>1. CASE UNCHANGED <<report, improved>>
    BY <2>1 DEF EarnedInv, Named
  <2>2. CASE ReportWritten(p)
    <3>1. PICK better \in BOOLEAN :
            /\ report' = [report EXCEPT ![inv[p].out] =
                            IF better THEN ReportOf(inv[p]) ELSE NoReport]
            /\ improved' = IF better /\ inv[p].split = "development"
                           THEN improved \cup {Improvement(inv[p])} ELSE improved
      BY <2>2 DEF ReportWritten, TypeOK, Invocation
    <3>2. improved \subseteq improved'
      BY <3>1
    <3>3. ASSUME NEW d \in Dirs, report'[d].split = "development", report'[d].improved
          PROVE  Named(report'[d].version, improved')
      <4>1. CASE report'[d] = report[d]
        BY <1>3, <3>2, <3>3, <4>1 DEF EarnedInv
      <4>2. CASE report'[d] = ReportOf(inv[p]) /\ better
        <5>1. Improvement(inv[p]) \in improved'
          BY <3>1, <3>3, <4>2 DEF ReportOf
        <5>2. Improvement(inv[p]).named = report'[d].version
          BY <4>2 DEF ReportOf, Improvement
        <5> QED BY <5>1, <5>2 DEF Named
      <4>3. report'[d] # NoReport
        BY <3>3 DEF NoReport
      <4> QED BY <3>1, <4>1, <4>2, <4>3 DEF TypeOK
    <3> QED BY <3>2, <3>3
  <2>3. CASE ReportTorn(p)
    <3>1. \A d \in Dirs : report'[d] = report[d] \/ report'[d] = NoReport
      BY <2>3 DEF ReportTorn, TypeOK
    <3> QED BY <2>3, <3>1 DEF ReportTorn, EarnedInv, Named, NoReport
  <2> QED BY <1>10, <2>1, <2>2, <2>3 DEF WroteReport
<1>11. CASE Reported(p) \/ WasStopped(p)
  <2>1. WroteReport(p) /\ Others(p) /\ ~Shown(p)'
    BY <1>11 DEF Reported, WasStopped
  <2>2. \A q \in Invocations : Shown(q)' => Named(inv'[q].hashed, improved)
    BY <1>2, <2>1
  <2>3. \A q \in Invocations : Shown(q)' => Named(inv'[q].hashed, improved')
    BY <1>3, <1>10, <2>1, <2>2 DEF Named
  <2> QED BY <1>10, <2>1, <2>3 DEF EarnedInv
<1>12. CASE MarkedConsumed(p) \/ Released(p)
  BY <1>1, <1>2, <1>12 DEF MarkedConsumed, Released, history
<1> QED
  BY <1>4, <1>5, <1>6, <1>7, <1>8, <1>9, <1>11, <1>12, Effects

LEMMA AfterStep ==
  ASSUME TypeOK, AfterInv, NEW p \in Invocations, Step(p)
  PROVE  AfterInv'
<1>1. \A q \in Invocations : inv[q].pc = "ended" => inv'[q].pc = "ended"
  BY Effects
  DEF Others, Moved, Ended, Started, Checked, SawMarks, TookReservation, MissedReservation, WasRefused,
      Worked, Reported, MarkedConsumed, Released, WasStopped, Active, At
<1>2. \A q \in Invocations :
        \/ inv'[q].after = inv[q].after
        \/ inv'[q].after = {r \in Invocations : At(r, "ended")}
  BY Effects
  DEF Others, Moved, Ended, Started, Checked, SawMarks, TookReservation, MissedReservation, WasRefused,
      Worked, Reported, MarkedConsumed, Released, WasStopped
<1> QED BY <1>1, <1>2 DEF AfterInv, At

(* A step of an invocation that has not spent anything, and does not.      *)
LEMMA UnspentStep ==
  ASSUME TypeOK, SpentInv, NEW p \in Invocations, Others(p),
         inv[p].pc \notin {"consume", "release", "ended"},
         inv'[p].pc # "consume",
         UNCHANGED <<consumed, spent, unmarked>>,
         \A d \in Dirs, q \in Invocations : reserved[d] = q => reserved'[d] = q
  PROVE  SpentInv'
<1>1. ASSUME NEW d \in Dirs, NEW q \in Invocations, q \in spent'[d]
      PROVE  /\ inv'[q].pc \in {"consume", "release", "ended"}
             /\ q \notin unmarked' => Accounted(q, d)'
  <2>1. /\ inv[q].pc \in {"consume", "release", "ended"}
        /\ q \notin unmarked => Accounted(q, d)
    BY <1>1 DEF SpentInv
  <2>2. inv'[q] = inv[q]
    BY <2>1 DEF Others
  <2> QED BY <2>1, <2>2 DEF Accounted, Gated
<1>2. ASSUME NEW q \in Invocations, At(q, "consume")'
      PROVE  Gated(q)' /\ q \in spent'[inv'[q].evidence] /\ q \notin unmarked'
  <2>1. inv'[q] = inv[q]
    BY <1>2 DEF At, Others
  <2> QED BY <1>2, <2>1 DEF SpentInv, At, Gated
<1>3. \A d \in Dirs : d \in consumed' => spent'[d] # {}
  BY DEF SpentInv
<1>4. \A q \in unmarked' : inv'[q].pc \in {"release", "ended"}
  BY DEF SpentInv, TypeOK, Others
<1> QED BY <1>1, <1>2, <1>3, <1>4 DEF SpentInv

LEMMA SpentStep ==
  ASSUME TypeOK, ReservationInv, SpentInv, NEW p \in Invocations, Step(p)
  PROVE  SpentInv'
<1> USE BenchmarkAssumption
<1> DEFINE e == inv[p].evidence
           Past(q) == inv[q].pc \in {"consume", "release", "ended"}
<1>1. CASE Started(p)
  BY <1>1, UnspentStep DEF Started, At, history
<1>2. CASE Checked(p) \/ SawMarks(p)
  BY <1>2, UnspentStep DEF Checked, SawMarks, At, Moved, history
<1>3. CASE TookReservation(p)
  <2>1. \A d \in Dirs, q \in Invocations : reserved[d] = q => reserved'[d] = q
    BY <1>3 DEF TookReservation, TypeOK
  <2> QED BY <1>3, <2>1, UnspentStep DEF TookReservation, At, Moved, history
<1>4. CASE MissedReservation(p)
  <2>1. \A d \in Dirs, q \in Invocations : reserved[d] = q => reserved'[d] = q
    BY <1>4 DEF MissedReservation, TypeOK
  <2> QED BY <1>4, <2>1, UnspentStep DEF MissedReservation, At, Moved
<1>5. CASE WasRefused(p)
  BY <1>5, UnspentStep DEF WasRefused, At, Ended, history
<1>6. CASE Worked(p)
  BY <1>6, UnspentStep DEF Worked, At, Moved, Ended
<1>7. CASE Reported(p)
  <2>0. UNCHANGED <<reserved, consumed>> /\ \A d \in Dirs : p \notin spent[d]
    BY <1>7 DEF Reported, SpentInv
  <2>1. CASE UNCHANGED <<spent, unmarked>>
    <3>1. Others(p) /\ inv[p].pc \in {"items", "report"}
      BY <1>7 DEF Reported, Moved, Ended
    <3>2. CASE inv'[p].pc # "consume"
      BY <2>0, <2>1, <3>1, <3>2, UnspentStep
    <3>3. CASE inv'[p].pc = "consume"
      <4>1. e \in Dirs /\ spent' = [spent EXCEPT ![e] = @ \cup {p}]
        BY <1>7, <3>3 DEF Reported, Moved, Ended, ReservationInv, Claims, Holds, At
      <4> QED BY <2>0, <2>1, <4>1 DEF TypeOK
    <3> QED BY <3>2, <3>3
  <2>2. CASE /\ Gated(p) /\ At(p, "report") /\ spent' = [spent EXCEPT ![e] = @ \cup {p}]
             /\ \/ Moved(p, "consume") /\ UNCHANGED unmarked
                \/ Moved(p, "release") /\ unmarked' = unmarked \cup {p}
    <3>1. e \in Dirs /\ reserved[e] = p
      BY <2>2 DEF ReservationInv, Claims, Holds, At
    <3>2. /\ spent'[e] = spent[e] \cup {p}
          /\ \A d \in Dirs : d # e => spent'[d] = spent[d]
      BY <2>2, <3>1 DEF TypeOK
    <3>3. /\ Gated(p)' /\ inv'[p].evidence = e
          /\ inv'[p].pc \in {"consume", "release"}
          /\ inv'[p].pc # "consume" => p \in unmarked'
          /\ inv'[p].pc = "consume" => UNCHANGED unmarked
          /\ \A q \in Invocations : q # p => (q \in unmarked' <=> q \in unmarked)
      BY <2>2 DEF Moved, Gated
    <3>4. \A q \in Invocations : q # p => inv'[q] = inv[q]
      BY <2>2 DEF Moved, Others
    <3>5. p \notin unmarked
      BY <2>2 DEF SpentInv, At
    <3> HIDE DEF e
    <3>6. ASSUME NEW d \in Dirs, NEW q \in Invocations, q \in spent'[d]
          PROVE  Past(q)' /\ (q \notin unmarked' => Accounted(q, d)')
      <4>1. CASE q = p
        BY <2>0, <3>1, <3>2, <3>3, <3>6, <4>1 DEF Accounted
      <4>2. CASE q # p
        BY <2>0, <3>2, <3>3, <3>4, <3>6, <4>2 DEF SpentInv, Accounted, Gated
      <4> QED BY <4>1, <4>2
    <3>7. ASSUME NEW q \in Invocations, At(q, "consume")'
          PROVE  Gated(q)' /\ q \in spent'[inv'[q].evidence] /\ q \notin unmarked'
      <4>1. CASE q = p
        BY <3>2, <3>3, <3>5, <3>7, <4>1 DEF At
      <4>2. CASE q # p
        <5>1. Gated(q) /\ At(q, "consume") /\ inv'[q] = inv[q]
          BY <3>4, <3>7, <4>2 DEF SpentInv, At
        <5>2. inv[q].evidence \in Dirs
          BY <5>1 DEF ReservationInv, Claims, Holds, At
        <5> QED BY <3>2, <3>3, <4>2, <5>1, <5>2 DEF SpentInv, Gated
      <4> QED BY <4>1, <4>2
    <3>8. \A d \in Dirs : d \in consumed' => spent'[d] # {}
      BY <2>0, <3>2 DEF SpentInv
    <3>9. \A q \in unmarked' : inv'[q].pc \in {"release", "ended"}
      <4>1. ASSUME NEW q \in unmarked', q # p
            PROVE  inv'[q].pc \in {"release", "ended"}
        <5>1. q \in unmarked /\ q \in Invocations
          BY <2>2, <4>1 DEF TypeOK
        <5> QED BY <3>4, <4>1, <5>1 DEF SpentInv
      <4>2. p \in unmarked' => inv'[p].pc = "release"
        BY <3>3, <3>5
      <4> QED BY <4>1, <4>2
    <3> QED BY <3>6, <3>7, <3>8, <3>9 DEF SpentInv
  <2> QED BY <1>7, <2>1, <2>2 DEF Reported
<1>8. CASE MarkedConsumed(p) \/ Released(p) \/ WasStopped(p)
  <2>1. /\ \A q \in Invocations : q # p => inv'[q] = inv[q]
        /\ consumed \subseteq consumed' /\ UNCHANGED <<spent, unmarked>>
        /\ inv'[p].pc \in {"release", "orphan", "ended"}
        /\ Past(p) => Past(p)'
        /\ inv[p].pc \in {"release", "ended"} => inv'[p].pc = "ended"
    BY <1>8
    DEF MarkedConsumed, Released, WasStopped, Moved, Ended, Others, At, Active, history
  <2>2. ASSUME NEW d \in Dirs, NEW q \in Invocations, q \in spent[d], q \notin unmarked
        PROVE  d \in consumed' \/ reserved'[d] = q
    <3>1. Accounted(q, d)
      BY <2>2 DEF SpentInv
    <3>2. CASE ~Released(p)
      BY <1>8, <2>1, <3>1, <3>2 DEF MarkedConsumed, WasStopped, Accounted
    <3>3. CASE Released(p)
      <4>1. e \in Dirs /\ reserved[e] = p /\ inv[p].pc = "release"
        BY <3>3 DEF Released, ReservationInv, Claims, Holds, At
      <4>2. \A c \in Dirs : c # e => reserved'[c] = reserved[c]
        BY <3>3 DEF Released, TypeOK
      <4>3. CASE d # e
        BY <2>1, <3>1, <4>2, <4>3 DEF Accounted
      <4>4. CASE d = e
        BY <2>1, <3>1, <4>1, <4>4 DEF Accounted
      <4> QED BY <4>3, <4>4
    <3> QED BY <3>2, <3>3
  <2>3. ASSUME NEW d \in Dirs, p \in spent[d], p \notin unmarked
        PROVE  Accounted(p, d)'
    <3>1. Accounted(p, d) /\ Past(p)
      BY <2>3 DEF SpentInv
    <3>2. CASE MarkedConsumed(p)
      BY <2>2, <2>3, <3>1, <3>2 DEF MarkedConsumed, Accounted, Moved, Gated, At
    <3>3. CASE Released(p) \/ WasStopped(p)
      BY <2>2, <2>3, <3>1, <3>3 DEF Released, WasStopped, Ended, Accounted, At
    <3> QED BY <1>8, <3>2, <3>3
  <2>4. ASSUME NEW d \in Dirs, NEW q \in Invocations, q \in spent'[d]
        PROVE  Past(q)' /\ (q \notin unmarked' => Accounted(q, d)')
    <3>1. CASE q # p
      BY <2>1, <2>2, <2>4, <3>1 DEF SpentInv, Accounted, Gated
    <3>2. CASE q = p
      BY <2>1, <2>3, <2>4, <3>2 DEF SpentInv
    <3> QED BY <3>1, <3>2
  <2>5. ASSUME NEW q \in Invocations, At(q, "consume")'
        PROVE  Gated(q)' /\ q \in spent'[inv'[q].evidence] /\ q \notin unmarked'
    <3>1. inv'[q] = inv[q]
      BY <2>1, <2>5 DEF At
    <3> QED BY <2>1, <2>5, <3>1 DEF SpentInv, At, Gated
  <2>6. \A d \in Dirs : d \in consumed' => spent'[d] # {}
    <3>1. CASE MarkedConsumed(p)
      BY <2>1, <3>1 DEF MarkedConsumed, SpentInv
    <3> QED BY <1>8, <2>1, <3>1 DEF Released, WasStopped, SpentInv
  <2>7. \A q \in unmarked' : inv'[q].pc \in {"release", "ended"}
    BY <2>1 DEF SpentInv, TypeOK
  <2> QED BY <2>4, <2>5, <2>6, <2>7 DEF SpentInv
<1> QED
  BY <1>1, <1>2, <1>3, <1>4, <1>5, <1>6, <1>7, <1>8, Effects

(* Only its holder takes a reservation away.                               *)
LEMMA ReservedKept ==
  ASSUME TypeOK, ReservationInv, NEW p \in Invocations, Step(p),
         NEW d \in Dirs, NEW q \in Invocations, reserved[d] = q, inv[q].pc = "ended"
  PROVE  reserved'[d] = q
<1> DEFINE e == inv[p].evidence
<1>1. CASE UNCHANGED reserved
  BY <1>1
<1>2. CASE TookReservation(p) \/ MissedReservation(p)
  BY <1>2, BenchmarkAssumption DEF TookReservation, MissedReservation, TypeOK
<1>3. CASE Released(p)
  <2>1. reserved[e] = p /\ inv[p].pc = "release"
    BY <1>3 DEF Released, ReservationInv, Claims, Holds, At
  <2>2. d # e
    BY <2>1
  <2> QED BY <1>3, <2>2 DEF Released, TypeOK
<1> QED
  BY <1>1, <1>2, <1>3, Effects
  DEF Started, Checked, SawMarks, WasRefused, Worked, Reported, MarkedConsumed, Released, WasStopped

(* Who spends evidence now has spent it beside every other who has: one    *)
(* who had ended before would have marked it or kept it reserved.          *)
LEMMA OnceStep ==
  ASSUME TypeOK, ReservationInv, AfterInv, SpentInv, OnceInv, EvidenceIsSpentOnce,
         NEW p \in Invocations, Step(p)
  PROVE  OnceInv' /\ EvidenceIsSpentOnce'
<1> DEFINE e == inv[p].evidence
<1>1. ASSUME NEW d \in Dirs, NEW q \in spent'[d], q \notin spent[d]
      PROVE  /\ q = p /\ d = e /\ Holds(p)
             /\ inv[p].pc = "report" /\ inv'[p].pc \in {"consume", "release"}
  <2>1. Reported(p) /\ ~UNCHANGED spent
    BY <1>1, Effects
    DEF Started, Checked, SawMarks, TookReservation, MissedReservation, WasRefused, Worked, Reported,
        MarkedConsumed, Released, WasStopped, history
  <2>2. spent' = [spent EXCEPT ![e] = @ \cup {p}] /\ Gated(p)
    BY <2>1 DEF Reported
  <2>3. d = e /\ q = p
    BY <1>1, <2>2 DEF TypeOK
  <2> QED BY <2>1, <2>2, <2>3 DEF Reported, Holds, Moved, At
<1>2. ASSUME NEW r \in Invocations, inv'[r].after # inv[r].after
      PROVE  r = p /\ inv[p].pc = "off" /\ inv'[p].pc = "gate"
  BY <1>2, Effects
  DEF Others, Moved, Ended, Started, Checked, SawMarks, TookReservation, MissedReservation, WasRefused,
      Worked, Reported, MarkedConsumed, Released, WasStopped, At
<1>6. unmarked \subseteq unmarked'
  BY Effects
  DEF Started, Checked, SawMarks, TookReservation, MissedReservation, WasRefused, Worked,
      Reported, MarkedConsumed, Released, WasStopped, history
<1>3. ASSUME NEW r \in Invocations, NEW q \in Invocations, NEW d \in Dirs,
             q \in spent'[d], q \notin unmarked', q \in inv'[r].after,
             Claims(r)', inv'[r].evidence = d
      PROVE  At(r, "reserve")' /\ reserved'[d] = q
  <2>1. q \in inv[r].after
    BY <1>2, <1>3 DEF Claims, Holds, At
  <2>2. inv[q].pc = "ended"
    BY <2>1 DEF AfterInv, At
  <2>3. q \in spent[d] /\ q \notin unmarked
    BY <1>1, <1>3, <1>6, <2>2
  <2>4. CASE Claims(r) /\ inv[r].evidence = d
    <3>1. At(r, "reserve") /\ reserved[d] = q
      BY <2>1, <2>3, <2>4 DEF OnceInv
    <3>2. reserved'[d] = q
      BY <2>2, <3>1, ReservedKept
    <3>3. CASE r # p
      <4>1. inv'[r] = inv[r]
        BY <3>3, Effects
        DEF Others, Moved, Ended, Started, Checked, SawMarks, TookReservation, MissedReservation,
            WasRefused, Worked, Reported, MarkedConsumed, Released, WasStopped
      <4> QED BY <3>1, <3>2, <4>1 DEF At
    <3>4. CASE r = p
      <4>1. TookReservation(p) \/ MissedReservation(p) \/ WasStopped(p)
        BY <3>1, <3>4, Effects
        DEF Started, Checked, SawMarks, WasRefused, Worked, Reported, MarkedConsumed, Released, At
      <4>2. ~TookReservation(p)
        BY <2>4, <3>1, <3>4, BenchmarkAssumption DEF TookReservation
      <4> QED
        BY <1>3, <3>4, <4>1, <4>2
        DEF MissedReservation, WasStopped, Moved, Ended, Claims, Holds, At
    <3> QED BY <3>3, <3>4
  <2>5. CASE ~(Claims(r) /\ inv[r].evidence = d)
    <3>1. r = p
      BY <1>3, <2>5, Effects
      DEF Others, Moved, Ended, Started, Checked, SawMarks, TookReservation, MissedReservation,
          WasRefused, Worked, Reported, MarkedConsumed, Released, WasStopped,
          Claims, Holds, At, Gated
    <3>2. SawMarks(p) /\ Moved(p, "reserve")
      BY <1>3, <2>5, <3>1, Effects
      DEF Moved, Ended, Started, Checked, SawMarks, TookReservation, MissedReservation,
          WasRefused, Worked, Reported, MarkedConsumed, Released, WasStopped,
          Claims, Holds, At, Gated
    <3>3. e = d /\ d \notin consumed /\ UNCHANGED reserved
      BY <1>3, <3>1, <3>2 DEF SawMarks, Moved
    <3>4. reserved[d] = q
      BY <2>3, <3>3 DEF SpentInv, Accounted
    <3> QED BY <3>1, <3>2, <3>3, <3>4 DEF Moved, At
  <2> QED BY <2>4, <2>5
<1>4. OnceInv'
  BY <1>3 DEF OnceInv
<1>5. ASSUME NEW d \in Dirs, NEW q \in spent'[d], NEW r \in spent'[d], q \in inv'[r].after,
             q \notin unmarked'
      PROVE  FALSE
  <2>1. r \in Invocations
    BY <1>1 DEF TypeOK
  <2>2. q \in inv[r].after
    <3>1. r \in spent[d] => inv[r].pc # "off"
      BY <2>1 DEF SpentInv
    <3> QED BY <1>1, <1>2, <1>5, <2>1, <3>1
  <2>3. q \in Invocations /\ inv[q].pc = "ended"
    BY <2>1, <2>2 DEF AfterInv, At
  <2>4. q \in spent[d]
    BY <1>1, <2>3
  <2>5. r \notin spent[d]
    BY <1>5, <1>6, <2>2, <2>4 DEF EvidenceIsSpentOnce
  <2>6. At(p, "reserve")
    BY <1>1, <1>5, <1>6, <2>2, <2>3, <2>4, <2>5 DEF OnceInv, Claims
  <2> QED BY <1>1, <2>5, <2>6 DEF At
<1> QED BY <1>4, <1>5 DEF EvidenceIsSpentOnce

LEMMA InvStep ==
  ASSUME Inv, [Next]_vars
  PROVE  Inv'
<1>1. TypeOK'
  BY TypeStep DEF Inv
<1>2. CASE UNCHANGED vars \/ EditManifest
  <2>1. UNCHANGED <<inv, shared, history>>
    BY <1>2 DEF EditManifest, vars
  <2> QED
    BY <1>1, <2>1
    DEF Inv, ReservationInv, EarnedInv, AfterInv, SpentInv, OnceInv, EvidenceIsSpentOnce,
        Accounted, Claims, Shown, Measuring, Named, Holds, At, Gated, shared, history
<1>3. ASSUME NEW p \in Invocations, Step(p)
      PROVE  Inv'
  BY <1>1, <1>3, ReservationStep, EarnedStep, AfterStep, SpentStep, OnceStep DEF Inv
<1> QED BY <1>2, <1>3 DEF Next

-----------------------------------------------------------------------------
(* The logs and the files they describe.  Two invocations run side by side *)
(* if neither had ended when the other began; that never changes.          *)
SideBySide(p, q) == p \notin inv[q].after /\ q \notin inv[p].after

RunsAt(p, d, i) == Runs(p) /\ inv[p].out = d /\ inv[p].item = i

(* An invocation that runs has a place to write to.                        *)
PlaceInv ==
  \A p \in Invocations :
    /\ Active(p) => inv[p].out \in Dirs
    /\ Runs(p) => inv[p].item \in Items

(* Files and logs are those of invocations that have started.              *)
WriterInv ==
  /\ \A d \in Dirs, i \in Items, c \in Candidates :
       files[d][i][c] # None => ~At(files[d][i][c], "off")
  /\ \A d \in Dirs, i \in Items :
       log[d][i].ok # {} => log[d][i].by \in Invocations /\ ~At(log[d][i].by, "off")

(* What a running pipeline has written is still its own, or of one that    *)
(* runs beside it.                                                         *)
RunningInv ==
  \A p \in Invocations, d \in Dirs, i \in Items : RunsAt(p, d, i) =>
    \A c \in inv[p].ok :
      LET w == files[d][i][c] IN w # p => w \in Invocations /\ SideBySide(w, p)

(* Whose files replaced those of a log runs on, ended without its own log, *)
(* or ran beside the one who wrote the log.                                *)
LoggedInv ==
  \A d \in Dirs, i \in Items : \A c \in log[d][i].ok :
    LET w == files[d][i][c]
        by == log[d][i].by
    IN w # by => /\ w \in Invocations
                 /\ \/ <<w, i>> \in unlogged
                    \/ SideBySide(w, by) \/ RunsAt(w, d, i)

LogInv == PlaceInv /\ WriterInv /\ RunningInv /\ LoggedInv

(* What a step means to them: it leaves them alone, lets a pipeline run    *)
(* on, or ends one, with a log or without.                                 *)
Calm(p) ==
  /\ Others(p)
  /\ UNCHANGED <<log, files, unlogged>>
  /\ ~Runs(p)
  /\ inv'[p].pc # "off"
  /\ inv'[p].after = inv[p].after \/ At(p, "off")
  /\ inv'[p].pc # "ended" => inv'[p].out \in Dirs
  /\ Runs(p)' => inv'[p].item \in Items /\ inv'[p].ok = {}

Ran(p, c) ==
  /\ Others(p)
  /\ UNCHANGED <<log, unlogged>>
  /\ Runs(p) /\ Runs(p)'
  /\ inv'[p].after = inv[p].after
  /\ inv'[p].out = inv[p].out /\ inv'[p].item = inv[p].item
  /\ \/ inv'[p].ok = inv[p].ok /\ UNCHANGED files
     \/ /\ inv'[p].ok \subseteq inv[p].ok \cup {c}
        /\ files' = [files EXCEPT ![inv[p].out][inv[p].item][c] = p]

Returned(p) ==
  /\ Others(p)
  /\ UNCHANGED files
  /\ Runs(p)
  /\ inv'[p].pc \in {"items", "ended"} /\ inv'[p].after = inv[p].after
  /\ inv'[p].pc = "items" => inv'[p].out = inv[p].out

Logged(p) == Returned(p) /\ WriteLog(p) /\ UNCHANGED unlogged

Died(p) ==
  /\ Returned(p)
  /\ UNCHANGED log \/ LogIs(p, NoLog)
  /\ unlogged' = unlogged \cup {<<p, inv[p].item>>}

LEMMA FileEffects ==
  ASSUME TypeOK, PlaceInv, NEW p \in Invocations, Step(p)
  PROVE  Calm(p) \/ (\E c \in Candidates : Ran(p, c)) \/ Logged(p) \/ Died(p)
<1> USE BenchmarkAssumption
<1> DEFINE me == inv[p]
<1>0. me \in Invocation /\ (Active(p) => me.out \in Dirs)
  BY DEF TypeOK, PlaceInv
<1>1. ASSUME NEW pc \in Phases \ {"off", "pipeline", "orphan"}, Goto(p, pc),
             Active(p), ~Runs(p),
             UNCHANGED <<log, files, unlogged>>
      PROVE  Calm(p)
  BY <1>0, <1>1 DEF Goto, Calm, Others, Runs, At, TypeOK, Invocation, Phases
<1>2. ASSUME End(p), UNCHANGED <<log, files, unlogged>>, ~Runs(p)
      PROVE  Calm(p)
  BY <1>0, <1>2 DEF End, Calm, Others, Off, Runs, At, TypeOK, Invocation
<1>3. ASSUME NEW plan \in Plans, Start(p, plan)
      PROVE  Calm(p)
  <2>1. plan.out \in Dirs
    BY DEF Plan
  <2> QED BY <1>3, <2>1 DEF Start, Calm, Others, Off, Runs, At, TypeOK, shared, history
<1>4. ASSUME NEW pc \in {"marks", "report"}, Active(p), ~Runs(p),
             inv' = [inv EXCEPT ![p].pc = pc, ![p].hashed = manifest],
             UNCHANGED <<log, files, unlogged>>
      PROVE  Calm(p)
  BY <1>0, <1>4 DEF Calm, Others, Runs, At, TypeOK, Invocation
<1>5. CASE CheckEvidence(p) \/ HashManifest(p)
  <2>1. /\ Active(p) /\ ~Runs(p)
        /\ UNCHANGED <<log, files, unlogged>>
    BY <1>5 DEF CheckEvidence, HashManifest, Active, Runs, At, shared, history
  <2>2. CASE Goto(p, "items") \/ Goto(p, "refused")
    BY <1>1, <2>1, <2>2 DEF Phases
  <2>3. CASE \E pc \in {"marks", "report"} :
               inv' = [inv EXCEPT ![p].pc = pc, ![p].hashed = manifest]
    BY <1>4, <2>1, <2>3
  <2> QED BY <1>5, <2>2, <2>3 DEF CheckEvidence, HashManifest
<1>6. CASE CheckMarks(p) \/ Reserve(p) \/ Consume(p)
  BY <1>1, <1>6 DEF CheckMarks, Reserve, Consume, Active, Runs, At, Phases, shared, history
<1>7. CASE WriteReport(p) \/ TableFails(p) \/ Raise(p)
  <2>1. /\ Active(p) /\ ~Runs(p)
        /\ UNCHANGED <<log, files, unlogged>>
    BY <1>7 DEF WriteReport, TableFails, Raise, Active, Runs, At
  <2>2. Goto(p, "consume") \/ Goto(p, "release") \/ End(p)
    BY <1>7 DEF WriteReport, TableFails, Raise, ThenRelease
  <2> QED BY <1>1, <1>2, <2>1, <2>2 DEF Phases
<1>8. CASE Refuse(p) \/ Release(p)
  BY <1>2, <1>8 DEF Refuse, Release, Runs, At, history
<1>9. CASE FinalizeFails(p)
  BY <1>2, <1>9 DEF FinalizeFails, Runs, At, shared
<1>10. CASE Kill(p)
  <2>1. CASE At(p, "pipeline")
    <3>1. /\ Others(p) /\ Runs(p) /\ Runs(p)' /\ me.after = inv'[p].after
          /\ inv'[p].out = me.out /\ inv'[p].item = me.item /\ inv'[p].ok = me.ok
      BY <1>0, <1>10, <2>1 DEF Kill, Goto, Others, Runs, At, TypeOK, Invocation
    <3>2. Ran(p, "scalar")
      BY <1>10, <3>1 DEF Kill, Ran
    <3> QED BY <3>2 DEF Candidates
  <2>2. CASE ~At(p, "pipeline")
    BY <1>2, <1>10, <2>2 DEF Kill, Runs
  <2> QED BY <2>1, <2>2
<1>11. ASSUME NEW i,
             \/ inv' = [inv EXCEPT ![p] = Unmeasured(inv[p], i)]
             \/ \E written : inv' = [inv EXCEPT ![p] = Measured(inv[p], i, written)]
      PROVE  /\ Others(p) /\ inv'[p].pc = "items" /\ inv'[p].after = me.after
             /\ inv'[p].out = me.out
  <2>1. CASE inv' = [inv EXCEPT ![p] = Unmeasured(me, i)]
    <3>1. inv'[p] = Unmeasured(me, i) /\ Others(p)
      BY <2>1 DEF Others, TypeOK
    <3> QED BY <1>0, <3>1 DEF Unmeasured, Invocation
  <2>2. ASSUME NEW written, inv' = [inv EXCEPT ![p] = Measured(me, i, written)]
        PROVE  /\ Others(p) /\ inv'[p].pc = "items" /\ inv'[p].after = me.after
               /\ inv'[p].out = me.out
    <3>1. inv'[p] = Measured(me, i, written) /\ Others(p)
      BY <2>2 DEF Others, TypeOK
    <3> QED BY <1>0, <3>1 DEF Measured, Unmeasured, Invocation
  <2> QED BY <1>11, <2>1, <2>2
<1>12. ASSUME NEW i \in Items, SkipItem(p, i) \/ ReuseItem(p, i)
      PROVE  Calm(p)
  <2>1. /\ Others(p) /\ inv'[p].pc = "items" /\ inv'[p].after = me.after
        /\ inv'[p].out = me.out
    BY <1>11, <1>12 DEF SkipItem, ReuseItem
  <2> QED
    BY <1>0, <1>12, <2>1 DEF SkipItem, ReuseItem, Calm, Active, Runs, At, shared, history
<1>13. ASSUME NEW i \in Items, StartItem(p, i)
       PROVE  Calm(p)
  <2>1. /\ Others(p) /\ inv'[p].pc = "pipeline" /\ inv'[p].after = me.after
        /\ inv'[p].out = me.out /\ inv'[p].item = i /\ inv'[p].ok = {}
    BY <1>0, <1>13 DEF StartItem, Others, TypeOK, Invocation
  <2> QED BY <1>0, <1>13, <2>1 DEF StartItem, Calm, Active, Runs, At, shared, history
<1>14. CASE SharedStageFails(p) \/ EndPipeline(p) \/ PipelineDies(p)
  <2>1. Returned(p)
    <3>1. Runs(p) /\ UNCHANGED files
      BY <1>14 DEF SharedStageFails, EndPipeline, PipelineDies, history
    <3>2. CASE At(p, "orphan")
      <4>1. End(p)
        BY <1>14, <3>2 DEF SharedStageFails, EndPipeline, PipelineDies, Return
      <4> QED BY <1>0, <3>1, <4>1 DEF Returned, End, Others, Off, TypeOK, Invocation
    <3>3. CASE At(p, "pipeline")
      <4>1. \/ inv' = [inv EXCEPT ![p] = Unmeasured(inv[p], me.item)]
            \/ \E written : inv' = [inv EXCEPT ![p] = Measured(inv[p], me.item, written)]
        BY <1>14, <3>3 DEF SharedStageFails, EndPipeline, PipelineDies, Return, At
      <4> QED BY <1>11, <3>1, <4>1 DEF Returned
    <3> QED BY <3>1, <3>2, <3>3 DEF Runs
  <2>2. CASE SharedStageFails(p) \/ EndPipeline(p)
    BY <2>1, <2>2 DEF SharedStageFails, EndPipeline, Logged, history
  <2>3. CASE PipelineDies(p)
    BY <2>1, <2>3 DEF PipelineDies, Died
  <2> QED BY <1>14, <2>2, <2>3
<1>15. ASSUME NEW c \in Candidates, RunCandidate(p, c)
       PROVE  Ran(p, c)
  <2>1. /\ Others(p) /\ inv'[p].pc = me.pc /\ inv'[p].after = me.after
        /\ inv'[p].out = me.out /\ inv'[p].item = me.item
        /\ inv'[p].ok \in {me.ok, me.ok \cup {c}}
        /\ UNCHANGED files => inv'[p].ok = me.ok \/ files' = [files EXCEPT ![me.out][me.item][c] = p]
    BY <1>0, <1>15 DEF RunCandidate, Others, TypeOK, Invocation
  <2>2. UNCHANGED files \/ files' = [files EXCEPT ![me.out][me.item][c] = p]
    BY <1>15 DEF RunCandidate
  <2> QED BY <1>15, <2>1, <2>2 DEF RunCandidate, Ran, Runs, At, history
<1> QED
  BY <1>3, <1>5, <1>6, <1>7, <1>8, <1>9, <1>10, <1>12, <1>13, <1>14, <1>15
  DEF Step

(* Neither of two invocations that run has ended before the other began.   *)
LEMMA RunningBesides ==
  ASSUME AfterInv, NEW p \in Invocations, NEW q \in Invocations,
         inv[p].pc # "ended", inv[q].pc # "ended"
  PROVE  SideBySide(p, q)
BY DEF AfterInv, At, SideBySide

(* Who has run beside another one has for ever.                            *)
LEMMA BesidesKept ==
  ASSUME NEW p \in Invocations, Others(p), inv'[p].after = inv[p].after \/ At(p, "off"),
         NEW q \in Invocations, NEW r \in Invocations, ~At(q, "off"), ~At(r, "off"),
         SideBySide(q, r)
  PROVE  SideBySide(q, r)'
BY DEF Others, At, SideBySide

LEMMA CalmKeeps ==
  ASSUME TypeOK, LogInv, NEW p \in Invocations, Calm(p)
  PROVE  LogInv'
<1> USE DEF LogInv
<1>1. /\ \A q \in Invocations : q # p => inv'[q] = inv[q]
      /\ \A q \in Invocations : ~At(q, "off") => ~At(q, "off")'
      /\ UNCHANGED <<log, files, unlogged>>
  BY DEF Calm, Others, Runs, At
<1>2. PlaceInv'
  BY <1>1 DEF Calm, PlaceInv, Active, Runs, At
<1>3. WriterInv'
  <2>1. \A d \in Dirs, i \in Items, c \in Candidates :
          files[d][i][c] # None => files[d][i][c] \in Invocations
    BY DEF TypeOK
  <2> QED BY <1>1, <2>1 DEF WriterInv
<1>4. RunningInv'
  <2>1. ASSUME NEW q \in Invocations, NEW d \in Dirs, NEW i \in Items, RunsAt(q, d, i)',
               NEW c \in inv'[q].ok, files[d][i][c] # q
        PROVE  files[d][i][c] \in Invocations /\ SideBySide(files[d][i][c], q)'
    <3>1. CASE q = p
      BY <2>1, <3>1 DEF Calm, RunsAt
    <3>2. CASE q # p
      <4>1. RunsAt(q, d, i) /\ inv'[q] = inv[q] /\ ~At(q, "off") /\ inv[q].ok \subseteq Candidates
        BY <1>1, <2>1, <3>2 DEF RunsAt, Runs, At, TypeOK, Invocation
      <4>2. files[d][i][c] \in Invocations /\ SideBySide(files[d][i][c], q)
        BY <2>1, <4>1 DEF RunningInv
      <4>3. ~At(files[d][i][c], "off")
        BY <2>1, <4>1, <4>2, BenchmarkAssumption DEF WriterInv
      <4> QED BY <4>1, <4>2, <4>3, BesidesKept DEF Calm
    <3> QED BY <3>1, <3>2
  <2> QED BY <1>1, <2>1 DEF RunningInv
<1>5. LoggedInv'
  <2>1. ASSUME NEW d \in Dirs, NEW i \in Items, NEW c \in log[d][i].ok,
               NEW w, w = files[d][i][c], NEW by, by = log[d][i].by, w # by
        PROVE  /\ w \in Invocations
               /\ \/ <<w, i>> \in unlogged
                  \/ SideBySide(w, by)' \/ RunsAt(w, d, i)'
    <3>1. /\ w \in Invocations
          /\ \/ <<w, i>> \in unlogged
             \/ SideBySide(w, by) \/ RunsAt(w, d, i)
      BY <2>1 DEF LoggedInv
    <3>2. c \in Candidates /\ by \in Invocations /\ ~At(by, "off")
      BY <2>1 DEF WriterInv, TypeOK, Log
    <3>3. ~At(w, "off")
      BY <2>1, <3>1, <3>2, BenchmarkAssumption DEF WriterInv
    <3>5. CASE SideBySide(w, by)
      BY <3>1, <3>2, <3>3, <3>5, BesidesKept DEF Calm
    <3>6. CASE RunsAt(w, d, i)
      BY <1>1, <3>1, <3>6 DEF Calm, RunsAt, Runs, At
    <3> QED BY <1>1, <3>1, <3>5, <3>6
  <2> QED BY <1>1, <2>1 DEF LoggedInv
<1> QED BY <1>2, <1>3, <1>4, <1>5

LEMMA RanKeeps ==
  ASSUME TypeOK, AfterInv, LogInv, NEW p \in Invocations, NEW k \in Candidates, Ran(p, k)
  PROVE  LogInv'
<1> USE DEF LogInv
<1> DEFINE out == inv[p].out
           item == inv[p].item
<1>1. /\ \A q \in Invocations : q # p => inv'[q] = inv[q]
      /\ Runs(p) /\ Runs(p)'
      /\ inv'[p].out = out /\ inv'[p].item = item /\ inv'[p].after = inv[p].after
      /\ UNCHANGED <<log, unlogged>>
  BY DEF Ran, Others
<1>2. \A q \in Invocations : At(q, "off")' <=> At(q, "off")
  BY <1>1 DEF Runs, At
<1>3. \A q, r \in Invocations : SideBySide(q, r)' <=> SideBySide(q, r)
  BY <1>1 DEF SideBySide
<1>4. \A q \in Invocations : \A d, i : RunsAt(q, d, i)' <=> RunsAt(q, d, i)
  BY <1>1 DEF RunsAt, Runs, At
<1>5. out \in Dirs /\ item \in Items
  BY <1>1 DEF PlaceInv, Active, Runs, At
<1>6. \A d \in Dirs, i \in Items, c \in Candidates :
        \/ files'[d][i][c] = files[d][i][c]
        \/ files'[d][i][c] = p /\ d = out /\ i = item
  <2>1. CASE UNCHANGED files
    BY <2>1
  <2>2. CASE files' = [files EXCEPT ![out][item][k] = p]
    <3> DEFINE row == [files[out][item] EXCEPT ![k] = p]
               place == [files[out] EXCEPT ![item] = row]
    <3>1. files' = [files EXCEPT ![out] = place]
      BY <2>2
    <3>2. /\ files[out] \in [Items -> [Candidates -> Invocations \cup {None}]]
          /\ files[out][item] \in [Candidates -> Invocations \cup {None}]
      BY <1>5 DEF TypeOK
    <3>3. \A c \in Candidates : row[c] \in {p, files[out][item][c]}
      BY <3>2
    <3> HIDE DEF out, item, row
    <3>4. \A i \in Items : place[i] = IF i = item THEN row ELSE files[out][i]
      BY <3>2
    <3> HIDE DEF place
    <3>5. \A d \in Dirs : files'[d] = IF d = out THEN place ELSE files[d]
      BY <3>1 DEF TypeOK
    <3>6. ASSUME NEW d \in Dirs, NEW i \in Items, NEW c \in Candidates
          PROVE  \/ files'[d][i][c] = files[d][i][c]
                 \/ files'[d][i][c] = p /\ d = out /\ i = item
      <4>1. CASE d = out /\ i = item
        BY <3>3, <3>4, <3>5, <4>1
      <4>2. CASE ~(d = out /\ i = item)
        BY <3>4, <3>5, <4>2
      <4> QED BY <4>1, <4>2
    <3> QED BY <3>6
  <2> QED BY <2>1, <2>2 DEF Ran
<1>7. \A c \in inv'[p].ok : c \in inv[p].ok \/ files'[out][item][c] = p
  <2>1. CASE inv'[p].ok = inv[p].ok
    BY <2>1
  <2>2. CASE /\ inv'[p].ok \subseteq inv[p].ok \cup {k}
             /\ files' = [files EXCEPT ![out][item][k] = p]
    <3>1. files'[out][item][k] = p
      BY <1>5, <2>2 DEF TypeOK
    <3> QED BY <2>2, <3>1
  <2> QED BY <2>1, <2>2 DEF Ran
<1> HIDE DEF out, item
<1>8. PlaceInv'
  BY <1>1, <1>5 DEF PlaceInv, Active, Runs, At
<1>9. \A d \in Dirs, i \in Items, c \in Candidates : files'[d][i][c] \in Invocations \cup {None}
  <2>1. ASSUME NEW d \in Dirs, NEW i \in Items, NEW c \in Candidates
        PROVE  files'[d][i][c] \in Invocations \cup {None}
    <3>1. files[d][i][c] \in Invocations \cup {None}
      BY DEF TypeOK
    <3> QED BY <1>6, <3>1
  <2> QED BY <2>1
<1>10. WriterInv'
  <2>1. ~At(p, "off")
    BY <1>1 DEF Runs, At
  <2> QED BY <1>1, <1>2, <1>6, <1>9, <2>1 DEF WriterInv
<1>11. RunningInv'
  <2>1. ASSUME NEW q \in Invocations, NEW d \in Dirs, NEW i \in Items, RunsAt(q, d, i),
               NEW c \in inv'[q].ok, NEW w, w = files'[d][i][c], w # q
        PROVE  w \in Invocations /\ SideBySide(w, q)
    <3>1. c \in Candidates
      <4>1. inv'[q].ok \subseteq inv[q].ok \cup {k}
        BY <1>1 DEF Ran
      <4> QED BY <4>1 DEF TypeOK, Invocation
    <3>2. CASE w = p
      BY <1>1, <2>1, <3>2, RunningBesides DEF RunsAt, Runs, At
    <3>3. CASE w # p
      <4>1. w = files[d][i][c]
        BY <1>6, <2>1, <3>1, <3>3
      <4>2. c \in inv[q].ok
        BY <1>1, <1>7, <2>1, <3>3 DEF RunsAt, out, item
      <4> QED BY <2>1, <4>1, <4>2 DEF RunningInv
    <3> QED BY <3>2, <3>3
  <2> QED BY <1>3, <1>4, <2>1 DEF RunningInv
<1>12. LoggedInv'
  <2>1. ASSUME NEW d \in Dirs, NEW i \in Items, NEW c \in log[d][i].ok,
               NEW w, w = files'[d][i][c], NEW by, by = log[d][i].by, w # by
        PROVE  /\ w \in Invocations
               /\ \/ <<w, i>> \in unlogged
                  \/ SideBySide(w, by) \/ RunsAt(w, d, i)
    <3>1. c \in Candidates
      BY <2>1 DEF TypeOK, Log
    <3>2. CASE w = files[d][i][c]
      BY <2>1, <3>2 DEF LoggedInv
    <3>3. CASE w = p /\ d = out /\ i = item
      BY <1>1, <3>3 DEF RunsAt, out, item
    <3> QED BY <1>6, <2>1, <3>1, <3>2, <3>3
  <2>2. \A d \in Dirs, i \in Items : \A c \in log[d][i].ok : log[d][i].by \in Invocations
    BY DEF WriterInv
  <2> QED BY <1>1, <1>3, <1>4, <2>1, <2>2 DEF LoggedInv
<1> QED BY <1>8, <1>10, <1>11, <1>12

(* The end of a pipeline: with a log, that names what is its own, or       *)
(* without, for which it is remembered.                                    *)
LEMMA ReturnedKeeps ==
  ASSUME TypeOK, LogInv, NEW p \in Invocations, Logged(p) \/ Died(p)
  PROVE  LogInv'
<1> USE DEF LogInv
<1> DEFINE out == inv[p].out
           item == inv[p].item
<1>1. /\ \A q \in Invocations : q # p => inv'[q] = inv[q]
      /\ Runs(p) /\ inv'[p].pc \in {"items", "ended"} /\ inv'[p].after = inv[p].after
      /\ inv'[p].pc = "items" => inv'[p].out = out
      /\ UNCHANGED files
      /\ unlogged \subseteq unlogged'
  BY DEF Logged, Died, Returned, Others
<1>2. \A q \in Invocations : At(q, "off")' <=> At(q, "off")
  BY <1>1 DEF Runs, At
<1>3. \A q, r \in Invocations : SideBySide(q, r)' <=> SideBySide(q, r)
  BY <1>1 DEF SideBySide
<1>4. \A q \in Invocations : \A d, i :
        /\ RunsAt(q, d, i)' => RunsAt(q, d, i) /\ q # p
        /\ RunsAt(q, d, i) => RunsAt(q, d, i)' \/ (q = p /\ d = out /\ i = item)
  BY <1>1 DEF RunsAt, Runs, At
<1>5. out \in Dirs /\ item \in Items /\ ~At(p, "off") /\ RunsAt(p, out, item)
  BY <1>1 DEF PlaceInv, Active, At, RunsAt, Runs
<1>6. /\ \A d \in Dirs, i \in Items : (d # out \/ i # item) => log'[d][i] = log[d][i]
      /\ \/ log'[out][item].ok = {}
         \/ log'[out][item].ok = inv[p].ok /\ log'[out][item].by = p
         \/ log'[out][item] = log[out][item] /\ <<p, item>> \in unlogged'
  <2>1. ASSUME NEW entry, LogIs(p, entry)
        PROVE  /\ \A d \in Dirs, i \in Items : (d # out \/ i # item) => log'[d][i] = log[d][i]
               /\ log'[out][item] = entry
    <3>1. log' = [log EXCEPT ![out][item] = entry]
      BY <2>1 DEF LogIs
    <3> HIDE DEF out, item
    <3> QED BY <1>5, <3>1 DEF TypeOK
  <2>2. CASE Logged(p)
    <3> DEFINE entry == IF inv[p].ok = {} THEN NoLog
                        ELSE [by |-> p, profile |-> inv[p].profile, completed |-> TRUE,
                              ok |-> inv[p].ok]
    <3>1. LogIs(p, entry)
      BY <2>2 DEF Logged, WriteLog
    <3>2. entry.ok = {} \/ (entry.ok = inv[p].ok /\ entry.by = p)
      BY DEF NoLog
    <3> HIDE DEF entry
    <3> QED BY <2>1, <3>1, <3>2
  <2>3. CASE Died(p)
    <3>1. CASE UNCHANGED log
      BY <2>3, <3>1 DEF Died
    <3>2. CASE LogIs(p, NoLog)
      <4>1. NoLog.ok = {}
        BY DEF NoLog
      <4> QED BY <2>1, <3>2, <4>1
    <3> QED BY <2>3, <3>1, <3>2 DEF Died
  <2> QED BY <2>2, <2>3
<1>7. inv[p].ok \subseteq Candidates
  BY DEF TypeOK, Invocation
<1>8. PlaceInv'
  BY <1>1, <1>5 DEF PlaceInv, Active, Runs, At
<1> HIDE DEF out, item
<1>9. WriterInv'
  <2>1. \A d \in Dirs, i \in Items, c \in Candidates : files[d][i][c] \in Invocations \cup {None}
    BY DEF TypeOK
  <2>2. ASSUME NEW d \in Dirs, NEW i \in Items, log'[d][i].ok # {}
        PROVE  log'[d][i].by \in Invocations /\ ~At(log'[d][i].by, "off")
    <3>1. CASE log'[d][i] = log[d][i]
      BY <2>2, <3>1 DEF WriterInv
    <3>2. CASE log'[d][i] # log[d][i]
      BY <1>5, <1>6, <2>2, <3>2
    <3> QED BY <3>1, <3>2
  <2> QED BY <1>1, <1>2, <2>1, <2>2 DEF WriterInv
<1>10. RunningInv'
  BY <1>1, <1>3, <1>4 DEF RunningInv, RunsAt
<1>11. LoggedInv'
  <2>1. ASSUME NEW d \in Dirs, NEW i \in Items, NEW c \in log'[d][i].ok,
               NEW w, w = files[d][i][c], NEW by, by = log'[d][i].by, w # by
        PROVE  /\ w \in Invocations /\ by \in Invocations
               /\ \/ <<w, i>> \in unlogged'
                  \/ SideBySide(w, by) \/ RunsAt(w, d, i)'
    <3>1. CASE log'[d][i] = log[d][i] /\ (d = out /\ i = item => <<p, item>> \in unlogged')
      <4>1. /\ w \in Invocations /\ by \in Invocations
            /\ \/ <<w, i>> \in unlogged
               \/ SideBySide(w, by) \/ RunsAt(w, d, i)
        BY <2>1, <3>1 DEF LoggedInv, WriterInv
      <4> QED BY <1>1, <1>4, <3>1, <4>1
    <3>2. CASE d = out /\ i = item /\ log'[d][i].ok = inv[p].ok /\ log'[d][i].by = p
      <4>1. by = p /\ c \in inv[p].ok
        BY <2>1, <3>2
      <4> QED BY <1>5, <2>1, <3>2, <4>1 DEF RunningInv
    <3> QED BY <1>6, <2>1, <3>1, <3>2
  <2> QED BY <1>1, <1>3, <2>1 DEF LoggedInv
<1> QED BY <1>8, <1>9, <1>10, <1>11

LEMMA LogStep ==
  ASSUME TypeOK, AfterInv, LogInv, [Next]_vars
  PROVE  LogInv'
<1>1. CASE UNCHANGED vars \/ EditManifest
  <2>1. UNCHANGED <<inv, log, files, unlogged>>
    BY <1>1 DEF EditManifest, vars, shared, history
  <2>2. PlaceInv' /\ WriterInv'
    BY <2>1 DEF LogInv, PlaceInv, WriterInv, Active, Runs, At
  <2>3. /\ \A p, q : SideBySide(p, q)' <=> SideBySide(p, q)
        /\ \A p, d, i : RunsAt(p, d, i)' <=> RunsAt(p, d, i)
    BY <2>1 DEF SideBySide, RunsAt, Runs, At
  <2>4. RunningInv' /\ LoggedInv'
    BY <2>1, <2>3 DEF LogInv, RunningInv, LoggedInv
  <2> QED BY <2>2, <2>4 DEF LogInv
<1>2. ASSUME NEW p \in Invocations, Step(p)
      PROVE  LogInv'
  BY <1>2, FileEffects, CalmKeeps, RanKeeps, ReturnedKeeps DEF LogInv
<1> QED BY <1>1, <1>2 DEF Next

LEMMA LogInit == Init => LogInv
<1> SUFFICES ASSUME Init PROVE LogInv
  OBVIOUS
<1>1. /\ \A p \in Invocations : inv[p].pc = "off"
      /\ \A d \in Dirs, i \in Items : log[d][i].ok = {}
      /\ \A d \in Dirs, i \in Items, c \in Candidates : files[d][i][c] = None
  BY DEF Init, Off, NoLog
<1> QED BY <1>1 DEF LogInv, PlaceInv, WriterInv, RunningInv, LoggedInv, RunsAt, Runs, Active, At

-----------------------------------------------------------------------------
(* The theorems. *)

(* Invocations, reports, marks and logs keep their types for any number of *)
(* invocations, whatever is killed or cannot be written.                   *)
THEOREM TypeCorrect == Spec => []TypeOK
<1>1. TypeOK /\ [Next]_vars => TypeOK'
  BY TypeStep
<1> QED BY TypeInit, <1>1, PTL DEF Spec

(* The inductive invariant: a reservation has one holder, who has shown    *)
(* evidence of an improvement on the manifest as it was then, and spent    *)
(* evidence is marked or stays reserved for ever, unless the tables of who *)
(* spent it could not be written (the code then gives it back).            *)
THEOREM SafetyInvariant == Spec => []Inv
<1>1. Inv /\ [Next]_vars => Inv'
  BY InvStep
<1> QED BY InvInit, <1>1, PTL DEF Spec

(* The exclusive creation of the reservation keeps a second invocation     *)
(* from measuring a holdout with the same evidence.                        *)
THEOREM OneHolder == Spec => []OneHoldoutAtATime
<1>1. Inv => OneHoldoutAtATime
  BY DEF Inv, ReservationInv, Claims, OneHoldoutAtATime
<1> QED BY SafetyInvariant, <1>1, PTL

(* Reservation and mark together keep an invocation from measuring a       *)
(* holdout with evidence that an earlier one has used, whatever is killed, *)
(* if the earlier one could write all the tables of its report.            *)
THEOREM SpentOnce == Spec => []EvidenceIsSpentOnce
<1>1. Inv => EvidenceIsSpentOnce
  BY DEF Inv
<1> QED BY SafetyInvariant, <1>1, PTL

(* Whatever later invocations write over the reports, and although the     *)
(* manifest may be edited at any time: a holdout is measured only after an *)
(* improvement on the items of the same manifest, if neither invocation    *)
(* saw the manifest replaced between reading and hashing it.               *)
THEOREM EarnedFirst == Spec => []HoldoutIsEarned
<1>1. Inv => HoldoutIsEarned
  BY DEF Inv, EarnedInv, Shown, Named, HoldoutIsEarned
<1> QED BY SafetyInvariant, <1>1, PTL

(* Evidence that nobody uses is not locked, unless by an invocation that a *)
(* kill or a file stopped, and nothing is marked that was not used.        *)
THEOREM NotLost == Spec => []EvidenceIsNotLost
<1>1. Inv => EvidenceIsNotLost
  BY DEF Inv, TypeOK, ReservationInv, SpentInv, Holds, Active, EvidenceIsNotLost
<1> QED BY SafetyInvariant, <1>1, PTL
(* Invocations may run side by side, be killed, lose their pipelines and   *)
(* find their disk full: a log never lists the files of an earlier or a    *)
(* later execution that came to its end with a log of its own.             *)
THEOREM LogsDescribeFiles == Spec => []LogDescribesItsFiles
<1>1. TypeOK /\ AfterInv /\ LogInv /\ [Next]_vars => LogInv'
  BY LogStep
<1>2. Inv => TypeOK /\ AfterInv
  BY DEF Inv
<1>3. TypeOK /\ LogInv => LogDescribesItsFiles
  <2>1. ASSUME TypeOK, LogInv, NEW d \in Dirs, NEW i \in Items, NEW c \in log[d][i].ok,
               NEW w, w = files[d][i][c], NEW by, by = log[d][i].by, w # by
        PROVE  /\ w # None
               /\ \/ RunsAt(w, d, i) \/ <<w, i>> \in unlogged
                  \/ w \notin inv[by].after /\ by \notin inv[w].after
    <3>1. /\ w \in Invocations
          /\ \/ <<w, i>> \in unlogged
             \/ SideBySide(w, by) \/ RunsAt(w, d, i)
      BY <2>1 DEF LogInv, LoggedInv
    <3> QED BY <3>1, BenchmarkAssumption DEF SideBySide
  <2> QED BY <2>1 DEF LogDescribesItsFiles, RunsAt
<1> QED BY SafetyInvariant, LogInit, <1>1, <1>2, <1>3, PTL DEF Spec
=============================================================================
