------------------------ MODULE PerformanceBenchmark ------------------------
(***************************************************************************)
(* scripts/run_performance_benchmark.py: invocations of a batch tool that  *)
(* measures the pipeline on items with known drums, and what they share on *)
(* disk.  An experiment (a class preset beside the scalar candidates) may  *)
(* measure the holdout items once, with the report of an improvement on    *)
(* the development items as evidence: two marks beside that report, its    *)
(* reservation and its consumption, keep the account.                      *)
(*                                                                         *)
(* One invocation is one process and, for every item, a child that runs    *)
(* the pipeline; a step is what it does up to its next read or write of a  *)
(* shared file.                                                            *)
(***************************************************************************)
EXTENDS Naturals, FiniteSets

CONSTANTS
  Invocations,  (* the invocations of the script                            *)
  Dirs,         (* output directories, which are also names of reports      *)
  Development,  (* the items of the manifest, by their split                *)
  Holdout,
  None,         (* no invocation, no evidence                               *)
  Plans,        (* what they are asked for                                  *)
  MaxVersion,   (* bound: versions of the manifest                          *)
  MaxBroken,    (* bound: invocations that a kill or a file may cut short   *)
  MaxActive,    (* bound: invocations that run at once                      *)
  Faults        (* what may go wrong                                        *)

FaultKinds ==
  { "kill",      \* an invocation or its pipeline ends at once
    "io",        \* a file cannot be written or removed
    "stage" }    \* a stage of the pipeline fails

Profiles == {"scalar", "experiment"}
Splits == {"development", "holdout", "all"}

(* Only an experiment on the holdout split needs evidence. *)
Measures == <<"experiment", "holdout">>

Plan ==
  {plan \in [profile : Profiles, split : Splits, out : Dirs, evidence : Dirs \cup {None},
             resume : BOOLEAN] :
     <<plan.profile, plan.split>> = Measures \/ plan.evidence = None}

ASSUME BenchmarkAssumption ==
  /\ None \notin Invocations
  /\ None \notin Dirs
  /\ Plans \subseteq Plan
  /\ MaxVersion \in Nat
  /\ MaxBroken \in Nat
  /\ MaxActive \in Nat
  /\ Faults \subseteq FaultKinds

VARIABLES
  inv,        (* [Invocations -> Invocation]                                *)
  manifest,   (* the version of the manifest                                *)
  report,     (* report[d]: performance_benchmark_report.json of d, if it   *)
              (* tells of an improvement                                    *)
  reserved,   (* reserved[d]: whose holdout-reservation lies beside it      *)
  consumed,   (* the reports beside which a holdout-consumed mark lies      *)
  log,        (* log[d][i]: logs/pipeline.json of item i in d, if completed *)
  files,      (* files[d][i][c]: who wrote the files of candidate c         *)
  spent,      (* history: who reported a holdout measured with that of d    *)
  unmarked,   (* history: those of them whose tables could not be written   *)
  broken,     (* history: the invocations that a kill or a file stopped     *)
  unlogged,   (* history: whose pipeline ended without a log, on what item  *)
  improved    (* history: the improvements on development items             *)

shared == <<report, reserved, consumed, log, files>>
history == <<spent, unmarked, broken, unlogged, improved>>
vars == <<inv, manifest, shared, history>>

Items == Development \cup Holdout
Candidates == {"scalar", "preset"}

ItemsOf(split) ==
  (IF split = "holdout" THEN {} ELSE Development)
    \cup (IF split = "development" THEN {} ELSE Holdout)

CandidatesOf(profile) == IF profile = "scalar" THEN {"scalar"} ELSE Candidates

Off == [pc |-> "off", profile |-> "scalar", split |-> "all", out |-> None,
        evidence |-> None, resume |-> FALSE, version |-> 0, hashed |-> 0, after |-> {},
        left |-> {}, item |-> None, todo |-> {}, ok |-> {},
        measured |-> {}, compared |-> FALSE]

NoReport == [split |-> "none", profile |-> "scalar", version |-> 0, improved |-> FALSE]
ReportOf(me) ==
  [split |-> me.split, profile |-> me.profile, version |-> me.hashed, improved |-> TRUE]

NoLog == [by |-> None, profile |-> "scalar", completed |-> FALSE, ok |-> {}]

Init ==
  /\ inv = [p \in Invocations |-> Off]
  /\ manifest = 0
  /\ report = [d \in Dirs |-> NoReport]
  /\ reserved = [d \in Dirs |-> None]
  /\ consumed = {}
  /\ log = [d \in Dirs |-> [i \in Items |-> NoLog]]
  /\ files = [d \in Dirs |-> [i \in Items |-> [c \in Candidates |-> None]]]
  /\ spent = [d \in Dirs |-> {}]
  /\ unmarked = {}
  /\ broken = {}
  /\ unlogged = {}
  /\ improved = {}

At(p, pc) == inv[p].pc = pc
Goto(p, pc) == inv' = [inv EXCEPT ![p].pc = pc]
End(p) == inv' = [inv EXCEPT ![p] = [Off EXCEPT !.pc = "ended", !.after = inv[p].after]]
Active(p) == inv[p].pc \notin {"off", "ended"}

Gated(p) == <<inv[p].profile, inv[p].split>> = Measures

(* The bound on what befalls the invocations. *)
MayBreak(p) ==
  Cardinality(broken \cup unmarked \cup {u[1] : u \in unlogged} \cup {p}) <= MaxBroken

-----------------------------------------------------------------------------
(* External: the manifest is edited, at any time. *)
EditManifest ==
  /\ manifest < MaxVersion
  /\ manifest' = manifest + 1
  /\ UNCHANGED <<inv, shared, history>>

(* The command line; the items are read from the manifest. *)
Start(p, plan) ==
  /\ At(p, "off")
  /\ Cardinality({q \in Invocations : Active(q)}) < MaxActive
  /\ ItemsOf(plan.split) # {}
  /\ inv' = [inv EXCEPT ![p] =
       [Off EXCEPT !.pc = "gate", !.profile = plan.profile, !.split = plan.split,
                   !.out = plan.out, !.evidence = plan.evidence, !.resume = plan.resume,
                   !.version = manifest, !.left = ItemsOf(plan.split),
                   !.after = {q \in Invocations : At(q, "ended")}]]
  /\ UNCHANGED <<manifest, shared, history>>

(* A deviation: any report of an improvement will do. *)
IsEvidenceOfAnyVersion(r, p) ==
  r.split = "development" /\ r.profile = inv[p].profile /\ r.improved

(* _holdout_evidence_reason *)
IsEvidence(r, p) ==
  /\ r.split = "development" /\ r.profile = inv[p].profile /\ r.improved
  /\ r.version = manifest

(* The evidence is compared with the manifest as it is now. *)
CheckEvidence(p) ==
  LET e == inv[p].evidence IN
  /\ At(p, "gate")
  /\ IF ~Gated(p) THEN Goto(p, "items")
     ELSE IF e = None \/ ~IsEvidence(report[e], p) THEN Goto(p, "refused")
     ELSE inv' = [inv EXCEPT ![p].pc = "marks", ![p].hashed = manifest]
  /\ UNCHANGED <<manifest, shared, history>>

(* Whether the evidence has been consumed. *)
CheckMarks(p) ==
  /\ At(p, "marks")
  /\ Goto(p, IF inv[p].evidence \in consumed THEN "refused" ELSE "reserve")
  /\ UNCHANGED <<manifest, shared, history>>

(* A deviation: the reservation is written over one that is there. *)
ReserveOver(p) ==
  /\ At(p, "reserve")
  /\ Goto(p, "items")
  /\ reserved' = [reserved EXCEPT ![inv[p].evidence] = p]
  /\ UNCHANGED <<manifest, report, consumed, log, files, history>>

(* The exclusive creation of the reservation, which may fail with or       *)
(* without leaving the file behind.                                        *)
Reserve(p) ==
  LET e == inv[p].evidence IN
  /\ At(p, "reserve")
  /\ \/ /\ reserved[e] = None
        /\ Goto(p, "items")
        /\ reserved' = [reserved EXCEPT ![e] = p]
        /\ UNCHANGED broken
     \/ /\ reserved[e] # None
        /\ Goto(p, "refused")
        /\ UNCHANGED <<reserved, broken>>
     \/ /\ "io" \in Faults /\ MayBreak(p)
        /\ reserved[e] = None
        /\ Goto(p, "refused")
        /\ reserved' \in {reserved, [reserved EXCEPT ![e] = p]}
        /\ broken' = broken \cup {p}
  /\ UNCHANGED <<manifest, report, consumed, log, files, spent, unmarked, unlogged, improved>>

(* A refused invocation leaves a report that says so. *)
Refuse(p) ==
  /\ At(p, "refused")
  /\ End(p)
  /\ report' = [report EXCEPT ![inv[p].out] = NoReport]
  /\ UNCHANGED <<manifest, reserved, consumed, log, files, history>>

-----------------------------------------------------------------------------
(* The items. *)

LogOf(p, i) == log[inv[p].out][i]
FilesOf(p, i) == files[inv[p].out][i]

(* A deviation: the candidates of the result are not compared with the     *)
(* ones of the profile.                                                    *)
IsReusableForAny(p, i) == LogOf(p, i).completed

(* _completed_pipeline_for_resume *)
IsReusable(p, i) ==
  /\ LogOf(p, i).completed
  /\ LogOf(p, i).profile = inv[p].profile
  /\ \A c \in LogOf(p, i).ok : FilesOf(p, i)[c] # None

(* What is measured of an item: every candidate whose files are there,     *)
(* whatever the log says of it.                                            *)
Unmeasured(r, i) ==
  [r EXCEPT !.pc = "items", !.left = @ \ {i}, !.item = None, !.ok = {}]

Measured(r, i, written) ==
  [Unmeasured(r, i) EXCEPT
     !.measured = @ \cup {i},
     !.compared = @ \/ \A c \in Candidates : c \in CandidatesOf(r.profile) /\ written[c] # None]

(* An item without provenance or files is skipped. *)
SkipItem(p, i) ==
  /\ At(p, "items") /\ i \in inv[p].left
  /\ inv' = [inv EXCEPT ![p] = Unmeasured(@, i)]
  /\ UNCHANGED <<manifest, shared, history>>

ReuseItem(p, i) ==
  /\ At(p, "items") /\ i \in inv[p].left
  /\ inv[p].resume /\ IsReusable(p, i)
  /\ inv' = [inv EXCEPT ![p] = Measured(@, i, FilesOf(p, i))]
  /\ UNCHANGED <<manifest, shared, history>>

StartItem(p, i) ==
  /\ At(p, "items") /\ i \in inv[p].left
  /\ ~(inv[p].resume /\ IsReusable(p, i))
  /\ inv' = [inv EXCEPT ![p].pc = "pipeline", ![p].item = i, ![p].ok = {},
                        ![p].todo = CandidatesOf(inv[p].profile)]
  /\ UNCHANGED <<manifest, shared, history>>

(* The pipeline of an invocation, which survives it.                       *)
Runs(p) == At(p, "pipeline") \/ At(p, "orphan")

LogIs(p, entry) == log' = [log EXCEPT ![inv[p].out][inv[p].item] = entry]

WriteLog(p) ==
  LogIs(p, IF inv[p].ok = {} THEN NoLog
           ELSE [by |-> p, profile |-> inv[p].profile, completed |-> TRUE, ok |-> inv[p].ok])

(* The pipeline is over: the invocation goes on with r, if it is there.    *)
Return(p, r) == IF At(p, "orphan") THEN End(p) ELSE inv' = [inv EXCEPT ![p] = r]

(* A stage that all candidates share fails: none of them is written. *)
SharedStageFails(p) ==
  /\ "stage" \in Faults
  /\ Runs(p) /\ inv[p].todo = CandidatesOf(inv[p].profile)
  /\ WriteLog(p)
  /\ Return(p, Unmeasured(inv[p], inv[p].item))
  /\ UNCHANGED <<manifest, report, reserved, consumed, files, history>>

(* A candidate replaces its files; one that fails may leave the old ones. *)
RunCandidate(p, c) ==
  LET written == [files EXCEPT ![inv[p].out][inv[p].item][c] = p] IN
  /\ Runs(p)
  /\ c \in inv[p].todo /\ (c = "preset" => inv[p].todo = {c})
  /\ \/ /\ files' = written
        /\ inv' = [inv EXCEPT ![p].todo = @ \ {c}, ![p].ok = @ \cup {c}]
     \/ /\ "stage" \in Faults
        /\ files' \in {files, written}
        /\ inv' = [inv EXCEPT ![p].todo = @ \ {c}]
  /\ UNCHANGED <<manifest, report, reserved, consumed, log, history>>

(* A deviation: a pipeline without a usable candidate writes no log. *)
EndPipelineSilently(p) ==
  /\ Runs(p) /\ inv[p].todo = {}
  /\ IF inv[p].ok # {}
     THEN /\ WriteLog(p)
          /\ Return(p, Measured(inv[p], inv[p].item, FilesOf(p, inv[p].item)))
     ELSE /\ UNCHANGED log
          /\ Return(p, Unmeasured(inv[p], inv[p].item))
  /\ UNCHANGED <<manifest, report, reserved, consumed, files, history>>

(* The only log of the pipeline is written at its end. *)
EndPipeline(p) ==
  /\ Runs(p) /\ inv[p].todo = {}
  /\ WriteLog(p)
  /\ Return(p, IF inv[p].ok # {} THEN Measured(inv[p], inv[p].item, FilesOf(p, inv[p].item))
                                 ELSE Unmeasured(inv[p], inv[p].item))
  /\ UNCHANGED <<manifest, report, reserved, consumed, files, history>>

(* The pipeline ends between two writes, or amid that of its log; an       *)
(* invocation that is there takes the item for failed and goes on.  The    *)
(* log of an earlier execution may stay beside the files of this one.      *)
PipelineDies(p) ==
  /\ "kill" \in Faults /\ MayBreak(p)
  /\ Runs(p)
  /\ UNCHANGED log \/ (inv[p].todo = {} /\ LogIs(p, NoLog))
  /\ Return(p, Unmeasured(inv[p], inv[p].item))
  /\ unlogged' = unlogged \cup {<<p, inv[p].item>>}
  /\ UNCHANGED <<manifest, report, reserved, consumed, files, spent, unmarked, broken, improved>>

-----------------------------------------------------------------------------
(* The report and the end of the reservation. *)

(* The report names the manifest as it is now. *)
HashManifest(p) ==
  /\ At(p, "items") /\ inv[p].left = {}
  /\ inv' = [inv EXCEPT ![p].pc = "report", ![p].hashed = manifest]
  /\ UNCHANGED <<manifest, shared, history>>

Improvement(me) == [items |-> me.version, named |-> me.hashed]

(* Whether the experiment has improved can be said when both strategies of *)
(* some item are measured (_strategy_comparison).                          *)
ReportWritten(p) ==
  LET me == inv[p] IN
  \E better \in {FALSE, me.compared} :
    /\ report' = [report EXCEPT ![me.out] = IF better THEN ReportOf(me) ELSE NoReport]
    /\ improved' = IF better /\ me.split = "development"
                   THEN improved \cup {Improvement(me)} ELSE improved

(* A report that is cut off tells of nothing. *)
ReportTorn(p) ==
  /\ report' = [report EXCEPT ![inv[p].out] = NoReport]
  /\ UNCHANGED improved

(* Who has no reservation has none to end. *)
ThenRelease(p) == IF Gated(p) THEN Goto(p, "release") ELSE End(p)

Spends(p) == Gated(p) /\ inv[p].measured # {}
Spent(p) ==
  spent' = IF Spends(p) THEN [spent EXCEPT ![inv[p].evidence] = @ \cup {p}] ELSE spent

(* _write_reports: the report, then the tables beside it. *)
WriteReport(p) ==
  /\ At(p, "report")
  /\ IF Spends(p) THEN Goto(p, "consume") ELSE ThenRelease(p)
  /\ ReportWritten(p)
  /\ Spent(p)
  /\ UNCHANGED <<manifest, reserved, consumed, log, files, unmarked, broken, unlogged>>

(* The report is written, a table beside it cannot be: the reservation is  *)
(* given back although what the holdout measured can be read.              *)
TableFails(p) ==
  /\ "io" \in Faults /\ MayBreak(p)
  /\ At(p, "report")
  /\ ThenRelease(p)
  /\ ReportWritten(p)
  /\ Spent(p)
  /\ unmarked' = IF Spends(p) THEN unmarked \cup {p} ELSE unmarked
  /\ UNCHANGED <<manifest, reserved, consumed, log, files, broken, unlogged>>

(* A deviation: an exception ends the invocation at once. *)
RaiseUncaught(p) ==
  /\ "io" \in Faults
  /\ At(p, "items") \/ At(p, "report")
  /\ End(p)
  /\ UNCHANGED <<manifest, shared, history>>

(* Reading an item or writing the report raises: the reservation is given  *)
(* back.                                                                   *)
Raise(p) ==
  /\ "io" \in Faults
  /\ \/ At(p, "items") /\ UNCHANGED <<report, improved>>
     \/ At(p, "report") /\ (UNCHANGED <<report, improved>> \/ ReportTorn(p))
  /\ ThenRelease(p)
  /\ UNCHANGED <<manifest, reserved, consumed, log, files, spent, unmarked, broken, unlogged>>

(* A deviation: the evidence is not marked. *)
ForgetConsumption(p) ==
  /\ At(p, "consume")
  /\ Goto(p, "release")
  /\ UNCHANGED <<manifest, shared, history>>

(* _finalize_holdout_reservation: the mark of consumption, then the end of *)
(* the reservation.                                                        *)
Consume(p) ==
  /\ At(p, "consume")
  /\ Goto(p, "release")
  /\ consumed' = consumed \cup {inv[p].evidence}
  /\ UNCHANGED <<manifest, report, reserved, log, files, history>>

Release(p) ==
  /\ At(p, "release")
  /\ End(p)
  /\ reserved' = [reserved EXCEPT ![inv[p].evidence] = None]
  /\ UNCHANGED <<manifest, report, consumed, log, files, history>>

(* What fails there is not reported; the reservation stays. *)
FinalizeFails(p) ==
  /\ "io" \in Faults /\ MayBreak(p)
  /\ At(p, "consume") \/ At(p, "release")
  /\ End(p)
  /\ broken' = broken \cup {p}
  /\ UNCHANGED <<manifest, shared, spent, unmarked, unlogged, improved>>

(* The script is killed, perhaps amid the writing of its report; its       *)
(* pipeline goes on, until it ends or dies.                                *)
Kill(p) ==
  /\ "kill" \in Faults /\ MayBreak(p)
  /\ Active(p) /\ ~At(p, "orphan")
  /\ IF At(p, "pipeline") THEN Goto(p, "orphan") ELSE End(p)
  /\ UNCHANGED <<report, improved>> \/ (At(p, "report") /\ ReportTorn(p))
  /\ broken' = broken \cup {p}
  /\ UNCHANGED <<manifest, reserved, consumed, log, files, spent, unmarked, unlogged>>

Step(p) ==
  \/ \E plan \in Plans : Start(p, plan)
  \/ CheckEvidence(p) \/ CheckMarks(p) \/ Reserve(p) \/ Refuse(p)
  \/ \E i \in Items : SkipItem(p, i) \/ ReuseItem(p, i) \/ StartItem(p, i)
  \/ SharedStageFails(p) \/ EndPipeline(p) \/ PipelineDies(p)
  \/ \E c \in Candidates : RunCandidate(p, c)
  \/ HashManifest(p) \/ WriteReport(p) \/ TableFails(p) \/ Raise(p)
  \/ Consume(p) \/ Release(p) \/ FinalizeFails(p) \/ Kill(p)

Next == EditManifest \/ \E p \in Invocations : Step(p)

Spec == Init /\ [][Next]_vars

-----------------------------------------------------------------------------
(* Properties, under every fault. *)

Holds(p) ==
  Gated(p) /\ inv[p].pc \in {"items", "pipeline", "report", "consume", "release"}

(* No two invocations measure a holdout with the same evidence at once:    *)
(* what the exclusive creation of the reservation is for.                  *)
OneHoldoutAtATime ==
  \A p, q \in Invocations :
    Holds(p) /\ Holds(q) /\ inv[p].evidence = inv[q].evidence => p = q

(* Evidence is spent once: of two invocations that reported a holdout      *)
(* measured with it, the later one began before the other ended (for the   *)
(* check of the mark precedes the reservation), or the other could not     *)
(* write a table beside its report, whereupon the code gives the evidence  *)
(* back.  No kill and no other file that fails lets it be spent again.     *)
EvidenceIsSpentOnce ==
  \A d \in Dirs : \A p, q \in spent[d] : p \in inv[q].after => p \in unmarked

(* Evidence is not lost either: a reservation is that of a running         *)
(* invocation or of one that a kill or a file stopped, and only measured   *)
(* evidence is marked as consumed.                                         *)
EvidenceIsNotLost ==
  \A d \in Dirs :
    /\ reserved[d] # None => Active(reserved[d]) \/ reserved[d] \in broken
    /\ d \in consumed => spent[d] # {}

Measuring(p) == Gated(p) /\ inv[p].pc \in {"items", "pipeline"}

(* A holdout is measured with evidence only after the experiment has       *)
(* improved the development items of the same manifest, although reports   *)
(* are overwritten by later invocations of any kind.  The manifest is      *)
(* hashed later than its items are read, in both invocations: the items    *)
(* are those of another manifest only if it was replaced in between.       *)
HoldoutIsEarned ==
  \A p \in Invocations : Measuring(p) =>
    \E r \in improved :
      /\ r.named = inv[p].hashed
      /\ \/ r.items = inv[p].version
         \/ r.items # r.named \/ inv[p].version # inv[p].hashed

(* The files of the candidates that a completed log lists are those of its *)
(* execution, although the log is written at the end of an execution and a *)
(* later one replaces the files one by one.  Only an execution of the item *)
(* that runs, that ended without its log, or that ran beside the logged    *)
(* one can have put others there; a kill of the script alone does not.     *)
LogDescribesItsFiles ==
  \A d \in Dirs, i \in Items :
    \A c \in log[d][i].ok :
      LET by == log[d][i].by
          writer == files[d][i][c]
      IN writer # by =>
           /\ writer # None
           /\ \/ Runs(writer) /\ inv[writer].out = d /\ inv[writer].item = i
              \/ <<writer, i>> \in unlogged
              \/ writer \notin inv[by].after /\ by \notin inv[writer].after
=============================================================================
