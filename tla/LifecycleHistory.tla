-------------------------- MODULE LifecycleHistory --------------------------
(***************************************************************************)
(* JobLifecycle with a history of what the environment did to each job:    *)
(* the kills of the process that had it and the failed commits about it.   *)
(* The specification of the code is unchanged; the properties say what a   *)
(* job may suffer from, job by job, when every fault may happen.           *)
(***************************************************************************)
EXTENDS JobLifecycle

VARIABLE hit   (* hit[j]: which of {"kill", "commit"} has struck job j      *)

hvars == <<vars, hit>>

HeldAt(s, j) ==
  \/ InFlight(j) /\ request[j].at = s
  \/ Holds(s, j)
  \/ j \in Elements(queue[s])

Killed(s) == Alive(s) /\ phase'[s] = "dead" /\ ~Drained(s)

(* A handler or the worker gives up its job and the row stays as it was.   *)
CommitLost(j) ==
  /\ row'[j] = row[j]
  /\ \/ request[j].pc \in {"accept", "reject"} /\ request'[j].pc = "done"
     \/ \E s \in Servers :
          worker[s].pc = "failing" /\ worker[s].job = j /\ worker'[s].pc = "idle"

Strikes(j) ==
  IF \E s \in Servers : Killed(s) THEN
    IF \E s \in Servers : Killed(s) /\ HeldAt(s, j) THEN {"kill"} ELSE {}
  ELSE IF CommitLost(j) THEN {"commit"} ELSE {}

HInit == Init /\ hit = [j \in Jobs |-> {}]
HNext == Next /\ hit' = [j \in Jobs |-> hit[j] \cup Strikes(j)]

HSpec == HInit /\ [][HNext]_hvars /\ Fairness

-----------------------------------------------------------------------------
(* Every fault.  A job that has not ended is in the hands of a handler, a  *)
(* queue or the worker of a live process, unless the process that had it   *)
(* was killed or a commit about this very job failed: no job is lost       *)
(* through another job's failure, a skipped or stale recovery, a graceful  *)
(* stop or an overlapping start.                                           *)
LossIsExplained ==
  \A j \in Jobs :
    row[j].status \in {"uploaded", "queued", "processing"} =>
      Held(j) \/ hit[j] # {}

(* Every fault.  Two pipelines run at once only beside the orphan of a     *)
(* killed server or while two server processes overlap: the one worker     *)
(* thread, the drain and the order of restarts exclude everything else.    *)
PipelinesOverlapOnlyAfterKills ==
  \A j, k \in pipelines :
    \/ j = k
    \/ "kill" \in hit[j] \cup hit[k]
    \/ \E s, t \in Servers : s # t /\ Alive(s) /\ Alive(t)

(* Every fault.  The row of a job that has ended changes again only when a *)
(* recovery writes what it read before the end, or when the worker of a    *)
(* draining server ends a run that recovery has declared interrupted; it   *)
(* never becomes active again.                                             *)
EndedRowsChangeOnlyByRecovery ==
  [][\A j \in Jobs :
       row[j].status \in Terminal /\ row'[j] # row[j] =>
         \/ /\ row'[j].status = "interrupted"
            /\ \E s \in Servers : phase[s] = "recovering" /\ j \in found[s]
         \/ /\ row[j].status = "interrupted"
            /\ row'[j].status \in {"completed", "failed"}
            /\ HeldByWorker(j)]_hvars

(* Every fault.  Every job that gets a row ends, also when the server is   *)
(* stopped gracefully in between, unless a kill or a failed commit struck  *)
(* it.                                                                     *)
EveryJobEnds ==
  \A j \in Jobs :
    row[j].status \in {"uploaded", "queued"} ~>
      row[j].status \in Terminal \/ hit[j] # {}
=============================================================================
