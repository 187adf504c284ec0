--------------------------- MODULE CeleryHistory ----------------------------
(***************************************************************************)
(* CeleryWorker with a history of the tasks that died: killed workers,     *)
(* refused commits, time limits in the error boundary, logs that could not *)
(* be written and refusals that nothing catches.  The code's specification *)
(* is unchanged.                                                           *)
(***************************************************************************)
EXTENDS CeleryWorker

VARIABLE died   (* the jobs one of whose tasks ended without a report       *)

hvars == <<vars, died>>

(* A task that neither reports its result nor records its failure.         *)
DiesNow(j) ==
  \E w \in Workers :
    /\ TaskOf(w, j)
    /\ task'[w] = Idle
    /\ task[w].pc # "report"
    /\ ~(task[w].pc = "write" /\ row'[j].status = "failed")

HInit == Init /\ died = {}
HNext == Next /\ died' = died \cup {j \in Jobs : DiesNow(j)}

HSpec == HInit /\ [][HNext]_hvars /\ Fairness

-----------------------------------------------------------------------------
(* Every fault.  A committed row that is still queued has its handler, its *)
(* message or a task in a worker, unless a task of this job died: the      *)
(* message is gone with the task that acknowledged it.                     *)
QueuedJobsAreSomewhere ==
  \A j \in Jobs :
    row[j].status = "queued" =>
      \/ api[j] \in {"send", "reject"}
      \/ copies[j] > 0
      \/ \E w \in Workers : TaskOf(w, j)
      \/ j \in died

(* Every fault.  Every queued job ends, duplicates, failing stages and     *)
(* waits for the row lock included, unless one of its tasks died.  The     *)
(* job specification has every uncaught error end in failed; the deaths    *)
(* are the errors that the boundary does not turn into a failure.          *)
AcceptedJobsEnd ==
  \A j \in Jobs :
    row[j].status = "queued" ~> row[j].status \in Ended \/ j \in died
=============================================================================
