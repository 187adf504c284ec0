-------------------------- MODULE CeleryRefinement --------------------------
(***************************************************************************)
(* The Celery workers implement the job contract of the local runtime, one *)
(* job per worker at a time, as long as every message is delivered once.   *)
(* A job counts as processing while a task that has claimed it runs or     *)
(* reports its failure, although its committed row says queued; one whose  *)
(* task dies after its claim counts as interrupted, although its row goes  *)
(* on saying queued.                                                       *)
(***************************************************************************)
EXTENDS CeleryWorker, FiniteSets

VARIABLE cut   (* history: the jobs whose task died after its claim         *)

rvars == <<vars, cut>>

Claimed(j) == \E w \in Workers : TaskOf(w, j) /\ task[w].claimed

RInit == Init /\ cut = {}

RNext ==
  /\ Next
  /\ cut' = cut \cup {j \in Jobs : /\ Claimed(j) /\ ~Claimed(j)'
                                   /\ row'[j].status = "queued"}

RSpec == RInit /\ [][RNext]_rvars

Shown(j) ==
  CASE row[j].status = "queued" /\ Claimed(j) -> "processing"
    [] row[j].status = "queued" /\ ~Claimed(j) /\ j \in cut -> "interrupted"
    [] OTHER -> row[j].status

Contract == INSTANCE JobContract
  WITH NoJob     <- None,
       Capacity  <- Cardinality(Workers),
       status    <- [j \in Jobs |-> Shown(j)],
       origin    <- [j \in Jobs |-> None],
       published <- {j \in Jobs : row[j].published}

(* Every step of API, workers, error boundary, time limits and kills is a  *)
(* step of the contract or leaves its variables unchanged: the transaction *)
(* that hides "processing" from readers hides no other step, and no job    *)
(* that a dead task leaves behind is run again.                            *)
ImplementsContract == Contract!ContractSpec
=============================================================================
