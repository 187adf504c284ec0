---------------------------- MODULE JobContract -----------------------------
(***************************************************************************)
(* What the job manager promises of transcription jobs, free of queues,    *)
(* threads, files and processes: a job is uploaded, accepted, run with no  *)
(* more than Capacity - 1 others, and ends once; its output appears in the *)
(* step that completes it; a retry is a new job that refers to one that    *)
(* has ended.                                                              *)
(***************************************************************************)
EXTENDS Naturals, FiniteSets

CONSTANTS Jobs, NoJob,
  Capacity    (* how many jobs run at a time                                *)

VARIABLES
  status,     (* [Jobs -> Statuses]                                         *)
  origin,     (* origin[j]: the job that j retries                          *)
  published   (* the jobs whose exports users can download                  *)

contractVars == <<status, origin, published>>

Ended == {"completed", "failed", "interrupted"}

ContractTypeOK ==
  /\ status \in [Jobs -> {"absent", "uploaded", "queued", "processing"} \cup Ended]
  /\ origin \in [Jobs -> Jobs \cup {NoJob}]
  /\ published \subseteq Jobs

ContractInit ==
  /\ status = [j \in Jobs |-> "absent"]
  /\ origin = [j \in Jobs |-> NoJob]
  /\ published = {}

Become(j, from, to) == status[j] = from /\ status' = [status EXCEPT ![j] = to]

Upload(j) == Become(j, "absent", "uploaded") /\ UNCHANGED <<origin, published>>

Accept(j) == Become(j, "uploaded", "queued") /\ UNCHANGED <<origin, published>>

Retry(src, j) ==
  /\ status[src] \in Ended
  /\ Become(j, "absent", "queued")
  /\ origin' = [origin EXCEPT ![j] = src]
  /\ UNCHANGED published

Run(j) ==
  /\ Cardinality({k \in Jobs : status[k] = "processing"}) < Capacity
  /\ Become(j, "queued", "processing")
  /\ UNCHANGED <<origin, published>>

Complete(j) ==
  /\ Become(j, "processing", "completed")
  /\ published' = published \cup {j}
  /\ UNCHANGED origin

Fail(j) ==
  /\ \E from \in {"uploaded", "queued", "processing"} : Become(j, from, "failed")
  /\ UNCHANGED <<origin, published>>

Interrupt(j) ==
  Become(j, "processing", "interrupted") /\ UNCHANGED <<origin, published>>

ContractNext ==
  \E j \in Jobs :
    \/ Upload(j) \/ Accept(j) \/ Run(j) \/ Complete(j) \/ Fail(j) \/ Interrupt(j)
    \/ \E src \in Jobs : Retry(src, j)

ContractSpec == ContractInit /\ [][ContractNext]_contractVars
=============================================================================
