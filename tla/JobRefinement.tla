--------------------------- MODULE JobRefinement ----------------------------
(***************************************************************************)
(* The local runtime implements the job contract as long as server         *)
(* processes do not overlap and the database takes every commit: the       *)
(* status column is the contract's status, source_job_id its origin, and   *)
(* the rows with export files are its published jobs.                      *)
(***************************************************************************)
EXTENDS JobLifecycle

Contract == INSTANCE JobContract
  WITH Capacity  <- 1,
       status    <- [j \in Jobs |-> row[j].status],
       origin    <- source,
       published <- {j \in Jobs : row[j].exports}

(* Every step of handlers, worker, recovery and processes, kills included, *)
(* is a step of the contract or leaves what users see unchanged.           *)
ImplementsContract == Contract!ContractSpec
=============================================================================
