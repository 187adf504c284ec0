--------------------------- MODULE MCCeleryWorker ---------------------------
(* Finite instances of CeleryWorker: jobs and workers are interchangeable. *)
EXTENDS CeleryWorker, TLC

Symmetry == Permutations(Jobs) \cup Permutations(Workers)
=============================================================================
