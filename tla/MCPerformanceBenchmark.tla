----------------------- MODULE MCPerformanceBenchmark -----------------------
(* Finite instances of PerformanceBenchmark: the development items are     *)
(* measured in d1, the holdout items apart from their evidence in d2; the  *)
(* invocations are interchangeable.                                        *)
EXTENDS PerformanceBenchmark, TLC

CONSTANTS d1, d2

PlanOf(profile, split, out, evidence, resume) ==
  [profile |-> profile, split |-> split, out |-> out, evidence |-> evidence, resume |-> resume]

ApartFromEvidence ==
  { PlanOf("scalar", "development", d1, None, FALSE),
    PlanOf("experiment", "development", d1, None, TRUE),
    PlanOf("experiment", "holdout", d2, d1, TRUE) }

Symmetry == Permutations(Invocations)
=============================================================================
