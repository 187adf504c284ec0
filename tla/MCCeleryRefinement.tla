------------------------- MODULE MCCeleryRefinement -------------------------
(* Finite instances of CeleryRefinement: jobs and workers are              *)
(* interchangeable.                                                        *)
EXTENDS CeleryRefinement, TLC

Symmetry == Permutations(Jobs) \cup Permutations(Workers)
=============================================================================
