--------------------------- MODULE MCReleaseChain ---------------------------
(* A finite instance of ReleaseChain: a tree in which all is well and some *)
(* in which one check, or two, would fail.                                 *)
EXTENDS ReleaseChain, TLC

Scored == [blocked |-> FALSE, scored |-> TRUE, refs |-> TRUE, unsafe |-> FALSE]
Blocked == [blocked |-> TRUE, scored |-> FALSE, refs |-> FALSE, unsafe |-> FALSE]

Good == [failing |-> {}, missing |-> {}, offender |-> FALSE, header |-> TRUE,
         rows |-> {Scored, Blocked}, conflict |-> FALSE]

SomeWorlds ==
  { Good,
    [Good EXCEPT !.missing = {"chromium"}, !.failing = {"pipeline_true_ai_opt_in"}],
    [Good EXCEPT !.rows = @ \cup {[Blocked EXCEPT !.unsafe = TRUE]}, !.conflict = TRUE] }

SomePlans ==
  { [script |-> "pilot", options |-> {}],
    [script |-> "gate", options |-> {"skip_build", "true_ai"}],
    [script |-> "gate", options |-> {"skip_browser"}],
    [script |-> "evidence", options |-> {"saved_report"}] }

Symmetry == Permutations(Invocations)
=============================================================================
