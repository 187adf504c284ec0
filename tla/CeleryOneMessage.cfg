SPECIFICATION RSpec
CONSTANTS
  None = None
  j1 = j1
  j2 = j2
  j3 = j3
  w1 = w1
  w2 = w2
  Jobs = {j1, j2, j3}
  Workers = {w1, w2}
  MaxCopies = 1
  Faults = {"stage", "commit", "storage", "timeout", "crash"}
SYMMETRY Symmetry
INVARIANTS
  FailureNamesItsStage
PROPERTIES
  EndedIsFinal
  ImplementsContract
CHECK_DEADLOCK FALSE
