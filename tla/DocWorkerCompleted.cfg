SPECIFICATION Spec
CONSTANTS
  None = None
  j1 = j1
  w1 = w1
  w2 = w2
  Jobs = {j1}
  Workers = {w1, w2}
  MaxCopies = 2
  Faults = {"redelivery", "stage"}
SYMMETRY Symmetry
PROPERTIES
  CompletedStaysCompleted
CHECK_DEADLOCK FALSE
