SPECIFICATION Spec
CONSTANTS
  None = None
  p1 = p1
  p2 = p2
  p3 = p3
  d1 = d1
  d2 = d2
  dev = dev
  held = held
  Invocations = {p1, p2, p3}
  Dirs = {d1, d2}
  Development = {dev}
  Holdout = {held}
  Plans <- ApartFromEvidence
  MaxVersion = 1
  MaxBroken = 1
  MaxActive = 2
  Faults = {"kill", "io", "stage"}
SYMMETRY Symmetry
INVARIANTS
  OneHoldoutAtATime
  EvidenceIsSpentOnce
  HoldoutIsEarned
  LogDescribesItsFiles
CHECK_DEADLOCK FALSE
