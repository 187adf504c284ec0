SPECIFICATION Spec
CONSTANTS
  None = None
  p1 = p1
  p2 = p2
  Invocations = {p1, p2}
  Plans <- SomePlans
  Worlds <- SomeWorlds
  Commands = {"backend_targeted", "local_setup", "manual_eval_gate", "frontend_build", "browser_smoke", "pipeline_true_ai_opt_in"}
  MaxEdits = 1
  MaxActive = 2
  Faults = {"kill", "gate", "evidence"}
SYMMETRY Symmetry
INVARIANTS
  SignOffIsEarned
  EvidenceIsOfTheRun
  BundleIsOneRun
CHECK_DEADLOCK FALSE
