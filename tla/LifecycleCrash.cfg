SPECIFICATION FairSpec
CONSTANTS
  NoJob = NoJob
  j1 = j1
  j2 = j2
  Jobs = {j1, j2}
  MaxServers = 4
  midi = midi
  musicxml = musicxml
  Artifacts = {midi, musicxml}
  FailureStages = {"preprocessing", "notation_generation"}
  Faults = {"storage", "enqueue", "pipeline", "crash"}
INVARIANTS
  ErrorsMatchOutcome
PROPERTIES
  ImplementsContract
  ProcessingResolves
CHECK_DEADLOCK FALSE
