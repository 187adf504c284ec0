SPECIFICATION HSpec
CONSTANTS
  NoJob = NoJob
  j1 = j1
  j2 = j2
  Jobs = {j1, j2}
  MaxServers = 2
  midi = midi
  musicxml = musicxml
  Artifacts = {midi, musicxml}
  FailureStages = {"notation_generation"}
  Faults = {"storage", "enqueue", "pipeline", "commit", "recovery", "crash", "overlap"}
INVARIANTS
  PublishedWhole
  AudioBeforeQueue
  LossIsExplained
  PipelinesOverlapOnlyAfterKills
PROPERTIES
  EndedRowsChangeOnlyByRecovery
  EveryJobEnds
CHECK_DEADLOCK FALSE
