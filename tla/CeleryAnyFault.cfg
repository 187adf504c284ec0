SPECIFICATION ASpec
CONSTANTS
  None = None
  j1 = j1
  w1 = w1
  w2 = w2
  Jobs = {j1}
  Workers = {w1, w2}
  MaxCopies = 2
  Followed = {"drum_events", "musicxml"}
  Faults = {"send", "redelivery", "stage", "commit", "storage", "timeout", "crash"}
INVARIANTS
  PublishedOnce
  QueuedJobsAreSomewhere
PROPERTIES
  AcceptedJobsEnd
CHECK_DEADLOCK FALSE
