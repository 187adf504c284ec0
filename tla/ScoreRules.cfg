SPECIFICATION Spec
CONSTANTS
  TicksPerBeat = 512
  Takes <- MCTakes
  CandidateTakes <- MCCandidateTakes
  MaxCandidates = 3
  Rates <- MCRates
  Calibrations <- MCCalibrations
  Benchmarks <- MCBenchmarks
CHECK_DEADLOCK FALSE
INVARIANTS
  MeasuresAreFull
  CoreEvidenceIsCharted
  MidiReadsBack
  PageFollowsScore
  RecommendationIsSound
PROPERTIES
  DeliveredIsChecked
