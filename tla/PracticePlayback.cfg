SPECIFICATION FairSpec
CONSTANTS
  Modes = {"original", "chart"}
  Rates = {1, 2}
  MaxClicks = 4
INVARIANTS
  NothingOutlivesItsSession
  RatesAgree
PROPERTIES
  PlaybackStops
CHECK_DEADLOCK FALSE
