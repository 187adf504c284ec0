SPECIFICATION FairSpec
CONSTANTS
  None = None
  Jobs = {j1, j2}
  MaxCalls = 2
  MaxTimers = 2
  MaxClicks = 3
INVARIANTS
  OnePollingLoop
  ActiveJobIsPolled
  PanelShowsTheJob
PROPERTIES
  EndIsShown
  PollingStops
CHECK_DEADLOCK FALSE
