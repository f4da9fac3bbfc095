\* A verified stop leaves the queue parked.
SPECIFICATION FairSpec
CONSTANTS
  N = 2
  Procs = {p1}
  NoProc = NoProc
  Capture = {}
  MaxRetry = 0
  MaxStops = 1
  MaxCloses = 0
  Native = TRUE
  Lapse = FALSE
  Overlap = FALSE
PROPERTIES
  StopReleasesQueue
CHECK_DEADLOCK FALSE
