\* A rescue brings a stopped turn back to life.
SPECIFICATION Spec
CONSTANTS
  N = 1
  Procs = {p1}
  NoProc = NoProc
  Capture = {}
  MaxRetry = 0
  MaxStops = 1
  MaxCloses = 0
  Native = TRUE
  Lapse = FALSE
  Overlap = FALSE
PROPERTIES
  NoRevival
CHECK_DEADLOCK FALSE
