\* Messages that replace the work in progress, reply recovery, one crash and restart.
SPECIFICATION Spec
CONSTANTS
  N = 2
  Procs = {p1, p2}
  NoProc = NoProc
  Capture = {}
  MaxRetry = 1
  MaxStops = 0
  MaxCloses = 0
  Native = FALSE
  Lapse = FALSE
  Overlap = FALSE
SYMMETRY Sym
PROPERTIES
  GateHolds
  InterruptedIsFinal
CHECK_DEADLOCK FALSE
