\* A restart lets a follow-up overtake the turn in progress.
SPECIFICATION Spec
CONSTANTS
  N = 2
  Procs = {p1, p2}
  NoProc = NoProc
  Capture = {}
  MaxRetry = 0
  MaxStops = 0
  MaxCloses = 0
  Native = TRUE
  Lapse = FALSE
  Overlap = FALSE
SYMMETRY Sym
PROPERTIES
  FollowUpsQueue
CHECK_DEADLOCK FALSE
