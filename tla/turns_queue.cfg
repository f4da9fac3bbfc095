\* Two messages of a queueing channel, one crash and restart.
SPECIFICATION FairSpec
CONSTANTS
  N = 2
  Procs = {p1, p2}
  NoProc = NoProc
  Capture = {}
  MaxRetry = 0
  MaxStops = 0
  MaxCloses = 0
  Native = TRUE
  Lapse = FALSE
  Overlap = FALSE
INVARIANTS
  TypeOK
  SoleOwner
PROPERTIES
  ImplementsContract
  EveryTurnEnds
CHECK_DEADLOCK FALSE
