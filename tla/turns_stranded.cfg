\* A rescued answer whose preparation fails is not tried again.
SPECIFICATION FairSpec
CONSTANTS
  N = 2
  Procs = {p1}
  NoProc = NoProc
  Capture = {}
  MaxRetry = 0
  MaxStops = 0
  MaxCloses = 0
  Native = TRUE
  Lapse = FALSE
  Overlap = FALSE
PROPERTIES
  SavedAnswerIsPosted
CHECK_DEADLOCK FALSE
