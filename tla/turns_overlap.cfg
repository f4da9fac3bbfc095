\* One turn, two gateways at the same time, a stop, a shutdown, lapsing leases.
SPECIFICATION Spec
CONSTANTS
  N = 1
  Procs = {p1, p2}
  NoProc = NoProc
  Capture = {}
  MaxRetry = 1
  MaxStops = 1
  MaxCloses = 1
  Native = TRUE
  Lapse = TRUE
  Overlap = TRUE
SYMMETRY Sym
INVARIANTS
  PromptedOnce
  PostedOnce
  AnswerBacksReply
CHECK_DEADLOCK FALSE
