\* A send that leaves the journal aside, and the correction that follows it.
SPECIFICATION Spec
CONSTANTS
  Procs = {1}
  Promised = TRUE
  MaxTries = 0
  MaxCloses = 0
  MaxLoose = 1
INVARIANTS NothingSentTwice
CHECK_DEADLOCK FALSE
