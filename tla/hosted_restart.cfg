\* A promised SMS, two gateways one after the other, a crash or a shutdown; or one
\* gateway whose agent also sends aside.
SPECIFICATION BoundSpec
CONSTANTS
  Procs = {1, 2}
  Promised = TRUE
  MaxTries = 1
  MaxCloses = 1
  MaxLoose = 1
INVARIANTS TypeOK GuardedOnce CompletedHasEvidence NeverReplayed
PROPERTIES CorrectionIsWarranted ReconciliationEnds
CHECK_DEADLOCK FALSE
