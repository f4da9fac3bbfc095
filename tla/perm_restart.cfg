\* One permission, two gateways one after the other, a lossy event stream; or two
\* permissions and one gateway.
SPECIFICATION MCSpec
CONSTANTS
  Perms = {1, 2}
  NoPerm = NoPerm
  Procs = {1, 2}
  Rereads = TRUE
INVARIANTS TypeOK Retained NeverReplayed ApprovalWasGiven WaiterIsLive
PROPERTY EveryQuestionEnds
CHECK_DEADLOCK FALSE
