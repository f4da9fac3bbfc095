\* A2A tasks, the Slack card and activity indicator, and the gateway's own life.
SPECIFICATION Spec
CONSTANTS
  MaxMsg = 2
  MaxStarts = 2
  MaxCalls = 1
  Gateways = {g1}
  MaxNotes = 2
  LookupLimit = 1
  PollLimit = 0
  RetryLimit = 1
  Sources = {s1, s2}
  MaxMarks = 2
  MaxShops = 2
  Plugins = {1, 2}
INVARIANTS AtMostOneGateway NothingIsLeft
PROPERTIES EveryJobEnds FinalShown LampGoesOut CleanSuccession
CHECK_DEADLOCK FALSE
