SPECIFICATION Spec
CHECK_DEADLOCK FALSE
CONSTANTS
  Kinds <- MCKinds
  Times = {0, 2}
  EarlyLogs <- MCEarlyLogs
  Marked = {"marker"}
  loop_window = 2
  loop_threshold = 2
  fan_window = 3
  fan_threshold = 3
  spend_window = 2
  max_spend = 2
  MaxEvents = 5
  MaxRestarts = 1
INVARIANTS
  SinkIsExplained
  SweptIsReported
  BurstsAreFound
  OneLoopOneIncident
