SPECIFICATION Spec
CHECK_DEADLOCK FALSE
CONSTANTS
  top = top
  a = a
  b = b
  c = c
  Top = top
  Nodes <- FourNodes
  Names = {x, y}
  ReuseNames = TRUE
  Faults = {}
  PROMOTE_AFTER = 1
  MaxOutcomes = 1
INVARIANT RunningIsAlive
