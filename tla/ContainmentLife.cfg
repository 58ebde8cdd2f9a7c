SPECIFICATION Spec
CHECK_DEADLOCK FALSE
CONSTANTS
  top = top
  a = a
  b = b
  c = c
  Top = top
  Nodes <- FourNodes
  Names = {x, y}
  ReuseNames = FALSE
  Faults = {"spawn", "kill"}
  PROMOTE_AFTER = 2
  MaxOutcomes = 4
SYMMETRY Symmetric
INVARIANTS
  TypeOK
  NoOrphans
  NoOrphanProcess
  EarnedSlowly
