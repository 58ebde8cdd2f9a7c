SPECIFICATION FairSpec
CHECK_DEADLOCK FALSE
CONSTANTS
  Procs = {p1, p2}
  Calls <- MCCalls
  Unparsable = Unparsable
  Torn = Torn
  None = None
  MaxCalls = 3
  MaxFailures = 1
  MaxKills = 1
INVARIANTS
  AuditIsATree
  ChainUnlessOverlapped
  OnlyATornLineSilences
  ChainingHidesNothing
PROPERTIES
  AppendOnly
  EveryCallIsAnswered
