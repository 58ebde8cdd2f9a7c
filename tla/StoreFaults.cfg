SPECIFICATION FairSpec
CONSTANTS
  None = None
  RootSecret <- Key
  Procs = {p1, p2}
  Roots = {"mgr", "ops"}
  Sources = {"db", "feed"}
  Requests <- MixedRequests
  Ceiling <- MCCeiling
  Mints <- BothMints
  Registered <- MCMints
  Vouches = {}
  Narrowings = {}
  MaxCost = 1
  MaxCalls = 4
  MaxAdmin = 1
  MaxCrashes = 1
CHECK_DEADLOCK FALSE
INVARIANTS
  OverspendBounded
  AuditedAllowsAreCharged
  AuditIsATree
  RefusalsAreChronicled
PROPERTY EveryCallEnds
