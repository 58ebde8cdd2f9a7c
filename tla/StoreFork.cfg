SPECIFICATION Spec
CONSTANTS
  None = None
  RootSecret <- Key
  Procs = {p1, p2}
  Roots = {"mgr", "ops"}
  Sources = {"db", "feed"}
  Requests <- SpendRequests
  Ceiling <- MCCeiling
  Mints <- MCMints
  Registered <- MCMints
  Vouches = {}
  Narrowings = {}
  MaxCost = 2
  MaxCalls = 2
  MaxAdmin = 0
  MaxCrashes = 0
CHECK_DEADLOCK FALSE
INVARIANT ChainIntact
