SPECIFICATION Spec
CONSTANTS
  None = None
  RootSecret <- Key
  Procs = {p1}
  Roots = {"mgr", "ops"}
  Sources = {"db", "feed"}
  Requests <- SingleRequests
  Ceiling <- MCCeiling
  Mints <- BothMints
  Registered <- MCMints
  Vouches <- AnyVouch
  Narrowings <- MCNarrowings
  MaxCost = 2
  MaxCalls = 3
  MaxAdmin = 2
  MaxCrashes = 1
CHECK_DEADLOCK FALSE
INVARIANTS
  BudgetCeiling
  AllowsWithinBudget
  ChainIntact
  PrerequisiteSuffices
  AttenuationNeverUnlocks
PROPERTY ImplementsInMemory
