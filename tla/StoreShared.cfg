SPECIFICATION Spec
CONSTANTS
  None = None
  RootSecret <- Key
  Procs = {p1, p2, p3}
  Roots = {"mgr", "ops"}
  Sources = {"db", "feed"}
  Requests <- SharedRequests
  Ceiling <- MCCeiling
  Mints <- MCMints
  Registered <- MCMints
  Vouches <- Lifts
  Narrowings = {}
  MaxCost = 2
  MaxCalls = 3
  MaxAdmin = 2
  MaxCrashes = 0
CHECK_DEADLOCK FALSE
SYMMETRY Symmetric
INVARIANTS
  TypeOK
  EveryChargeIsAudited
  NoTransactionLeftOpen
  AllowedOnVouchedData
