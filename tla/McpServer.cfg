SPECIFICATION McpFairSpec
CHECK_DEADLOCK FALSE
CONSTANTS
  Procs = {p1, p2}
  None = None
  RootSecret <- Key
  Roots = {"mgr"}
  Sources = {"db"}
  Requests <- MCRequests
  Ceiling <- MCCeiling
  Mints <- MCMints
  Registered = {}
  Vouches <- MCVouches
  Narrowings = {}
  MaxCost = 1
  MaxCalls = 3
  MaxAdmin = 0
  MaxCrashes = 1
  OtherTools = {"audit_query"}
  OtherMethods <- MCOtherMethods
  Undispatchable = {not_an_object}
  MaxDifficulty = 256
INVARIANTS
  SchemaHasOneCreator
  OpensAtSecondTry
  AnsweredDecisionsAreAudited
PROPERTY EveryRequestIsAnswered
