SPECIFICATION MCSpec
CHECK_DEADLOCK FALSE
CONSTANTS
  None = None
  top = top
  a = a
  RootSecret <- Key
  Roots = {"mgr"}
  Sources = {"db"}
  Requests <- MCRequests
  Ceiling <- MCCeiling
  Tools <- MCTools
  Serving <- MCServing
  TrustBundles <- MCBundles
  Enrollments <- MCEnrollments
  InitialRows <- MCInitialRows
  Calls <- MCCalls
  Vouches <- MCVouches
  MaxCalls = 2
  MaxAdmin = 2
  Nodes <- MCNodes
  Top = top
  Names = {x}
  ReuseNames = FALSE
  Faults = {}
  PROMOTE_AFTER = 1
  MaxOutcomes = 1
INVARIANTS
  EveryChargeHasItsCall
  RunsAreAttested
  BoundRunsAreProven
  ProofsServeOnce
  RefusalsHaveIncidents
PROPERTY RunsAreEarned
