SPECIFICATION Spec
CONSTANTS
  Main = main
  helper = helper
  helper2 = helper2
  s1 = s1
  s2 = s2
  Helpers <- TwoHelpers
  Stores <- TwoStores
  MaxCalls = 5
  MaxFailures = 3
CHECK_DEADLOCK FALSE
INVARIANTS
  FailureReported
  StateKept
  ManagersBalanced
  RebootCanBeRetried
SYMMETRY Symmetry
