SPECIFICATION Spec
CONSTANTS
  t1 = t1
  t2 = t2
  t3 = t3
  a = a
  b = b
  Producers <- TwoTasks
  Consumers <- TwoTasks
  Requests <- TwoRequests
  NoRequest = NoRequest
  Batches <- BothTogether
  Initially <- EmptyQueue
  OthersAdd <- TheOther
  OthersHandle <- TheOther
  ReclaimsHandled = TRUE
  MaxCalls = 2
  MaxFailures = 1
SYMMETRY Symmetry
INVARIANTS
  HandedOutOnce
PROPERTY ImplementsWorkQueue
