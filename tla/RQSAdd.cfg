SPECIFICATION FairSpec
CONSTANTS
  t1 = t1
  t2 = t2
  t3 = t3
  a = a
  b = b
  Producers <- ThreeTasks
  Consumers <- NoTasks
  Requests <- TwoRequests
  NoRequest = NoRequest
  Batches <- AOrBoth
  Initially <- EmptyQueue
  OthersAdd <- NoRequests
  OthersHandle <- NoRequests
  ReclaimsHandled = FALSE
  MaxCalls = 3
  MaxFailures = 1
INVARIANTS
  AddsTruthful
  SendsOnce
PROPERTY CallsReturn
