SPECIFICATION Spec
CONSTANTS
  t1 = t1
  t2 = t2
  t3 = t3
  a = a
  b = b
  Producers <- TwoTasks
  Consumers <- TwoTasks
  Requests <- OneRequest
  NoRequest = NoRequest
  Batches <- OnlyA
  Initially <- EmptyQueue
  OthersAdd <- NoRequests
  OthersHandle <- NoRequests
  ReclaimsHandled = FALSE
  MaxCalls = 2
  MaxFailures = 0
PROPERTY FinishedMeansHandled
