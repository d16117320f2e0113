SPECIFICATION ConsumedSpec
CONSTANTS
  t1 = t1
  t2 = t2
  t3 = t3
  a = a
  b = b
  Producers <- TwoTasks
  Consumers <- TwoTasks
  Requests <- TwoRequests
  NoRequest = NoRequest
  Batches <- AOrBoth
  Initially <- AnyQueue
  OthersAdd <- NoRequests
  OthersHandle <- NoRequests
  ReclaimsHandled = FALSE
  MaxCalls = 2
  MaxFailures = 0
INVARIANT CountsMatchPlatform
PROPERTIES
  FinishedCoversListing
  AddedGetsHandled
