SPECIFICATION Spec
CONSTANTS
  c1 = c1
  c2 = c2
  t1 = t1
  t2 = t2
  a = a
  b = b
  NoRequest = NoRequest
  NoClient = NoClient
  Tasks <- TwoTasks
  Clients <- OneClient
  ClientOf <- BothOfOne
  Requests <- TwoRequests
  LockTime = 2
  HandoffTime = 1
  Batches <- OverlappingBatches
  KeepsLease = FALSE
  MaxCalls = 2
  MaxFailures = 1
SYMMETRY Symmetry
INVARIANTS
  HandedOutOnce
  AddsTruthful
  CountsMatchPlatform
PROPERTIES
  FinishedCoversAdded
