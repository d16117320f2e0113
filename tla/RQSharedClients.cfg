SPECIFICATION ConsumedSpec
CONSTANTS
  c1 = c1
  c2 = c2
  t1 = t1
  t2 = t2
  a = a
  b = b
  NoRequest = NoRequest
  NoClient = NoClient
  Tasks <- TwoTasks
  Clients <- TwoClients
  ClientOf <- OneEach
  Requests <- OneRequest
  LockTime = 4
  HandoffTime = 2
  Batches <- OnlyA
  KeepsLease = TRUE
  MaxCalls = 2
  MaxFailures = 1
PROPERTIES
  ImplementsWorkQueue
  AddedGetsHandled
  EveryTaskLearns
