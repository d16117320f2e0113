SPECIFICATION Spec
CONSTANTS
  p1 = p1
  p2 = p2
  t1 = t1
  t2 = t2
  t3 = t3
  a = a
  b = b
  c = c
  Processes <- TwoProcesses
  Tasks <- ThreeTasks
  ProcessOf <- TwoAndOne
  NoTask = NoTask
  Aliases <- ThreeAliases
  Predefined <- CPredefined
  DefaultId = 1
  MaxCreated = 4
  MaxCalls = 4
  MaxFailures = 1
  MaxRestarts = 1
  MaxDrops = 1
CHECK_DEADLOCK FALSE
INVARIANT LockIsHeld
PROPERTIES
  AliasIsStable
  AliasSurvivesRestart
