SPECIFICATION FairSpec
CONSTANTS
  scheduler_thread = scheduler_thread
  cache_thread = cache_thread
  good = good
  bad = bad
  key = key
  Threads <- BothThreads
  Scheduler = scheduler_thread
  Cache = cache_thread
  NoThread = NoThread
  NoCoro = NoCoro
  Pending = Pending
  Requests <- TwoRequests
  NoRequest = NoRequest
  Malformed <- OneBad
  Settings <- OneOrTheOther
  Keys <- OneKey
  NoKey = NoKey
  NoEntry = NoEntry
  expiration_secs = 1
  expiration_max_items = 1
  MaxCoros = 3
  MaxTroubles = 2
  MaxTime = 2
CHECK_DEADLOCK FALSE
INVARIANTS
  AloneOnLoop
  GivenOnce
PROPERTIES
  SweepSparesFresh
  QueueDrains
  ThreadsEnd
