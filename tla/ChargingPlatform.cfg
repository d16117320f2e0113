SPECIFICATION Spec
CONSTANTS
  t1 = t1
  t2 = t2
  scrape = scrape
  unknown = unknown
  item = item
  Tasks <- AllTasks
  Inheriting <- AllTasks
  NoTask = NoTask
  ExplicitEvents <- ScrapeOnly
  ItemEvent = item
  NoEvent = NoEvent
  Priced <- ScrapeAndItem
  PricingInfo <- ScrapePrices
  UnknownPrice = 1
  IsAtHome = TRUE
  PayPerEvent = TRUE
  MaxTotalCharge = 9
  NoLimit = NoLimit
  ChargedEventCounts <- OneScrapeCharged
  Chargeable <- ScrapeOnly
  Counts = {1, 2, 3}
  MaxOps = 3
  MaxFailures = 1
CHECK_DEADLOCK FALSE
INVARIANTS
  TypeOK
  BudgetRespected
  PlatformWithinAccount
  PushChargesEveryItem
  PushReportsOwnItems
  ItemAccountMatchesDataset
