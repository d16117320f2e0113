SPECIFICATION FairSpec
CONSTANTS
  t1 = t1
  t2 = t2
  scrape = scrape
  unknown = unknown
  item = item
  Tasks <- AllTasks
  Inheriting <- OneInherits
  NoTask = NoTask
  ExplicitEvents <- ScrapeAndUnknown
  ItemEvent = item
  NoEvent = NoEvent
  Priced <- ScrapeOnly
  PricingInfo <- ScrapePriceOnly
  UnknownPrice = 1
  IsAtHome = FALSE
  PayPerEvent = TRUE
  MaxTotalCharge = 7
  NoLimit = NoLimit
  ChargedEventCounts <- NothingCharged
  Chargeable <- AllEvents
  Counts = {2}
  MaxOps = 3
  MaxFailures = 1
CHECK_DEADLOCK FALSE
INVARIANT BudgetRespected
PROPERTY CallsEnd
