----------------------------- MODULE MCCharging -----------------------------
(* Small instances of Charging: two tasks, one priced explicit event, a     *)
(* priced or unpriced item event, a budget a few calls exhaust.             *)
EXTENDS Charging

CONSTANTS t1, t2, scrape, unknown, item

AllTasks == {t1, t2}
OneInherits == {t1}

ScrapeOnly == {scrape}
ScrapeAndUnknown == {scrape, unknown}
ScrapeAndItem == {scrape, item}
AllEvents == Events

ScrapePrices == [e \in {scrape, item} |-> IF e = scrape THEN 2 ELSE 1]
ScrapePriceOnly == [e \in {scrape} |-> 2]

NothingCharged == [e \in Events |-> 0]
OneScrapeCharged == [e \in Events |-> IF e = scrape THEN 1 ELSE 0]
=============================================================================
