-------------------------- MODULE MCScrapyCrawl --------------------------
(* A small instance of ScrapyCrawl: a request and an entry that cannot be  *)
(* rebuilt; a cached response.                                             *)
EXTENDS ScrapyCrawl

CONSTANTS scheduler_thread, cache_thread, good, bad, key

BothThreads == {scheduler_thread, cache_thread}
TwoRequests == {good, bad}
OneBad == {bad}
OneKey == {key}

(* The two share the reactor's thread and nothing else: one at a time.      *)
OneOrTheOther == {{scheduler_thread}, {cache_thread}}
=============================================================================
