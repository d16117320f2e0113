-------------------------- MODULE ScrapyHttpCache --------------------------
(***************************************************************************)
(* ApifyCacheStorage: Scrapy's cache of responses, kept in a key-value      *)
(* store named after the spider, which other runs of the spider use too.    *)
(* An entry carries in its header the time it was written.  When the spider *)
(* closes, a sweep deletes entries that expired.                            *)
(***************************************************************************)
EXTENDS AsyncThread

CONSTANTS
  Cache,           \* the thread of the cache storage
  Keys, NoKey,
  NoEntry,
  expiration_secs, \* 0: entries do not expire
  expiration_max_items,
  MaxTime          \* bound on the clock

Entry(time, form) == [time |-> time, form |-> form]
Forms == {"response", "no_fields", "no_header"}

ASSUME CacheAssumption ==
  /\ Cache \in Threads /\ NoKey \notin Keys
  /\ {expiration_secs, expiration_max_items, MaxTime} \subseteq Nat
  /\ \A time \in 0..MaxTime, form \in Forms : NoEntry # Entry(time, form)

VARIABLES
  entries,   \* the key-value store
  clock,
  kvs,       \* whether _kvs is set
  sweep      \* _expire_kvs: its current_time, the keys it listed, the key and the entry it looks at

cache == <<entries, clock, kvs, sweep>>

Whole(e) == e.form = "response"
NoSweep == [now |-> 0, done |-> {}, key |-> NoKey, seen |-> NoEntry]

(* The store may hold entries of earlier runs: unreadable ones with and     *)
(* without a header among them.                                             *)
CacheInit(used) ==
  /\ entries \in IF used THEN [Keys -> {NoEntry} \cup {Entry(0, form) : form \in Forms}]
                 ELSE {[k \in Keys |-> NoEntry]}
  /\ clock = 0
  /\ kvs = FALSE
  /\ sweep = NoSweep

CacheCalls(call, arg) ==
  /\ reactor = Idle /\ kvs /\ Cache \notin gone
  /\ Runs(Cache, call, arg)
  /\ UNCHANGED <<loop, tasks, sent, gone, interrupted, troubles, cache>>

-----------------------------------------------------------------------------
(* What an entry is worth at a time.                                        *)

Expired(e, now) == now > e.time /\ expiration_secs < now - e.time

(* retrieve_response: the header is read only if entries expire; what       *)
(* cannot be read is a miss.                                                *)
Hit(e, now) == e # NoEntry /\ Whole(e) /\ ~(expiration_secs > 0 /\ Expired(e, now))

SweepsOnTheDot(e, now) == e.form = "no_header" \/ (now > e.time /\ expiration_secs <= now - e.time)

(* _expire_kvs: an entry without a header goes, one without fields stays    *)
(* until it expires.                                                        *)
Sweeps(e, now) == e.form = "no_header" \/ Expired(e, now)

-----------------------------------------------------------------------------
(* The middleware's calls.                                                  *)

OpenSpider ==
  /\ reactor = Idle /\ loop[Cache] = "none"
  /\ loop' = [loop EXCEPT ![Cache] = "starting"]
  /\ LET c == Fresh(Cache, "open", NoKey)
     IN  Moves("coro", Cache, c) /\ ready' = [ready EXCEPT ![Cache] = <<Callback("start", c)>>]
  /\ UNCHANGED <<tasks, sent, gone, interrupted, troubles, cache>>

RetrieveResponse == \E k \in Keys : CacheCalls("get_value", k)

StoreResponse == \E k \in Keys : CacheCalls("set_value", [key |-> k, time |-> clock])

CloseSpider ==
  /\ reactor = Idle /\ loop[Cache] # "none" /\ Cache \notin gone
  /\ gone' = gone \cup {Cache}
  /\ IF expiration_secs > 0 /\ loop[Cache] # "closed" THEN Runs(Cache, "expire", NoKey)
     ELSE Moves("close", Cache, NoCoro) /\ UNCHANGED ready
  /\ sweep' = [NoSweep EXCEPT !.now = clock]
  /\ UNCHANGED <<loop, tasks, sent, interrupted, troubles, entries, clock, kvs>>

-----------------------------------------------------------------------------
(* The key-value store, on the loop.                                        *)

Delete(k, e) == Request("delete_value", [key |-> k, entry |-> e])

Sweeping(t) == t.coro.call = "expire" /\ t.result = Pending

CacheActs ==
  /\ \E t \in tasks[Cache] :
       /\ t.result = Pending
       /\ \/ t.coro.call = "open" /\ Keeps(Cache, t, "opened") /\ UNCHANGED sent
          \/ t.coro.call = "get_value" /\ Keeps(Cache, t, "got") /\ UNCHANGED sent
          \/ t.coro.call = "set_value" /\ Sends(Cache, t, Request("set_value", t.coro.arg))
  /\ UNCHANGED <<loop, ready, reactor, gone, interrupted, troubles, cache>>

SweepReads ==
  /\ kvs /\ \E t \in tasks[Cache] : Sweeping(t)
  /\ sweep.key = NoKey /\ Cardinality(sweep.done) < expiration_max_items
  /\ \E k \in Keys \ sweep.done :
       /\ entries[k] # NoEntry
       /\ sweep' = [sweep EXCEPT !.done = @ \cup {k}, !.key = k, !.seen = entries[k]]
  /\ UNCHANGED <<threads, gone, entries, clock, kvs>>

SweepMovesOn == sweep' = [sweep EXCEPT !.key = NoKey, !.seen = NoEntry]

SweepDeletes ==
  /\ sweep.key # NoKey
  /\ \E t \in tasks[Cache] :
       /\ Sweeping(t)
       /\ IF Sweeps(sweep.seen, sweep.now)
          THEN Sends(Cache, t, Delete(sweep.key, sweep.seen)) /\ UNCHANGED sweep
          ELSE SweepMovesOn /\ UNCHANGED <<tasks, sent, outcome>>
  /\ UNCHANGED <<loop, ready, reactor, gone, interrupted, troubles, entries, clock, kvs>>

(* Without a store the sweep raises.                                        *)
SweepEnds ==
  /\ \E t \in tasks[Cache] : Sweeping(t) /\ Keeps(Cache, t, IF kvs THEN "swept" ELSE "raised")
  /\ sweep.key = NoKey
  /\ \/ ~kvs
     \/ Cardinality(sweep.done) >= expiration_max_items
     \/ \A k \in Keys : entries[k] # NoEntry => k \in sweep.done
  /\ UNCHANGED <<loop, ready, sent, reactor, gone, interrupted, troubles, cache>>

(* The platform's side.  The sweep goes on when its deletion is executed.   *)
Stores(request) ==
  /\ request.call = "set_value"
  /\ entries' = [entries EXCEPT ![request.arg.key] = Entry(request.arg.time, "response")]
  /\ Executed(Cache, request, "set") /\ UNCHANGED sweep

AwaitsDeletion(t, request) ==
  t.coro.call = "expire" /\ t.result = "sent" /\ request = Delete(sweep.key, sweep.seen)

Deletes(request) ==
  /\ request.call = "delete_value"
  /\ entries' = [entries EXCEPT ![request.arg.key] = NoEntry]
  /\ sent' = sent \ {request}
  /\ IF \E t \in tasks[Cache] : AwaitsDeletion(t, request)
     THEN SweepMovesOn /\ \E t \in tasks[Cache] : AwaitsDeletion(t, request) /\ Keeps(Cache, t, Pending)
     ELSE UNCHANGED <<tasks, outcome, sweep>>

StoreExecutes(request) ==
  /\ Stores(request) \/ Deletes(request)
  /\ UNCHANGED <<loop, ready, reactor, gone, interrupted, troubles, clock, kvs>>

StoreAwaited(request) ==
  \E t \in tasks[Cache] : Awaiting(t, request) \/ AwaitsDeletion(t, request)

StoreActs == \E request \in sent : StoreAwaited(request) /\ StoreExecutes(request)

(* What nobody waits for any more reaches the store late, or never.         *)
LateStoreRequest == \E request \in sent : ~StoreAwaited(request) /\ StoreExecutes(request)

-----------------------------------------------------------------------------
(* The rest of the calls, in the reactor's thread.                          *)

SpiderOpened ==
  /\ Returned(Cache, "open") /\ outcome # "raised"
  /\ kvs' = TRUE
  /\ Ends
  /\ UNCHANGED <<thread, gone, entries, clock, sweep>>

(* The middleware's signal handler raises, and the crawl goes on without    *)
(* the store: later calls raise.                                            *)
OpenSpiderFails ==
  /\ \/ Returned(Cache, "open") /\ outcome = "raised" /\ UNCHANGED <<ready, interrupted, troubles>>
     \/ Awaits(Cache, "open") /\ TimesOut(Cache)
  /\ Moves("close", Cache, NoCoro)
  /\ gone' = gone \cup {Cache}
  /\ UNCHANGED <<loop, tasks, sent, cache>>

CacheAnswered ==
  /\ Returned(Cache, "get_value") \/ Returned(Cache, "set_value")
  /\ Ends
  /\ UNCHANGED <<thread, gone, cache>>

CacheTimesOut ==
  /\ Awaits(Cache, "get_value") \/ Awaits(Cache, "set_value")
  /\ TimesOut(Cache)
  /\ Ends
  /\ UNCHANGED <<loop, tasks, sent, gone, cache>>

(* No call catches a KeyboardInterrupt; of close_spider see below.          *)
CacheInterrupted ==
  /\ \E call \in {"open", "get_value", "set_value"} : Awaits(Cache, call)
  /\ Interrupted(Cache)
  /\ Ends
  /\ UNCHANGED <<loop, tasks, sent, gone, cache>>

(* Whether the sweep ended, failed, timed out or was interrupted, and then  *)
(* still runs, the thread is closed.                                        *)
Swept ==
  /\ Awaits(Cache, "expire")
  /\ \/ outcome # Pending /\ UNCHANGED <<ready, interrupted, troubles>>
     \/ TimesOut(Cache) \/ Interrupted(Cache)
  /\ Moves("close", Cache, NoCoro)
  /\ UNCHANGED <<loop, tasks, sent, gone, cache>>

-----------------------------------------------------------------------------
(* Another run of a spider with that name stores a response; time passes.   *)

OtherRunStores ==
  /\ \E k \in Keys : entries' = [entries EXCEPT ![k] = Entry(clock, "response")]
  /\ UNCHANGED <<threads, gone, clock, kvs, sweep>>

Tick ==
  /\ clock < MaxTime /\ clock' = clock + 1
  /\ UNCHANGED <<threads, gone, entries, kvs, sweep>>

MiddlewareCalls == OpenSpider \/ RetrieveResponse \/ StoreResponse \/ CloseSpider

CacheLoop == CacheActs \/ SweepReads \/ SweepDeletes \/ SweepEnds \/ StoreActs

CacheContinues ==
  SpiderOpened \/ OpenSpiderFails \/ CacheAnswered \/ CacheTimesOut \/ CacheInterrupted \/ Swept

-----------------------------------------------------------------------------
(* Properties.                                                              *)

(* The sweep deletes no entry that retrieve_response would still answer     *)
(* with, however late its deletion is executed; unless another run replaced *)
(* the entry since the sweep read it.                                       *)
SweepSparesFresh ==
  [][\A k \in Keys :
       /\ entries[k] # NoEntry /\ entries'[k] = NoEntry
       /\ Delete(k, entries[k]) \in sent
       => ~Hit(entries[k], clock)]_<<entries>>
=============================================================================
